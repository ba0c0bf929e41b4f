---------------------------- MODULE CoinPayment ----------------------------
(***************************************************************************)
(* The money of one period of the coin game: bets and cancels while the    *)
(* period is open, the draw, and the payout tasks, over the merchant, the  *)
(* timeout task and the operator of Payment.                               *)
(*                                                                         *)
(* CoinGame shows that a bet in play is drawn once, in its period.  Here   *)
(* the draw is one step, and every call may fail in every way.             *)
(***************************************************************************)
EXTENDS Payment

CONSTANTS
  Batch,     \* coin.batchPayout: winners are paid in groups
  MaxDrops   \* bound: payout tasks lost in restarts

ASSUME CoinPaymentAssumption == Batch \in BOOLEAN /\ MaxDrops \in Nat

VARIABLES
  open,      \* the period accepts bets and cancels
  req,       \* req[b]: the bet request
  cancel,    \* cancel[b]: the cancel request for b
  queue,     \* groups of winners waiting in the executor
  answers,   \* payout calls answered and not yet written down
  drops,     \* number of payout tasks lost
  unheard,   \* history variable: debits carried out or under way that left no trace
  lost,      \* history variable: refunds of a cancel nobody recorded
  dropped    \* history variable: winners in a lost payout task

coinVars == <<open, req, cancel, queue, answers, drops, unheard, lost,
              dropped>>

vars == <<payVars, coinVars>>

ReqAt == {"idle", "paid", "declined", "over"}
CancelAt == {"idle", "call", "refunded", "over"}
Told == {"ok", "no", "silent"}

TypeOK ==
  /\ PayTypeOK
  /\ open \in BOOLEAN
  /\ req \in [Bets -> ReqAt]
  /\ cancel \in [Bets -> CancelAt]
  /\ queue \subseteq SUBSET Bets
  /\ \A a \in answers : a.group \subseteq Bets /\ a.told \in [a.group -> Told]
  /\ drops \in 0 .. MaxDrops
  /\ unheard \subseteq Bets
  /\ lost \subseteq Bets
  /\ dropped \subseteq Bets

Init ==
  /\ PayInit
  /\ open = TRUE
  /\ req = [b \in Bets |-> "idle"]
  /\ cancel = [b \in Bets |-> "idle"]
  /\ queue = {}
  /\ answers = {}
  /\ drops = 0
  /\ unheard = {}
  /\ lost = {}
  /\ dropped = {}

(***************************************************************************)
(* Bets.                                                                   *)
(***************************************************************************)

\* Did a request that was not answered leave money moved or about to move, and no
\* timeout row?
Untraced(m) ==
  /\ timeouts' = timeouts
  /\ m \in wallet' \/ m \in flight'

\* The row is inserted, not committed, and the merchant asked for the stake.
BetCall(b) ==
  /\ open
  /\ req[b] = "idle"
  /\ \E ok \in BOOLEAN :
       /\ Call(b, "BET", Stake, ok)
       /\ req' = [req EXCEPT ![b] = IF ok THEN "paid" ELSE "declined"]
       /\ unheard' = IF ~ok /\ Untraced([bet |-> b, op |-> "BET", amount |-> Stake])
                     THEN unheard \cup {b} ELSE unheard
  /\ UNCHANGED <<row, payouts, task, hand, byHand, open, cancel, queue, answers,
                 drops, lost, dropped>>

\* Mutant: the status of a declined bet is not updated.
CommitNew(b) ==
  /\ req[b] \in {"paid", "declined"}
  /\ row' = [row EXCEPT ![b] =
               [status |-> IF req[b] = "paid" THEN "BET_DONE" ELSE "NEW",
                amount |-> 0]]
  /\ req' = [req EXCEPT ![b] = "over"]
  /\ UNCHANGED <<payouts, wallet, flight, timeouts, last, task, hand, byHand,
                 open, cancel, queue, answers, drops, unheard, lost,
                 dropped>>

\* Mutant: a declined stake is in play.
CommitAll(b) ==
  /\ req[b] \in {"paid", "declined"}
  /\ row' = [row EXCEPT ![b] = [status |-> "BET_DONE", amount |-> 0]]
  /\ req' = [req EXCEPT ![b] = "over"]
  /\ UNCHANGED <<payouts, wallet, flight, timeouts, last, task, hand, byHand,
                 open, cancel, queue, answers, drops, unheard, lost,
                 dropped>>

\* The status is written and the transaction commits, or rolls back: a paid answer
\* without a balance, a failing commit, a restart.
BetCommit(b) ==
  /\ req[b] \in {"paid", "declined"}
  /\ req' = [req EXCEPT ![b] = "over"]
  /\ \/ /\ row' = [row EXCEPT ![b] =
                     [status |-> IF req[b] = "paid" THEN "BET_DONE" ELSE "BET_FAILED",
                      amount |-> 0]]
        /\ UNCHANGED unheard
     \/ /\ unheard' = IF req[b] = "paid" THEN unheard \cup {b} ELSE unheard
        /\ UNCHANGED row
  /\ UNCHANGED <<payouts, wallet, flight, timeouts, last, task, hand, byHand,
                 open, cancel, queue, answers, drops, lost, dropped>>

\* cancel: the bet is in play and the period open.
CancelLoad(b) ==
  /\ open
  /\ cancel[b] = "idle"
  /\ row[b].status = "BET_DONE"
  /\ cancel' = [cancel EXCEPT ![b] = "call"]
  /\ UNCHANGED <<payVars, open, req, queue, answers, drops, unheard,
                 lost, dropped>>

CancelCall(b) ==
  LET m == [bet |-> b, op |-> "REFUND", amount |-> Stake]
  IN  /\ cancel[b] = "call"
      /\ \E ok \in BOOLEAN :
           /\ Call(b, "REFUND", Stake, ok)
           /\ cancel' = [cancel EXCEPT ![b] = IF ok THEN "refunded" ELSE "over"]
           /\ lost' = IF ~ok /\ (m \in wallet' \/ m \in flight')
                      THEN lost \cup {b} ELSE lost
      /\ UNCHANGED <<row, payouts, task, hand, byHand, open, req, queue, answers,
                     drops, unheard, dropped>>

\* CANCEL goes over the bet, whatever it is by now; a write that fails is lost.
CancelCommit(b) ==
  /\ cancel[b] = "refunded"
  /\ cancel' = [cancel EXCEPT ![b] = "over"]
  /\ \/ /\ row' = [row EXCEPT ![b].status = "CANCEL"]
        /\ UNCHANGED lost
     \/ /\ lost' = lost \cup {b}
        /\ UNCHANGED row
  /\ UNCHANGED <<payouts, wallet, flight, timeouts, last, task, hand, byHand,
                 open, req, queue, answers, drops, unheard, dropped>>

Requesting(b) == req[b] \in {"paid", "declined"} \/ cancel[b] \in {"call", "refunded"}

(***************************************************************************)
(* The draw and the payouts.                                               *)
(***************************************************************************)

\* Mutant: the last winner is in no group.
GroupsShort(W) == {g \in SUBSET W : Cardinality(g) = Cardinality(W) - 1} \ {{}}

\* The groups the winners are handed to the executor in.
Groups(W) == IF Batch THEN {W} \ {{}} ELSE {{b} : b \in W}

\* CoinDrawServiceImpl.draw settles the bets in play; CoinDrawTask submits the
\* winners.  By then no request of the period is still running.
Draw ==
  /\ open
  /\ \A b \in Bets : ~Requesting(b)
  /\ open' = FALSE
  /\ LET playing == {b \in Bets : row[b].status = "BET_DONE"}
     IN  \E won \in [playing -> Amount] :
           /\ row' = [b \in Bets |->
                        IF b \notin playing THEN row[b]
                        ELSE [status |-> IF won[b] > 0 THEN "PAY_ING" ELSE "BOMB",
                              amount |-> won[b]]]
           /\ queue' = Groups({b \in playing : won[b] > 0})
  /\ UNCHANGED <<payouts, wallet, flight, timeouts, last, task, hand, byHand, req,
                 cancel, answers, drops, unheard, lost, dropped>>

\* CoinDrawServiceImpl.payout: one winner, the task of one executor thread.
PayCall(g) ==
  /\ ~Batch
  /\ g \in queue
  /\ queue' = queue \ {g}
  /\ \E b \in g, ok \in BOOLEAN :
       /\ Call(b, "WD", row[b].amount, ok)
       /\ answers' = answers \cup {[group |-> g,
                                    told |-> [c \in g |-> IF ok THEN "ok" ELSE "no"],
                                    success |-> ok]}
  /\ UNCHANGED <<row, payouts, task, hand, byHand, open, req, cancel, drops,
                 unheard, lost, dropped>>

Payouts(S) == {[bet |-> b, op |-> "WD", amount |-> row[b].amount] : b \in S}

\* What the merchant's book becomes when it carries out the payouts of S.
Book(S) == wallet \cup {m \in Payouts(S) : ~Applied(m.bet, "WD")}

\* Mutant: the merchant is believed about the bets it says nothing of.
BatchTrusting(g) ==
  /\ Batch
  /\ g \in queue
  /\ queue' = queue \ {g}
  /\ \E done \in SUBSET g :
       /\ wallet' = Book(done)
       /\ answers' = answers \cup {[group |-> g, told |-> [b \in g |-> "ok"],
                                    success |-> TRUE]}
  /\ UNCHANGED <<flight, timeouts, last, row, payouts, task, hand, byHand, open,
                 req, cancel, drops, unheard, lost, dropped>>

\* batchPayout, answered with success: bet by bet paid, refused or left out.
BatchAnswered(g) ==
  /\ \E told \in [g -> Told] :
       LET ok == {b \in g : told[b] = "ok"}
       IN  /\ \E more \in SUBSET (g \ ok) : wallet' = Book(ok \cup more)
           /\ answers' = answers \cup {[group |-> g, told |-> told,
                                        success |-> TRUE]}
  /\ UNCHANGED <<flight, timeouts, last>>

\* batchPayout without a successful answer; a read timeout leaves a row per bet.
BatchFailed(g) ==
  /\ \/ /\ \E done \in SUBSET g : wallet' = Book(done)
        /\ UNCHANGED flight
     \/ /\ flight' = flight \cup Payouts(g)
        /\ UNCHANGED wallet
  /\ answers' = answers \cup {[group |-> g, told |-> [b \in g |-> "no"],
                               success |-> FALSE]}
  /\ \/ UNCHANGED <<timeouts, last>>
     \/ /\ last + Cardinality(g) <= MaxTimeouts
        /\ last' = last + Cardinality(g)
        /\ \E order \in [last + 1 .. last + Cardinality(g) -> g] :
             /\ {order[i] : i \in DOMAIN order} = g
             /\ timeouts' = [i \in TimeoutId |->
                  IF i \in DOMAIN order
                  THEN [bet |-> order[i], op |-> "WD", count |-> 0, state |-> "young"]
                  ELSE timeouts[i]]

BatchCall(g) ==
  /\ Batch
  /\ g \in queue
  /\ queue' = queue \ {g}
  /\ BatchAnswered(g) \/ BatchFailed(g)
  /\ UNCHANGED <<row, payouts, task, hand, byHand, open, req, cancel, drops,
                 unheard, lost, dropped>>

\* The statuses are written; game_payout gets a row for every bet the merchant
\* answered for in a successful answer.  Bets it left out stay as they are.
PayCommit(a) ==
  /\ a \in answers
  /\ answers' = answers \ {a}
  /\ row' = [b \in Bets |->
               IF b \in a.group /\ a.told[b] # "silent"
               THEN [row[b] EXCEPT !.status = IF a.told[b] = "ok" THEN "WT_DONE"
                                              ELSE "WT_FAILED"]
               ELSE row[b]]
  /\ payouts' = [b \in Bets |->
                   IF a.success /\ b \in a.group /\ a.told[b] # "silent"
                   THEN OneMore(payouts[b]) ELSE payouts[b]]
  /\ dropped' = dropped \cup {b \in a.group : a.told[b] = "silent"}
  /\ UNCHANGED <<wallet, flight, timeouts, last, task, hand, byHand, open, req,
                 cancel, queue, drops, unheard, lost>>

\* The executor's queue dies with the process, and so does a transaction that has
\* not committed.
DropTask ==
  /\ drops < MaxDrops
  /\ drops' = drops + 1
  /\ \/ \E g \in queue : /\ queue' = queue \ {g}
                         /\ dropped' = dropped \cup g
                         /\ UNCHANGED answers
     \/ \E a \in answers : /\ answers' = answers \ {a}
                           /\ dropped' = dropped \cup a.group
                           /\ UNCHANGED queue
  /\ UNCHANGED <<payVars, open, req, cancel, unheard, lost>>

\* A timeout row gets old enough for the task only after the request that left it
\* is over.
AgeAfterRequest(i) ==
  /\ LET b == timeouts[i].bet
     IN  /\ b \in Bets
         /\ ~Requesting(b)
         /\ \A a \in answers : b \notin a.group
  /\ Age(i)

Next ==
  \/ /\ \/ PayNext
        \/ \E h \in Hands : ManualWrite(h)
        \/ \E i \in TimeoutId : AgeAfterRequest(i)
     /\ UNCHANGED coinVars
  \/ \E b \in Bets : \/ BetCall(b) \/ BetCommit(b)
                     \/ CancelLoad(b) \/ CancelCall(b) \/ CancelCommit(b)
  \/ Draw
  \/ \E g \in queue : PayCall(g) \/ BatchCall(g)
  \/ \E a \in answers : PayCommit(a)
  \/ DropTask

Spec == Init /\ [][Next]_vars

\* Requests, payout tasks and the Quartz job go on.  A run of the timeout task may
\* be cut short anywhere, but not at the same point of the same row for ever.
Fairness ==
  /\ \A b \in Bets : WF_vars(BetCommit(b)) /\ WF_vars(CancelCall(b))
                     /\ WF_vars(CancelCommit(b))
  /\ WF_vars(\E g \in queue : PayCall(g) \/ BatchCall(g))
  /\ WF_vars(\E a \in answers : PayCommit(a))
  /\ WF_vars(TaskStart /\ UNCHANGED coinVars)
  /\ \A i \in TimeoutId :
       /\ WF_vars(AgeAfterRequest(i) /\ UNCHANGED coinVars)
       /\ SF_vars(TaskNext /\ task'.todo = task.todo \ {i} /\ task' # NoTask
                  /\ i \in task.todo /\ UNCHANGED coinVars)
       /\ SF_vars(task.cur = i /\ TaskCall /\ UNCHANGED coinVars)
       /\ SF_vars(task.cur = i /\ TaskWrite /\ UNCHANGED coinVars)
       /\ SF_vars(task.cur = i /\ TaskMark /\ UNCHANGED coinVars)
  /\ SF_vars(TaskNext /\ task' = NoTask /\ UNCHANGED coinVars)

FairSpec == Spec /\ Fairness

(***************************************************************************)
(* Properties.                                                             *)
(***************************************************************************)

Noted(b, op, states) ==
  \E i \in TimeoutId : /\ timeouts[i].bet = b
                       /\ timeouts[i].op = op
                       /\ timeouts[i].state \in states

\* A stake the merchant took for a bet that is not in play is given back, or a row
\* of game_payment_timeout that is not done asks for it: the timeout task marks no
\* row done before the money is back.  Not so for a debit that left no trace here.
TakenIsAccounted ==
  \A b \in Bets :
    /\ Applied(b, "BET")
    /\ req[b] = "over"
    /\ row[b].status \in {"NONE", "BET_FAILED", "CANCEL", "REFUND"}
    => \/ Applied(b, "REFUND")
       \/ Noted(b, "BET", {"young", "open", "dead"})
       \/ b \in unheard

\* The timeout task, the cancels and the payouts never both return a stake and pay
\* the bet: that takes a refund ordered by hand, or the refund of a cancel that
\* the service did not hear of or did not record.
RefundedOrPaid ==
  \A b \in Bets : Applied(b, "REFUND") /\ Applied(b, "WD") => b \in byHand \cup lost

\* A winner is PAY_ING only while a payout task holds it; only a restart, or a
\* batch answer that says nothing of it, leaves one behind.
PayingIsHeld ==
  \A b \in Bets : row[b].status = "PAY_ING" =>
    \/ \E g \in queue : b \in g
    \/ \E a \in answers : b \in a.group
    \/ b \in dropped

Moves == {<<"NONE", "BET_DONE">>, <<"NONE", "BET_FAILED">>,
          <<"BET_FAILED", "CANCEL">>, <<"BET_DONE", "CANCEL">>,
          <<"BET_DONE", "BOMB">>, <<"BET_DONE", "PAY_ING">>,
          <<"PAY_ING", "WT_DONE">>, <<"PAY_ING", "WT_FAILED">>,
          <<"WT_FAILED", "WT_DONE">>}

\* Though no writer of game_bet reads the status it writes over, the status of a
\* bet not refunded by hand takes these moves only, and a settled amount stays.
StatusMovesForward ==
  [][\A b \in Bets \ byHand' :
       /\ row'[b].status # row[b].status
            => <<row[b].status, row'[b].status>> \in Moves
       /\ row'[b].amount # row[b].amount => row[b].status = "BET_DONE"]_vars

money == [b \in Bets |-> IF Applied(b, "REFUND") THEN "returned"
                         ELSE IF Applied(b, "WD") THEN "won"
                         ELSE IF Applied(b, "BET") THEN "taken"
                         ELSE "free"]
told == [b \in Bets |-> IF row[b].status \in {"CANCEL", "REFUND"} THEN "returned"
                        ELSE IF row[b].status = "WT_DONE" THEN "won"
                        ELSE "nothing"]
Settles == INSTANCE Settlement

\* The payment side implements Settlement, for as long as no refund of a cancel was
\* lost and none was ordered by hand.
KeepsSettlement ==
  /\ Settles!Init
  /\ [][lost' \cup byHand' = {} => [Settles!Next]_<<money, told>>]_vars

\* A row of game_payment_timeout whose bet exists is done, or given up after the
\* configured attempts.
RowIsWorkedOff ==
  \A i \in TimeoutId :
    (timeouts[i].state = "open" /\ row[timeouts[i].bet].status # "NONE")
      ~> timeouts[i].state \in {"done", "dead"}

\* A winner is told paid or failed, unless its payout task is lost.
WinnerIsAnswered ==
  \A b \in Bets : row[b].status = "PAY_ING"
                    ~> (row[b].status # "PAY_ING" \/ b \in dropped)
=============================================================================
