------------------------------ MODULE Payment ------------------------------
(***************************************************************************)
(* Money between the service and the merchant: the calls of                *)
(* PaymentServiceImpl with the answers they may get, the rows of           *)
(* game_payment_timeout they leave, PaymentTimeoutTask which works them    *)
(* off, and the refunds and payouts an operator orders by hand.            *)
(*                                                                         *)
(* The games that place and settle bets are in CoinPayment and MinesGame,  *)
(* which extend this module.                                               *)
(***************************************************************************)
EXTENDS Naturals, FiniteSets

CONSTANTS
  Bets,           \* rows of game_bet
  Hands,          \* orders of the operator, each used once
  Stake,          \* betAmount, the same for every bet
  MaxAmount,      \* bound: the largest payout
  RefundRetries,  \* refundRetryCount of the timeout task
  PayoutRetries,  \* payoutRetryCount
  MaxTimeouts,    \* bound: rows of game_payment_timeout
  NoBet           \* no bet at hand

ASSUME PaymentAssumption ==
  /\ IsFiniteSet(Bets)
  /\ NoBet \notin Bets
  /\ MaxAmount \in Nat
  /\ Stake \in 1 .. MaxAmount
  /\ RefundRetries \in Nat \ {0}
  /\ PayoutRetries \in Nat \ {0}
  /\ MaxTimeouts \in Nat

VARIABLES
  row,       \* table game_bet: status and payoutAmount
  payouts,   \* payouts[b]: game_payout rows of bet b; 2 stands for more than one
  wallet,    \* the merchant's book: the requests it has carried out
  flight,    \* requests nobody waits for any more that may still arrive
  timeouts,  \* table game_payment_timeout
  last,      \* its auto-increment id
  task,      \* the run of PaymentTimeoutTask.process
  hand,      \* what the operator is doing
  byHand     \* history variable: bets the operator ordered a refund of

payVars == <<row, payouts, wallet, flight, timeouts, last, task, hand, byHand>>

\* GameEnum.BetStatusEnum; NEW is never committed, NONE is no row.
Status == {"NONE", "BET_DONE", "BET_FAILED", "WT_DONE", "WT_FAILED", "BOMB",
           "REFUND", "PAY_ING", "CANCEL"}

\* GameEnum.PaymentBusinessTypeEnum; a cancel is a REFUND to the merchant.
Op == {"BET", "WD", "REFUND"}

Amount == 0 .. MaxAmount
BetRow == [status : Status, amount : Amount]
NoRow == [status |-> "NONE", amount |-> 0]

\* uniqueId is the bet and the kind of the request, so the merchant can tell a
\* retry from a new request.
Request == [bet : Bets, op : Op, amount : Amount]

TimeoutId == 1 .. MaxTimeouts

\* One more row of game_payout.
OneMore(n) == IF n = 2 THEN 2 ELSE n + 1

\* processStatus 0 is young before the task may take the row and open after.
TimeoutRow == [bet : Bets \cup {NoBet}, op : {"BET", "WD"}, count : Nat,
               state : {"none", "young", "open", "done", "dead"}]
NoTimeout == [bet |-> NoBet, op |-> "BET", count |-> 0, state |-> "none"]

TaskAt == {"idle", "next", "call", "paid", "mark", "failed"}
HandAt == {"idle", "page", "call", "paid", "write", "done"}

NoTask == [at |-> "idle", todo |-> {}, cur |-> 0, copy |-> NoRow]
NoHand == [at |-> "idle", op |-> "WD", bet |-> NoBet, copy |-> NoRow]

PayTypeOK ==
  /\ row \in [Bets -> BetRow]
  /\ payouts \in [Bets -> 0 .. 2]
  /\ wallet \subseteq Request
  /\ flight \subseteq Request
  /\ timeouts \in [TimeoutId -> TimeoutRow]
  /\ last \in 0 .. MaxTimeouts
  /\ task \in [at : TaskAt, todo : SUBSET TimeoutId, cur : 0 .. MaxTimeouts,
               copy : BetRow]
  /\ hand \in [Hands -> [at : HandAt, op : {"WD", "REFUND"},
                         bet : Bets \cup {NoBet}, copy : BetRow]]
  /\ byHand \subseteq Bets

PayInit ==
  /\ row = [b \in Bets |-> NoRow]
  /\ payouts = [b \in Bets |-> 0]
  /\ wallet = {}
  /\ flight = {}
  /\ timeouts = [i \in TimeoutId |-> NoTimeout]
  /\ last = 0
  /\ task = NoTask
  /\ hand = [h \in Hands |-> NoHand]
  /\ byHand = {}

(***************************************************************************)
(* The merchant, as far as the service can rely on it: it carries out each *)
(* unique id once, answers a repeated one with success, and gives back     *)
(* only a stake it took.                                                   *)
(***************************************************************************)
Applied(b, op) == \E m \in wallet : m.bet = b /\ m.op = op

Accepts(m) == m.op = "REFUND" => Applied(m.bet, "BET")

CarryOut(m) ==
  /\ Accepts(m)
  /\ wallet' = IF Applied(m.bet, m.op) THEN wallet ELSE wallet \cup {m}

\* A request that outlived its caller's patience arrives.
MerchantLate(m) ==
  /\ m \in flight
  /\ flight' = flight \ {m}
  /\ \/ CarryOut(m)
     \/ UNCHANGED wallet
  /\ UNCHANGED <<row, payouts, timeouts, last, task, hand, byHand>>

(***************************************************************************)
(* A call.  The caller is told ok or not; of a failure it cannot know      *)
(* whether the money moved, did not move or has yet to move.               *)
(***************************************************************************)

\* timeout(gamePaymentInfo): a read timeout of a debit or a payout leaves a row.
\* Of a refund it does not, and an insert that fails is only logged.
NoteTimeout(b, op) ==
  /\ op # "REFUND"
  /\ last < MaxTimeouts
  /\ last' = last + 1
  /\ timeouts' = [timeouts EXCEPT ![last + 1] =
                    [bet |-> b, op |-> op, count |-> 0, state |-> "young"]]

\* Not answered with success: refused, or lost before, after or on the way.
Unanswered(m) ==
  \/ CarryOut(m) /\ UNCHANGED flight
  \/ UNCHANGED <<wallet, flight>>
  \/ flight' = flight \cup {m} /\ UNCHANGED wallet

\* PaymentServiceImpl.bet, payout and refund, from the insert of the payment row
\* to its update.
Call(b, op, amount, ok) ==
  LET m == [bet |-> b, op |-> op, amount |-> amount]
  IN  \/ /\ ok
         /\ CarryOut(m)
         /\ UNCHANGED <<flight, timeouts, last>>
      \/ /\ ~ok
         /\ Unanswered(m)
         /\ NoteTimeout(b, op) \/ UNCHANGED <<timeouts, last>>

(***************************************************************************)
(* PaymentTimeoutTask.                                                     *)
(***************************************************************************)

\* The row is betTimeoutBefore (payOutTimeBefore) old.
Age(i) ==
  /\ timeouts[i].state = "young"
  /\ timeouts' = [timeouts EXCEPT ![i].state = "open"]
  /\ UNCHANGED <<row, payouts, wallet, flight, last, task, hand, byHand>>

\* process: select the rows with processStatus 0; too young ones are passed over.
TaskStart ==
  /\ task.at = "idle"
  /\ \E i \in TimeoutId : timeouts[i].state = "open"
  /\ task' = [NoTask EXCEPT !.at = "next",
                            !.todo = {i \in TimeoutId : timeouts[i].state = "open"}]
  /\ UNCHANGED <<row, payouts, wallet, flight, timeouts, last, hand, byHand>>

\* The next row: read its bet.  Without one (the bet was rolled back) a null
\* pointer ends the turn, and the row stays as it is.
TaskNext ==
  /\ task.at = "next"
  /\ \/ /\ task.todo = {}
        /\ task' = NoTask
     \/ \E i \in task.todo :
          LET b == timeouts[i].bet
          IN  /\ \A j \in task.todo : i <= j
              /\ task' = IF row[b].status = "NONE"
                         THEN [task EXCEPT !.todo = @ \ {i}]
                         ELSE [at |-> "call", todo |-> task.todo \ {i}, cur |-> i,
                               copy |-> row[b]]
  /\ UNCHANGED <<row, payouts, wallet, flight, timeouts, last, hand, byHand>>

\* Mutant: the answer is not looked at.
TaskCallTrusting ==
  /\ task.at = "call"
  /\ LET r == timeouts[task.cur]
     IN  \E ok \in BOOLEAN :
           IF r.op = "BET" THEN Call(r.bet, "REFUND", Stake, ok)
                           ELSE Call(r.bet, "WD", task.copy.amount, ok)
  /\ task' = [task EXCEPT !.at = "paid"]
  /\ UNCHANGED <<row, payouts, hand, byHand>>

\* Refund a timed out debit, repeat a timed out payout; the status is not asked.
TaskCall ==
  /\ task.at = "call"
  /\ LET r == timeouts[task.cur]
     IN  \E ok \in BOOLEAN :
           /\ IF r.op = "BET" THEN Call(r.bet, "REFUND", Stake, ok)
                              ELSE Call(r.bet, "WD", task.copy.amount, ok)
           /\ task' = [task EXCEPT !.at = IF ok THEN "paid" ELSE "failed"]
  /\ UNCHANGED <<row, payouts, hand, byHand>>

\* updateGameBet writes the whole copy back, with its new status.
TaskWrite ==
  LET r == timeouts[task.cur]
      new == IF r.op = "BET" THEN "CANCEL" ELSE "WT_DONE"
  IN  /\ task.at = "paid"
      /\ row' = [row EXCEPT ![r.bet] = [task.copy EXCEPT !.status = new]]
      /\ task' = [task EXCEPT !.at = "mark"]
      /\ UNCHANGED <<payouts, wallet, flight, timeouts, last, hand, byHand>>

\* An exception in a turn: logged, and the row is left for the next run.
TaskThrows ==
  /\ task.at \in {"call", "paid", "mark", "failed"}
  /\ task' = [task EXCEPT !.at = "next"]
  /\ UNCHANGED <<row, payouts, wallet, flight, timeouts, last, hand, byHand>>

Retries(op) == IF op = "BET" THEN RefundRetries ELSE PayoutRetries

\* Mutant: the attempts are not counted.
MarkUncounted ==
  LET r == timeouts[task.cur]
  IN  /\ task.at \in {"mark", "failed"}
      /\ timeouts' = [timeouts EXCEPT ![task.cur] =
           [r EXCEPT !.state = IF task.at = "mark" THEN "done" ELSE @]]
      /\ task' = [task EXCEPT !.at = "next"]
      /\ UNCHANGED <<row, payouts, wallet, flight, last, hand, byHand>>

\* Mutant: a row is done after the last attempt, whatever came of it.
MarkAnyway ==
  LET r == timeouts[task.cur]
      n == r.count + 1
  IN  /\ task.at \in {"mark", "failed"}
      /\ timeouts' = [timeouts EXCEPT ![task.cur] =
           [r EXCEPT !.count = n,
                     !.state = IF task.at = "mark" \/ n >= Retries(r.op) THEN "done"
                               ELSE @]]
      /\ task' = [task EXCEPT !.at = "next"]
      /\ UNCHANGED <<row, payouts, wallet, flight, last, hand, byHand>>

\* Count the attempt; the row is done, or given up after the last one.
TaskMark ==
  LET r == timeouts[task.cur]
      n == r.count + 1
  IN  /\ task.at \in {"mark", "failed"}
      /\ timeouts' = [timeouts EXCEPT ![task.cur] =
           [bet |-> r.bet, op |-> r.op, count |-> n,
            state |-> IF task.at = "mark" THEN "done"
                      ELSE IF n >= Retries(r.op) THEN "dead" ELSE r.state]]
      /\ task' = [task EXCEPT !.at = "next"]
      /\ UNCHANGED <<row, payouts, wallet, flight, last, hand, byHand>>

\* The process goes down: the Quartz job starts over later.
TaskDies ==
  /\ task.at # "idle"
  /\ task' = NoTask
  /\ UNCHANGED <<row, payouts, wallet, flight, timeouts, last, hand, byHand>>

TaskStep == TaskStart \/ TaskNext \/ TaskCall \/ TaskWrite \/ TaskMark

(***************************************************************************)
(* ManualTransactionServiceImpl.  The page of the operator offers a payout *)
(* of a bet it shows as WT_FAILED and a refund of one it shows as WT_FAILED*)
(* or BET_DONE; by the time the order is sent the bet may have moved on.   *)
(***************************************************************************)
ShowPage(h) ==
  /\ hand[h].at = "idle"
  /\ \E b \in Bets, op \in {"WD", "REFUND"} :
       /\ \/ row[b].status = "WT_FAILED"
          \/ op = "REFUND" /\ row[b].status = "BET_DONE"
       /\ hand' = [hand EXCEPT ![h] =
                     [at |-> "page", op |-> op, bet |-> b, copy |-> NoRow]]
  /\ UNCHANGED <<row, payouts, wallet, flight, timeouts, last, task, byHand>>

\* payoutFailed and refund load the bet.  The status test is commented out; a
\* payout of nothing is refused.
ManualLoad(h) ==
  LET o == hand[h]
  IN  /\ o.at = "page"
      /\ hand' = [hand EXCEPT ![h] =
           IF o.op = "WD" /\ row[o.bet].amount = 0
           THEN [o EXCEPT !.at = "done"]
           ELSE [o EXCEPT !.at = "call", !.copy = row[o.bet]]]
      /\ UNCHANGED <<row, payouts, wallet, flight, timeouts, last, task, byHand>>

\* Mutant: a failed payout by hand is no error.
ManualTrusting(h) ==
  LET o == hand[h]
      amount == IF o.op = "WD" THEN o.copy.amount ELSE Stake
  IN  /\ o.at = "call"
      /\ \E ok \in BOOLEAN : Call(o.bet, o.op, amount, ok)
      /\ hand' = [hand EXCEPT ![h].at = IF o.op = "WD" THEN "paid" ELSE "write"]
      /\ byHand' = IF o.op = "REFUND" THEN byHand \cup {o.bet} ELSE byHand
      /\ UNCHANGED <<row, payouts, task>>

ManualCall(h) ==
  LET o == hand[h]
      amount == IF o.op = "WD" THEN o.copy.amount ELSE Stake
  IN  /\ o.at = "call"
      /\ \E ok \in BOOLEAN :
           /\ Call(o.bet, o.op, amount, ok)
           /\ hand' = [hand EXCEPT ![h].at = IF ~ok THEN "done"
                                             ELSE IF o.op = "WD" THEN "paid"
                                             ELSE "write"]
      /\ byHand' = IF o.op = "REFUND" THEN byHand \cup {o.bet} ELSE byHand
      /\ UNCHANGED <<row, payouts, task>>

\* A payout by hand inserts its game_payout row first; no transaction.
ManualRecord(h) ==
  /\ hand[h].at = "paid"
  /\ payouts' = [payouts EXCEPT ![hand[h].bet] = OneMore(@)]
  /\ hand' = [hand EXCEPT ![h].at = "write"]
  /\ UNCHANGED <<row, wallet, flight, timeouts, last, task, byHand>>

ManualWrite(h) ==
  LET o == hand[h]
      new == IF o.op = "WD" THEN "WT_DONE" ELSE "REFUND"
  IN  /\ o.at = "write"
      /\ row' = [row EXCEPT ![o.bet] = [o.copy EXCEPT !.status = new]]
      /\ hand' = [hand EXCEPT ![h].at = "done"]
      /\ UNCHANGED <<payouts, wallet, flight, timeouts, last, task, byHand>>

\* The order is dropped where it stands.
ManualDies(h) ==
  /\ hand[h].at \in {"call", "paid", "write"}
  /\ hand' = [hand EXCEPT ![h].at = "done"]
  /\ UNCHANGED <<row, payouts, wallet, flight, timeouts, last, task, byHand>>

ManualStep(h) == ShowPage(h) \/ ManualLoad(h) \/ ManualCall(h) \/ ManualRecord(h)
                 \/ ManualDies(h)

\* All but ManualWrite, to which a game may add.
PayNext ==
  \/ \E m \in flight : MerchantLate(m)
  \/ TaskStep \/ TaskThrows \/ TaskDies
  \/ \E h \in Hands : ManualStep(h)

\* What the bet table says happened did happen: no bet is WT_DONE unless the
\* merchant paid it, and none is CANCEL or REFUND unless it returned the stake,
\* whichever of the game, the timeout task, a cancel or the operator wrote so.
DoneMeansPaid ==
  \A b \in Bets :
    /\ row[b].status = "WT_DONE" => Applied(b, "WD")
    /\ row[b].status \in {"CANCEL", "REFUND"} => Applied(b, "REFUND")
=============================================================================
