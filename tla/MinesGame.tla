----------------------------- MODULE MinesGame -----------------------------
(***************************************************************************)
(* The mines game of one player, over the merchant, the timeout task and   *)
(* the operator of Payment.  playerBet takes the stake and hides the       *)
(* mines, play opens a field, withdraw pays for the diamonds found; a play *)
(* in automatic mode withdraws at once, in a transaction of its own inside *)
(* the play's.  The three share one Redisson lock of the player, which is  *)
(* leased; the key that names the ongoing game is written and deleted by   *)
(* threads of a pool, whatever becomes of the transaction.                 *)
(***************************************************************************)
EXTENDS Payment

CONSTANTS
  Threads,    \* threads that handle messages of the player
  MaxHits,    \* bound: diamonds of a game
  Prize,      \* Prize[n]: payout for n diamonds
  MaxPool,    \* bound: updates of one kind waiting in the pool
  MaxLapses,  \* bound: leases of the lock that end too early
  MaxRestart, \* bound: restarts
  NoThread    \* nobody holds the lock

ASSUME MinesAssumption ==
  /\ NoThread \notin Threads
  /\ MaxHits \in Nat \ {0}
  /\ Prize \in [1 .. MaxHits -> Amount]
  /\ MaxPool \in Nat
  /\ MaxLapses \in Nat
  /\ MaxRestart \in Nat

VARIABLES
  record,    \* bets with a row of game_record_info: their mines are hidden
  shots,     \* rows of game_recode_detail: how many diamonds, and a mine or not
  key,       \* Redis: the bet of the ongoing game
  pool,      \* key updates submitted to the thread pool
  lock,      \* Redis: the thread that holds the lock of the player
  job,       \* what each thread is doing
  asked,     \* bets with a payout request in game_payment_info
  lapses,    \* leases that ended too early
  restarts,  \* number of restarts
  moved,     \* history variable: bets played, or rolled back, after a payout was asked
  strayed    \* history variable: games overlapped, or a key update was not meant

minesVars == <<record, shots, key, pool, lock, job, asked, lapses, restarts, moved,
               strayed>>

vars == <<payVars, minesVars>>

Fields == [diamonds : 0 .. MaxHits, mine : BOOLEAN]
NoFields == [diamonds |-> 0, mine |-> FALSE]

KeyTask == [op : {"set", "delete"}, bet : Bets]

JobAt == {"idle", "declined", "paid", "set", "pay", "payout", "failed", "record",
          "bomb", "commit"}

Job == [at : JobAt, op : {"bet", "play", "withdraw"}, bet : Bets \cup {NoBet},
        copy : BetRow, new : Fields, bomb : BOOLEAN, held : BOOLEAN]

NoJob == [at |-> "idle", op |-> "bet", bet |-> NoBet, copy |-> NoRow,
          new |-> NoFields, bomb |-> FALSE, held |-> FALSE]

TypeOK ==
  /\ PayTypeOK
  /\ record \subseteq Bets
  /\ shots \in [Bets -> Fields]
  /\ key \in Bets \cup {NoBet}
  /\ pool \in [KeyTask -> 0 .. MaxPool]
  /\ lock \in Threads \cup {NoThread}
  /\ job \in [Threads -> Job]
  /\ asked \subseteq Bets
  /\ lapses \in 0 .. MaxLapses
  /\ restarts \in 0 .. MaxRestart
  /\ moved \subseteq Bets
  /\ strayed \in BOOLEAN

Init ==
  /\ PayInit
  /\ record = {}
  /\ shots = [b \in Bets |-> NoFields]
  /\ key = NoBet
  /\ pool = [t \in KeyTask |-> 0]
  /\ lock = NoThread
  /\ job = [s \in Threads |-> NoJob]
  /\ asked = {}
  /\ lapses = 0
  /\ restarts = 0
  /\ moved = {}
  /\ strayed = FALSE

(***************************************************************************)
(* The lock and the pool.                                                  *)
(***************************************************************************)

\* Mutant: the lock is not asked.
LockIgnored(s) == job[s].at = "idle"

\* tryLock with no waiting: the message is handled or refused at once.
LockFree(s) == job[s].at = "idle" /\ lock = NoThread

\* A method ends; it unlocks only if its thread still holds the lock.
Over(s) ==
  /\ job' = [job EXCEPT ![s] = NoJob]
  /\ lock' = IF lock = s THEN NoThread ELSE lock

\* The lease ends while the method is running.
LockLapses(s) ==
  /\ lapses < MaxLapses
  /\ lock = s
  /\ lapses' = lapses + 1
  /\ lock' = NoThread
  /\ job' = [job EXCEPT ![s].held = FALSE]
  /\ UNCHANGED <<payVars, record, shots, key, pool, asked, restarts, moved, strayed>>

Submit(op, b) ==
  LET t == [op |-> op, bet |-> b]
  IN  /\ pool[t] < MaxPool
      /\ pool' = [pool EXCEPT ![t] = @ + 1]

\* Mutant: the key of another game is not replaced.
KeyUpdateOnce(t) ==
  /\ pool[t] > 0
  /\ pool' = [pool EXCEPT ![t] = @ - 1]
  /\ key' = IF t.op = "delete" THEN NoBet ELSE IF key = NoBet THEN t.bet ELSE key
  /\ UNCHANGED <<payVars, record, shots, lock, job, asked, lapses, restarts, moved,
                 strayed>>

\* A pool thread runs one of the updates, in any order.
KeyUpdate(t) ==
  /\ pool[t] > 0
  /\ pool' = [pool EXCEPT ![t] = @ - 1]
  /\ key' = IF t.op = "set" THEN t.bet ELSE NoBet
  /\ UNCHANGED <<payVars, record, shots, lock, job, asked, lapses, restarts, moved,
                 strayed>>

(***************************************************************************)
(* playerBet.                                                              *)
(***************************************************************************)

PoolEmpty == \A t \in KeyTask : pool[t] = 0

\* The next id: nothing remembers a bet of this id.
Fresh(b) ==
  /\ row[b].status = "NONE"
  /\ \A m \in wallet \cup flight : m.bet # b
  /\ \A i \in TimeoutId : timeouts[i].bet # b
  /\ \A r \in Threads : job[r].bet # b

\* The row is inserted, not committed, and the merchant asked for the stake.  Other
\* games of the player are not looked at.
BetCall(s, b) ==
  /\ LockFree(s)
  /\ Fresh(b)
  /\ \E ok \in BOOLEAN :
       /\ Call(b, "BET", Stake, ok)
       /\ job' = [job EXCEPT ![s] =
                    [NoJob EXCEPT !.at = IF ok THEN "paid" ELSE "declined",
                                  !.bet = b, !.held = TRUE]]
  /\ lock' = s
  /\ strayed' = (\/ strayed
                 \/ ~PoolEmpty
                 \/ \E c \in Bets : row[c].status \in {"BET_DONE", "WT_FAILED"}
                 \/ \E r \in Threads : job[r].at # "idle")
  /\ UNCHANGED <<row, payouts, task, hand, byHand, record, shots, key, pool, asked,
                 lapses, restarts, moved>>

\* The mines are hidden and the key is on its way, before the commit.
BetSet(s) ==
  /\ job[s].at = "paid"
  /\ Submit("set", job[s].bet)
  /\ job' = [job EXCEPT ![s].at = "set"]
  /\ UNCHANGED <<payVars, record, shots, key, lock, asked, lapses, restarts, moved,
                 strayed>>

\* Mutant: a declined stake can be played with.
BetCommitAll(s) ==
  LET b == job[s].bet
  IN  /\ job[s].at \in {"set", "declined"}
      /\ row' = [row EXCEPT ![b] = [status |-> "BET_DONE", amount |-> Stake]]
      /\ record' = record \cup {b}
      /\ Over(s)
      /\ UNCHANGED <<payouts, wallet, flight, timeouts, last, task, hand, byHand,
                     shots, key, pool, asked, lapses, restarts, moved, strayed>>

\* Mutant: the status of a declined bet is not updated.
BetCommitNew(s) ==
  LET b == job[s].bet
      done == job[s].at = "set"
  IN  /\ job[s].at \in {"set", "declined"}
      /\ row' = [row EXCEPT ![b] =
                   [status |-> IF done THEN "BET_DONE" ELSE "NEW", amount |-> Stake]]
      /\ record' = IF done THEN record \cup {b} ELSE record
      /\ Over(s)
      /\ UNCHANGED <<payouts, wallet, flight, timeouts, last, task, hand, byHand,
                     shots, key, pool, asked, lapses, restarts, moved, strayed>>

BetCommit(s) ==
  LET b == job[s].bet
      done == job[s].at = "set"
  IN  /\ job[s].at \in {"set", "declined"}
      /\ row' = [row EXCEPT ![b] =
                   [status |-> IF done THEN "BET_DONE" ELSE "BET_FAILED",
                    amount |-> Stake]]
      /\ record' = IF done THEN record \cup {b} ELSE record
      /\ Over(s)
      /\ UNCHANGED <<payouts, wallet, flight, timeouts, last, task, hand, byHand,
                     shots, key, pool, asked, lapses, restarts, moved, strayed>>

\* A paid answer without a balance, or a failing commit: no row is left.
BetRollback(s) ==
  /\ job[s].at \in {"paid", "set", "declined"}
  /\ strayed' = (strayed \/ job[s].at = "set")
  /\ Over(s)
  /\ UNCHANGED <<payVars, record, shots, key, pool, asked, lapses, restarts, moved>>

(***************************************************************************)
(* play.                                                                   *)
(***************************************************************************)

\* What the play's own transaction sees: the rows there were, and its own.
Seen(b, new) == [diamonds |-> shots[b].diamonds + new.diamonds,
                 mine |-> shots[b].mine \/ new.mine]

\* The fields of the request are looked up and inserted.  The status of the bet is
\* not.  A mine, of now or of before, ends the game.
Play(s, b) ==
  /\ LockFree(s)
  /\ b \in record
  /\ \E new \in Fields, auto \in BOOLEAN :
       LET seen == Seen(b, new)
           over == new.mine \/ seen.mine
       IN  /\ new.mine \/ new.diamonds > 0
           /\ seen.diamonds <= MaxHits
           /\ job' = [job EXCEPT ![s] =
                [at |-> IF over THEN "bomb" ELSE IF auto THEN "pay" ELSE "commit",
                 op |-> "play", bet |-> b, new |-> new, bomb |-> over, held |-> TRUE,
                 copy |-> IF over THEN NoRow
                          ELSE [row[b] EXCEPT !.amount = Prize[seen.diamonds]]]]
  /\ lock' = s
  /\ moved' = IF b \in asked THEN moved \cup {b} ELSE moved
  /\ strayed' = (strayed \/ row[b].status # "BET_DONE")
  /\ UNCHANGED <<payVars, record, shots, key, pool, asked, lapses, restarts>>

\* The end of the game is written and its key is on its way out.
PlayBomb(s) ==
  /\ job[s].at = "bomb"
  /\ Submit("delete", job[s].bet)
  /\ job' = [job EXCEPT ![s].at = "commit"]
  /\ UNCHANGED <<payVars, record, shots, key, lock, asked, lapses, restarts, moved,
                 strayed>>

PlayCommit(s) ==
  LET b == job[s].bet
  IN  /\ job[s].at = "commit"
      /\ Seen(b, job[s].new) \in Fields
      /\ shots' = [shots EXCEPT ![b] = Seen(b, job[s].new)]
      /\ row' = IF job[s].bomb
                THEN [row EXCEPT ![b] = [status |-> "BOMB", amount |-> 0]]
                ELSE row
      /\ moved' = IF ~job[s].held /\ b \in asked THEN moved \cup {b} ELSE moved
      /\ Over(s)
      /\ UNCHANGED <<payouts, wallet, flight, timeouts, last, task, hand, byHand,
                     record, key, pool, asked, lapses, restarts, strayed>>

PlayRollback(s) ==
  LET b == job[s].bet
  IN  /\ job[s].at = "commit"
      /\ moved' = IF b \in asked THEN moved \cup {b} ELSE moved
      /\ strayed' = (strayed \/ job[s].bomb)
      /\ Over(s)
      /\ UNCHANGED <<payVars, record, shots, key, pool, asked, lapses, restarts>>

(***************************************************************************)
(* withdraw.                                                               *)
(***************************************************************************)

\* Mutant: the status of the bet is not looked at.
WithdrawAny(s, b) ==
  /\ LockFree(s)
  /\ b \in record
  /\ shots[b] # NoFields
  /\ job' = [job EXCEPT ![s] =
       [NoJob EXCEPT
          !.at = "pay", !.op = "withdraw", !.bet = b, !.held = TRUE,
          !.copy = IF ~shots[b].mine
                   THEN [row[b] EXCEPT !.amount = Prize[shots[b].diamonds]]
                   ELSE row[b]]]
  /\ lock' = s
  /\ UNCHANGED <<payVars, record, shots, key, pool, asked, lapses, restarts, moved,
                 strayed>>

\* The game is being played or its payout failed, and a field was opened.  If one
\* was a mine the amount stays what it is, and the payout goes ahead.
Withdraw(s, b) ==
  /\ LockFree(s)
  /\ row[b].status \in {"BET_DONE", "WT_FAILED"}
  /\ shots[b] # NoFields
  /\ job' = [job EXCEPT ![s] =
       [NoJob EXCEPT
          !.at = "pay", !.op = "withdraw", !.bet = b, !.held = TRUE,
          !.copy = IF ~shots[b].mine
                   THEN [row[b] EXCEPT !.amount = Prize[shots[b].diamonds]]
                   ELSE row[b]]]
  /\ lock' = s
  /\ UNCHANGED <<payVars, record, shots, key, pool, asked, lapses, restarts, moved,
                 strayed>>

\* A play goes on to its own commit, a withdraw is over.  The withdraw in a play
\* holds the lock a second time, or for the first time after a lapse.
AfterPayout(s) ==
  IF job[s].op = "play"
  THEN /\ job' = [job EXCEPT ![s].at = "commit"]
       /\ lock' = IF lock = s /\ ~job[s].held THEN NoThread ELSE lock
  ELSE Over(s)

\* Called from play, withdraw takes the lock again.
PayoutCall(s) ==
  LET b == job[s].bet
  IN  /\ job[s].at = "pay"
      /\ job[s].op = "play" => lock \in {s, NoThread}
      /\ \E ok \in BOOLEAN :
           /\ Call(b, "WD", job[s].copy.amount, ok)
           /\ job' = [job EXCEPT ![s].at = IF ok THEN "payout" ELSE "failed"]
      /\ lock' = IF job[s].op = "play" THEN s ELSE lock
      /\ asked' = asked \cup {b}
      /\ UNCHANGED <<row, payouts, task, hand, byHand, record, shots, key, pool,
                     lapses, restarts, moved, strayed>>

\* Another thread has the lock by now: the play catches that and goes on.
PayoutRefused(s) ==
  /\ job[s].at = "pay"
  /\ job[s].op = "play"
  /\ lock \notin {s, NoThread}
  /\ job' = [job EXCEPT ![s].at = "commit"]
  /\ UNCHANGED <<payVars, record, shots, key, pool, lock, asked, lapses, restarts,
                 moved, strayed>>

PayoutSubmit(s) ==
  /\ job[s].at = "payout"
  /\ Submit("delete", job[s].bet)
  /\ job' = [job EXCEPT ![s].at = "record"]
  /\ UNCHANGED <<payVars, record, shots, key, lock, asked, lapses, restarts, moved,
                 strayed>>

\* Mutant: a payout that failed is written as done.
PayoutCommitAll(s) ==
  LET b == job[s].bet
  IN  /\ job[s].at \in {"record", "failed"}
      /\ row' = [row EXCEPT ![b] = [job[s].copy EXCEPT !.status = "WT_DONE"]]
      /\ payouts' = [payouts EXCEPT ![b] = OneMore(@)]
      /\ AfterPayout(s)
      /\ UNCHANGED <<wallet, flight, timeouts, last, task, hand, byHand, record,
                     shots, key, pool, asked, lapses, restarts, moved, strayed>>

\* The copy goes over the row, whatever it is by now.
PayoutCommit(s) ==
  LET b == job[s].bet
      done == job[s].at = "record"
  IN  /\ job[s].at \in {"record", "failed"}
      /\ row' = [row EXCEPT ![b] =
           [job[s].copy EXCEPT !.status = IF done THEN "WT_DONE" ELSE "WT_FAILED"]]
      /\ payouts' = IF done THEN [payouts EXCEPT ![b] = OneMore(@)] ELSE payouts
      /\ AfterPayout(s)
      /\ UNCHANGED <<wallet, flight, timeouts, last, task, hand, byHand, record,
                     shots, key, pool, asked, lapses, restarts, moved, strayed>>

\* A paid answer without a balance, an error of the ranking, a failing commit.
PayoutRollback(s) ==
  /\ job[s].at \in {"payout", "record", "failed"}
  /\ strayed' = (strayed \/ job[s].at = "record")
  /\ moved' = IF job[s].at = "failed" THEN moved \cup {job[s].bet} ELSE moved
  /\ AfterPayout(s)
  /\ UNCHANGED <<payVars, record, shots, key, pool, asked, lapses, restarts>>

(***************************************************************************)
(* The rest.                                                               *)
(***************************************************************************)

\* Another game than that of b is in play or on its way.
Another(b) ==
  \E c \in Bets \ {b} : row[c].status = "BET_DONE" \/ \E s \in Threads : job[s].bet = c

\* payoutFailed of an operator deletes the key as well: whichever game it names by
\* then, though the payout is of an earlier one.
MinesManualWrite(h) ==
  /\ ManualWrite(h)
  /\ IF hand[h].op = "WD" THEN Submit("delete", hand[h].bet) ELSE UNCHANGED pool
  /\ strayed' = (strayed \/ (hand[h].op = "WD" /\ Another(hand[h].bet)))
  /\ UNCHANGED <<record, shots, key, lock, job, asked, lapses, restarts, moved>>

\* The process goes down with its threads; the lock lasts until its lease is over.
Restart ==
  /\ restarts < MaxRestart
  /\ restarts' = restarts + 1
  /\ moved' = moved \cup {b \in asked : \E s \in Threads : job[s].bet = b}
  /\ strayed' = TRUE
  /\ job' = [s \in Threads |-> NoJob]
  /\ lock' = NoThread
  /\ pool' = [t \in KeyTask |-> 0]
  /\ task' = NoTask
  /\ UNCHANGED <<row, payouts, wallet, flight, timeouts, last, hand, byHand, record,
                 shots, key, asked, lapses>>

\* A row is old enough for the task only after the request that left it is over.
AgeAfterRequest(i) ==
  /\ \A s \in Threads : job[s].bet # timeouts[i].bet
  /\ Age(i)
  /\ UNCHANGED minesVars

Next ==
  \/ PayNext /\ UNCHANGED minesVars
  \/ \E i \in TimeoutId : AgeAfterRequest(i)
  \/ \E h \in Hands : MinesManualWrite(h)
  \/ \E t \in KeyTask : KeyUpdate(t)
  \/ \E s \in Threads :
       \/ \E b \in Bets : BetCall(s, b) \/ Play(s, b) \/ Withdraw(s, b)
       \/ BetSet(s) \/ BetCommit(s) \/ BetRollback(s)
       \/ PlayBomb(s) \/ PlayCommit(s) \/ PlayRollback(s)
       \/ PayoutCall(s) \/ PayoutRefused(s) \/ PayoutSubmit(s)
       \/ PayoutCommit(s) \/ PayoutRollback(s)
       \/ LockLapses(s)
  \/ Restart

Spec == Init /\ [][Next]_vars

(***************************************************************************)
(* Properties.                                                             *)
(***************************************************************************)

\* A stake is not both returned and paid out, however a payout is retried, unless
\* an operator orders the refund: the timeout task refunds only debits whose bet
\* never came into play.
RefundedOrPaid ==
  \A b \in Bets : Applied(b, "REFUND") /\ Applied(b, "WD") => b \in byHand

\* Once a mine is on record no payout is asked for the first time: withdraw reads
\* the fields and play writes them under one lock, unless its lease has ended.
NoPayoutAfterMine ==
  [][lapses' = 0 =>
       \A b \in Bets : shots[b].mine /\ b \notin asked => b \notin asked']_vars

\* A game recorded as paid was paid that amount, by its player, the timeout task or
\* the operator, from copies of the row taken at different times; unless the game
\* was played on, or an outcome rolled back, after the first payout was asked, or a
\* refund by hand wrote its old copy over the row, or the lock let two threads in.
PaidAsRecorded ==
  \A b \in Bets :
    lapses = 0 /\ row[b].status = "WT_DONE" /\ b \notin moved \cup byHand
      => [bet |-> b, op |-> "WD", amount |-> row[b].amount] \in wallet

\* A game is entered in game_payout once, though an unanswered payout is asked for
\* again and the merchant pays it once; with the same exceptions, and but for a
\* payout by hand, which enters another row.
EnteredOnce ==
  \A b \in Bets :
    lapses = 0 /\ payouts[b] > 1
      => b \in moved \/ \E h \in Hands : hand[h].bet = b /\ hand[h].op = "WD"

Moves == {<<"NONE", "BET_DONE">>, <<"NONE", "BET_FAILED">>,
          <<"BET_FAILED", "CANCEL">>,
          <<"BET_DONE", "WT_DONE">>, <<"BET_DONE", "WT_FAILED">>,
          <<"BET_DONE", "BOMB">>,
          <<"WT_FAILED", "WT_DONE">>, <<"WT_DONE", "WT_FAILED">>}

\* Unless the player goes on after asking for a payout or the lock let two threads
\* in, the status of a game not refunded by hand takes these moves only, though
\* nobody reads what he writes over.
\* It goes back from done to failed when a withdraw fails that the task overtook.
StatusMovesForward ==
  [][lapses' = 0 =>
       \A b \in Bets \ (byHand' \cup moved') :
         row'[b].status # row[b].status
           => <<row[b].status, row'[b].status>> \in Moves]_vars

Quiet == PoolEmpty /\ \A s \in Threads : job[s].at = "idle"

\* As long as games do not overlap and every submitted update was meant, the key
\* names the game in play once the pool has caught up.
OngoingIsFound ==
  \A b \in Bets : Quiet /\ ~strayed /\ row[b].status = "BET_DONE" => key = b

(***************************************************************************)
(* What comments of the code say, and the code does not do.                *)
(***************************************************************************)

\* WithdrawServiceImpl: a player whose payout keeps failing cannot open a new game.
NoGameBesidesFailedOne ==
  [][\A b \in Bets :
       row[b].status # "BET_DONE" /\ row'[b].status = "BET_DONE"
         => \A c \in Bets : row[c].status # "WT_FAILED"]_vars
=============================================================================
