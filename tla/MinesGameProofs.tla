--------------------------- MODULE MinesGameProofs ---------------------------
(***************************************************************************)
(* Proofs about MinesGame, for every number of bets, threads, orders,      *)
(* timeout rows, lapses and restarts.  Each part has an inductive          *)
(* invariant of its own, over those of the parts before it:                *)
(*   MinesTypes  types, and that the bet table says only what was done     *)
(*   StakeInv    a stake is not both returned and paid out                 *)
(*   MineInv     no payout after a mine, by the one thread that is on      *)
(*   OnceInv     a payout is entered once                                  *)
(*   NameInv     the key names the game in play                            *)
(*   DueInv      what is paid is what is recorded, and the status of a bet *)
(*               takes the moves of the game                               *)
(***************************************************************************)
EXTENDS MinesGame, PaymentProofs

USE PaymentAssumption, MinesAssumption DEF PaymentAssumption, MinesAssumption

(***************************************************************************)
(* Types.  Beyond TypeOK: what a thread is doing at each label.            *)
(***************************************************************************)

MinesTypeOK ==
  /\ record \subseteq Bets
  /\ shots \in [Bets -> Fields]
  /\ key \in Bets \cup {NoBet}
  /\ pool \in [KeyTask -> 0 .. MaxPool]
  /\ lock \in Threads \cup {NoThread}
  /\ job \in [Threads -> Job]
  /\ asked \subseteq Bets
  /\ lapses \in 0 .. MaxLapses
  /\ restarts \in 0 .. MaxRestart
  /\ moved \subseteq Bets
  /\ strayed \in BOOLEAN

BettingAt == {"declined", "paid", "set"}
PayingAt == {"pay", "payout", "failed", "record"}

\* A job that is on has a bet and the labels of its method; a bomb is not paid for;
\* an answered payout was carried out.
JobOK(j) ==
  /\ j.at # "idle" => j.bet \in Bets
  /\ j.at = "idle" => j = NoJob
  /\ j.op = "bet" => j.at \in BettingAt \cup {"idle"}
  /\ j.op = "withdraw" => j.at \in PayingAt
  /\ j.op = "play" => j.at \in PayingAt \cup {"bomb", "commit"}
  /\ j.at = "bomb" => j.bomb
  /\ j.at \in PayingAt => ~j.bomb
  /\ j.at \in {"payout", "record"} => Applied(j.bet, "WD")

JobsOK == \A s \in Threads : JobOK(job[s])

MinesTypes == PayInv /\ MinesTypeOK /\ JobsOK

\* What a job is after a move to another label, and after its lease ended.
LEMMA JobMoves ==
  ASSUME NEW j \in Job, NEW a \in JobAt
  PROVE  /\ [j EXCEPT !.at = a] \in Job
         /\ [j EXCEPT !.at = a].at = a /\ [j EXCEPT !.at = a].op = j.op
         /\ [j EXCEPT !.at = a].bet = j.bet /\ [j EXCEPT !.at = a].copy = j.copy
         /\ [j EXCEPT !.at = a].new = j.new /\ [j EXCEPT !.at = a].bomb = j.bomb
         /\ [j EXCEPT !.at = a].held = j.held
  BY DEF Job

LEMMA JobLapses ==
  ASSUME NEW j \in Job
  PROVE  /\ [j EXCEPT !.held = FALSE] \in Job
         /\ [j EXCEPT !.held = FALSE].at = j.at /\ [j EXCEPT !.held = FALSE].op = j.op
         /\ [j EXCEPT !.held = FALSE].bet = j.bet /\ [j EXCEPT !.held = FALSE].copy = j.copy
         /\ [j EXCEPT !.held = FALSE].new = j.new /\ [j EXCEPT !.held = FALSE].bomb = j.bomb
         /\ ~[j EXCEPT !.held = FALSE].held
  BY DEF Job

\* The job of a thread that does nothing, of a new bet and of a withdraw.
LEMMA JobNone ==
  /\ NoJob \in Job /\ NoJob.at = "idle" /\ NoJob.op = "bet" /\ NoJob.bet = NoBet
  /\ NoJob.bomb = FALSE /\ NoJob.new = NoFields /\ NoRow \in BetRow /\ NoFields \in Fields
  BY DEF NoJob, Job, JobAt, NoRow, BetRow, Status, Amount, NoFields, Fields

LEMMA JobBets ==
  ASSUME NEW a \in {"paid", "declined"}, NEW b \in Bets
  PROVE  \E j \in Job : /\ j = [NoJob EXCEPT !.at = a, !.bet = b, !.held = TRUE]
                        /\ j.at = a /\ j.op = "bet" /\ j.bet = b /\ j.bomb = FALSE
                        /\ j.held
<1> DEFINE j == [NoJob EXCEPT !.at = a, !.bet = b, !.held = TRUE]
<1> /\ j \in Job /\ j.at = a /\ j.op = "bet" /\ j.bet = b /\ j.bomb = FALSE /\ j.held
  BY JobNone DEF NoJob, Job, JobAt
<1> WITNESS j \in Job
<1> QED
  OBVIOUS

LEMMA JobWithdraws ==
  ASSUME NEW b \in Bets, NEW c \in BetRow
  PROVE  \E j \in Job : /\ j = [NoJob EXCEPT !.at = "pay", !.op = "withdraw", !.bet = b,
                                            !.held = TRUE, !.copy = c]
                        /\ j.at = "pay" /\ j.op = "withdraw" /\ j.bet = b /\ j.copy = c
                        /\ j.bomb = FALSE /\ j.held
<1> DEFINE j == [NoJob EXCEPT !.at = "pay", !.op = "withdraw", !.bet = b, !.held = TRUE,
                              !.copy = c]
<1> /\ j \in Job /\ j.at = "pay" /\ j.op = "withdraw" /\ j.bet = b /\ j.copy = c
    /\ j.bomb = FALSE /\ j.held
  BY JobNone DEF NoJob, Job, JobAt
<1> WITNESS j \in Job
<1> QED
  OBVIOUS

\* A row with another amount is one.
LEMMA AmountType ==
  ASSUME NEW r \in BetRow, NEW n \in Amount
  PROVE  /\ [r EXCEPT !.amount = n] \in BetRow
         /\ [r EXCEPT !.amount = n].amount = n /\ [r EXCEPT !.amount = n].status = r.status
  BY DEF BetRow

\* Steps that leave the jobs alone.
LEMMA JobsFrame ==
  ASSUME JobsOK, job' = job, wallet \subseteq wallet'
  PROVE  JobsOK'
  BY Stays DEF JobsOK, JobOK

\* Steps of one thread.
LEMMA OneJob ==
  ASSUME MinesTypeOK, JobsOK, NEW s \in Threads, NEW j \in Job,
         job' = [job EXCEPT ![s] = j], wallet \subseteq wallet',
         JobOK(j)'
  PROVE  /\ job' \in [Threads -> Job] /\ JobsOK'
         /\ job'[s] = j /\ \A r \in Threads \ {s} : job'[r] = job[r]
<1>1. job \in [Threads -> Job]
  BY DEF MinesTypeOK
<1>2. job'[s] = j /\ \A r \in Threads \ {s} : job'[r] = job[r]
  BY <1>1
<1>3. \A r \in Threads : JobOK(job[r])'
  <2> SUFFICES ASSUME NEW r \in Threads PROVE JobOK(job[r])'
    OBVIOUS
  <2>1. CASE r = s
    BY <1>2, <2>1 DEF JobOK
  <2>2. CASE r # s
    BY <1>2, <2>2, Stays DEF JobsOK, JobOK
  <2> QED
    BY <2>1, <2>2
<1> QED
  BY <1>1, <1>2, <1>3 DEF JobsOK

(***************************************************************************)
(* What each step does to the jobs and the tables, and that it keeps the   *)
(* types.                                                                  *)
(***************************************************************************)

\* The jobs of the other threads are what they were.
Others(s) == \A r \in Threads \ {s} : job'[r] = job[r]

\* The job of s has gone to label a.
Moved(s, a) ==
  /\ job'[s].at = a
  /\ job'[s].op = job[s].op /\ job'[s].bet = job[s].bet /\ job'[s].copy = job[s].copy
  /\ job'[s].new = job[s].new /\ job'[s].bomb = job[s].bomb /\ job'[s].held = job[s].held

LEMMA LabelMoves ==
  ASSUME MinesTypes, NEW s \in Threads, NEW a \in JobAt \ {"idle", "bomb"},
         job' = [job EXCEPT ![s].at = a], wallet \subseteq wallet',
         job[s].at # "idle",
         job[s].op = "bet" => a \in BettingAt,
         job[s].op = "withdraw" => a \in PayingAt,
         job[s].op = "play" => a \in PayingAt \cup {"commit"},
         a \in PayingAt => job[s].at \in PayingAt,
         a \in {"payout", "record"}
           => \E m \in wallet' : m.bet = job[s].bet /\ m.op = "WD"
  PROVE  job' \in [Threads -> Job] /\ JobsOK' /\ Moved(s, a) /\ Others(s)
<1>1. job \in [Threads -> Job] /\ job[s] \in Job /\ a \in JobAt
  BY DEF MinesTypes, MinesTypeOK
<1>2. PICK j \in Job : j = [job[s] EXCEPT !.at = a]
  BY <1>1, JobMoves
<1>3. /\ j.at = a /\ j.op = job[s].op /\ j.bet = job[s].bet
      /\ j.copy = job[s].copy /\ j.new = job[s].new /\ j.bomb = job[s].bomb
      /\ j.held = job[s].held
  BY <1>1, <1>2, JobMoves
<1>4. JobOK(job[s])
  BY DEF MinesTypes, JobsOK
<1>5. JobOK(j)'
  <2>1. /\ j.at # "idle" /\ j.bet \in Bets /\ (j.at \in PayingAt => ~j.bomb)
        /\ (j.at \in {"payout", "record"} => Applied(j.bet, "WD")')
    BY <1>3, <1>4 DEF JobOK, Applied
  <2>2. /\ j.op = "bet" => j.at \in BettingAt \cup {"idle"}
        /\ j.op = "withdraw" => j.at \in PayingAt
        /\ j.op = "play" => j.at \in PayingAt \cup {"bomb", "commit"}
        /\ j.at # "bomb"
    BY <1>3
  <2> QED
    BY <2>1, <2>2 DEF JobOK
<1>6. job' = [job EXCEPT ![s] = j]
  BY <1>1, <1>2
<1> QED
  BY <1>3, <1>5, <1>6, OneJob DEF MinesTypes, Moved, Others

\* A method ends.
LEMMA JobEnds ==
  ASSUME MinesTypes, NEW s \in Threads, Over(s), wallet \subseteq wallet'
  PROVE  /\ job' \in [Threads -> Job] /\ JobsOK' /\ job'[s] = NoJob /\ Others(s)
         /\ lock' \in Threads \cup {NoThread}
         /\ lock' = IF lock = s THEN NoThread ELSE lock
<1>1. job' = [job EXCEPT ![s] = NoJob] /\ lock' = IF lock = s THEN NoThread ELSE lock
  BY DEF Over
<1>2. JobOK(NoJob)'
  BY DEF NoJob, JobOK, PayingAt
<1>3. lock' \in Threads \cup {NoThread}
  BY <1>1 DEF MinesTypes, MinesTypeOK
<1> QED
  BY <1>1, <1>2, <1>3, JobNone, OneJob DEF MinesTypes, Others

\* A payout ends, in a play or in a withdraw.
LEMMA PayoutEnds ==
  ASSUME MinesTypes, NEW s \in Threads, AfterPayout(s), wallet \subseteq wallet',
         job[s].at \in {"payout", "record", "failed"}
  PROVE  /\ job' \in [Threads -> Job] /\ JobsOK' /\ Others(s)
         /\ lock' \in Threads \cup {NoThread}
         /\ job[s].op = "play" => /\ Moved(s, "commit")
                                  /\ lock' = IF lock = s /\ ~job[s].held
                                             THEN NoThread ELSE lock
         /\ job[s].op # "play" => /\ job[s].op = "withdraw" /\ job'[s] = NoJob
                                  /\ lock' = IF lock = s THEN NoThread ELSE lock
<1>1. JobOK(job[s]) /\ job[s] \in Job /\ lock \in Threads \cup {NoThread}
  BY DEF MinesTypes, MinesTypeOK, JobsOK
<1>2. CASE job[s].op = "play"
  <2>1. /\ job' = [job EXCEPT ![s].at = "commit"]
        /\ lock' = IF lock = s /\ ~job[s].held THEN NoThread ELSE lock
    BY <1>2 DEF AfterPayout
  <2>2. "commit" \in JobAt \ {"idle", "bomb"} /\ "commit" \notin PayingAt
    BY DEF JobAt, PayingAt
  <2>3. job' \in [Threads -> Job] /\ JobsOK' /\ Moved(s, "commit") /\ Others(s)
    BY <1>2, <2>1, <2>2, LabelMoves
  <2> QED
    BY <1>1, <1>2, <2>1, <2>3
<1>3. CASE job[s].op # "play"
  <2>1. Over(s)
    BY <1>3 DEF AfterPayout
  <2>2. job[s].op = "withdraw"
    BY <1>1, <1>3 DEF JobOK, BettingAt, Job
  <2> QED
    BY <1>3, <2>1, <2>2, JobEnds
<1> QED
  BY <1>2, <1>3

\* One more update waits in the pool.
LEMMA Submits ==
  ASSUME MinesTypeOK, NEW op \in {"set", "delete"}, NEW b \in Bets, Submit(op, b)
  PROVE  /\ pool' \in [KeyTask -> 0 .. MaxPool]
         /\ \A t \in KeyTask : pool'[t] = IF t.op = op /\ t.bet = b THEN pool[t] + 1
                                          ELSE pool[t]
<1> DEFINE u == [op |-> op, bet |-> b]
<1>1. u \in KeyTask /\ \A t \in KeyTask : t = u <=> t.op = op /\ t.bet = b
  BY DEF KeyTask
<1>2. pool[u] < MaxPool /\ pool' = [pool EXCEPT ![u] = pool[u] + 1]
  BY DEF Submit
<1>3. pool \in [KeyTask -> 0 .. MaxPool]
  BY DEF MinesTypeOK
<1> HIDE DEF u
<1>4. pool[u] + 1 \in 0 .. MaxPool
  BY <1>1, <1>2, <1>3
<1> QED
  BY <1>1, <1>2, <1>3, <1>4

\* A step of the payment side.
LEMMA PaySide ==
  ASSUME MinesTypes, PayInv', wallet \subseteq wallet', UNCHANGED minesVars
  PROVE  MinesTypes'
<1>1. MinesTypeOK' /\ job' = job
  BY DEF minesVars, MinesTypes, MinesTypeOK
<1> QED
  BY <1>1, JobsFrame DEF MinesTypes

LEMMA BetCallDoes ==
  ASSUME MinesTypes, NEW s \in Threads, NEW b \in Bets, BetCall(s, b)
  PROVE  /\ MinesTypes' /\ wallet \subseteq wallet' /\ Others(s)
         /\ job[s] = NoJob /\ lock = NoThread /\ lock' = s
         /\ job'[s].op = "bet" /\ job'[s].bet = b /\ ~job'[s].bomb /\ job'[s].held
         /\ \E ok \in BOOLEAN : /\ Call(b, "BET", Stake, ok)
                                /\ job'[s].at = IF ok THEN "paid" ELSE "declined"
<1>1. PICK ok \in BOOLEAN :
        /\ Call(b, "BET", Stake, ok)
        /\ job' = [job EXCEPT ![s] =
                     [NoJob EXCEPT !.at = IF ok THEN "paid" ELSE "declined",
                                   !.bet = b, !.held = TRUE]]
  BY DEF BetCall
<1>2. PICK a \in {"paid", "declined"} : a = IF ok THEN "paid" ELSE "declined"
  OBVIOUS
<1>3. PICK j \in Job : /\ j = [NoJob EXCEPT !.at = a, !.bet = b, !.held = TRUE]
                       /\ j.at = a /\ j.op = "bet" /\ j.bet = b /\ j.bomb = FALSE /\ j.held
  BY JobBets
<1>4. job' = [job EXCEPT ![s] = j]
  BY <1>1, <1>2, <1>3
<1>5. UNCHANGED <<row, payouts, task, hand, byHand>>
  BY DEF BetCall
<1>6. Stake \in Amount /\ "BET" \in Op
  BY DEF Amount, Op
<1>7. PayInv' /\ wallet \subseteq wallet'
  BY <1>1, <1>5, <1>6, GameCall DEF MinesTypes
<1>8. JobOK(j)'
  BY <1>3 DEF JobOK, BettingAt, PayingAt
<1>9. job' \in [Threads -> Job] /\ JobsOK' /\ job'[s] = j /\ Others(s)
  BY <1>4, <1>7, <1>8, OneJob DEF MinesTypes, Others
<1>10. lock = NoThread /\ lock' = s /\ job[s].at = "idle" /\ strayed' \in BOOLEAN
       /\ UNCHANGED <<record, shots, key, pool, asked, lapses, restarts, moved>>
  BY DEF BetCall, LockFree
<1>11. MinesTypeOK'
  BY <1>9, <1>10 DEF MinesTypes, MinesTypeOK
<1>12. job[s] = NoJob
  BY <1>10 DEF MinesTypes, JobsOK, JobOK
<1>13. job'[s].at = IF ok THEN "paid" ELSE "declined"
  BY <1>2, <1>3, <1>9
<1>14. \E k \in BOOLEAN : /\ Call(b, "BET", Stake, k)
                          /\ job'[s].at = IF k THEN "paid" ELSE "declined"
  BY <1>1, <1>13
<1>15. job'[s].op = "bet" /\ job'[s].bet = b /\ ~job'[s].bomb /\ job'[s].held
  BY <1>3, <1>9
<1>16. MinesTypes'
  BY <1>7, <1>9, <1>11 DEF MinesTypes
<1> QED
  BY <1>7, <1>9, <1>10, <1>12, <1>14, <1>15, <1>16

LEMMA BetSetDoes ==
  ASSUME MinesTypes, NEW s \in Threads, BetSet(s)
  PROVE  /\ MinesTypes' /\ wallet' = wallet /\ Moved(s, "set") /\ Others(s)
         /\ job[s].at = "paid" /\ job[s].op = "bet" /\ job[s].bet \in Bets
         /\ \A t \in KeyTask : pool'[t] = IF t.op = "set" /\ t.bet = job[s].bet
                                          THEN pool[t] + 1 ELSE pool[t]
<1>1. /\ job[s].at = "paid" /\ Submit("set", job[s].bet)
      /\ job' = [job EXCEPT ![s].at = "set"]
      /\ UNCHANGED <<payVars, record, shots, key, lock, asked, lapses, restarts, moved,
                     strayed>>
  BY DEF BetSet
<1>2. JobOK(job[s]) /\ job[s] \in Job /\ MinesTypeOK
  BY DEF MinesTypes, MinesTypeOK, JobsOK
<1>3. job[s].bet \in Bets /\ job[s].op = "bet"
  BY <1>1, <1>2 DEF JobOK, PayingAt, Job
<1>4. PayInv' /\ wallet' = wallet
  BY <1>1, PayFrame DEF MinesTypes, payVars
<1>5. "set" \in JobAt \ {"idle", "bomb"} /\ "set" \in BettingAt /\ "set" \notin PayingAt
  BY DEF JobAt, BettingAt, PayingAt
<1>6. job' \in [Threads -> Job] /\ JobsOK' /\ Moved(s, "set") /\ Others(s)
  BY <1>1, <1>3, <1>4, <1>5, LabelMoves
<1>7. /\ pool' \in [KeyTask -> 0 .. MaxPool]
      /\ \A t \in KeyTask : pool'[t] = IF t.op = "set" /\ t.bet = job[s].bet
                                       THEN pool[t] + 1 ELSE pool[t]
  BY <1>1, <1>2, <1>3, Submits
<1>8. MinesTypeOK'
  BY <1>1, <1>2, <1>6, <1>7 DEF MinesTypeOK
<1> QED
  BY <1>1, <1>3, <1>4, <1>6, <1>7, <1>8 DEF MinesTypes

LEMMA BetCommitDoes ==
  ASSUME MinesTypes, NEW s \in Threads, BetCommit(s)
  PROVE  /\ MinesTypes' /\ wallet' = wallet /\ job'[s] = NoJob /\ Others(s)
         /\ lock' = IF lock = s THEN NoThread ELSE lock
         /\ job[s].at \in {"set", "declined"} /\ job[s].op = "bet" /\ job[s].bet \in Bets
         /\ \A c \in Bets : c # job[s].bet => row'[c] = row[c]
         /\ row'[job[s].bet].status = IF job[s].at = "set" THEN "BET_DONE" ELSE "BET_FAILED"
<1> DEFINE b == job[s].bet
           new == [status |-> IF job[s].at = "set" THEN "BET_DONE" ELSE "BET_FAILED",
                   amount |-> Stake]
<1>1. /\ job[s].at \in {"set", "declined"} /\ row' = [row EXCEPT ![b] = new]
      /\ record' = IF job[s].at = "set" THEN record \cup {b} ELSE record
      /\ Over(s)
      /\ UNCHANGED <<payouts, wallet, flight, timeouts, last, task, hand, byHand,
                     shots, key, pool, asked, lapses, restarts, moved, strayed>>
  BY DEF BetCommit
<1>2. JobOK(job[s]) /\ job[s] \in Job /\ MinesTypeOK /\ PayInv
  BY DEF MinesTypes, MinesTypeOK, JobsOK
<1>3. b \in Bets /\ job[s].op = "bet"
  BY <1>1, <1>2 DEF JobOK, PayingAt, Job
<1>4. /\ job' \in [Threads -> Job] /\ JobsOK' /\ job'[s] = NoJob /\ Others(s)
      /\ lock' \in Threads \cup {NoThread}
      /\ lock' = IF lock = s THEN NoThread ELSE lock
  BY <1>1, JobEnds
<1>5. new \in BetRow /\ new.status \in {"BET_DONE", "BET_FAILED"}
  BY DEF BetRow, Status, Amount
<1>6. row \in [Bets -> BetRow]
  BY <1>2 DEF PayInv, PayTypeOK
<1>7. /\ row' \in [Bets -> BetRow] /\ row'[b] = new
      /\ \A c \in Bets : c # b => row'[c] = row[c]
  BY <1>1, <1>3, <1>5, <1>6
<1>8. DoneMeansPaid'
  BY <1>1, <1>2, <1>5, <1>7 DEF PayInv, DoneMeansPaid, Applied
<1>9. PayInv'
  BY <1>1, <1>2, <1>7, <1>8, RowsWritten DEF PayInv, PayTypeOK
<1>10. MinesTypeOK'
  BY <1>1, <1>2, <1>3, <1>4 DEF MinesTypeOK
<1> QED
  BY <1>1, <1>3, <1>4, <1>7, <1>9, <1>10 DEF MinesTypes

LEMMA BetRollbackDoes ==
  ASSUME MinesTypes, NEW s \in Threads, BetRollback(s)
  PROVE  /\ MinesTypes' /\ wallet' = wallet /\ job'[s] = NoJob /\ Others(s)
         /\ lock' = IF lock = s THEN NoThread ELSE lock
<1>1. /\ Over(s) /\ strayed' \in BOOLEAN
      /\ UNCHANGED <<payVars, record, shots, key, pool, asked, lapses, restarts, moved>>
  BY DEF BetRollback
<1>2. PayInv' /\ wallet' = wallet
  BY <1>1, PayFrame DEF MinesTypes, payVars
<1>3. /\ job' \in [Threads -> Job] /\ JobsOK' /\ job'[s] = NoJob /\ Others(s)
      /\ lock' \in Threads \cup {NoThread}
      /\ lock' = IF lock = s THEN NoThread ELSE lock
  BY <1>1, <1>2, JobEnds
<1>4. MinesTypeOK'
  BY <1>1, <1>3 DEF MinesTypes, MinesTypeOK
<1> QED
  BY <1>2, <1>3, <1>4 DEF MinesTypes

LEMMA PlayDoes ==
  ASSUME MinesTypes, NEW s \in Threads, NEW b \in Bets, Play(s, b)
  PROVE  /\ MinesTypes' /\ wallet' = wallet /\ Others(s)
         /\ job[s] = NoJob /\ lock = NoThread /\ lock' = s /\ b \in record
         /\ job'[s].op = "play" /\ job'[s].bet = b /\ job'[s].held
         /\ job'[s].at = "bomb" => job'[s].bomb
         /\ job'[s].bomb => job'[s].at = "bomb" /\ Seen(b, job'[s].new).mine
         /\ ~job'[s].bomb => /\ job'[s].at \in {"pay", "commit"}
                             /\ ~Seen(b, job'[s].new).mine
                             /\ job'[s].copy.amount = Prize[Seen(b, job'[s].new).diamonds]
<1>1. PICK new \in Fields, auto \in BOOLEAN :
        /\ new.mine \/ new.diamonds > 0
        /\ Seen(b, new).diamonds <= MaxHits
        /\ job' = [job EXCEPT ![s] =
             [at |-> IF new.mine \/ Seen(b, new).mine THEN "bomb"
                     ELSE IF auto THEN "pay" ELSE "commit",
              op |-> "play", bet |-> b, new |-> new,
              bomb |-> new.mine \/ Seen(b, new).mine, held |-> TRUE,
              copy |-> IF new.mine \/ Seen(b, new).mine THEN NoRow
                       ELSE [row[b] EXCEPT !.amount = Prize[Seen(b, new).diamonds]]]]
  BY DEF Play
<1> DEFINE seen == Seen(b, new)
           bad == new.mine \/ seen.mine
           at == IF bad THEN "bomb" ELSE IF auto THEN "pay" ELSE "commit"
           copy == IF bad THEN NoRow ELSE [row[b] EXCEPT !.amount = Prize[seen.diamonds]]
<1>2. shots[b] \in Fields /\ row[b] \in BetRow
  BY DEF MinesTypes, MinesTypeOK, PayInv, PayTypeOK
<1>3. /\ seen.mine <=> shots[b].mine \/ new.mine
      /\ seen.diamonds = shots[b].diamonds + new.diamonds
      /\ bad <=> seen.mine
  BY DEF Seen
<1>4. ~bad => seen.diamonds \in 1 .. MaxHits
  BY <1>1, <1>2, <1>3 DEF Fields
<1>5. ~bad => Prize[seen.diamonds] \in Amount
  BY <1>4
<1>6. copy \in BetRow /\ (~bad => copy.amount = Prize[seen.diamonds])
  <2>1. CASE bad
    BY <2>1, JobNone
  <2>2. CASE ~bad
    BY <1>2, <1>5, <2>2, AmountType
  <2> QED
    BY <2>1, <2>2
<1>7. at \in JobAt /\ bad \in BOOLEAN
  BY <1>2, <1>3 DEF JobAt, Fields
<1>8. PICK j \in Job : /\ j = [at |-> at, op |-> "play", bet |-> b, new |-> new,
                               bomb |-> bad, held |-> TRUE, copy |-> copy]
                       /\ j.at = at /\ j.op = "play" /\ j.bet = b /\ j.new = new
                       /\ j.bomb = bad /\ j.held /\ j.copy = copy
  <2> HIDE DEF at, bad, copy
  <2> DEFINE j == [at |-> at, op |-> "play", bet |-> b, new |-> new,
                   bomb |-> bad, held |-> TRUE, copy |-> copy]
  <2> /\ j \in Job /\ j.at = at /\ j.op = "play" /\ j.bet = b /\ j.new = new
      /\ j.bomb = bad /\ j.held /\ j.copy = copy
    BY <1>6, <1>7 DEF Job
  <2> WITNESS j \in Job
  <2> QED
    OBVIOUS
<1>9. job' = [job EXCEPT ![s] = j]
  BY <1>1, <1>8
<1>10. /\ LockFree(s) /\ b \in record /\ lock' = s
       /\ moved' = (IF b \in asked THEN moved \cup {b} ELSE moved) /\ strayed' \in BOOLEAN
       /\ UNCHANGED <<payVars, record, shots, key, pool, asked, lapses, restarts>>
  BY DEF Play
<1>11. PayInv' /\ wallet' = wallet
  BY <1>10, PayFrame DEF MinesTypes, payVars
<1>12. JobOK(j)'
  BY <1>8 DEF JobOK, BettingAt, PayingAt
<1>13. job' \in [Threads -> Job] /\ JobsOK' /\ job'[s] = j /\ Others(s)
  BY <1>9, <1>11, <1>12, OneJob DEF MinesTypes, Others
<1>14. MinesTypeOK'
  BY <1>10, <1>13 DEF MinesTypes, MinesTypeOK
<1>15. job[s] = NoJob /\ lock = NoThread
  BY <1>10 DEF LockFree, MinesTypes, JobsOK, JobOK
<1>16. /\ j.at = "bomb" => j.bomb
       /\ j.bomb => j.at = "bomb" /\ seen.mine
       /\ ~j.bomb => /\ j.at \in {"pay", "commit"} /\ ~seen.mine
                     /\ j.copy.amount = Prize[seen.diamonds]
  BY <1>3, <1>6, <1>8
<1>17. MinesTypes'
  BY <1>11, <1>13, <1>14 DEF MinesTypes
<1>18. job'[s].new = new
  BY <1>8, <1>13
<1> HIDE DEF seen
<1>19. /\ job'[s].at = "bomb" => job'[s].bomb
       /\ job'[s].bomb => job'[s].at = "bomb" /\ seen.mine
       /\ ~job'[s].bomb => /\ job'[s].at \in {"pay", "commit"} /\ ~seen.mine
                           /\ job'[s].copy.amount = Prize[seen.diamonds]
       /\ job'[s].op = "play" /\ job'[s].bet = b /\ job'[s].held
  BY <1>8, <1>13, <1>16
<1>20. seen = Seen(b, job'[s].new)
  BY <1>18 DEF seen
<1> QED
  BY <1>10, <1>11, <1>13, <1>15, <1>17, <1>19, <1>20

LEMMA PlayBombDoes ==
  ASSUME MinesTypes, NEW s \in Threads, PlayBomb(s)
  PROVE  /\ MinesTypes' /\ wallet' = wallet /\ Moved(s, "commit") /\ Others(s)
         /\ job[s].at = "bomb" /\ job[s].op = "play" /\ job[s].bet \in Bets /\ job[s].bomb
         /\ \A t \in KeyTask : pool'[t] = IF t.op = "delete" /\ t.bet = job[s].bet
                                          THEN pool[t] + 1 ELSE pool[t]
<1>1. /\ job[s].at = "bomb" /\ Submit("delete", job[s].bet)
      /\ job' = [job EXCEPT ![s].at = "commit"]
      /\ UNCHANGED <<payVars, record, shots, key, lock, asked, lapses, restarts, moved,
                     strayed>>
  BY DEF PlayBomb
<1>2. JobOK(job[s]) /\ job[s] \in Job /\ MinesTypeOK
  BY DEF MinesTypes, MinesTypeOK, JobsOK
<1>3. job[s].bet \in Bets /\ job[s].op = "play" /\ job[s].bomb
  BY <1>1, <1>2 DEF JobOK, PayingAt, BettingAt, Job
<1>4. PayInv' /\ wallet' = wallet
  BY <1>1, PayFrame DEF MinesTypes, payVars
<1>5. "commit" \in JobAt \ {"idle", "bomb"} /\ "commit" \notin PayingAt
  BY DEF JobAt, PayingAt
<1>6. job' \in [Threads -> Job] /\ JobsOK' /\ Moved(s, "commit") /\ Others(s)
  BY <1>1, <1>3, <1>4, <1>5, LabelMoves
<1>7. /\ pool' \in [KeyTask -> 0 .. MaxPool]
      /\ \A t \in KeyTask : pool'[t] = IF t.op = "delete" /\ t.bet = job[s].bet
                                       THEN pool[t] + 1 ELSE pool[t]
  BY <1>1, <1>2, <1>3, Submits
<1>8. MinesTypeOK'
  BY <1>1, <1>2, <1>6, <1>7 DEF MinesTypeOK
<1> QED
  BY <1>1, <1>3, <1>4, <1>6, <1>7, <1>8 DEF MinesTypes

LEMMA PlayCommitDoes ==
  ASSUME MinesTypes, NEW s \in Threads, PlayCommit(s)
  PROVE  /\ MinesTypes' /\ wallet' = wallet /\ job'[s] = NoJob /\ Others(s)
         /\ lock' = IF lock = s THEN NoThread ELSE lock
         /\ job[s].at = "commit" /\ job[s].op = "play" /\ job[s].bet \in Bets
         /\ \A c \in Bets : c # job[s].bet => row'[c] = row[c] /\ shots'[c] = shots[c]
         /\ shots'[job[s].bet] = Seen(job[s].bet, job[s].new)
         /\ job[s].bomb => row'[job[s].bet].status = "BOMB"
         /\ ~job[s].bomb => row'[job[s].bet] = row[job[s].bet]
<1> DEFINE b == job[s].bet
           bomb == [status |-> "BOMB", amount |-> 0]
<1>1. /\ job[s].at = "commit" /\ Seen(b, job[s].new) \in Fields
      /\ shots' = [shots EXCEPT ![b] = Seen(b, job[s].new)]
      /\ row' = IF job[s].bomb THEN [row EXCEPT ![b] = bomb] ELSE row
      /\ moved' = IF ~job[s].held /\ b \in asked THEN moved \cup {b} ELSE moved
      /\ Over(s)
      /\ UNCHANGED <<payouts, wallet, flight, timeouts, last, task, hand, byHand,
                     record, key, pool, asked, lapses, restarts, strayed>>
  BY DEF PlayCommit
<1>2. JobOK(job[s]) /\ job[s] \in Job /\ MinesTypeOK /\ PayInv
  BY DEF MinesTypes, MinesTypeOK, JobsOK
<1>3. b \in Bets /\ job[s].op = "play"
  BY <1>1, <1>2 DEF JobOK, PayingAt, BettingAt, Job
<1>4. /\ job' \in [Threads -> Job] /\ JobsOK' /\ job'[s] = NoJob /\ Others(s)
      /\ lock' \in Threads \cup {NoThread}
      /\ lock' = IF lock = s THEN NoThread ELSE lock
  BY <1>1, JobEnds
<1>5. bomb \in BetRow /\ bomb.status = "BOMB"
  BY DEF BetRow, Status, Amount
<1>6. row \in [Bets -> BetRow] /\ shots \in [Bets -> Fields]
  BY <1>2 DEF PayInv, PayTypeOK, MinesTypeOK
<1>7. /\ row' \in [Bets -> BetRow]
      /\ \A c \in Bets : c # b => row'[c] = row[c]
      /\ job[s].bomb => row'[b] = bomb
      /\ ~job[s].bomb => row'[b] = row[b]
  BY <1>1, <1>3, <1>5, <1>6
<1>8. /\ shots' \in [Bets -> Fields]
      /\ \A c \in Bets : c # b => shots'[c] = shots[c]
      /\ shots'[b] = Seen(b, job[s].new)
  BY <1>1, <1>3, <1>6
<1>9. DoneMeansPaid'
  BY <1>1, <1>2, <1>5, <1>7 DEF PayInv, DoneMeansPaid, Applied
<1>10. PayInv'
  BY <1>1, <1>2, <1>7, <1>9, RowsWritten DEF PayInv, PayTypeOK
<1>11. MinesTypeOK'
  BY <1>1, <1>2, <1>3, <1>4, <1>8 DEF MinesTypeOK
<1> QED
  BY <1>1, <1>3, <1>4, <1>5, <1>7, <1>8, <1>10, <1>11 DEF MinesTypes

LEMMA PlayRollbackDoes ==
  ASSUME MinesTypes, NEW s \in Threads, PlayRollback(s)
  PROVE  /\ MinesTypes' /\ wallet' = wallet /\ job'[s] = NoJob /\ Others(s)
         /\ lock' = IF lock = s THEN NoThread ELSE lock
         /\ job[s].op = "play" /\ job[s].bet \in Bets
<1>1. /\ job[s].at = "commit" /\ Over(s) /\ strayed' = (strayed \/ job[s].bomb)
      /\ moved' = IF job[s].bet \in asked THEN moved \cup {job[s].bet} ELSE moved
      /\ UNCHANGED <<payVars, record, shots, key, pool, asked, lapses, restarts>>
  BY DEF PlayRollback
<1>2. PayInv' /\ wallet' = wallet
  BY <1>1, PayFrame DEF MinesTypes, payVars
<1>3. /\ job' \in [Threads -> Job] /\ JobsOK' /\ job'[s] = NoJob /\ Others(s)
      /\ lock' \in Threads \cup {NoThread}
      /\ lock' = IF lock = s THEN NoThread ELSE lock
  BY <1>1, <1>2, JobEnds
<1>4. JobOK(job[s]) /\ job[s] \in Job /\ MinesTypeOK
  BY DEF MinesTypes, MinesTypeOK, JobsOK
<1>5. job[s].op = "play" /\ job[s].bet \in Bets
  BY <1>1, <1>4 DEF JobOK, PayingAt, BettingAt, Job
<1>6. strayed' \in BOOLEAN
  BY <1>1
<1>7. MinesTypeOK'
  BY <1>1, <1>3, <1>4, <1>5, <1>6 DEF MinesTypeOK
<1> QED
  BY <1>2, <1>3, <1>5, <1>7 DEF MinesTypes

LEMMA WithdrawDoes ==
  ASSUME MinesTypes, NEW s \in Threads, NEW b \in Bets, Withdraw(s, b)
  PROVE  /\ MinesTypes' /\ wallet' = wallet /\ Others(s)
         /\ job[s] = NoJob /\ lock = NoThread /\ lock' = s
         /\ row[b].status \in {"BET_DONE", "WT_FAILED"} /\ shots[b] # NoFields
         /\ job'[s].at = "pay" /\ job'[s].op = "withdraw" /\ job'[s].bet = b
         /\ ~job'[s].bomb /\ job'[s].held
         /\ ~shots[b].mine => job'[s].copy.amount = Prize[shots[b].diamonds]
<1> DEFINE copy == IF ~shots[b].mine
                   THEN [row[b] EXCEPT !.amount = Prize[shots[b].diamonds]]
                   ELSE row[b]
<1>1. /\ LockFree(s) /\ row[b].status \in {"BET_DONE", "WT_FAILED"} /\ shots[b] # NoFields
      /\ job' = [job EXCEPT ![s] =
                  [NoJob EXCEPT !.at = "pay", !.op = "withdraw", !.bet = b,
                                !.held = TRUE, !.copy = copy]]
      /\ lock' = s
      /\ UNCHANGED <<payVars, record, shots, key, pool, asked, lapses, restarts, moved,
                     strayed>>
  BY DEF Withdraw
<1>2. /\ shots[b] \in Fields /\ row[b] \in BetRow
      /\ ~shots[b].mine /\ shots[b].diamonds = 0 => shots[b] = NoFields
  BY DEF MinesTypes, MinesTypeOK, PayInv, PayTypeOK, Fields, NoFields
<1>3. copy \in BetRow /\ (~shots[b].mine => copy.amount = Prize[shots[b].diamonds])
  <2>1. CASE ~shots[b].mine
    <3>1. shots[b].diamonds \in 1 .. MaxHits
      BY <1>1, <1>2, <2>1 DEF Fields
    <3>2. Prize[shots[b].diamonds] \in Amount
      BY <3>1
    <3> QED
      BY <1>2, <2>1, <3>2, AmountType
  <2>2. CASE shots[b].mine
    BY <1>2, <2>2
  <2> QED
    BY <2>1, <2>2
<1> HIDE DEF copy
<1>4. PICK j \in Job : /\ j = [NoJob EXCEPT !.at = "pay", !.op = "withdraw", !.bet = b,
                                            !.held = TRUE, !.copy = copy]
                       /\ j.at = "pay" /\ j.op = "withdraw" /\ j.bet = b /\ j.copy = copy
                       /\ j.bomb = FALSE /\ j.held
  BY <1>3, JobWithdraws
<1>5. job' = [job EXCEPT ![s] = j]
  BY <1>1, <1>4
<1>6. PayInv' /\ wallet' = wallet
  BY <1>1, PayFrame DEF MinesTypes, payVars
<1>7. JobOK(j)'
  BY <1>4 DEF JobOK, PayingAt
<1>8. job' \in [Threads -> Job] /\ JobsOK' /\ job'[s] = j /\ Others(s)
  BY <1>5, <1>6, <1>7, OneJob DEF MinesTypes, Others
<1>9. MinesTypeOK'
  BY <1>1, <1>8 DEF MinesTypes, MinesTypeOK
<1>10. job[s] = NoJob /\ lock = NoThread
  BY <1>1 DEF LockFree, MinesTypes, JobsOK, JobOK
<1>11. MinesTypes'
  BY <1>6, <1>8, <1>9 DEF MinesTypes
<1>12. /\ job'[s].at = "pay" /\ job'[s].op = "withdraw" /\ job'[s].bet = b
       /\ ~job'[s].bomb /\ job'[s].held
       /\ ~shots[b].mine => job'[s].copy.amount = Prize[shots[b].diamonds]
  BY <1>3, <1>4, <1>8
<1> QED
  BY <1>1, <1>6, <1>8, <1>10, <1>11, <1>12

LEMMA PayoutCallDoes ==
  ASSUME MinesTypes, NEW s \in Threads, PayoutCall(s)
  PROVE  /\ MinesTypes' /\ wallet \subseteq wallet' /\ Others(s)
         /\ job[s].at = "pay" /\ job[s].op # "bet" /\ job[s].bet \in Bets
         /\ asked' = asked \cup {job[s].bet}
         /\ lock' = IF job[s].op = "play" THEN s ELSE lock
         /\ job[s].op = "play" => lock \in {s, NoThread}
         /\ job[s].copy.amount \in Amount
         /\ \E ok \in BOOLEAN : /\ Call(job[s].bet, "WD", job[s].copy.amount, ok)
                                /\ Moved(s, IF ok THEN "payout" ELSE "failed")
<1> DEFINE b == job[s].bet
<1>1. /\ job[s].at = "pay" /\ (job[s].op = "play" => lock \in {s, NoThread})
      /\ lock' = IF job[s].op = "play" THEN s ELSE lock
      /\ asked' = asked \cup {b}
      /\ UNCHANGED <<row, payouts, task, hand, byHand, record, shots, key, pool,
                     lapses, restarts, moved, strayed>>
  BY DEF PayoutCall
<1>2. PICK ok \in BOOLEAN :
        /\ Call(b, "WD", job[s].copy.amount, ok)
        /\ job' = [job EXCEPT ![s].at = IF ok THEN "payout" ELSE "failed"]
  BY DEF PayoutCall
<1>3. PICK a \in {"payout", "failed"} : a = IF ok THEN "payout" ELSE "failed"
  OBVIOUS
<1>4. JobOK(job[s]) /\ job[s] \in Job /\ MinesTypeOK
  BY DEF MinesTypes, MinesTypeOK, JobsOK
<1>5. b \in Bets /\ job[s].op # "bet" /\ job[s].copy.amount \in Amount
  BY <1>1, <1>4 DEF JobOK, BettingAt, Job, BetRow
<1>6. "WD" \in Op
  BY DEF Op
<1>7. UNCHANGED <<row, payouts, task, hand, byHand>>
  BY <1>1
<1>8. PayInv' /\ wallet \subseteq wallet' /\ (ok => Applied(b, "WD")')
  BY <1>2, <1>5, <1>6, <1>7, GameCall DEF MinesTypes
<1>9. a = "payout" => \E m \in wallet' : m.bet = b /\ m.op = "WD"
  BY <1>2, <1>3 DEF Call, CarryOut, Applied
<1>10. a \in JobAt \ {"idle", "bomb"} /\ a \in PayingAt /\ a # "record"
       /\ job[s].at \in PayingAt
  BY <1>1 DEF JobAt, PayingAt
<1>11. job' \in [Threads -> Job] /\ JobsOK' /\ Moved(s, a) /\ Others(s)
  BY <1>1, <1>2, <1>3, <1>5, <1>8, <1>9, <1>10, LabelMoves
<1>12. MinesTypeOK'
  BY <1>1, <1>4, <1>5, <1>11 DEF MinesTypeOK
<1>13. MinesTypes'
  BY <1>8, <1>11, <1>12 DEF MinesTypes
<1>14. Moved(s, IF ok THEN "payout" ELSE "failed")
  BY <1>3, <1>11
<1> QED
  BY <1>1, <1>2, <1>5, <1>8, <1>11, <1>13, <1>14

LEMMA PayoutRefusedDoes ==
  ASSUME MinesTypes, NEW s \in Threads, PayoutRefused(s)
  PROVE  /\ MinesTypes' /\ wallet' = wallet /\ Moved(s, "commit") /\ Others(s)
         /\ job[s].at = "pay" /\ job[s].op = "play" /\ job[s].bet \in Bets
<1>1. /\ job[s].at = "pay" /\ job[s].op = "play"
      /\ job' = [job EXCEPT ![s].at = "commit"]
      /\ UNCHANGED <<payVars, record, shots, key, pool, lock, asked, lapses, restarts,
                     moved, strayed>>
  BY DEF PayoutRefused
<1>2. JobOK(job[s]) /\ MinesTypeOK
  BY DEF MinesTypes, JobsOK
<1>3. PayInv' /\ wallet' = wallet /\ job[s].bet \in Bets
  BY <1>1, <1>2, PayFrame DEF MinesTypes, payVars, JobOK
<1>4. "commit" \in JobAt \ {"idle", "bomb"} /\ "commit" \notin PayingAt
  BY DEF JobAt, PayingAt
<1>5. job' \in [Threads -> Job] /\ JobsOK' /\ Moved(s, "commit") /\ Others(s)
  BY <1>1, <1>3, <1>4, LabelMoves
<1>6. MinesTypeOK'
  BY <1>1, <1>2, <1>5 DEF MinesTypeOK
<1> QED
  BY <1>1, <1>3, <1>5, <1>6 DEF MinesTypes

LEMMA PayoutSubmitDoes ==
  ASSUME MinesTypes, NEW s \in Threads, PayoutSubmit(s)
  PROVE  /\ MinesTypes' /\ wallet' = wallet /\ Moved(s, "record") /\ Others(s)
         /\ job[s].at = "payout" /\ job[s].op # "bet" /\ job[s].bet \in Bets
         /\ \A t \in KeyTask : pool'[t] = IF t.op = "delete" /\ t.bet = job[s].bet
                                          THEN pool[t] + 1 ELSE pool[t]
<1>1. /\ job[s].at = "payout" /\ Submit("delete", job[s].bet)
      /\ job' = [job EXCEPT ![s].at = "record"]
      /\ UNCHANGED <<payVars, record, shots, key, lock, asked, lapses, restarts, moved,
                     strayed>>
  BY DEF PayoutSubmit
<1>2. JobOK(job[s]) /\ MinesTypeOK
  BY DEF MinesTypes, JobsOK
<1>3. job[s].bet \in Bets /\ job[s].op # "bet" /\ Applied(job[s].bet, "WD")
  BY <1>1, <1>2 DEF JobOK, BettingAt
<1>4. PayInv' /\ wallet' = wallet
  BY <1>1, PayFrame DEF MinesTypes, payVars
<1>5. /\ "record" \in JobAt \ {"idle", "bomb"} /\ "record" \in PayingAt
      /\ job[s].at \in PayingAt
      /\ \E m \in wallet' : m.bet = job[s].bet /\ m.op = "WD"
  BY <1>1, <1>3, <1>4 DEF JobAt, PayingAt, Applied
<1>6. job' \in [Threads -> Job] /\ JobsOK' /\ Moved(s, "record") /\ Others(s)
  BY <1>1, <1>3, <1>4, <1>5, LabelMoves
<1>7. /\ pool' \in [KeyTask -> 0 .. MaxPool]
      /\ \A t \in KeyTask : pool'[t] = IF t.op = "delete" /\ t.bet = job[s].bet
                                       THEN pool[t] + 1 ELSE pool[t]
  BY <1>1, <1>2, <1>3, Submits
<1>8. MinesTypeOK'
  BY <1>1, <1>2, <1>6, <1>7 DEF MinesTypeOK
<1> QED
  BY <1>1, <1>3, <1>4, <1>6, <1>7, <1>8 DEF MinesTypes

LEMMA PayoutCommitDoes ==
  ASSUME MinesTypes, NEW s \in Threads, PayoutCommit(s)
  PROVE  /\ MinesTypes' /\ wallet' = wallet /\ Others(s)
         /\ job[s].at \in {"record", "failed"} /\ job[s].op # "bet" /\ job[s].bet \in Bets
         /\ \A c \in Bets : c # job[s].bet => row'[c] = row[c] /\ payouts'[c] = payouts[c]
         /\ row'[job[s].bet].amount = job[s].copy.amount
         /\ row'[job[s].bet].status = IF job[s].at = "record" THEN "WT_DONE"
                                                              ELSE "WT_FAILED"
         /\ payouts'[job[s].bet] = IF job[s].at = "record" THEN OneMore(payouts[job[s].bet])
                                                           ELSE payouts[job[s].bet]
         /\ job[s].op = "play" => /\ Moved(s, "commit")
                                  /\ lock' = IF lock = s /\ ~job[s].held
                                             THEN NoThread ELSE lock
         /\ job[s].op # "play" => /\ job[s].op = "withdraw" /\ job'[s] = NoJob
                                  /\ lock' = IF lock = s THEN NoThread ELSE lock
<1> DEFINE b == job[s].bet
           status == IF job[s].at = "record" THEN "WT_DONE" ELSE "WT_FAILED"
           new == [job[s].copy EXCEPT !.status = status]
<1>1. /\ job[s].at \in {"record", "failed"}
      /\ row' = [row EXCEPT ![b] = new]
      /\ payouts' = IF job[s].at = "record" THEN [payouts EXCEPT ![b] = OneMore(payouts[b])]
                                            ELSE payouts
      /\ AfterPayout(s)
      /\ UNCHANGED <<wallet, flight, timeouts, last, task, hand, byHand, record,
                     shots, key, pool, asked, lapses, restarts, moved, strayed>>
  BY DEF PayoutCommit
<1>2. JobOK(job[s]) /\ job[s] \in Job /\ MinesTypeOK /\ PayInv
  BY DEF MinesTypes, MinesTypeOK, JobsOK
<1>3. b \in Bets /\ job[s].op # "bet" /\ job[s].copy \in BetRow
  BY <1>1, <1>2 DEF JobOK, BettingAt, Job
<1>4. /\ job' \in [Threads -> Job] /\ JobsOK' /\ Others(s)
      /\ lock' \in Threads \cup {NoThread}
      /\ job[s].op = "play" => /\ Moved(s, "commit")
                               /\ lock' = IF lock = s /\ ~job[s].held
                                          THEN NoThread ELSE lock
      /\ job[s].op # "play" => /\ job[s].op = "withdraw" /\ job'[s] = NoJob
                               /\ lock' = IF lock = s THEN NoThread ELSE lock
  BY <1>1, PayoutEnds
<1>5. status \in Status
  BY DEF Status
<1>6. new \in BetRow /\ new.status = status /\ new.amount = job[s].copy.amount
  <2> HIDE DEF status
  <2> QED
    BY <1>3, <1>5 DEF BetRow
<1>7. row \in [Bets -> BetRow] /\ payouts \in [Bets -> 0 .. 2]
  BY <1>2 DEF PayInv, PayTypeOK
<1>8. /\ row' \in [Bets -> BetRow] /\ row'[b] = new
      /\ \A c \in Bets : c # b => row'[c] = row[c]
  <2> HIDE DEF new
  <2> QED
    BY <1>1, <1>3, <1>6, <1>7
<1>9. /\ payouts' \in [Bets -> 0 .. 2]
      /\ \A c \in Bets : c # b => payouts'[c] = payouts[c]
      /\ payouts'[b] = IF job[s].at = "record" THEN OneMore(payouts[b]) ELSE payouts[b]
  BY <1>1, <1>3, <1>7 DEF OneMore
<1>10. DoneMeansPaid'
  <2> SUFFICES ASSUME NEW c \in Bets
               PROVE  /\ row'[c].status = "WT_DONE" => Applied(c, "WD")'
                      /\ row'[c].status \in {"CANCEL", "REFUND"} => Applied(c, "REFUND")'
    BY DEF DoneMeansPaid
  <2>1. CASE c = b
    <3>1. job[s].at = "record" => Applied(b, "WD")
      BY <1>2 DEF JobOK
    <3> QED
      BY <1>1, <1>6, <1>8, <2>1, <3>1 DEF Applied
  <2>2. CASE c # b
    BY <1>1, <1>2, <1>8, <2>2 DEF PayInv, DoneMeansPaid, Applied
  <2> QED
    BY <2>1, <2>2
<1>11. PayInv'
  BY <1>1, <1>2, <1>8, <1>9, <1>10, RowsWritten
<1>12. MinesTypeOK'
  BY <1>1, <1>2, <1>4 DEF MinesTypeOK
<1>13. MinesTypes'
  BY <1>4, <1>11, <1>12 DEF MinesTypes
<1> HIDE DEF new
<1> QED
  BY <1>1, <1>3, <1>4, <1>6, <1>8, <1>9, <1>13

LEMMA PayoutRollbackDoes ==
  ASSUME MinesTypes, NEW s \in Threads, PayoutRollback(s)
  PROVE  /\ MinesTypes' /\ wallet' = wallet /\ Others(s)
         /\ job[s].at \in {"payout", "record", "failed"}
         /\ job[s].op # "bet" /\ job[s].bet \in Bets
         /\ job[s].op = "play" => /\ Moved(s, "commit")
                                  /\ lock' = IF lock = s /\ ~job[s].held
                                             THEN NoThread ELSE lock
         /\ job[s].op # "play" => /\ job[s].op = "withdraw" /\ job'[s] = NoJob
                                  /\ lock' = IF lock = s THEN NoThread ELSE lock
<1>1. /\ job[s].at \in {"payout", "record", "failed"} /\ AfterPayout(s)
      /\ strayed' = (strayed \/ job[s].at = "record")
      /\ moved' = IF job[s].at = "failed" THEN moved \cup {job[s].bet} ELSE moved
      /\ UNCHANGED <<payVars, record, shots, key, pool, asked, lapses, restarts>>
  BY DEF PayoutRollback
<1>2. JobOK(job[s]) /\ MinesTypeOK
  BY DEF MinesTypes, JobsOK
<1>3. job[s].bet \in Bets /\ job[s].op # "bet" /\ strayed' \in BOOLEAN
  BY <1>1, <1>2 DEF JobOK, BettingAt
<1>4. PayInv' /\ wallet' = wallet
  BY <1>1, PayFrame DEF MinesTypes, payVars
<1>5. /\ job' \in [Threads -> Job] /\ JobsOK' /\ Others(s)
      /\ lock' \in Threads \cup {NoThread}
      /\ job[s].op = "play" => /\ Moved(s, "commit")
                               /\ lock' = IF lock = s /\ ~job[s].held
                                          THEN NoThread ELSE lock
      /\ job[s].op # "play" => /\ job[s].op = "withdraw" /\ job'[s] = NoJob
                               /\ lock' = IF lock = s THEN NoThread ELSE lock
  BY <1>1, <1>4, PayoutEnds
<1>6. MinesTypeOK'
  BY <1>1, <1>2, <1>3, <1>5 DEF MinesTypeOK
<1> QED
  BY <1>1, <1>3, <1>4, <1>5, <1>6 DEF MinesTypes

LEMMA LockLapsesDoes ==
  ASSUME MinesTypes, NEW s \in Threads, LockLapses(s)
  PROVE  /\ MinesTypes' /\ wallet' = wallet /\ Others(s)
         /\ lapses' = lapses + 1 /\ lapses \in Nat
         /\ job'[s].at = job[s].at /\ job'[s].op = job[s].op /\ job'[s].bet = job[s].bet
         /\ job'[s].copy = job[s].copy /\ job'[s].new = job[s].new
         /\ job'[s].bomb = job[s].bomb
<1>1. /\ lapses < MaxLapses /\ lapses' = lapses + 1 /\ lock' = NoThread /\ lock = s
      /\ job' = [job EXCEPT ![s].held = FALSE]
      /\ UNCHANGED <<payVars, record, shots, key, pool, asked, restarts, moved, strayed>>
  BY DEF LockLapses
<1>2. /\ JobOK(job[s]) /\ MinesTypeOK /\ job \in [Threads -> Job] /\ job[s] \in Job
      /\ lapses \in 0 .. MaxLapses
  BY DEF MinesTypes, JobsOK, MinesTypeOK
<1>3. PayInv' /\ wallet' = wallet
  BY <1>1, PayFrame DEF MinesTypes, payVars
<1>4. PICK j \in Job : j = [job[s] EXCEPT !.held = FALSE]
  BY <1>2, JobLapses
<1>5. /\ j.at = job[s].at /\ j.op = job[s].op /\ j.bet = job[s].bet
      /\ j.copy = job[s].copy /\ j.new = job[s].new /\ j.bomb = job[s].bomb
  BY <1>2, <1>4, JobLapses
<1>6. job' = [job EXCEPT ![s] = j]
  BY <1>1, <1>2, <1>4
<1>7. JobOK(j)'
  <2>1. CASE j.at = "idle"
    <3>1. job[s] = NoJob
      BY <1>2, <1>5, <2>1 DEF JobOK
    <3>2. j = NoJob
      <4>1. ~NoJob.held /\ ~j.held
        BY <1>2, <1>4, JobLapses DEF NoJob
      <4> QED
        BY <1>2, <1>5, <3>1, <4>1 DEF Job
    <3> QED
      BY <1>2, <1>5, <2>1, <3>2 DEF JobOK, PayingAt
  <2>2. CASE j.at # "idle"
    <3>1. j.at \in {"payout", "record"} => Applied(j.bet, "WD")'
      BY <1>2, <1>3, <1>5 DEF JobOK, Applied
    <3> QED
      BY <1>2, <1>5, <2>2, <3>1 DEF JobOK
  <2> QED
    BY <2>1, <2>2
<1>8. job' \in [Threads -> Job] /\ JobsOK' /\ job'[s] = j /\ Others(s)
  BY <1>2, <1>3, <1>6, <1>7, OneJob DEF MinesTypes, Others
<1>9. MinesTypeOK'
  <2>1. lapses' \in 0 .. MaxLapses
    BY <1>1, <1>2
  <2> QED
    BY <1>1, <1>2, <1>8, <2>1 DEF MinesTypeOK
<1> QED
  BY <1>1, <1>2, <1>3, <1>5, <1>8, <1>9 DEF MinesTypes

LEMMA KeyUpdateDoes ==
  ASSUME MinesTypes, NEW t \in KeyTask, KeyUpdate(t)
  PROVE  /\ MinesTypes' /\ wallet' = wallet /\ pool[t] > 0
         /\ \A u \in KeyTask : pool'[u] = IF u = t THEN pool[u] - 1 ELSE pool[u]
         /\ key' = IF t.op = "set" THEN t.bet ELSE NoBet
<1>1. /\ pool[t] > 0 /\ pool' = [pool EXCEPT ![t] = pool[t] - 1]
      /\ key' = IF t.op = "set" THEN t.bet ELSE NoBet
      /\ UNCHANGED <<payVars, record, shots, lock, job, asked, lapses, restarts, moved,
                     strayed>>
  BY DEF KeyUpdate
<1>2. pool \in [KeyTask -> 0 .. MaxPool] /\ t.bet \in Bets
  BY DEF MinesTypes, MinesTypeOK, KeyTask
<1>3. PayInv' /\ wallet' = wallet
  BY <1>1, PayFrame DEF MinesTypes, payVars
<1>4. pool[t] - 1 \in 0 .. MaxPool
  BY <1>1, <1>2
<1>5. /\ pool' \in [KeyTask -> 0 .. MaxPool]
      /\ \A u \in KeyTask : pool'[u] = IF u = t THEN pool[u] - 1 ELSE pool[u]
  BY <1>1, <1>2, <1>4
<1>6. JobsOK'
  BY <1>1, <1>3, JobsFrame DEF MinesTypes
<1>7. MinesTypeOK'
  BY <1>1, <1>2, <1>5 DEF MinesTypes, MinesTypeOK
<1> QED
  BY <1>1, <1>3, <1>5, <1>6, <1>7 DEF MinesTypes

LEMMA ManualWriteDoes ==
  ASSUME MinesTypes, NEW h \in Hands, MinesManualWrite(h)
  PROVE  /\ MinesTypes' /\ wallet' = wallet
         /\ hand[h].at = "write" /\ hand[h].bet \in Bets /\ hand[h].op \in {"WD", "REFUND"}
         /\ hand'[h].at = "done" /\ hand'[h].op = hand[h].op /\ hand'[h].bet = hand[h].bet
         /\ \A k \in Hands \ {h} : hand'[k] = hand[k]
         /\ \A c \in Bets : c # hand[h].bet => row'[c] = row[c]
         /\ row'[hand[h].bet].amount = hand[h].copy.amount
         /\ row'[hand[h].bet].status = IF hand[h].op = "WD" THEN "WT_DONE" ELSE "REFUND"
         /\ hand[h].op # "WD" => pool' = pool
         /\ hand[h].op = "WD" => \A t \in KeyTask : pool'[t] =
                                   IF t.op = "delete" /\ t.bet = hand[h].bet
                                   THEN pool[t] + 1 ELSE pool[t]
<1> DEFINE b == hand[h].bet
           status == IF hand[h].op = "WD" THEN "WT_DONE" ELSE "REFUND"
           new == [hand[h].copy EXCEPT !.status = status]
<1>1. /\ hand[h].at = "write" /\ row' = [row EXCEPT ![b] = new]
      /\ hand' = [hand EXCEPT ![h].at = "done"]
      /\ UNCHANGED <<payouts, wallet, flight, timeouts, last, task, byHand>>
  BY DEF MinesManualWrite, ManualWrite
<1>2. /\ strayed' \in BOOLEAN
      /\ UNCHANGED <<record, shots, key, lock, job, asked, lapses, restarts, moved>>
      /\ hand[h].op = "WD" => Submit("delete", b)
      /\ hand[h].op # "WD" => pool' = pool
  BY DEF MinesManualWrite
<1>3. PayInv' /\ wallet' = wallet
  BY <1>1, ManualWriteStep DEF MinesManualWrite, MinesTypes
<1>4. /\ hand \in [Hands -> HandRow] /\ row \in [Bets -> BetRow] /\ b \in Bets
      /\ MinesTypeOK /\ pool \in [KeyTask -> 0 .. MaxPool]
  BY <1>1 DEF MinesTypes, MinesTypeOK, PayInv, PayTypeOK, HandHolds, HandRow
<1>5. /\ hand'[h].at = "done" /\ hand'[h].op = hand[h].op /\ hand'[h].bet = hand[h].bet
      /\ \A k \in Hands \ {h} : hand'[k] = hand[k]
  BY <1>1, <1>4 DEF HandRow
<1>6. new.status = status /\ new.amount = hand[h].copy.amount /\ hand[h].op \in {"WD", "REFUND"}
  BY <1>4 DEF HandRow, BetRow
<1>7. row'[b] = new /\ \A c \in Bets : c # b => row'[c] = row[c]
  BY <1>1, <1>4
<1>8. /\ pool' \in [KeyTask -> 0 .. MaxPool]
      /\ hand[h].op = "WD" => \A t \in KeyTask : pool'[t] =
                                IF t.op = "delete" /\ t.bet = b THEN pool[t] + 1 ELSE pool[t]
  BY <1>2, <1>4, Submits
<1>9. JobsOK'
  BY <1>2, <1>3, JobsFrame DEF MinesTypes
<1>10. MinesTypeOK'
  BY <1>2, <1>4, <1>8 DEF MinesTypeOK
<1>11. MinesTypes'
  BY <1>3, <1>9, <1>10 DEF MinesTypes
<1> HIDE DEF new
<1> QED
  BY <1>1, <1>2, <1>3, <1>4, <1>5, <1>6, <1>7, <1>8, <1>11

LEMMA RestartDoes ==
  ASSUME MinesTypes, Restart
  PROVE  MinesTypes' /\ wallet' = wallet /\ \A s \in Threads : job'[s] = NoJob
<1>1. /\ restarts < MaxRestart /\ restarts' = restarts + 1
      /\ moved' = moved \cup {b \in asked : \E s \in Threads : job[s].bet = b}
      /\ strayed' = TRUE /\ job' = [s \in Threads |-> NoJob] /\ lock' = NoThread
      /\ pool' = [t \in KeyTask |-> 0] /\ task' = NoTask
      /\ UNCHANGED <<row, payouts, wallet, flight, timeouts, last, hand, byHand>>
      /\ UNCHANGED <<record, shots, key, asked, lapses>>
  BY DEF Restart
<1>2. PayInv'
  <2>1. NoTask \in [at : TaskAt, todo : SUBSET TimeoutId, cur : 0 .. MaxTimeouts,
                    copy : BetRow]
    BY JobNone DEF NoTask, TaskAt
  <2>2. PayTypeOK'
    BY <1>1, <2>1 DEF MinesTypes, PayInv, PayTypeOK
  <2>3. TaskHolds'
    BY <1>1 DEF TaskHolds, NoTask
  <2>4. RowsNamed' /\ HandHolds' /\ DoneMeansPaid'
    BY <1>1, Stays DEF MinesTypes, PayInv, RowsNamed, Named, HandHolds, DoneMeansPaid
  <2> QED
    BY <2>2, <2>3, <2>4 DEF PayInv
<1>3. job' \in [Threads -> Job] /\ \A s \in Threads : job'[s] = NoJob
  BY <1>1, JobNone
<1>4. JobsOK'
  BY <1>3 DEF JobsOK, JobOK, NoJob, PayingAt
<1>5. restarts' \in 0 .. MaxRestart /\ pool' \in [KeyTask -> 0 .. MaxPool]
  BY <1>1 DEF MinesTypes, MinesTypeOK
<1>6. MinesTypeOK'
  BY <1>1, <1>3, <1>5 DEF MinesTypes, MinesTypeOK
<1> QED
  BY <1>1, <1>2, <1>3, <1>4, <1>6 DEF MinesTypes

(***************************************************************************)
(* Every step keeps the types.                                             *)
(***************************************************************************)

LEMMA MinesStart == Init => MinesTypes
<1> SUFFICES ASSUME Init PROVE MinesTypes
  OBVIOUS
<1>1. PayInv
  BY PayStart DEF Init
<1>2. MinesTypeOK
  <2>1. /\ shots \in [Bets -> Fields] /\ job \in [Threads -> Job]
        /\ pool \in [KeyTask -> 0 .. MaxPool]
    BY JobNone DEF Init
  <2>2. /\ record \subseteq Bets /\ asked \subseteq Bets /\ moved \subseteq Bets
        /\ key = NoBet /\ lock = NoThread /\ strayed = FALSE
        /\ lapses \in 0 .. MaxLapses /\ restarts \in 0 .. MaxRestart
    BY DEF Init
  <2> QED
    BY <2>1, <2>2 DEF MinesTypeOK
<1>3. JobsOK
  BY DEF Init, JobsOK, JobOK, NoJob, PayingAt
<1> QED
  BY <1>1, <1>2, <1>3 DEF MinesTypes

\* A step of the payment side, but for a payout or a refund that is written by hand.
LEMMA PayStepDoes ==
  ASSUME MinesTypes,
         (PayNext /\ UNCHANGED minesVars) \/ (\E i \in TimeoutId : AgeAfterRequest(i))
  PROVE  MinesTypes' /\ wallet \subseteq wallet' /\ UNCHANGED minesVars
<1>1. CASE PayNext /\ UNCHANGED minesVars
  <2>1. PayInv' /\ wallet \subseteq wallet'
    BY <1>1, PayNextKeeps, BookStands DEF MinesTypes
  <2> QED
    BY <1>1, <2>1, PaySide
<1>2. ASSUME NEW i \in TimeoutId, AgeAfterRequest(i)
      PROVE  MinesTypes' /\ wallet \subseteq wallet' /\ UNCHANGED minesVars
  <2>1. Age(i) /\ UNCHANGED minesVars
    BY <1>2 DEF AgeAfterRequest
  <2>2. PayInv' /\ wallet \subseteq wallet'
    BY <2>1, AgeStep DEF MinesTypes, Age
  <2> QED
    BY <2>1, <2>2, PaySide
<1> QED
  BY <1>1, <1>2

LEMMA MinesTypesKept == MinesTypes /\ [Next]_vars => MinesTypes'
<1> SUFFICES ASSUME MinesTypes, [Next]_vars
             PROVE  MinesTypes'
  OBVIOUS
<1>1. CASE UNCHANGED vars
  <2>1. UNCHANGED minesVars /\ UNCHANGED payVars
    BY <1>1 DEF vars
  <2>2. PayInv' /\ wallet \subseteq wallet'
    BY <2>1, PayFrame DEF MinesTypes, payVars
  <2> QED
    BY <2>1, <2>2, PaySide
<1>2. CASE (PayNext /\ UNCHANGED minesVars) \/ (\E i \in TimeoutId : AgeAfterRequest(i))
  BY <1>2, PayStepDoes
<1>3. CASE (\E h \in Hands : MinesManualWrite(h)) \/ (\E t \in KeyTask : KeyUpdate(t))
  BY <1>3, ManualWriteDoes, KeyUpdateDoes
<1>4. ASSUME NEW s \in Threads, NEW b \in Bets, BetCall(s, b) \/ Play(s, b) \/ Withdraw(s, b)
      PROVE  MinesTypes'
  BY <1>4, BetCallDoes, PlayDoes, WithdrawDoes
<1>5. ASSUME NEW s \in Threads,
             \/ BetSet(s) \/ BetCommit(s) \/ BetRollback(s)
             \/ PlayBomb(s) \/ PlayCommit(s) \/ PlayRollback(s)
      PROVE  MinesTypes'
  BY <1>5, BetSetDoes, BetCommitDoes, BetRollbackDoes, PlayBombDoes, PlayCommitDoes,
     PlayRollbackDoes
<1>6. ASSUME NEW s \in Threads,
             \/ PayoutCall(s) \/ PayoutRefused(s) \/ PayoutSubmit(s)
             \/ PayoutCommit(s) \/ PayoutRollback(s)
             \/ LockLapses(s)
      PROVE  MinesTypes'
  BY <1>6, PayoutCallDoes, PayoutRefusedDoes, PayoutSubmitDoes, PayoutCommitDoes,
     PayoutRollbackDoes, LockLapsesDoes
<1>7. CASE Restart
  BY <1>7, RestartDoes
<1> QED
  BY <1>1, <1>2, <1>3, <1>4, <1>5, <1>6, <1>7 DEF Next

LEMMA MinesTypesHold == Spec => []MinesTypes
  BY MinesStart, MinesTypesKept, PTL DEF Spec

\* Every variable of the mines game keeps its type.
THEOREM MinesTypesAreKept == Spec => []TypeOK
<1>1. MinesTypes => TypeOK
  BY DEF MinesTypes, PayInv, MinesTypeOK, TypeOK
<1> QED
  BY <1>1, MinesTypesHold, PTL

\* No game of mines is WT_DONE unless the merchant paid it, and none is CANCEL or
\* REFUND unless it returned the stake, whoever wrote so: the player's withdraw, the
\* one in an automatic play, the timeout task or the operator.
THEOREM MinesDoneIsPaid == Spec => []DoneMeansPaid
<1>1. MinesTypes => DoneMeansPaid
  BY DEF MinesTypes, PayInv
<1> QED
  BY <1>1, MinesTypesHold, PTL

(***************************************************************************)
(* A stake is refunded or paid out.  A bet is in play from the commit that *)
(* hides its mines; from then on the timeout task only repeats payouts of  *)
(* it, before that it only refunds it.                                     *)
(***************************************************************************)

InPlay == {"BET_DONE", "WT_DONE", "WT_FAILED", "BOMB", "REFUND"}
OutOfPlay == {"NONE", "BET_FAILED", "CANCEL"}

\* What the bet table says of a bet in play and of one that is not.
RecordHolds ==
  \A b \in Bets :
    /\ b \in record => row[b].status \in InPlay
    /\ b \notin record => row[b].status \in OutOfPlay
    /\ b \in asked => b \in record
    /\ shots[b] # NoFields => b \in record
    /\ row[b].status \in {"WT_DONE", "WT_FAILED"} => b \in asked
    /\ row[b].status = "REFUND" => b \in byHand

\* A payout was asked for a bet in play, a refund of one that is not, or by hand.
MoneyHolds ==
  /\ \A m \in wallet \cup flight :
       /\ m.op = "WD" => m.bet \in asked
       /\ m.op = "REFUND" => m.bet \notin record \/ m.bet \in byHand
  /\ \A i \in TimeoutId :
       Named(i) => IF timeouts[i].op = "WD" THEN timeouts[i].bet \in asked
                                            ELSE timeouts[i].bet \notin record

\* An order is about a bet in play.
OrderHolds ==
  \A h \in Hands :
    hand[h].at # "idle" =>
      /\ hand[h].bet \in record
      /\ hand[h].op = "WD" => hand[h].bet \in asked
      /\ hand[h].at = "write" /\ hand[h].op = "REFUND" => hand[h].bet \in byHand

\* A bet that is being placed has no row, no refund and no other thread; it has a
\* timeout row only if it was declined.
Placing(s) ==
  /\ row[job[s].bet].status = "NONE"
  /\ \A m \in wallet \cup flight : m.bet = job[s].bet => m.op # "REFUND"
  /\ \A i \in TimeoutId :
       Named(i) /\ timeouts[i].bet = job[s].bet => job[s].at = "declined"
  /\ \A r \in Threads : job[r].bet = job[s].bet => r = s
JobHolds ==
  \A s \in Threads :
    /\ job[s].op # "bet" => job[s].bet \in record
    /\ job[s].at \in {"payout", "failed", "record"} => job[s].bet \in asked
    /\ job[s].at \in BettingAt => Placing(s)

\* The task works on bets that have a row.
TaskLooked == task.at \in {"call", "paid"} => row[timeouts[task.cur].bet].status # "NONE"

StakeInv == RecordHolds /\ MoneyHolds /\ OrderHolds /\ JobHolds /\ TaskLooked

LEMMA StakeStart == Init => StakeInv
<1> SUFFICES ASSUME Init PROVE StakeInv
  OBVIOUS
<1>1. RecordHolds
  BY DEF Init, PayInit, RecordHolds, NoRow, OutOfPlay
<1>2. MoneyHolds
  BY DEF Init, PayInit, MoneyHolds, Named, NoTimeout
<1>3. OrderHolds /\ TaskLooked
  BY DEF Init, PayInit, OrderHolds, NoHand, TaskLooked, NoTask
<1>4. JobHolds
  BY DEF Init, JobHolds, NoJob, BettingAt
<1> QED
  BY <1>1, <1>2, <1>3, <1>4 DEF StakeInv

\* The task, the merchant and the operators.
LEMMA StakePayStep ==
  ASSUME MinesTypes, MinesTypes', StakeInv, PayStep,
         UNCHANGED <<record, shots, asked, job>>
  PROVE  StakeInv'
<1>1. BooksGo /\ RowsGo /\ TaskGoes /\ \A h \in Hands : HandGoes(h)
  BY PayBooks, PayRows, PayTask, PayHands DEF MinesTypes
<1>2. /\ task.at \in {"call", "paid"}
           => /\ task.cur \in TimeoutId /\ Named(task.cur)
              /\ timeouts[task.cur].bet \in Bets
              /\ row[timeouts[task.cur].bet].status # "NONE"
              /\ timeouts[task.cur].op \in {"BET", "WD"}
              /\ IF timeouts[task.cur].op = "WD"
                 THEN timeouts[task.cur].bet \in asked /\ timeouts[task.cur].bet \in record
                 ELSE timeouts[task.cur].bet \notin record
  BY DEF MinesTypes, PayInv, PayTypeOK, TimeoutRow, RowsNamed, TaskHolds, StakeInv,
         TaskLooked, MoneyHolds, RecordHolds
<1>3. \A h \in Hands : hand[h].at # "idle" => hand[h].bet \in Bets /\ hand[h].bet \in record
                                              /\ row[hand[h].bet].status # "NONE"
  BY DEF MinesTypes, PayInv, HandHolds, StakeInv, OrderHolds, RecordHolds, InPlay
<1>4. /\ byHand \subseteq byHand' /\ record' = record /\ asked' = asked
      /\ shots' = shots /\ job' = job
  BY <1>1 DEF BooksGo
<1>5. \A c \in Bets : TaskWrites(c) =>
        IF c \in record THEN c \in asked /\ row'[c].status = "WT_DONE"
                        ELSE row'[c].status = "CANCEL"
  BY <1>2 DEF TaskWrites
<1>6. \A h \in Hands, c \in Bets : HandWrites(h, c) =>
        /\ c \in record
        /\ \/ row'[c].status = "WT_DONE" /\ c \in asked
           \/ row'[c].status = "REFUND" /\ c \in byHand
  BY <1>3 DEF HandWrites, StakeInv, OrderHolds, MinesTypes, PayInv, PayTypeOK
<1>7. RecordHolds'
  <2> SUFFICES ASSUME NEW b \in Bets
               PROVE  /\ b \in record => row'[b].status \in InPlay
                      /\ b \notin record => row'[b].status \in OutOfPlay
                      /\ b \in asked => b \in record
                      /\ shots[b] # NoFields => b \in record
                      /\ row'[b].status \in {"WT_DONE", "WT_FAILED"} => b \in asked
                      /\ row'[b].status = "REFUND" => b \in byHand'
    BY <1>4 DEF RecordHolds
  <2>1. CASE row'[b] = row[b]
    BY <1>4, <2>1 DEF StakeInv, RecordHolds
  <2>2. CASE row'[b] # row[b]
    <3>1. TaskWrites(b) \/ \E h \in Hands : HandWrites(h, b)
      BY <1>1, <2>2 DEF RowsGo
    <3> QED
      BY <1>4, <1>5, <1>6, <3>1 DEF StakeInv, RecordHolds, InPlay, OutOfPlay
  <2> QED
    BY <2>1, <2>2
<1>8. \A m \in wallet' \cup flight' :
        \/ m \in wallet \cup flight
        \/ /\ m.bet \in Bets /\ row[m.bet].status # "NONE"
           /\ m.op = "WD" => m.bet \in asked
           /\ m.op = "REFUND" => m.bet \notin record \/ m.bet \in byHand'
  <2> SUFFICES ASSUME NEW m \in wallet' \cup flight', m \notin wallet \cup flight
               PROVE  /\ m.bet \in Bets /\ row[m.bet].status # "NONE"
                      /\ m.op = "WD" => m.bet \in asked
                      /\ m.op = "REFUND" => m.bet \notin record \/ m.bet \in byHand'
    OBVIOUS
  <2>1. CASE TaskAsks(m)
    BY <1>2, <2>1 DEF TaskAsks, Asks, MinesTypes, PayInv, PayTypeOK, TimeoutRow
  <2>2. ASSUME NEW h \in Hands, HandAsks(h, m), m.op = "REFUND" => m.bet \in byHand'
        PROVE  /\ m.bet \in Bets /\ row[m.bet].status # "NONE"
               /\ m.op = "WD" => m.bet \in asked
               /\ m.op = "REFUND" => m.bet \notin record \/ m.bet \in byHand'
    BY <1>3, <2>2 DEF HandAsks, StakeInv, OrderHolds
  <2> QED
    BY <1>1, <2>1, <2>2 DEF BooksGo
<1>9. \A i \in TimeoutId :
        Named(i)' =>
          \/ /\ Named(i) /\ timeouts'[i].bet = timeouts[i].bet
             /\ timeouts'[i].op = timeouts[i].op
          \/ /\ timeouts'[i].op = "WD" /\ timeouts'[i].bet \in asked
             /\ row[timeouts'[i].bet].status # "NONE"
  <2> SUFFICES ASSUME NEW i \in TimeoutId, Named(i)', ~Named(i)
               PROVE  /\ timeouts'[i].op = "WD" /\ timeouts'[i].bet \in asked
                      /\ row[timeouts'[i].bet].status # "NONE"
    BY <1>1 DEF BooksGo
  <2>1. CASE TaskNotes(i)
    BY <1>2, <2>1 DEF TaskNotes
  <2>2. ASSUME NEW h \in Hands, HandNotes(h, i)
        PROVE  /\ timeouts'[i].op = "WD" /\ timeouts'[i].bet \in asked
               /\ row[timeouts'[i].bet].status # "NONE"
    BY <1>3, <2>2 DEF HandNotes, StakeInv, OrderHolds
  <2> QED
    BY <1>1, <2>1, <2>2 DEF BooksGo
<1>10. MoneyHolds'
  BY <1>4, <1>8, <1>9 DEF StakeInv, MoneyHolds
<1>11. OrderHolds'
  <2> SUFFICES ASSUME NEW h \in Hands, hand'[h].at # "idle"
               PROVE  /\ hand'[h].bet \in record
                      /\ hand'[h].op = "WD" => hand'[h].bet \in asked
                      /\ hand'[h].at = "write" /\ hand'[h].op = "REFUND"
                           => hand'[h].bet \in byHand'
    BY <1>4 DEF OrderHolds
  <2>1. CASE hand'[h] = hand[h]
    BY <1>4, <2>1 DEF StakeInv, OrderHolds
  <2>2. CASE /\ hand[h].at = "idle" /\ hand'[h].at = "page" /\ hand'[h].bet \in Bets
             /\ \/ row[hand'[h].bet].status = "WT_FAILED"
                \/ hand'[h].op = "REFUND" /\ row[hand'[h].bet].status = "BET_DONE"
    BY <2>2 DEF StakeInv, RecordHolds, OutOfPlay
  <2>3. CASE /\ hand[h].at # "idle"
             /\ hand'[h].bet = hand[h].bet /\ hand'[h].op = hand[h].op
             /\ \/ hand'[h].at = "done"
                \/ hand[h].at = "page" /\ hand'[h].at = "call"
                \/ /\ hand[h].at \in {"call", "paid"} /\ hand'[h].at \in {"paid", "write"}
                   /\ hand[h].op = "REFUND" => hand[h].bet \in byHand'
    BY <2>3 DEF StakeInv, OrderHolds
  <2>4. HandGoes(h)
    BY <1>1
  <2> QED
    BY <2>1, <2>2, <2>3, <2>4 DEF HandGoes
<1>12. \A c \in Bets : row[c].status # "NONE" => row'[c].status # "NONE"
  <2> SUFFICES ASSUME NEW c \in Bets, row'[c] # row[c] PROVE row'[c].status # "NONE"
    OBVIOUS
  <2> QED
    BY <1>1, <1>5, <1>6 DEF RowsGo
<1>13. \A c \in Bets : row[c].status = "NONE" => row'[c].status = "NONE"
  <2> SUFFICES ASSUME NEW c \in Bets, row'[c] # row[c] PROVE row[c].status # "NONE"
    OBVIOUS
  <2>1. TaskWrites(c) \/ \E h \in Hands : HandWrites(h, c)
    BY <1>1 DEF RowsGo
  <2> QED
    BY <1>2, <1>3, <2>1 DEF TaskWrites, HandWrites
<1>14. JobHolds'
  <2> SUFFICES ASSUME NEW s \in Threads
               PROVE  /\ job[s].op # "bet" => job[s].bet \in record
                      /\ job[s].at \in {"payout", "failed", "record"} => job[s].bet \in asked
                      /\ job[s].at \in BettingAt => Placing(s)'
    BY <1>4 DEF JobHolds
  <2>1. ASSUME job[s].at \in BettingAt PROVE Placing(s)'
    <3>1. job[s].bet \in Bets /\ Placing(s)
      BY <2>1 DEF StakeInv, JobHolds, MinesTypes, JobsOK, JobOK, BettingAt
    <3> QED
      BY <1>4, <1>8, <1>9, <1>13, <3>1 DEF Placing
  <2> QED
    BY <2>1 DEF StakeInv, JobHolds
<1>15. TaskLooked'
  <2> SUFFICES ASSUME task'.at \in {"call", "paid"}
               PROVE  row'[timeouts'[task'.cur].bet].status # "NONE"
    BY DEF TaskLooked
  <2>1. \A i \in TimeoutId : Named(i) => timeouts[i].bet \in Bets
    BY DEF MinesTypes, PayInv, RowsNamed
  <2>2. task'.cur \in TimeoutId /\ Named(task'.cur)
        /\ row[timeouts[task'.cur].bet].status # "NONE"
    <3>1. CASE task'.cur = task.cur /\ task.at \in {"call", "paid"}
      BY <1>2, <3>1
    <3>2. CASE task'.cur \in task.todo /\ row[timeouts[task'.cur].bet].status # "NONE"
      BY <3>2 DEF MinesTypes, PayInv, PayTypeOK, TaskHolds
    <3> QED
      BY <1>1, <3>1, <3>2 DEF TaskGoes
  <2> QED
    BY <1>1, <1>12, <2>1, <2>2 DEF BooksGo
<1> QED
  BY <1>7, <1>10, <1>11, <1>14, <1>15 DEF StakeInv

\* Steps that only move jobs.
LEMMA StakeJobs ==
  ASSUME StakeInv, JobHolds',
         UNCHANGED <<row, wallet, flight, timeouts, task, hand, byHand, record, shots, asked>>
  PROVE  StakeInv'
<1>1. RecordHolds' /\ TaskLooked'
  BY DEF StakeInv, RecordHolds, TaskLooked
<1>2. MoneyHolds'
  BY DEF StakeInv, MoneyHolds, Named
<1>3. OrderHolds'
  BY DEF StakeInv, OrderHolds
<1> QED
  BY <1>1, <1>2, <1>3 DEF StakeInv

\* Two bets that are being placed are not the same, and neither is one in play.
LEMMA OnlyPlaced ==
  ASSUME MinesTypes, StakeInv, NEW r \in Threads, job[r].at \in BettingAt
  PROVE  /\ job[r].bet \in Bets /\ job[r].bet \notin record /\ Placing(r)
         /\ \A s \in Threads \ {r} : job[s].bet # job[r].bet
<1>1. job[r].bet \in Bets /\ Placing(r)
  BY DEF StakeInv, JobHolds, MinesTypes, JobsOK, JobOK, BettingAt
<1> QED
  BY <1>1 DEF Placing, StakeInv, RecordHolds, InPlay

\* A job goes on, or ends.
LEMMA StakeLabel ==
  ASSUME MinesTypes, StakeInv, NEW s \in Threads, Others(s),
         UNCHANGED <<row, wallet, flight, timeouts, task, hand, byHand, record, shots, asked>>,
         \/ job'[s] = NoJob
         \/ /\ job'[s].bet = job[s].bet /\ job'[s].op = job[s].op
            /\ job'[s].at \in {"payout", "failed", "record"}
                 => job[s].at \in {"payout", "failed", "record"}
            /\ job'[s].at \in BettingAt
                 => /\ job[s].at \in BettingAt
                    /\ job[s].at = "declined" => job'[s].at = "declined"
  PROVE  StakeInv'
<1>1. JobHolds'
  <2> SUFFICES ASSUME NEW r \in Threads
               PROVE  /\ job'[r].op # "bet" => job'[r].bet \in record
                      /\ job'[r].at \in {"payout", "failed", "record"} => job'[r].bet \in asked
                      /\ job'[r].at \in BettingAt => Placing(r)'
    BY DEF JobHolds
  <2>1. CASE job'[r] = NoJob
    BY <2>1 DEF NoJob, BettingAt
  <2>2. CASE job'[r] # NoJob
    <3>1. /\ job'[r].bet = job[r].bet /\ job'[r].op = job[r].op
          /\ job'[r].at \in {"payout", "failed", "record"}
               => job[r].at \in {"payout", "failed", "record"}
          /\ job'[r].at \in BettingAt
               => /\ job[r].at \in BettingAt
                  /\ job[r].at = "declined" => job'[r].at = "declined"
      BY <2>2 DEF Others
    <3>2. ASSUME job'[r].at \in BettingAt PROVE Placing(r)'
      <4>1. Placing(r) /\ job[r].bet \in Bets
            /\ \A k \in Threads \ {r} : job[k].bet # job[r].bet
        BY <3>1, <3>2, OnlyPlaced
      <4>2. \A k \in Threads \ {r} : job'[k].bet = job[k].bet \/ job'[k].bet = NoBet
        BY DEF Others, NoJob
      <4>3. \A k \in Threads : job'[k].bet = job'[r].bet => k = r
        BY <3>1, <4>1, <4>2
      <4>4. \A i \in TimeoutId :
              Named(i)' /\ timeouts'[i].bet = job'[r].bet => job'[r].at = "declined"
        BY <3>1, <3>2, <4>1 DEF Placing, Named
      <4>5. \A m \in wallet' \cup flight' : m.bet = job'[r].bet => m.op # "REFUND"
        BY <3>1, <4>1 DEF Placing
      <4>6. row'[job'[r].bet].status = "NONE"
        BY <3>1, <4>1 DEF Placing
      <4> QED
        BY <4>3, <4>4, <4>5, <4>6 DEF Placing
    <3> QED
      BY <3>1, <3>2 DEF StakeInv, JobHolds
  <2> QED
    BY <2>1, <2>2
<1> QED
  BY <1>1, StakeJobs

\* A play or a withdraw of a bet in play begins.
LEMMA StakeBegins ==
  ASSUME MinesTypes, StakeInv, NEW s \in Threads, NEW b \in record, Others(s),
         UNCHANGED <<row, wallet, flight, timeouts, task, hand, byHand, record, shots, asked>>,
         job'[s].bet = b, job'[s].op # "bet", job'[s].at \in {"pay", "bomb", "commit"}
  PROVE  StakeInv'
<1>1. JobHolds'
  <2> SUFFICES ASSUME NEW r \in Threads
               PROVE  /\ job'[r].op # "bet" => job'[r].bet \in record
                      /\ job'[r].at \in {"payout", "failed", "record"} => job'[r].bet \in asked
                      /\ job'[r].at \in BettingAt => Placing(r)'
    BY DEF JobHolds
  <2>1. CASE r = s
    BY <2>1 DEF BettingAt
  <2>2. CASE r # s
    <3>1. job'[r] = job[r]
      BY <2>2 DEF Others
    <3>2. ASSUME job[r].at \in BettingAt PROVE Placing(r)'
      <4>1. /\ job[r].bet \in Bets /\ job[r].bet \notin record /\ Placing(r)
            /\ \A k \in Threads \ {r} : job[k].bet # job[r].bet
        BY <3>2, OnlyPlaced
      <4>2. \A k \in Threads : job'[k].bet = job[r].bet => k = r
        BY <4>1 DEF Others
      <4> QED
        BY <3>1, <4>1, <4>2 DEF Placing, Named
    <3> QED
      BY <3>1, <3>2 DEF StakeInv, JobHolds
  <2> QED
    BY <2>1, <2>2
<1> QED
  BY <1>1, StakeJobs

LEMMA StakeBetCall ==
  ASSUME MinesTypes, StakeInv, NEW s \in Threads, NEW b \in Bets, BetCall(s, b)
  PROVE  StakeInv'
<1>1. /\ Others(s) /\ job[s] = NoJob /\ job'[s].op = "bet" /\ job'[s].bet = b
      /\ wallet \subseteq wallet'
  BY BetCallDoes
<1>2. PICK ok \in BOOLEAN : /\ Call(b, "BET", Stake, ok)
                            /\ job'[s].at = IF ok THEN "paid" ELSE "declined"
  BY BetCallDoes
<1>3. /\ Fresh(b)
      /\ UNCHANGED <<row, task, hand, byHand, record, shots, asked>>
  BY DEF BetCall
<1>4. /\ row[b].status = "NONE" /\ b \notin record
      /\ \A m \in wallet \cup flight : m.bet # b
      /\ \A i \in TimeoutId : timeouts[i].bet # b
      /\ \A r \in Threads : job[r].bet # b
  BY <1>3 DEF Fresh, StakeInv, RecordHolds, InPlay
<1> DEFINE m == [bet |-> b, op |-> "BET", amount |-> Stake]
<1>5. /\ wallet' \subseteq wallet \cup {m} /\ flight' \subseteq flight \cup {m}
      /\ \A i \in TimeoutId : Named(i) => timeouts'[i] = timeouts[i]
      /\ \A i \in TimeoutId : Named(i)' => \/ Named(i)
                                           \/ /\ ~ok /\ timeouts'[i].bet = b
                                              /\ timeouts'[i].op = "BET"
  <2>1. "BET" \in Op /\ Stake \in Amount /\ PayInv
    BY DEF Op, Amount, MinesTypes
  <2> QED
    BY <1>2, <2>1, CallBooks
<1>6. \A n \in wallet' \cup flight' : n \in wallet \cup flight \/ (n.bet = b /\ n.op = "BET")
  BY <1>5
<1>7. \A i \in TimeoutId :
        Named(i)' => \/ Named(i) /\ timeouts'[i] = timeouts[i]
                     \/ ~ok /\ timeouts'[i].bet = b /\ timeouts'[i].op = "BET"
  BY <1>5
<1>8. RecordHolds'
  BY <1>3 DEF StakeInv, RecordHolds
<1>9. MoneyHolds'
  BY <1>3, <1>4, <1>6, <1>7 DEF StakeInv, MoneyHolds
<1>10. OrderHolds'
  BY <1>3 DEF StakeInv, OrderHolds
<1>11. TaskLooked'
  BY <1>3, <1>5 DEF StakeInv, TaskLooked, MinesTypes, PayInv, TaskHolds
<1>12. JobHolds'
  <2> SUFFICES ASSUME NEW r \in Threads
               PROVE  /\ job'[r].op # "bet" => job'[r].bet \in record
                      /\ job'[r].at \in {"payout", "failed", "record"} => job'[r].bet \in asked
                      /\ job'[r].at \in BettingAt => Placing(r)'
    BY <1>3 DEF JobHolds
  <2>1. CASE r = s
    <3>1. Placing(r)'
      <4>1. \A k \in Threads : job'[k].bet = b => k = s
        BY <1>1, <1>4 DEF Others
      <4>2. \A n \in wallet' \cup flight' : n.bet = b => n.op # "REFUND"
        BY <1>4, <1>6
      <4>3. \A i \in TimeoutId : Named(i)' /\ timeouts'[i].bet = b => job'[s].at = "declined"
        BY <1>2, <1>4, <1>7
      <4> QED
        BY <1>1, <1>3, <1>4, <2>1, <4>1, <4>2, <4>3 DEF Placing
    <3> QED
      BY <1>1, <1>2, <2>1, <3>1
  <2>2. CASE r # s
    <3>1. job'[r] = job[r]
      BY <1>1, <2>2 DEF Others
    <3>2. ASSUME job[r].at \in BettingAt PROVE Placing(r)'
      <4>1. /\ job[r].bet \in Bets /\ job[r].bet # b /\ Placing(r)
            /\ \A k \in Threads \ {r} : job[k].bet # job[r].bet
        BY <1>4, <3>2, OnlyPlaced
      <4>2. \A k \in Threads : job'[k].bet = job[r].bet => k = r
        BY <1>1, <4>1 DEF Others
      <4> QED
        BY <1>3, <1>6, <1>7, <3>1, <4>1, <4>2 DEF Placing
    <3> QED
      BY <3>1, <3>2 DEF StakeInv, JobHolds
  <2> QED
    BY <2>1, <2>2
<1> QED
  BY <1>8, <1>9, <1>10, <1>11, <1>12 DEF StakeInv

\* A bet that was placed comes into play, or was declined.
LEMMA StakeBetCommit ==
  ASSUME MinesTypes, StakeInv, NEW s \in Threads, BetCommit(s)
  PROVE  StakeInv'
<1> DEFINE b == job[s].bet
<1>1. /\ job'[s] = NoJob /\ Others(s) /\ job[s].at \in {"set", "declined"} /\ b \in Bets
      /\ \A c \in Bets : c # b => row'[c] = row[c]
      /\ row'[b].status = IF job[s].at = "set" THEN "BET_DONE" ELSE "BET_FAILED"
  BY BetCommitDoes
<1>2. /\ record' = IF job[s].at = "set" THEN record \cup {b} ELSE record
      /\ UNCHANGED <<wallet, flight, timeouts, task, hand, byHand, shots, asked>>
  BY DEF BetCommit
<1>3. job[s].at \in BettingAt
  BY <1>1 DEF BettingAt
<1>4. b \notin record /\ Placing(s)
  BY <1>3, OnlyPlaced
<1>5. RecordHolds'
  <2> SUFFICES ASSUME NEW c \in Bets
               PROVE  /\ c \in record' => row'[c].status \in InPlay
                      /\ c \notin record' => row'[c].status \in OutOfPlay
                      /\ c \in asked => c \in record'
                      /\ shots[c] # NoFields => c \in record'
                      /\ row'[c].status \in {"WT_DONE", "WT_FAILED"} => c \in asked
                      /\ row'[c].status = "REFUND" => c \in byHand
    BY <1>2 DEF RecordHolds
  <2>1. CASE c = b
    BY <1>1, <1>2, <1>4, <2>1 DEF StakeInv, RecordHolds, InPlay, OutOfPlay
  <2>2. CASE c # b
    BY <1>1, <1>2, <2>2 DEF StakeInv, RecordHolds
  <2> QED
    BY <2>1, <2>2
<1>6. MoneyHolds'
  <2>1. CASE job[s].at = "set"
    <3>1. \A m \in wallet \cup flight : m.op = "REFUND" => m.bet # b
      BY <1>4 DEF Placing
    <3>2. \A i \in TimeoutId : Named(i) => timeouts[i].bet # b
      BY <1>4, <2>1 DEF Placing
    <3> QED
      BY <1>2, <3>1, <3>2 DEF StakeInv, MoneyHolds, Named
  <2>2. CASE job[s].at # "set"
    BY <1>2, <2>2 DEF StakeInv, MoneyHolds, Named
  <2> QED
    BY <2>1, <2>2
<1>7. OrderHolds'
  BY <1>2 DEF StakeInv, OrderHolds
<1>8. TaskLooked'
  <2>1. \A c \in Bets : row[c].status # "NONE" => row'[c].status # "NONE"
    BY <1>1
  <2> QED
    BY <1>2, <2>1 DEF StakeInv, TaskLooked, MinesTypes, PayInv, TaskHolds, RowsNamed
<1>9. JobHolds'
  <2> SUFFICES ASSUME NEW r \in Threads
               PROVE  /\ job'[r].op # "bet" => job'[r].bet \in record'
                      /\ job'[r].at \in {"payout", "failed", "record"} => job'[r].bet \in asked
                      /\ job'[r].at \in BettingAt => Placing(r)'
    BY <1>2 DEF JobHolds
  <2>1. CASE r = s
    BY <1>1, <2>1 DEF NoJob, BettingAt
  <2>2. CASE r # s
    <3>1. job'[r] = job[r]
      BY <1>1, <2>2 DEF Others
    <3>2. ASSUME job[r].at \in BettingAt PROVE Placing(r)'
      <4>1. /\ job[r].bet \in Bets /\ job[r].bet # b /\ Placing(r)
            /\ \A k \in Threads \ {r} : job[k].bet # job[r].bet
        BY <2>2, <3>2, OnlyPlaced
      <4>2. \A k \in Threads : job'[k].bet = job[r].bet => k = r
        BY <1>1, <4>1 DEF Others, NoJob
      <4> QED
        BY <1>1, <1>2, <3>1, <4>1, <4>2 DEF Placing, Named
    <3> QED
      BY <1>2, <3>1, <3>2 DEF StakeInv, JobHolds
  <2> QED
    BY <2>1, <2>2
<1> QED
  BY <1>5, <1>6, <1>7, <1>8, <1>9 DEF StakeInv

\* A job of a bet in play writes its row and its fields, and goes on or ends.
LEMMA StakePlayed ==
  ASSUME MinesTypes, StakeInv, NEW s \in Threads, NEW b \in record, Others(s),
         job[s].bet = b, job[s].at \notin BettingAt,
         UNCHANGED <<wallet, flight, timeouts, task, hand, byHand, record, asked>>,
         \A c \in Bets : c # b => row'[c] = row[c] /\ shots'[c] = shots[c],
         \/ row'[b] = row[b]
         \/ row'[b].status = "BOMB"
         \/ row'[b].status \in {"WT_DONE", "WT_FAILED"} /\ b \in asked,
         \/ job'[s] = NoJob
         \/ job'[s].at = "commit" /\ job'[s].bet = b
  PROVE  StakeInv'
<1>1. b \in Bets /\ row[b].status # "NONE"
  BY DEF MinesTypes, MinesTypeOK, StakeInv, RecordHolds, InPlay
<1>2. RecordHolds'
  <2> SUFFICES ASSUME NEW c \in Bets
               PROVE  /\ c \in record => row'[c].status \in InPlay
                      /\ c \notin record => row'[c].status \in OutOfPlay
                      /\ c \in asked => c \in record
                      /\ shots'[c] # NoFields => c \in record
                      /\ row'[c].status \in {"WT_DONE", "WT_FAILED"} => c \in asked
                      /\ row'[c].status = "REFUND" => c \in byHand
    BY DEF RecordHolds
  <2>1. CASE c = b
    BY <2>1 DEF StakeInv, RecordHolds, InPlay
  <2>2. CASE c # b
    BY <2>2 DEF StakeInv, RecordHolds
  <2> QED
    BY <2>1, <2>2
<1>3. MoneyHolds' /\ OrderHolds'
  BY DEF StakeInv, MoneyHolds, OrderHolds, Named
<1>4. TaskLooked'
  <2>1. \A c \in Bets : row[c].status # "NONE" => row'[c].status # "NONE"
    BY <1>1
  <2> QED
    BY <2>1 DEF StakeInv, TaskLooked, MinesTypes, PayInv, TaskHolds, RowsNamed
<1>5. JobHolds'
  <2> SUFFICES ASSUME NEW r \in Threads
               PROVE  /\ job'[r].op # "bet" => job'[r].bet \in record
                      /\ job'[r].at \in {"payout", "failed", "record"} => job'[r].bet \in asked
                      /\ job'[r].at \in BettingAt => Placing(r)'
    BY DEF JobHolds
  <2>1. CASE r = s
    BY <2>1 DEF NoJob, BettingAt
  <2>2. CASE r # s
    <3>1. job'[r] = job[r]
      BY <2>2 DEF Others
    <3>2. ASSUME job[r].at \in BettingAt PROVE Placing(r)'
      <4>1. /\ job[r].bet \in Bets /\ job[r].bet # b /\ Placing(r)
            /\ \A k \in Threads \ {r} : job[k].bet # job[r].bet
        BY <2>2, <3>2, OnlyPlaced
      <4>2. \A k \in Threads : job'[k].bet = job[r].bet => k = r
        BY <4>1 DEF Others, NoJob
      <4> QED
        BY <3>1, <4>1, <4>2 DEF Placing, Named
    <3> QED
      BY <3>1, <3>2 DEF StakeInv, JobHolds
  <2> QED
    BY <2>1, <2>2
<1> QED
  BY <1>2, <1>3, <1>4, <1>5 DEF StakeInv

LEMMA StakePlayCommit ==
  ASSUME MinesTypes, StakeInv, NEW s \in Threads, PlayCommit(s)
  PROVE  StakeInv'
<1>1. /\ job'[s] = NoJob /\ Others(s) /\ job[s].at = "commit" /\ job[s].op = "play"
      /\ \A c \in Bets : c # job[s].bet => row'[c] = row[c] /\ shots'[c] = shots[c]
      /\ row'[job[s].bet] = row[job[s].bet] \/ row'[job[s].bet].status = "BOMB"
  BY PlayCommitDoes
<1>2. job[s].bet \in record /\ job[s].at \notin BettingAt
  BY <1>1 DEF StakeInv, JobHolds, BettingAt
<1>3. UNCHANGED <<wallet, flight, timeouts, task, hand, byHand, record, asked>>
  BY DEF PlayCommit
<1> QED
  BY <1>1, <1>2, <1>3, StakePlayed

LEMMA StakePayoutCommit ==
  ASSUME MinesTypes, StakeInv, NEW s \in Threads, PayoutCommit(s)
  PROVE  StakeInv'
<1>1. /\ Others(s) /\ job[s].at \in {"record", "failed"} /\ job[s].op # "bet"
      /\ \A c \in Bets : c # job[s].bet => row'[c] = row[c]
      /\ row'[job[s].bet].status \in {"WT_DONE", "WT_FAILED"}
      /\ job'[s] = NoJob \/ Moved(s, "commit")
  BY PayoutCommitDoes
<1>2. job[s].bet \in record /\ job[s].bet \in asked /\ job[s].at \notin BettingAt
  BY <1>1 DEF StakeInv, JobHolds, BettingAt
<1>3. UNCHANGED <<wallet, flight, timeouts, task, hand, byHand, record, shots, asked>>
  BY DEF PayoutCommit
<1>4. job'[s] = NoJob \/ (job'[s].at = "commit" /\ job'[s].bet = job[s].bet)
  BY <1>1 DEF Moved
<1> QED
  BY <1>1, <1>2, <1>3, <1>4, StakePlayed

LEMMA StakePayoutCall ==
  ASSUME MinesTypes, StakeInv, NEW s \in Threads, PayoutCall(s)
  PROVE  StakeInv'
<1> DEFINE b == job[s].bet
<1>1. /\ Others(s) /\ job[s].at = "pay" /\ job[s].op # "bet" /\ b \in Bets
      /\ asked' = asked \cup {b} /\ job[s].copy.amount \in Amount
  BY PayoutCallDoes
<1>2. PICK ok \in BOOLEAN : /\ Call(b, "WD", job[s].copy.amount, ok)
                            /\ Moved(s, IF ok THEN "payout" ELSE "failed")
  BY PayoutCallDoes
<1>3. UNCHANGED <<row, task, hand, byHand, record, shots>>
  BY DEF PayoutCall
<1>4. b \in record /\ row[b].status # "NONE"
  BY <1>1 DEF StakeInv, JobHolds, RecordHolds, InPlay
<1> DEFINE m == [bet |-> b, op |-> "WD", amount |-> job[s].copy.amount]
<1>5. /\ wallet' \subseteq wallet \cup {m} /\ flight' \subseteq flight \cup {m}
      /\ \A i \in TimeoutId : Named(i) => timeouts'[i] = timeouts[i]
      /\ \A i \in TimeoutId : Named(i)' => \/ Named(i)
                                           \/ timeouts'[i].bet = b /\ timeouts'[i].op = "WD"
  <2>1. "WD" \in Op /\ PayInv
    BY DEF Op, MinesTypes
  <2> HIDE DEF b
  <2> QED
    BY <1>1, <1>2, <2>1, CallBooks
<1>6. \A n \in wallet' \cup flight' : n \in wallet \cup flight \/ (n.bet = b /\ n.op = "WD")
  BY <1>5
<1>7. \A i \in TimeoutId :
        Named(i)' => \/ Named(i) /\ timeouts'[i] = timeouts[i]
                     \/ timeouts'[i].bet = b /\ timeouts'[i].op = "WD"
  BY <1>5
<1>8. RecordHolds'
  BY <1>1, <1>3, <1>4 DEF StakeInv, RecordHolds
<1>9. MoneyHolds'
  <2> HIDE DEF b
  <2> QED
    BY <1>1, <1>3, <1>6, <1>7 DEF StakeInv, MoneyHolds
<1>10. OrderHolds'
  BY <1>1, <1>3 DEF StakeInv, OrderHolds
<1>11. TaskLooked'
  BY <1>3, <1>5 DEF StakeInv, TaskLooked, MinesTypes, PayInv, TaskHolds
<1>12. JobHolds'
  <2> SUFFICES ASSUME NEW r \in Threads
               PROVE  /\ job'[r].op # "bet" => job'[r].bet \in record
                      /\ job'[r].at \in {"payout", "failed", "record"} => job'[r].bet \in asked'
                      /\ job'[r].at \in BettingAt => Placing(r)'
    BY <1>3 DEF JobHolds
  <2>1. job'[s].bet = b /\ job'[s].at \in {"payout", "failed"}
    BY <1>2 DEF Moved
  <2>2. CASE r = s
    BY <1>1, <1>4, <2>1, <2>2 DEF BettingAt
  <2>3. CASE r # s
    <3>1. job'[r] = job[r]
      BY <1>1, <2>3 DEF Others
    <3>2. ASSUME job[r].at \in BettingAt PROVE Placing(r)'
      <4>1. /\ job[r].bet \in Bets /\ job[r].bet # b /\ Placing(r)
            /\ \A k \in Threads \ {r} : job[k].bet # job[r].bet
        BY <2>3, <3>2, OnlyPlaced
      <4>2. \A k \in Threads : job'[k].bet = job[r].bet => k = r
        BY <1>1, <2>1, <4>1 DEF Others
      <4> QED
        BY <1>3, <1>6, <1>7, <3>1, <4>1, <4>2 DEF Placing
    <3> QED
      BY <1>1, <3>1, <3>2 DEF StakeInv, JobHolds
  <2> QED
    BY <2>2, <2>3
<1> QED
  BY <1>8, <1>9, <1>10, <1>11, <1>12 DEF StakeInv

LEMMA StakeRestart ==
  ASSUME MinesTypes, StakeInv, Restart
  PROVE  StakeInv'
<1>1. \A s \in Threads : job'[s] = NoJob
  BY RestartDoes
<1>2. /\ task' = NoTask
      /\ UNCHANGED <<row, wallet, flight, timeouts, hand, byHand, record, shots, asked>>
  BY DEF Restart
<1>3. RecordHolds'
  BY <1>2 DEF StakeInv, RecordHolds
<1>4. MoneyHolds' /\ OrderHolds'
  BY <1>2 DEF StakeInv, MoneyHolds, OrderHolds, Named
<1>5. TaskLooked'
  BY <1>2 DEF TaskLooked, NoTask
<1>6. JobHolds'
  BY <1>1 DEF JobHolds, NoJob, BettingAt
<1> QED
  BY <1>3, <1>4, <1>5, <1>6 DEF StakeInv

LEMMA StakeKept ==
  ASSUME MinesTypes, StakeInv, Next
  PROVE  StakeInv'
<1>1. MinesTypes'
  BY MinesTypesKept
<1>2. CASE PayNext /\ UNCHANGED minesVars
  BY <1>1, <1>2, StakePayStep DEF PayStep, minesVars
<1>3. ASSUME NEW i \in TimeoutId, AgeAfterRequest(i)
      PROVE  StakeInv'
  BY <1>1, <1>3, StakePayStep DEF PayStep, AgeAfterRequest, minesVars
<1>4. ASSUME NEW h \in Hands, MinesManualWrite(h)
      PROVE  StakeInv'
  BY <1>1, <1>4, StakePayStep DEF PayStep, MinesManualWrite
<1>5. ASSUME NEW t \in KeyTask, KeyUpdate(t)
      PROVE  StakeInv'
  <2>1. UNCHANGED <<payVars, record, shots, job, asked>>
    BY <1>5 DEF KeyUpdate
  <2>2. UNCHANGED <<row, wallet, flight, timeouts, task, hand, byHand, record, shots, asked>>
        /\ job' = job
    BY <2>1 DEF payVars
  <2>3. JobHolds'
    BY <2>2 DEF StakeInv, JobHolds, Placing, Named
  <2> QED
    BY <2>2, <2>3, StakeJobs
<1>6. ASSUME NEW s \in Threads, NEW b \in Bets, BetCall(s, b)
      PROVE  StakeInv'
  BY <1>6, StakeBetCall
<1>7. ASSUME NEW s \in Threads, NEW b \in Bets, Play(s, b) \/ Withdraw(s, b)
      PROVE  StakeInv'
  <2>1. UNCHANGED <<payVars, record, shots, asked>>
    BY <1>7 DEF Play, Withdraw
  <2>2. UNCHANGED <<row, wallet, flight, timeouts, task, hand, byHand, record, shots, asked>>
    BY <2>1 DEF payVars
  <2>3. /\ Others(s) /\ job'[s].bet = b /\ job'[s].op # "bet"
        /\ job'[s].at \in {"pay", "bomb", "commit"}
        /\ b \in record \/ shots[b] # NoFields
    BY <1>7, PlayDoes, WithdrawDoes
  <2>4. b \in record
    BY <2>3 DEF StakeInv, RecordHolds
  <2> QED
    BY <2>2, <2>3, <2>4, StakeBegins
<1>8. ASSUME NEW s \in Threads,
             \/ BetSet(s) \/ BetRollback(s) \/ PlayBomb(s) \/ PlayRollback(s)
             \/ PayoutRefused(s) \/ PayoutSubmit(s) \/ PayoutRollback(s) \/ LockLapses(s)
      PROVE  StakeInv'
  <2>1. UNCHANGED <<payVars, record, shots, asked>>
    BY <1>8 DEF BetSet, BetRollback, PlayBomb, PlayRollback, PayoutRefused, PayoutSubmit,
                PayoutRollback, LockLapses
  <2>2. UNCHANGED <<row, wallet, flight, timeouts, task, hand, byHand, record, shots, asked>>
    BY <2>1 DEF payVars
  <2>3. CASE BetSet(s)
    BY <2>2, <2>3, BetSetDoes, StakeLabel DEF Moved, BettingAt
  <2>4. CASE BetRollback(s) \/ PlayRollback(s)
    BY <2>2, <2>4, BetRollbackDoes, PlayRollbackDoes, StakeLabel
  <2>5. CASE PlayBomb(s) \/ PayoutRefused(s)
    BY <2>2, <2>5, PlayBombDoes, PayoutRefusedDoes, StakeLabel DEF Moved, BettingAt
  <2>6. CASE PayoutSubmit(s)
    BY <2>2, <2>6, PayoutSubmitDoes, StakeLabel DEF Moved, BettingAt
  <2>7. CASE PayoutRollback(s)
    BY <2>2, <2>7, PayoutRollbackDoes, StakeLabel DEF Moved, BettingAt
  <2>8. CASE LockLapses(s)
    BY <2>2, <2>8, LockLapsesDoes, StakeLabel
  <2> QED
    BY <1>8, <2>3, <2>4, <2>5, <2>6, <2>7, <2>8
<1>9. ASSUME NEW s \in Threads,
             BetCommit(s) \/ PlayCommit(s) \/ PayoutCall(s) \/ PayoutCommit(s)
      PROVE  StakeInv'
  BY <1>9, StakeBetCommit, StakePlayCommit, StakePayoutCall, StakePayoutCommit
<1>10. CASE Restart
  BY <1>10, StakeRestart
<1> QED
  BY <1>2, <1>3, <1>4, <1>5, <1>6, <1>7, <1>8, <1>9, <1>10 DEF Next

LEMMA StakeHolds == Spec => []StakeInv
<1>1. Init => StakeInv
  BY StakeStart
<1>2. MinesTypes /\ StakeInv /\ [Next]_vars => StakeInv'
  <2>1. ASSUME MinesTypes, StakeInv, UNCHANGED vars PROVE StakeInv'
    <3>1. UNCHANGED <<row, wallet, flight, timeouts, task, hand, byHand, record, shots, asked>>
          /\ job' = job
      BY <2>1 DEF vars, payVars, minesVars
    <3>2. JobHolds'
      BY <2>1, <3>1 DEF StakeInv, JobHolds, Placing, Named
    <3> QED
      BY <2>1, <3>1, <3>2, StakeJobs
  <2> QED
    BY <2>1, StakeKept
<1> QED
  BY <1>1, <1>2, MinesTypesHold, PTL DEF Spec

\* However a payout is retried, the stake of a game is not both returned and paid out
\* unless an operator ordered the refund.
THEOREM StakeOrPayout == Spec => []RefundedOrPaid
<1>1. MinesTypes /\ StakeInv => RefundedOrPaid
  <2> SUFFICES ASSUME StakeInv, NEW b \in Bets, Applied(b, "REFUND"), Applied(b, "WD")
               PROVE  b \in byHand
    BY DEF RefundedOrPaid
  <2>1. b \in asked /\ (b \notin record \/ b \in byHand)
    BY DEF StakeInv, MoneyHolds, Applied
  <2> QED
    BY <2>1 DEF StakeInv, RecordHolds
<1> QED
  BY <1>1, MinesTypesHold, StakeHolds, PTL

(***************************************************************************)
(* The lock.  As long as no lease ended too early the thread that is on is *)
(* the one that holds it.                                                  *)
(***************************************************************************)

Alone == lapses = 0 => \A s \in Threads : job[s].at # "idle" => lock = s /\ job[s].held

\* A step of one thread, the lease of its lock apart: it starts on a bet, goes on with
\* it or ends.
GameStep(s) ==
  \/ \E b \in Bets : BetCall(s, b) \/ Play(s, b) \/ Withdraw(s, b)
  \/ BetSet(s) \/ BetCommit(s) \/ BetRollback(s)
  \/ PlayBomb(s) \/ PlayCommit(s) \/ PlayRollback(s)
  \/ PayoutCall(s) \/ PayoutRefused(s) \/ PayoutSubmit(s)
  \/ PayoutCommit(s) \/ PayoutRollback(s)

Starts(s) == /\ job[s] = NoJob /\ lock = NoThread /\ lock' = s
             /\ job'[s].at # "idle" /\ job'[s].bet \in Bets /\ job'[s].held
GoesOn(s) == /\ job[s].at # "idle" /\ job'[s].at # "idle"
             /\ \E a \in JobAt : Moved(s, a)
             /\ lock = s /\ job[s].held => lock' = lock
Ends(s) == job[s].at # "idle" /\ job'[s] = NoJob

LEMMA StepOfOne ==
  ASSUME MinesTypes, NEW s \in Threads, GameStep(s)
  PROVE  /\ Others(s) /\ lapses' = lapses /\ wallet \subseteq wallet'
         /\ Starts(s) \/ GoesOn(s) \/ Ends(s)
<1>1. ASSUME NEW b \in Bets, BetCall(s, b)
      PROVE  Others(s) /\ lapses' = lapses /\ wallet \subseteq wallet' /\ Starts(s)
  <2>1. lapses' = lapses
    BY <1>1 DEF BetCall
  <2> QED
    BY <1>1, <2>1, BetCallDoes DEF Starts
<1>2. ASSUME NEW b \in Bets, Play(s, b)
      PROVE  Others(s) /\ lapses' = lapses /\ wallet \subseteq wallet' /\ Starts(s)
  <2>1. lapses' = lapses
    BY <1>2 DEF Play
  <2> QED
    BY <1>2, <2>1, PlayDoes DEF Starts
<1>3. ASSUME NEW b \in Bets, Withdraw(s, b)
      PROVE  Others(s) /\ lapses' = lapses /\ wallet \subseteq wallet' /\ Starts(s)
  <2>1. lapses' = lapses
    BY <1>3 DEF Withdraw
  <2> QED
    BY <1>3, <2>1, WithdrawDoes DEF Starts
<1>4. {"set", "commit", "record", "payout", "failed"} \subseteq JobAt
  BY DEF JobAt
<1>5. CASE BetSet(s)
  <2>1. lapses' = lapses /\ lock' = lock
    BY <1>5 DEF BetSet
  <2> QED
    BY <1>4, <1>5, <2>1, BetSetDoes DEF GoesOn, Moved
<1>6. CASE PlayBomb(s)
  <2>1. lapses' = lapses /\ lock' = lock
    BY <1>6 DEF PlayBomb
  <2> QED
    BY <1>4, <1>6, <2>1, PlayBombDoes DEF GoesOn, Moved
<1>7. CASE PayoutRefused(s)
  <2>1. lapses' = lapses /\ lock' = lock
    BY <1>7 DEF PayoutRefused
  <2> QED
    BY <1>4, <1>7, <2>1, PayoutRefusedDoes DEF GoesOn, Moved
<1>8. CASE PayoutSubmit(s)
  <2>1. lapses' = lapses /\ lock' = lock
    BY <1>8 DEF PayoutSubmit
  <2> QED
    BY <1>4, <1>8, <2>1, PayoutSubmitDoes DEF GoesOn, Moved
<1>9. CASE PayoutCall(s)
  <2>1. lapses' = lapses
    BY <1>9 DEF PayoutCall
  <2>2. PICK ok \in BOOLEAN : Moved(s, IF ok THEN "payout" ELSE "failed")
    BY <1>9, PayoutCallDoes
  <2>3. \E a \in JobAt : Moved(s, a) /\ a # "idle"
    BY <1>4, <2>2
  <2> QED
    BY <1>9, <2>1, <2>3, PayoutCallDoes DEF GoesOn, Moved
<1>10. CASE PayoutCommit(s)
  <2>1. lapses' = lapses
    BY <1>10 DEF PayoutCommit
  <2> QED
    BY <1>4, <1>10, <2>1, PayoutCommitDoes DEF GoesOn, Ends, Moved
<1>11. CASE PayoutRollback(s)
  <2>1. lapses' = lapses
    BY <1>11 DEF PayoutRollback
  <2> QED
    BY <1>4, <1>11, <2>1, PayoutRollbackDoes DEF GoesOn, Ends, Moved
<1>12. CASE BetCommit(s)
  <2>1. lapses' = lapses
    BY <1>12 DEF BetCommit
  <2> QED
    BY <1>12, <2>1, BetCommitDoes DEF Ends
<1>13. CASE BetRollback(s)
  <2>1. lapses' = lapses /\ job[s].at # "idle"
    BY <1>13 DEF BetRollback
  <2> QED
    BY <1>13, <2>1, BetRollbackDoes DEF Ends
<1>14. CASE PlayCommit(s)
  <2>1. lapses' = lapses
    BY <1>14 DEF PlayCommit
  <2> QED
    BY <1>14, <2>1, PlayCommitDoes DEF Ends
<1>15. CASE PlayRollback(s)
  <2>1. lapses' = lapses /\ job[s].at # "idle"
    BY <1>15 DEF PlayRollback
  <2> QED
    BY <1>15, <2>1, PlayRollbackDoes DEF Ends
<1> QED
  BY <1>1, <1>2, <1>3, <1>5, <1>6, <1>7, <1>8, <1>9, <1>10, <1>11, <1>12, <1>13, <1>14,
     <1>15 DEF GameStep

\* The steps of the others: the payment side, an operator's payout, the pool.
OtherStep ==
  \/ PayNext /\ UNCHANGED minesVars
  \/ \E i \in TimeoutId : AgeAfterRequest(i)
  \/ \E h \in Hands : MinesManualWrite(h)
  \/ \E t \in KeyTask : KeyUpdate(t)

LEMMA StepOfOthers ==
  ASSUME OtherStep
  PROVE  UNCHANGED <<record, shots, lock, job, asked, lapses, restarts, moved>>
<1>1. CASE PayNext /\ UNCHANGED minesVars
  BY <1>1 DEF minesVars
<1>2. ASSUME NEW i \in TimeoutId, AgeAfterRequest(i)
      PROVE  UNCHANGED minesVars
  BY <1>2 DEF AgeAfterRequest
<1>3. CASE UNCHANGED minesVars
  BY <1>3 DEF minesVars
<1>4. ASSUME NEW h \in Hands, MinesManualWrite(h)
      PROVE  UNCHANGED <<record, shots, lock, job, asked, lapses, restarts, moved>>
  BY <1>4 DEF MinesManualWrite
<1>5. ASSUME NEW t \in KeyTask, KeyUpdate(t)
      PROVE  UNCHANGED <<record, shots, lock, job, asked, lapses, restarts, moved>>
  BY <1>5 DEF KeyUpdate
<1> QED
  BY <1>1, <1>2, <1>3, <1>4, <1>5 DEF OtherStep

\* Every step is of one of these kinds.
LEMMA KindsOfStep ==
  ASSUME Next
  PROVE  OtherStep \/ (\E s \in Threads : GameStep(s) \/ LockLapses(s)) \/ Restart
  BY DEF Next, OtherStep, GameStep

\* Once a lease ended too early it stays so.
LEMMA LapsesGrow ==
  ASSUME MinesTypes, [Next]_vars
  PROVE  lapses \in Nat /\ lapses' \in Nat /\ (lapses' = 0 => lapses = 0)
<1>1. lapses \in Nat
  BY DEF MinesTypes, MinesTypeOK
<1>2. CASE OtherStep
  BY <1>1, <1>2, StepOfOthers
<1>3. ASSUME NEW s \in Threads, GameStep(s)
      PROVE  lapses' = lapses
  BY <1>3, StepOfOne
<1>4. ASSUME NEW s \in Threads, LockLapses(s)
      PROVE  lapses' = lapses + 1
  BY <1>4 DEF LockLapses
<1>5. CASE Restart \/ UNCHANGED vars
  BY <1>1, <1>5 DEF Restart, vars, minesVars
<1> QED
  BY <1>1, <1>2, <1>3, <1>4, <1>5, KindsOfStep

LEMMA AloneKept ==
  ASSUME MinesTypes, Alone, [Next]_vars
  PROVE  Alone'
<1> SUFFICES ASSUME lapses' = 0, NEW s \in Threads, job'[s].at # "idle"
             PROVE  lock' = s /\ job'[s].held
  BY DEF Alone
<1>1. lapses = 0
  BY LapsesGrow
<1>2. \A r \in Threads : job[r].at # "idle" => lock = r /\ job[r].held
  BY <1>1 DEF Alone
<1>3. CASE OtherStep
  BY <1>2, <1>3, StepOfOthers
<1>4. ASSUME NEW r \in Threads, GameStep(r)
      PROVE  lock' = s /\ job'[s].held
  <2>1. Others(r) /\ (Starts(r) \/ GoesOn(r) \/ Ends(r))
    BY <1>4, StepOfOne
  <2>2. CASE s = r
    <3>1. job'[s] # NoJob
      BY DEF NoJob
    <3> QED
      BY <1>2, <2>1, <2>2, <3>1 DEF Starts, GoesOn, Ends, Moved
  <2>3. CASE s # r
    <3>1. job'[s] = job[s]
      BY <2>1, <2>3 DEF Others
    <3>2. lock = s /\ job[s].held
      BY <1>2, <3>1
    <3>3. job[r].at = "idle"
      BY <1>2, <2>3, <3>2
    <3>4. lock = NoThread
      BY <2>1, <3>3 DEF Starts, GoesOn, Ends
    <3> QED
      BY <3>2, <3>4
  <2> QED
    BY <2>2, <2>3
<1>5. ASSUME NEW r \in Threads, LockLapses(r)
      PROVE  FALSE
  BY <1>1, <1>5 DEF LockLapses
<1>6. CASE Restart
  BY <1>6, RestartDoes DEF NoJob
<1>7. CASE UNCHANGED vars
  BY <1>2, <1>7 DEF vars, minesVars
<1> QED
  BY <1>3, <1>4, <1>5, <1>6, <1>7, KindsOfStep

LEMMA AloneHolds == Spec => []Alone
<1>1. Init => Alone
  BY DEF Init, Alone, NoJob
<1> QED
  BY <1>1, AloneKept, MinesTypesHold, PTL DEF Spec

\* While a thread is on, the others are not.
LEMMA OnlyOne ==
  ASSUME MinesTypes, Alone, lapses = 0, NEW s \in Threads, job[s].at # "idle"
  PROVE  \A r \in Threads \ {s} : job[r] = NoJob
<1>1. \A r \in Threads : job[r].at # "idle" => r = s
  BY DEF Alone
<1> QED
  BY <1>1 DEF MinesTypes, JobsOK, JobOK

\* The steps of the others, as far as the payment side goes.
LEMMA OtherPays ==
  ASSUME MinesTypes, OtherStep
  PROVE  /\ MinesTypes' /\ BooksGo /\ RowsGo /\ PayoutsGo /\ TaskGoes
         /\ \A h \in Hands : HandGoes(h)
<1>1. MinesTypes'
  BY MinesTypesKept DEF OtherStep, Next
<1>2. CASE PayStep
  BY <1>1, <1>2, PayBooks, PayRows, PayTask, PayHands DEF MinesTypes
<1>3. ASSUME NEW t \in KeyTask, KeyUpdate(t)
      PROVE  /\ BooksGo /\ RowsGo /\ PayoutsGo /\ TaskGoes
             /\ \A h \in Hands : HandGoes(h)
  <2>1. UNCHANGED payVars
    BY <1>3 DEF KeyUpdate
  <2>2. UNCHANGED <<wallet, flight, timeouts, byHand>>
        /\ UNCHANGED <<row, payouts, task, hand>>
    BY <2>1 DEF payVars
  <2>3. BooksGo
    BY <2>2, BooksStand
  <2> QED
    BY <2>2, <2>3 DEF MinesTypes, PayInv, PayTypeOK, RowsGo, PayoutsGo, TaskGoes, HandGoes
<1> QED
  BY <1>1, <1>2, <1>3 DEF OtherStep, PayStep, AgeAfterRequest, MinesManualWrite

\* What they may write over a game row.
LEMMA OtherRows ==
  ASSUME MinesTypes, StakeInv, OtherStep, NEW c \in Bets
  PROVE  \/ row'[c] = row[c]
         \/ c \notin record /\ row'[c].status = "CANCEL" /\ TaskWrites(c)
         \/ /\ c \in asked /\ row'[c].status = "WT_DONE"
            /\ TaskWrites(c) \/ \E h \in Hands : HandWrites(h, c) /\ hand[h].op = "WD"
         \/ c \in byHand /\ row'[c].status = "REFUND"
<1>1. row'[c] = row[c] \/ TaskWrites(c) \/ \E h \in Hands : HandWrites(h, c)
  BY OtherPays DEF RowsGo
<1>2. CASE TaskWrites(c)
  <2>1. /\ task.at = "paid" /\ c = timeouts[task.cur].bet
        /\ row'[c].status = IF timeouts[task.cur].op = "BET" THEN "CANCEL" ELSE "WT_DONE"
    BY <1>2 DEF TaskWrites
  <2>2. task.cur \in TimeoutId /\ Named(task.cur) /\ timeouts[task.cur].op \in {"BET", "WD"}
    BY <2>1 DEF MinesTypes, PayInv, PayTypeOK, TimeoutRow, TaskHolds
  <2> QED
    BY <1>2, <2>1, <2>2 DEF StakeInv, MoneyHolds
<1>3. ASSUME NEW h \in Hands, HandWrites(h, c)
      PROVE  \/ /\ c \in asked /\ row'[c].status = "WT_DONE" /\ hand[h].op = "WD"
             \/ c \in byHand /\ row'[c].status = "REFUND"
  BY <1>3 DEF HandWrites, StakeInv, OrderHolds, MinesTypes, PayInv, PayTypeOK
<1> QED
  BY <1>1, <1>2, <1>3

(***************************************************************************)
(* Mines and payouts.                                                      *)
(***************************************************************************)

\* Unless a payout was asked before, a game with a mine on record is over.
MineEnds ==
  \A b \in Bets : shots[b].mine /\ b \notin asked => row[b].status \in {"BOMB", "REFUND"}

\* A play that goes on has seen no mine, nor has a withdraw that is the first.
MineSeen ==
  \A s \in Threads :
    /\ job[s].op = "play" /\ ~job[s].bomb => ~Seen(job[s].bet, job[s].new).mine
    /\ job[s].op = "withdraw" /\ job[s].bet \notin asked => ~shots[job[s].bet].mine

MineInv == lapses = 0 => MineEnds /\ MineSeen

LEMMA MineKept ==
  ASSUME MinesTypes, StakeInv, Alone, MineInv, [Next]_vars
  PROVE  MineInv'
<1> SUFFICES ASSUME lapses' = 0
             PROVE  MineEnds' /\ MineSeen'
  BY DEF MineInv
<1>1. lapses = 0 /\ MineEnds /\ MineSeen
  BY LapsesGrow DEF MineInv
<1>2. \A b \in Bets : shots[b].mine => b \in record
  BY DEF StakeInv, RecordHolds, NoFields
<1>3. CASE OtherStep
  <2>1. UNCHANGED <<record, shots, job, asked>>
    BY <1>3, StepOfOthers
  <2>2. MineEnds'
    <3> SUFFICES ASSUME NEW b \in Bets, shots[b].mine, b \notin asked
                 PROVE  row'[b].status \in {"BOMB", "REFUND"}
      BY <2>1 DEF MineEnds
    <3> QED
      BY <1>1, <1>2, <1>3, OtherRows DEF MineEnds
  <2>3. MineSeen'
    BY <1>1, <2>1 DEF MineSeen, Seen
  <2> QED
    BY <2>2, <2>3
<1>4. ASSUME NEW s \in Threads, NEW b \in Bets, BetCall(s, b)
      PROVE  MineEnds' /\ MineSeen'
  <2>1. UNCHANGED <<row, shots, asked>>
    BY <1>4 DEF BetCall
  <2>2. MineSeen'
    BY <1>1, <1>4, <2>1, BetCallDoes DEF MineSeen, Others, Seen
  <2> QED
    BY <1>1, <2>1, <2>2 DEF MineEnds
<1>5. ASSUME NEW s \in Threads, NEW b \in Bets, Play(s, b)
      PROVE  MineEnds' /\ MineSeen'
  <2>1. UNCHANGED <<payVars, shots, asked>>
    BY <1>5 DEF Play
  <2>2. MineSeen'
    BY <1>1, <1>5, <2>1, PlayDoes DEF MineSeen, Others, Seen
  <2> QED
    BY <1>1, <2>1, <2>2 DEF MineEnds, payVars
<1>6. ASSUME NEW s \in Threads, NEW b \in Bets, Withdraw(s, b)
      PROVE  MineEnds' /\ MineSeen'
  <2>1. UNCHANGED <<payVars, shots, asked>>
    BY <1>6 DEF Withdraw
  <2>2. b \notin asked => ~shots[b].mine
    BY <1>1, <1>6, WithdrawDoes DEF MineEnds
  <2>3. MineSeen'
    BY <1>1, <1>6, <2>1, <2>2, WithdrawDoes DEF MineSeen, Others, Seen
  <2> QED
    BY <1>1, <2>1, <2>3 DEF MineEnds, payVars
<1>7. ASSUME NEW s \in Threads, GameStep(s), UNCHANGED <<row, shots, asked>>,
             GoesOn(s) \/ Ends(s)
      PROVE  MineEnds' /\ MineSeen'
  <2>1. Others(s)
    BY <1>7, StepOfOne
  <2>2. MineSeen'
    <3>1. CASE GoesOn(s)
      BY <1>1, <1>7, <2>1, <3>1 DEF MineSeen, Others, Seen, GoesOn, Moved
    <3>2. CASE Ends(s)
      BY <1>1, <1>7, <2>1, <3>2 DEF MineSeen, Others, Seen, Ends, NoJob
    <3> QED
      BY <1>7, <3>1, <3>2
  <2> QED
    BY <1>1, <1>7, <2>2 DEF MineEnds
<1>8. ASSUME NEW s \in Threads,
             \/ BetSet(s) \/ BetRollback(s) \/ PlayBomb(s) \/ PlayRollback(s)
             \/ PayoutRefused(s) \/ PayoutSubmit(s) \/ PayoutRollback(s)
      PROVE  MineEnds' /\ MineSeen'
  <2>1. UNCHANGED <<payVars, shots, asked>> /\ job[s].at # "idle"
    BY <1>8 DEF BetSet, BetRollback, PlayBomb, PlayRollback, PayoutRefused, PayoutSubmit,
                PayoutRollback
  <2>2. GameStep(s)
    BY <1>8 DEF GameStep
  <2>3. GoesOn(s) \/ Ends(s)
    BY <2>1, <2>2, StepOfOne DEF Starts, NoJob
  <2> QED
    BY <1>7, <2>1, <2>2, <2>3 DEF payVars
<1>9. ASSUME NEW s \in Threads, BetCommit(s)
      PROVE  MineEnds' /\ MineSeen'
  <2>1. UNCHANGED <<shots, asked>>
    BY <1>9 DEF BetCommit
  <2>2. job[s].bet \notin record
    BY <1>9, BetCommitDoes, OnlyPlaced DEF BettingAt
  <2>3. MineSeen'
    BY <1>1, <1>9, <2>1, BetCommitDoes DEF MineSeen, Others, Seen, NoJob
  <2>4. MineEnds'
    BY <1>1, <1>2, <1>9, <2>1, <2>2, BetCommitDoes DEF MineEnds
  <2> QED
    BY <2>3, <2>4
<1>10. ASSUME NEW s \in Threads, PlayCommit(s)
       PROVE  MineEnds' /\ MineSeen'
  <2>1. asked' = asked
    BY <1>10 DEF PlayCommit
  <2>2. job[s].at # "idle" /\ \A r \in Threads \ {s} : job[r] = NoJob
    BY <1>1, <1>10, OnlyOne DEF PlayCommit
  <2>3. MineSeen'
    BY <1>10, <2>2, PlayCommitDoes DEF MineSeen, Others, NoJob
  <2>4. MineEnds'
    <3> SUFFICES ASSUME NEW b \in Bets, shots'[b].mine, b \notin asked
                 PROVE  row'[b].status \in {"BOMB", "REFUND"}
      BY <2>1 DEF MineEnds
    <3>1. CASE b = job[s].bet
      BY <1>1, <1>10, <3>1, PlayCommitDoes DEF MineSeen
    <3>2. CASE b # job[s].bet
      BY <1>1, <1>10, <3>2, PlayCommitDoes DEF MineEnds
    <3> QED
      BY <3>1, <3>2
  <2> QED
    BY <2>3, <2>4
<1>11. ASSUME NEW s \in Threads, PayoutCall(s)
       PROVE  MineEnds' /\ MineSeen'
  <2>1. UNCHANGED <<row, shots>> /\ asked \subseteq asked'
    BY <1>11 DEF PayoutCall
  <2>2. GoesOn(s) /\ Others(s)
    <3>1. GameStep(s)
      BY <1>11 DEF GameStep
    <3>2. job[s].at = "pay" /\ job'[s].at # "idle"
      BY <1>11, PayoutCallDoes DEF Moved
    <3> QED
      BY <3>1, <3>2, StepOfOne DEF Starts, Ends, NoJob
  <2>3. MineSeen'
    BY <1>1, <2>1, <2>2 DEF MineSeen, Others, Seen, GoesOn, Moved
  <2> QED
    BY <1>1, <2>1, <2>3 DEF MineEnds
<1>12. ASSUME NEW s \in Threads, PayoutCommit(s)
       PROVE  MineEnds' /\ MineSeen'
  <2>1. UNCHANGED <<shots, asked>>
    BY <1>12 DEF PayoutCommit
  <2>2. job[s].bet \in asked
    BY <1>12 DEF PayoutCommit, StakeInv, JobHolds
  <2>3. MineEnds'
    BY <1>1, <1>12, <2>1, <2>2, PayoutCommitDoes DEF MineEnds
  <2>4. Others(s) /\ (GoesOn(s) \/ Ends(s))
    <3>1. GameStep(s) /\ job[s].at # "idle"
      BY <1>12, PayoutCommitDoes DEF GameStep
    <3> QED
      BY <3>1, StepOfOne DEF Starts, NoJob
  <2>5. MineSeen'
    BY <1>1, <2>1, <2>4 DEF MineSeen, Others, Seen, GoesOn, Ends, Moved, NoJob
  <2> QED
    BY <2>3, <2>5
<1>13. ASSUME NEW s \in Threads, LockLapses(s)
       PROVE  FALSE
  BY <1>1, <1>13 DEF LockLapses
<1>14. CASE Restart
  <2>1. UNCHANGED <<row, shots, asked>>
    BY <1>14 DEF Restart
  <2> QED
    BY <1>1, <1>14, <2>1, RestartDoes DEF MineEnds, MineSeen, NoJob
<1>15. CASE UNCHANGED vars
  <2>1. UNCHANGED <<row, shots, asked, job>>
    BY <1>15 DEF vars, payVars, minesVars
  <2> QED
    BY <1>1, <2>1 DEF MineEnds, MineSeen, Seen
<1> QED
  BY <1>3, <1>4, <1>5, <1>6, <1>8, <1>9, <1>10, <1>11, <1>12, <1>13, <1>14, <1>15,
     KindsOfStep DEF GameStep

LEMMA MineHolds == Spec => []MineInv
<1>1. Init => MineInv
  BY DEF Init, MineInv, MineEnds, MineSeen, NoFields, NoJob
<1> QED
  BY <1>1, MineKept, MinesTypesHold, StakeHolds, AloneHolds, PTL DEF Spec

\* As long as no lease ended too early, no payout is asked for the first time of a
\* game with a mine on record: withdraw reads the fields and play writes them under
\* one lock, and a play that found a mine does not pay.
THEOREM MineIsTheEnd == Spec => NoPayoutAfterMine
<1>1. MinesTypes /\ StakeInv /\ Alone /\ MineInv /\ [Next]_vars
        => (lapses' = 0 => \A b \in Bets :
                             shots[b].mine /\ b \notin asked => b \notin asked')
  <2> SUFFICES ASSUME MinesTypes, StakeInv, MineInv, [Next]_vars, lapses' = 0,
                      NEW b \in Bets, shots[b].mine, b \notin asked, b \in asked'
               PROVE  FALSE
    OBVIOUS
  <2>1. MineSeen
    BY LapsesGrow DEF MineInv
  <2>2. ASSUME NEW s \in Threads, PayoutCall(s)
        PROVE  FALSE
    <3>1. /\ b = job[s].bet /\ job[s].at = "pay" /\ job[s].op # "bet"
          /\ job[s].op \in {"play", "withdraw"} /\ ~job[s].bomb
      BY <2>2, PayoutCallDoes
         DEF MinesTypes, MinesTypeOK, JobsOK, JobOK, Job, PayingAt
    <3> QED
      BY <2>1, <3>1 DEF MineSeen, Seen
  <2>3. ASSUME NEW s \in Threads,
               \/ \E c \in Bets : BetCall(s, c) \/ Play(s, c) \/ Withdraw(s, c)
               \/ BetSet(s) \/ BetCommit(s) \/ BetRollback(s)
               \/ PlayBomb(s) \/ PlayCommit(s) \/ PlayRollback(s)
        PROVE  asked' = asked
    BY <2>3 DEF BetCall, Play, Withdraw, BetSet, BetCommit, BetRollback, PlayBomb,
                PlayCommit, PlayRollback
  <2>4. ASSUME NEW s \in Threads,
               \/ PayoutRefused(s) \/ PayoutSubmit(s) \/ PayoutCommit(s)
               \/ PayoutRollback(s) \/ LockLapses(s)
        PROVE  asked' = asked
    BY <2>4 DEF PayoutRefused, PayoutSubmit, PayoutCommit, PayoutRollback, LockLapses
  <2>5. CASE OtherStep
    BY <2>5, StepOfOthers
  <2>6. CASE Restart \/ UNCHANGED vars
    BY <2>6 DEF Restart, vars, minesVars
  <2> QED
    BY <2>2, <2>3, <2>4, <2>5, <2>6, KindsOfStep DEF GameStep
<1> QED
  BY <1>1, MinesTypesHold, StakeHolds, AloneHolds, MineHolds, PTL
     DEF Spec, NoPayoutAfterMine

(***************************************************************************)
(* A payout is entered once.                                               *)
(***************************************************************************)

\* An operator has ordered a payout of b.
ByOrder(b) == \E h \in Hands : hand[h].bet = b /\ hand[h].op = "WD"

\* An order that is not given yet names no bet.
HandFree == \A h \in Hands : hand[h].at = "idle" => hand[h].bet = NoBet

\* The payout of b was entered: what is left of the game is the commit of the play
\* that was paid.
Entered(b) ==
  /\ payouts[b] = 1 /\ b \in asked /\ row[b].status \in {"WT_DONE", "REFUND"}
  /\ \A s \in Threads : job[s].bet = b => job[s].at = "commit" /\ ~job[s].bomb

OnceInv ==
  /\ HandFree
  /\ lapses = 0 => \A b \in Bets : b \in moved \/ ByOrder(b) \/ payouts[b] = 0 \/ Entered(b)

\* Orders stay.
LEMMA OrdersStay ==
  ASSUME MinesTypes, HandFree, [Next]_vars
  PROVE  HandFree' /\ \A b \in Bets : ByOrder(b) => ByOrder(b)'
<1>1. CASE OtherStep
  <2>1. \A h \in Hands : HandGoes(h)
    BY <1>1, OtherPays
  <2>2. HandFree'
    BY <2>1 DEF HandGoes, HandFree
  <2>3. ASSUME NEW b \in Bets, NEW h \in Hands, hand[h].bet = b, hand[h].op = "WD"
        PROVE  hand'[h].bet = b /\ hand'[h].op = "WD"
    BY <2>1, <2>3 DEF HandGoes, HandFree
  <2> QED
    BY <2>2, <2>3 DEF ByOrder
<1>2. CASE hand' = hand
  BY <1>2 DEF HandFree, ByOrder
<1>3. ASSUME NEW s \in Threads, GameStep(s) \/ LockLapses(s)
      PROVE  hand' = hand
  <2>1. CASE \E b \in Bets : BetCall(s, b) \/ Play(s, b) \/ Withdraw(s, b)
    BY <2>1 DEF BetCall, Play, Withdraw, payVars
  <2>2. CASE \/ BetSet(s) \/ BetCommit(s) \/ BetRollback(s)
             \/ PlayBomb(s) \/ PlayCommit(s) \/ PlayRollback(s)
    BY <2>2 DEF BetSet, BetCommit, BetRollback, PlayBomb, PlayCommit, PlayRollback, payVars
  <2>3. CASE \/ PayoutCall(s) \/ PayoutRefused(s) \/ PayoutSubmit(s)
             \/ PayoutCommit(s) \/ PayoutRollback(s) \/ LockLapses(s)
    BY <2>3 DEF PayoutCall, PayoutRefused, PayoutSubmit, PayoutCommit, PayoutRollback,
                LockLapses, payVars
  <2> QED
    BY <1>3, <2>1, <2>2, <2>3 DEF GameStep
<1>4. ASSUME Restart \/ UNCHANGED vars
      PROVE  hand' = hand
  BY <1>4 DEF Restart, vars, payVars
<1> QED
  BY <1>1, <1>2, <1>3, <1>4, KindsOfStep

\* So do the bets that were moved.
LEMMA MovedGrow ==
  ASSUME [Next]_vars
  PROVE  moved \subseteq moved'
<1>1. CASE OtherStep
  BY <1>1, StepOfOthers
<1>2. ASSUME NEW s \in Threads, GameStep(s) \/ LockLapses(s)
      PROVE  moved \subseteq moved'
  <2>1. CASE \E b \in Bets : BetCall(s, b) \/ Play(s, b) \/ Withdraw(s, b)
    BY <2>1 DEF BetCall, Play, Withdraw
  <2>2. CASE \/ BetSet(s) \/ BetCommit(s) \/ BetRollback(s)
             \/ PlayBomb(s) \/ PlayCommit(s) \/ PlayRollback(s)
    BY <2>2 DEF BetSet, BetCommit, BetRollback, PlayBomb, PlayCommit, PlayRollback
  <2>3. CASE \/ PayoutCall(s) \/ PayoutRefused(s) \/ PayoutSubmit(s)
             \/ PayoutCommit(s) \/ PayoutRollback(s) \/ LockLapses(s)
    BY <2>3 DEF PayoutCall, PayoutRefused, PayoutSubmit, PayoutCommit, PayoutRollback,
                LockLapses
  <2> QED
    BY <1>2, <2>1, <2>2, <2>3 DEF GameStep
<1>3. CASE Restart \/ UNCHANGED vars
  BY <1>3 DEF Restart, vars, minesVars
<1> QED
  BY <1>1, <1>2, <1>3, KindsOfStep

LEMMA OnceKept ==
  ASSUME MinesTypes, StakeInv, Alone, OnceInv, [Next]_vars
  PROVE  OnceInv'
<1>1. HandFree' /\ \A b \in Bets : ByOrder(b) => ByOrder(b)'
  BY OrdersStay DEF OnceInv
<1> SUFFICES ASSUME lapses' = 0, NEW b \in Bets, b \notin moved', ~ByOrder(b)',
                    payouts'[b] # 0
             PROVE  Entered(b)'
  BY <1>1 DEF OnceInv
<1>2. lapses = 0 /\ b \notin moved /\ ~ByOrder(b) /\ (payouts[b] # 0 => Entered(b))
  BY <1>1, LapsesGrow, MovedGrow DEF OnceInv
<1>3. CASE OtherStep
  <2>1. UNCHANGED <<record, job, asked>>
    BY <1>3, StepOfOthers
  <2>2. payouts'[b] = payouts[b]
    <3>1. ASSUME NEW h \in Hands, hand[h].at = "paid", hand[h].bet = b PROVE FALSE
      BY <1>2, <3>1 DEF ByOrder, MinesTypes, PayInv, HandHolds
    <3> QED
      BY <1>3, <3>1, OtherPays DEF PayoutsGo
  <2>3. Entered(b)
    BY <1>2, <2>2
  <2>4. row'[b].status \in {"WT_DONE", "REFUND"}
    BY <1>3, <2>3, OtherRows DEF Entered, StakeInv, RecordHolds
  <2> QED
    BY <2>1, <2>2, <2>3, <2>4 DEF Entered
<1>4. ASSUME NEW s \in Threads, NEW c \in Bets, BetCall(s, c)
      PROVE  Entered(b)'
  <2>1. UNCHANGED <<row, payouts, asked>> /\ row[c].status = "NONE"
    BY <1>4 DEF BetCall, Fresh
  <2>2. Entered(b)
    BY <1>2, <2>1
  <2>3. b # c
    BY <2>1, <2>2 DEF Entered
  <2> QED
    BY <1>4, <2>1, <2>2, <2>3, BetCallDoes DEF Entered, Others
<1>5. ASSUME NEW s \in Threads, NEW c \in Bets, Play(s, c)
      PROVE  Entered(b)'
  <2>1. UNCHANGED <<payVars, asked>> /\ moved' = IF c \in asked THEN moved \cup {c} ELSE moved
    BY <1>5 DEF Play
  <2>2. UNCHANGED <<row, payouts, asked>>
    BY <2>1 DEF payVars
  <2>3. Entered(b) /\ b # c
    BY <1>2, <2>1, <2>2 DEF Entered
  <2> QED
    BY <1>5, <2>2, <2>3, PlayDoes DEF Entered, Others
<1>6. ASSUME NEW s \in Threads, NEW c \in Bets, Withdraw(s, c)
      PROVE  Entered(b)'
  <2>1. UNCHANGED <<payVars, asked>>
    BY <1>6 DEF Withdraw
  <2>2. UNCHANGED <<row, payouts, asked>>
    BY <2>1 DEF payVars
  <2>3. Entered(b)
    BY <1>2, <2>2
  <2>4. b # c
    BY <1>6, <2>3, WithdrawDoes DEF Entered
  <2> QED
    BY <1>6, <2>2, <2>3, <2>4, WithdrawDoes DEF Entered, Others
<1>7. ASSUME NEW s \in Threads,
             \/ BetSet(s) \/ BetRollback(s) \/ PlayBomb(s) \/ PlayRollback(s)
             \/ PayoutRefused(s) \/ PayoutSubmit(s) \/ PayoutRollback(s)
      PROVE  Entered(b)'
  <2>1. UNCHANGED <<payVars, asked>> /\ job[s].at # "idle"
    BY <1>7 DEF BetSet, BetRollback, PlayBomb, PlayRollback, PayoutRefused, PayoutSubmit,
                PayoutRollback
  <2>2. UNCHANGED <<row, payouts, asked>> /\ Entered(b)
    BY <1>2, <2>1 DEF payVars
  <2>3. GameStep(s)
    BY <1>7 DEF GameStep
  <2>4. job'[s] = NoJob \/ job[s].bet # b
    <3>1. CASE BetRollback(s) \/ PlayRollback(s)
      BY <3>1, BetRollbackDoes, PlayRollbackDoes
    <3>2. CASE BetSet(s) \/ PlayBomb(s) \/ PayoutRefused(s) \/ PayoutSubmit(s)
               \/ PayoutRollback(s)
      <4>1. job[s].at # "commit"
        BY <3>2 DEF BetSet, PlayBomb, PayoutRefused, PayoutSubmit, PayoutRollback
      <4> QED
        BY <2>2, <4>1 DEF Entered
    <3> QED
      BY <1>7, <3>1, <3>2
  <2>5. Others(s) /\ (GoesOn(s) \/ Ends(s))
    BY <2>1, <2>3, StepOfOne DEF Starts, NoJob
  <2>6. \A r \in Threads : job'[r].bet = b => job'[r].at = "commit" /\ ~job'[r].bomb
    <3> SUFFICES ASSUME NEW r \in Threads, job'[r].bet = b
                 PROVE  job'[r].at = "commit" /\ ~job'[r].bomb
      OBVIOUS
    <3>1. CASE r = s
      BY <2>4, <2>5, <3>1 DEF GoesOn, Ends, Moved, NoJob
    <3>2. CASE r # s
      BY <2>2, <2>5, <3>2 DEF Others, Entered
    <3> QED
      BY <3>1, <3>2
  <2> QED
    BY <2>2, <2>6 DEF Entered
<1>8. ASSUME NEW s \in Threads, BetCommit(s)
      PROVE  Entered(b)'
  <2>1. UNCHANGED <<payouts, asked>>
    BY <1>8 DEF BetCommit
  <2>2. Entered(b) /\ job[s].bet # b
    BY <1>2, <1>8, <2>1, BetCommitDoes DEF Entered
  <2> QED
    BY <1>8, <2>1, <2>2, BetCommitDoes DEF Entered, Others, NoJob
<1>9. ASSUME NEW s \in Threads, PlayCommit(s)
      PROVE  Entered(b)'
  <2>1. UNCHANGED <<payouts, asked>>
    BY <1>9 DEF PlayCommit
  <2>2. Entered(b)
    BY <1>2, <2>1
  <2>3. row'[b] = row[b]
    BY <1>9, <2>2, PlayCommitDoes DEF Entered
  <2> QED
    BY <1>9, <2>1, <2>2, <2>3, PlayCommitDoes DEF Entered, Others, NoJob
<1>10. ASSUME NEW s \in Threads, PayoutCall(s)
       PROVE  Entered(b)'
  <2>1. UNCHANGED <<row, payouts>> /\ asked \subseteq asked' /\ job[s].at = "pay"
    BY <1>10 DEF PayoutCall
  <2>2. Entered(b) /\ job[s].bet # b
    BY <1>2, <2>1 DEF Entered
  <2>3. Others(s) /\ job'[s].bet = job[s].bet
    BY <1>10, PayoutCallDoes DEF Moved
  <2> QED
    BY <2>1, <2>2, <2>3 DEF Entered, Others
<1>11. ASSUME NEW s \in Threads, PayoutCommit(s)
       PROVE  Entered(b)'
  <2>1. asked' = asked /\ job[s].at \in {"record", "failed"}
    BY <1>11 DEF PayoutCommit
  <2>2. job[s].bet \in asked /\ ~job[s].bomb
    BY <2>1 DEF StakeInv, JobHolds, MinesTypes, JobsOK, JobOK, PayingAt
  <2>3. \A r \in Threads \ {s} : job[r] = NoJob /\ job'[r] = NoJob
    BY <1>2, <1>11, <2>1, OnlyOne, PayoutCommitDoes DEF Others
  <2>4. job'[s] = NoJob \/ (job'[s].at = "commit" /\ job'[s].bet = job[s].bet
                            /\ job'[s].bomb = job[s].bomb)
    BY <1>11, PayoutCommitDoes DEF Moved
  <2>5. \A r \in Threads : job'[r].bet = b => job'[r].at = "commit" /\ ~job'[r].bomb
    BY <2>2, <2>3, <2>4 DEF NoJob
  <2>6. CASE b = job[s].bet
    <3>1. payouts[b] = 0
      BY <1>2, <2>1, <2>6 DEF Entered
    <3>2. job[s].at = "record" /\ payouts'[b] = 1
      BY <1>11, <2>1, <2>6, <3>1, PayoutCommitDoes DEF OneMore
    <3> QED
      BY <1>11, <2>1, <2>2, <2>5, <2>6, <3>2, PayoutCommitDoes DEF Entered
  <2>7. CASE b # job[s].bet
    <3>1. payouts'[b] = payouts[b] /\ row'[b] = row[b]
      BY <1>11, <2>7, PayoutCommitDoes
    <3> QED
      BY <1>2, <2>1, <2>5, <3>1 DEF Entered
  <2> QED
    BY <2>6, <2>7
<1>12. ASSUME NEW s \in Threads, LockLapses(s)
       PROVE  FALSE
  BY <1>2, <1>12 DEF LockLapses
<1>13. CASE Restart
  <2>1. UNCHANGED <<row, payouts, asked>>
    BY <1>13 DEF Restart
  <2> QED
    BY <1>2, <1>13, <2>1, RestartDoes DEF Entered, NoJob
<1>14. CASE UNCHANGED vars
  <2>1. UNCHANGED <<row, payouts, asked, job>>
    BY <1>14 DEF vars, payVars, minesVars
  <2> QED
    BY <1>2, <2>1 DEF Entered
<1> QED
  BY <1>3, <1>4, <1>5, <1>6, <1>7, <1>8, <1>9, <1>10, <1>11, <1>12, <1>13, <1>14,
     KindsOfStep DEF GameStep

LEMMA OnceHolds == Spec => []OnceInv
<1>1. Init => OnceInv
  BY DEF Init, PayInit, OnceInv, HandFree, NoHand
<1> QED
  BY <1>1, OnceKept, MinesTypesHold, StakeHolds, AloneHolds, PTL DEF Spec

\* A payout of mines is entered once, though it may be asked for by the player, a play
\* and the timeout task: unless the game was played on or an outcome rolled back after
\* the first payout was asked, or an operator paid by hand, or a lease ended too early.
THEOREM PayoutEnteredOnce == Spec => []EnteredOnce
<1>1. OnceInv => EnteredOnce
  BY DEF OnceInv, EnteredOnce, ByOrder, Entered
<1> QED
  BY <1>1, OnceHolds, PTL

(***************************************************************************)
(* The key of the ongoing game.  As long as games do not overlap and every *)
(* update of the key was meant, one game at most is under way, what waits  *)
(* in the pool is about it, and its key is or will be set unless the step  *)
(* that ends it is on.                                                     *)
(***************************************************************************)

Alive(b) == \/ row[b].status \in {"BET_DONE", "WT_FAILED"}
            \/ \E s \in Threads : job[s].bet = b
Playing(b) == \/ row[b].status = "BET_DONE"
              \/ \E s \in Threads : job[s].at \in BettingAt /\ job[s].bet = b

\* The key will name b once the pool has caught up, whatever the order.
WillName(b) ==
  /\ \A t \in KeyTask : t.op = "delete" /\ t.bet = b => pool[t] = 0
  /\ key = b \/ \E t \in KeyTask : t.op = "set" /\ t.bet = b /\ pool[t] > 0

\* The game of s is about to be written as over, and the key is on its way out.
Closing(s) == job[s].at = "record" \/ (job[s].at = "commit" /\ job[s].bomb)

OneAlive == \A b, c \in Bets : Alive(b) /\ Alive(c) => b = c
PoolOfOne == \A b \in Bets : Playing(b) => \A t \in KeyTask : pool[t] > 0 => t.bet = b
BetAlone ==
  \A s \in Threads :
    /\ job[s].at \in BettingAt => \A r \in Threads : job[r].at # "idle" => r = s
    /\ job[s].at = "paid" => PoolEmpty
    /\ job[s].at = "set" => WillName(job[s].bet)
Findable ==
  \A b \in Bets : row[b].status = "BET_DONE"
    => WillName(b) \/ \E s \in Threads : job[s].bet = b /\ Closing(s)

NameInv == ~strayed => OneAlive /\ PoolOfOne /\ BetAlone /\ Findable

\* Steps after which nothing more is alive than before, with the pool as it was.
LEMMA NameShrinks ==
  ASSUME OneAlive, PoolOfOne, BetAlone, UNCHANGED <<pool, key>>,
         \A b \in Bets : Alive(b)' => Alive(b),
         \A b \in Bets : Playing(b)' => Playing(b),
         \A s \in Threads : job'[s].at \in BettingAt =>
           /\ job'[s].at = job[s].at /\ job'[s].bet = job[s].bet
           /\ \A r \in Threads : job'[r].at # "idle" => job[r].at # "idle"
  PROVE  OneAlive' /\ PoolOfOne' /\ BetAlone'
<1>1. OneAlive' /\ PoolOfOne'
  BY DEF OneAlive, PoolOfOne
<1>2. BetAlone'
  <2> SUFFICES ASSUME NEW s \in Threads, job'[s].at \in BettingAt \cup {"paid", "set"}
               PROVE  /\ \A r \in Threads : job'[r].at # "idle" => r = s
                      /\ job'[s].at = "paid" => PoolEmpty'
                      /\ job'[s].at = "set" => WillName(job[s].bet)'
                      /\ job'[s].bet = job[s].bet
    BY DEF BetAlone, BettingAt
  <2> QED
    BY DEF BetAlone, BettingAt, PoolEmpty, WillName
<1> QED
  BY <1>1, <1>2

\* A job that is not a bet goes on or ends.
LEMMA NameGoes ==
  ASSUME MinesTypes, NameInv, ~strayed, NEW s \in Threads, Others(s),
         job[s].at \notin BettingAt \cup {"idle"}, UNCHANGED <<pool, key>>,
         \A c \in Bets \ {job[s].bet} : row'[c] = row[c],
         row'[job[s].bet] = row[job[s].bet] \/ row'[job[s].bet].status # "BET_DONE",
         \/ job'[s] = NoJob
         \/ job'[s].bet = job[s].bet /\ job'[s].at \notin BettingAt,
         Closing(s) => row'[job[s].bet].status # "BET_DONE" \/ Closing(s)'
  PROVE  NameInv'
<1> DEFINE b == job[s].bet
<1>1. OneAlive /\ PoolOfOne /\ BetAlone /\ Findable
  BY DEF NameInv
<1>2. b \in Bets /\ Alive(b)
  BY DEF MinesTypes, JobsOK, JobOK, Alive
<1>3. \A r \in Threads : job[r].at \notin BettingAt /\ job'[r].at \notin BettingAt
  BY <1>1 DEF BetAlone, Others, NoJob, BettingAt
<1>4. \A c \in Bets, r \in Threads : job'[r].bet = c => job[r].bet = c
  BY JobNone DEF Others
<1>5. \A c \in Bets : Alive(c)' => Alive(c)
  BY <1>2, <1>4 DEF Alive
<1>6. \A c \in Bets : row'[c].status = "BET_DONE" => row[c].status = "BET_DONE"
  OBVIOUS
<1>7. OneAlive' /\ PoolOfOne' /\ BetAlone'
  BY <1>1, <1>3, <1>5, <1>6, NameShrinks DEF Playing
<1>8. Findable'
  <2> SUFFICES ASSUME NEW c \in Bets, row'[c].status = "BET_DONE"
               PROVE  WillName(c)' \/ \E r \in Threads : job'[r].bet = c /\ Closing(r)'
    BY DEF Findable
  <2>1. row[c].status = "BET_DONE" /\ c = b
    BY <1>1, <1>2, <1>6 DEF OneAlive, Alive
  <2>2. CASE WillName(c)
    BY <2>2 DEF WillName
  <2>3. ASSUME NEW r \in Threads, job[r].bet = c, Closing(r)
        PROVE  \E k \in Threads : job'[k].bet = c /\ Closing(k)'
    <3>1. CASE r = s
      BY <2>1, <2>3, <3>1 DEF Closing, NoJob
    <3>2. CASE r # s
      BY <2>3, <3>2 DEF Closing, Others
    <3> QED
      BY <3>1, <3>2
  <2> QED
    BY <1>1, <2>1, <2>2, <2>3 DEF Findable
<1> QED
  BY <1>7, <1>8 DEF NameInv

\* A key that is no longer meant is on its way out.
LEMMA NameDeletes ==
  ASSUME MinesTypes, NameInv, ~strayed, NEW s \in Threads, Others(s),
         job[s].at \notin BettingAt \cup {"idle"}, UNCHANGED row,
         job'[s].bet = job[s].bet, Closing(s)',
         \A t \in KeyTask : pool'[t] = IF t.op = "delete" /\ t.bet = job[s].bet
                                       THEN pool[t] + 1 ELSE pool[t]
  PROVE  NameInv'
<1> DEFINE b == job[s].bet
<1>1. OneAlive /\ PoolOfOne /\ BetAlone
  BY DEF NameInv
<1>2. b \in Bets /\ Alive(b) /\ b # NoBet
  BY DEF MinesTypes, JobsOK, JobOK, Alive
<1>3. \A r \in Threads : job[r].at \notin BettingAt /\ job'[r].at \notin BettingAt
  BY <1>1 DEF BetAlone, Others, Closing, BettingAt
<1>4. \A r \in Threads : job'[r].bet = job[r].bet
  BY DEF Others
<1>5. OneAlive'
  BY <1>1, <1>4 DEF OneAlive, Alive
<1>6. \A c \in Bets : row[c].status = "BET_DONE" => c = b
  BY <1>1, <1>2 DEF OneAlive, Alive
<1>7. PoolOfOne'
  <2> SUFFICES ASSUME NEW c \in Bets, Playing(c)', NEW t \in KeyTask, pool'[t] > 0
               PROVE  t.bet = c
    BY DEF PoolOfOne
  <2>1. row[c].status = "BET_DONE" /\ c = b
    BY <1>3, <1>6 DEF Playing
  <2>2. t.bet # b => pool[t] > 0
    OBVIOUS
  <2> QED
    BY <1>1, <2>1, <2>2 DEF PoolOfOne, Playing
<1>8. BetAlone'
  BY <1>3 DEF BetAlone, BettingAt
<1>9. Findable'
  BY <1>6 DEF Findable
<1> QED
  BY <1>5, <1>7, <1>8, <1>9 DEF NameInv

\* A game in play, or whose payout failed, is played or paid.
LEMMA NameStarts ==
  ASSUME MinesTypes, StakeInv, NameInv, ~strayed, NEW s \in Threads, NEW b \in Bets,
         Others(s), job[s] = NoJob, job'[s].bet = b, job'[s].at \notin BettingAt,
         row[b].status \in {"BET_DONE", "WT_FAILED"}, UNCHANGED <<row, pool, key>>
  PROVE  NameInv'
<1>1. OneAlive /\ PoolOfOne /\ BetAlone /\ Findable /\ Alive(b)
  BY DEF NameInv, Alive
<1>2. \A r \in Threads : job[r].at \notin BettingAt
  <2> SUFFICES ASSUME NEW r \in Threads, job[r].at \in BettingAt PROVE FALSE
    OBVIOUS
  <2>1. job[r].bet \in Bets /\ row[job[r].bet].status = "NONE"
    BY OnlyPlaced DEF Placing
  <2>2. Alive(job[r].bet)
    BY <2>1 DEF Alive
  <2> QED
    BY <1>1, <2>1, <2>2 DEF OneAlive
<1>3. \A r \in Threads : job'[r].at \notin BettingAt
  BY <1>2 DEF Others
<1>4. \A c \in Bets : Alive(c)' => Alive(c)
  BY <1>1 DEF Alive, Others
<1>5. OneAlive' /\ PoolOfOne' /\ BetAlone'
  BY <1>1, <1>3, <1>4, NameShrinks DEF Playing
<1>6. \A r \in Threads : Closing(r) => job'[r] = job[r]
  BY DEF Closing, Others, NoJob
<1>7. Findable'
  <2> SUFFICES ASSUME NEW c \in Bets, row[c].status = "BET_DONE"
               PROVE  WillName(c)' \/ \E r \in Threads : job'[r].bet = c /\ Closing(r)'
    BY DEF Findable
  <2>1. CASE WillName(c)
    BY <2>1 DEF WillName
  <2>2. ASSUME NEW r \in Threads, job[r].bet = c, Closing(r)
        PROVE  job'[r].bet = c /\ Closing(r)'
    BY <1>6, <2>2 DEF Closing
  <2> QED
    BY <1>1, <2>1, <2>2 DEF Findable
<1> QED
  BY <1>5, <1>7 DEF NameInv

\* A bet is placed: nothing else is under way.
LEMMA NameBetCall ==
  ASSUME MinesTypes, NEW s \in Threads, NEW b \in Bets, BetCall(s, b), ~strayed'
  PROVE  NameInv'
<1>1. /\ Others(s) /\ job'[s].op = "bet" /\ job'[s].bet = b
      /\ job'[s].at \in {"paid", "declined"} /\ UNCHANGED <<row, pool, key>>
  BY BetCallDoes DEF BetCall
<1>2. /\ PoolEmpty /\ \A c \in Bets : row[c].status \notin {"BET_DONE", "WT_FAILED"}
      /\ \A r \in Threads : job[r].at = "idle"
  BY DEF BetCall
<1>3. \A r \in Threads \ {s} : job'[r] = NoJob
  BY <1>1, <1>2 DEF Others, MinesTypes, JobsOK, JobOK
<1>4. \A c \in Bets : Alive(c)' => c = b
  BY <1>1, <1>2, <1>3, JobNone DEF Alive
<1>5. OneAlive' /\ Findable'
  BY <1>1, <1>2, <1>4 DEF OneAlive, Findable
<1>6. PoolEmpty' /\ PoolOfOne'
  BY <1>1, <1>2 DEF PoolEmpty, PoolOfOne, MinesTypes, MinesTypeOK
<1>7. BetAlone'
  BY <1>1, <1>3, <1>6, JobNone DEF BetAlone, BettingAt
<1> QED
  BY <1>5, <1>6, <1>7 DEF NameInv

\* Its key is on the way.
LEMMA NameBetSet ==
  ASSUME MinesTypes, StakeInv, NameInv, NEW s \in Threads, BetSet(s), ~strayed'
  PROVE  NameInv'
<1> PICK b \in Bets : b = job[s].bet
  BY BetSetDoes
<1>1. /\ Others(s) /\ Moved(s, "set") /\ job[s].at = "paid"
      /\ \A t \in KeyTask : pool'[t] = IF t.op = "set" /\ t.bet = b
                                       THEN pool[t] + 1 ELSE pool[t]
  BY BetSetDoes
<1>2. ~strayed /\ UNCHANGED <<row, key>>
  BY DEF BetSet, payVars
<1>3. OneAlive /\ PoolOfOne /\ BetAlone
  BY <1>2 DEF NameInv
<1>4. PoolEmpty /\ Placing(s) /\ Alive(b) /\ \A r \in Threads : job[r].at # "idle" => r = s
  BY <1>1, <1>3, OnlyPlaced DEF BetAlone, Alive, BettingAt
<1>5. \A r \in Threads : job'[r].bet = job[r].bet
  BY <1>1 DEF Moved, Others
<1>6. OneAlive'
  BY <1>2, <1>3, <1>5 DEF OneAlive, Alive
<1>7. \A c \in Bets : Alive(c) => c = b
  BY <1>1, <1>3, <1>4 DEF OneAlive
<1>8. \A c \in Bets : row[c].status # "BET_DONE"
  BY <1>4, <1>7 DEF Alive, Placing
<1>9. \A t \in KeyTask : pool[t] = 0
  BY <1>4 DEF PoolEmpty
<1>10. PoolOfOne'
  <2> SUFFICES ASSUME NEW c \in Bets, Playing(c)', NEW t \in KeyTask, pool'[t] > 0
               PROVE  t.bet = c
    BY DEF PoolOfOne
  <2>1. c = b
    BY <1>2, <1>5, <1>7, <1>8 DEF Playing, Alive
  <2>2. t.bet = b
    BY <1>1, <1>9
  <2> QED
    BY <2>1, <2>2
<1>11. WillName(b)'
  <2>1. \A t \in KeyTask : t.op = "delete" /\ t.bet = b => pool'[t] = 0
    BY <1>1, <1>9
  <2>2. \E t \in KeyTask : t.op = "set" /\ t.bet = b /\ pool'[t] > 0
    <3> DEFINE u == [op |-> "set", bet |-> b]
    <3>1. u \in KeyTask /\ u.op = "set" /\ u.bet = b
      BY <1>1 DEF KeyTask
    <3>2. pool'[u] > 0
      BY <1>1, <1>9, <3>1
    <3> QED
      BY <3>1, <3>2
  <2> QED
    BY <2>1, <2>2 DEF WillName
<1>12. \A r \in Threads : job'[r].at # "idle" => r = s
  BY <1>1, <1>4 DEF Others
<1>13. BetAlone'
  BY <1>1, <1>5, <1>11, <1>12 DEF BetAlone, BettingAt, Moved
<1>14. Findable'
  BY <1>2, <1>8 DEF Findable
<1> QED
  BY <1>6, <1>10, <1>13, <1>14 DEF NameInv

\* It is in play, or declined.
LEMMA NameBetCommit ==
  ASSUME MinesTypes, StakeInv, NameInv, NEW s \in Threads, BetCommit(s), ~strayed'
  PROVE  NameInv'
<1> DEFINE b == job[s].bet
<1>1. /\ Others(s) /\ job'[s] = NoJob /\ job[s].at \in {"set", "declined"} /\ b \in Bets
      /\ \A c \in Bets : c # b => row'[c] = row[c]
      /\ row'[b].status = IF job[s].at = "set" THEN "BET_DONE" ELSE "BET_FAILED"
  BY BetCommitDoes
<1>2. ~strayed /\ UNCHANGED <<pool, key>>
  BY DEF BetCommit
<1>3. OneAlive /\ PoolOfOne /\ BetAlone /\ Findable
  BY <1>2 DEF NameInv
<1>4. Placing(s) /\ Alive(b) /\ Playing(b) /\ \A r \in Threads : job[r].at # "idle" => r = s
  BY <1>1, <1>3, OnlyPlaced DEF BetAlone, Alive, Playing, BettingAt
<1>5. \A r \in Threads : job'[r].at = "idle" /\ job'[r] = NoJob
  BY <1>1, <1>4, JobNone DEF Others, MinesTypes, JobsOK, JobOK
<1>6. \A c \in Bets : Alive(c) => c = b
  BY <1>1, <1>3, <1>4 DEF OneAlive
<1>7. \A c \in Bets : Alive(c)' => c = b
  BY <1>1, <1>5, <1>6, JobNone DEF Alive
<1>8. OneAlive'
  BY <1>7 DEF OneAlive
<1>9. PoolOfOne'
  BY <1>2, <1>3, <1>4, <1>5, <1>7 DEF PoolOfOne, Playing, Alive, BettingAt
<1>10. BetAlone'
  BY <1>5 DEF BetAlone, BettingAt
<1>11. Findable'
  <2> SUFFICES ASSUME NEW c \in Bets, row'[c].status = "BET_DONE"
               PROVE  WillName(c)'
    BY DEF Findable
  <2>1. c = b /\ job[s].at = "set"
    BY <1>1, <1>7 DEF Alive
  <2> QED
    BY <1>2, <1>3, <2>1 DEF BetAlone, WillName
<1> QED
  BY <1>8, <1>9, <1>10, <1>11 DEF NameInv

\* It is rolled back before its key was on the way.
LEMMA NameBetRollback ==
  ASSUME MinesTypes, StakeInv, NameInv, NEW s \in Threads, BetRollback(s), ~strayed'
  PROVE  NameInv'
<1>1. /\ Others(s) /\ job'[s] = NoJob /\ job[s].at \in {"paid", "set", "declined"}
      /\ UNCHANGED <<row, pool, key>> /\ ~strayed
  BY BetRollbackDoes DEF BetRollback, payVars
<1>2. OneAlive /\ PoolOfOne /\ BetAlone /\ Findable
  BY <1>1 DEF NameInv
<1>3. \A r \in Threads : job'[r] = NoJob \/ job'[r] = job[r]
  BY <1>1 DEF Others
<1>4. \A c \in Bets : Alive(c)' => Alive(c)
  BY <1>1, <1>3, JobNone DEF Alive
<1>5. \A c \in Bets : Playing(c)' => Playing(c)
  BY <1>1, <1>3, JobNone DEF Playing, BettingAt
<1>6. OneAlive' /\ PoolOfOne' /\ BetAlone'
  BY <1>1, <1>2, <1>3, <1>4, <1>5, NameShrinks, JobNone DEF BettingAt
<1>7. \A r \in Threads : Closing(r) => job'[r] = job[r]
  BY <1>1 DEF Closing, Others
<1>8. \A r \in Threads : Closing(r) => Closing(r)'
  BY <1>7 DEF Closing
<1>9. Findable'
  <2> SUFFICES ASSUME NEW c \in Bets, row[c].status = "BET_DONE"
               PROVE  WillName(c)' \/ \E r \in Threads : job'[r].bet = c /\ Closing(r)'
    BY <1>1 DEF Findable
  <2>1. CASE WillName(c)
    BY <1>1, <2>1 DEF WillName
  <2>2. ASSUME NEW r \in Threads, job[r].bet = c, Closing(r)
        PROVE  job'[r].bet = c /\ Closing(r)'
    BY <1>7, <1>8, <2>2
  <2> QED
    BY <1>2, <2>1, <2>2 DEF Findable
<1> QED
  BY <1>6, <1>9 DEF NameInv

\* Steps that leave jobs, pool and key as they are, and put no game in play.
LEMMA NameFrame ==
  ASSUME MinesTypes, NameInv, ~strayed, UNCHANGED <<pool, key>>,
         \A s \in Threads : /\ job'[s].at = job[s].at /\ job'[s].bet = job[s].bet
                            /\ job'[s].bomb = job[s].bomb,
         \A b \in Bets : row'[b] = row[b]
                         \/ row'[b].status \notin {"BET_DONE", "WT_FAILED"}
  PROVE  NameInv'
<1>1. OneAlive /\ PoolOfOne /\ BetAlone /\ Findable
  BY DEF NameInv
<1>2. \A b \in Bets : (Alive(b)' => Alive(b)) /\ (Playing(b)' => Playing(b))
  BY DEF Alive, Playing
<1>3. OneAlive' /\ PoolOfOne' /\ BetAlone'
  BY <1>1, <1>2, NameShrinks
<1>4. Findable'
  BY <1>1 DEF Findable, WillName, Closing
<1> QED
  BY <1>3, <1>4 DEF NameInv

\* A pool thread runs an update.
LEMMA NameKeyUpdate ==
  ASSUME MinesTypes, NameInv, ~strayed, NEW t \in KeyTask, KeyUpdate(t)
  PROVE  NameInv'
<1>1. /\ pool[t] > 0 /\ key' = IF t.op = "set" THEN t.bet ELSE NoBet
      /\ \A u \in KeyTask : pool'[u] = IF u = t THEN pool[u] - 1 ELSE pool[u]
      /\ \A u \in KeyTask : pool[u] \in Nat
  BY KeyUpdateDoes DEF MinesTypes, MinesTypeOK
<1>2. UNCHANGED <<row, job>> /\ t.op \in {"set", "delete"}
  BY DEF KeyUpdate, payVars, KeyTask
<1>3. OneAlive /\ PoolOfOne /\ BetAlone /\ Findable
  BY DEF NameInv
<1>4. OneAlive'
  BY <1>2, <1>3 DEF OneAlive, Alive
<1>5. \A u \in KeyTask : pool'[u] > 0 => pool[u] > 0
  BY <1>1
<1>6. PoolOfOne'
  BY <1>2, <1>3, <1>5 DEF PoolOfOne, Playing
<1>7. \A b \in Bets : Playing(b) /\ WillName(b) => WillName(b)'
  <2> SUFFICES ASSUME NEW b \in Bets, Playing(b), WillName(b)
               PROVE  WillName(b)'
    OBVIOUS
  <2>1. t.bet = b /\ t.op = "set" /\ key' = b
    BY <1>1, <1>2, <1>3 DEF PoolOfOne, WillName
  <2>2. \A u \in KeyTask : u.op = "delete" /\ u.bet = b => pool'[u] = 0
    BY <1>1, <2>1 DEF WillName
  <2> QED
    BY <2>1, <2>2 DEF WillName
<1>8. BetAlone'
  <2> SUFFICES ASSUME NEW s \in Threads, job[s].at \in BettingAt
               PROVE  /\ \A r \in Threads : job[r].at # "idle" => r = s
                      /\ job[s].at # "paid"
                      /\ job[s].at = "set" => WillName(job[s].bet)'
    BY <1>2 DEF BetAlone, BettingAt
  <2>1. job[s].at # "paid"
    BY <1>1, <1>3 DEF BetAlone, PoolEmpty
  <2> PICK b \in Bets : b = job[s].bet
    BY DEF MinesTypes, JobsOK, JobOK, BettingAt
  <2>2. Playing(b) /\ b = job'[s].bet
    BY <1>2 DEF Playing
  <2>3. WillName(b)' => WillName(job[s].bet)'
    BY <2>2 DEF WillName
  <2> QED
    BY <1>3, <1>7, <2>1, <2>2, <2>3 DEF BetAlone
<1>9. Findable'
  BY <1>2, <1>3, <1>7 DEF Findable, Playing, Closing
<1> QED
  BY <1>4, <1>6, <1>8, <1>9 DEF NameInv

\* An operator's write: his payout deletes the key when no game but his is alive.
LEMMA NameManualWrite ==
  ASSUME MinesTypes, StakeInv, NameInv, NEW h \in Hands, MinesManualWrite(h), ~strayed'
  PROVE  NameInv'
<1> DEFINE b == hand[h].bet
<1>1. /\ b \in Bets /\ hand[h].op \in {"WD", "REFUND"} /\ hand[h].at = "write"
      /\ \A c \in Bets : c # b => row'[c] = row[c]
      /\ row'[b].status \in {"WT_DONE", "REFUND"}
      /\ hand[h].op # "WD" => pool' = pool
  BY ManualWriteDoes
<1>2. /\ ~strayed /\ UNCHANGED <<key, job>>
      /\ hand[h].op = "WD" => ~Another(b)
  BY DEF MinesManualWrite
<1>3. CASE hand[h].op # "WD"
  BY <1>1, <1>2, <1>3, NameFrame
<1>4. CASE hand[h].op = "WD"
  <2>1. \A c \in Bets \ {b} : /\ row[c].status # "BET_DONE"
                              /\ \A r \in Threads : job[r].bet # c
    BY <1>2, <1>4 DEF Another
  <2>2. \A r \in Threads : job[r].at \notin BettingAt
    <3> SUFFICES ASSUME NEW r \in Threads, job[r].at \in BettingAt PROVE FALSE
      OBVIOUS
    <3>1. job[r].bet \in Bets \ {b}
      BY <1>1, OnlyPlaced DEF StakeInv, OrderHolds
    <3> QED
      BY <2>1, <3>1
  <2>3. \A c \in Bets : row'[c].status # "BET_DONE"
    BY <1>1, <2>1
  <2>4. \A c \in Bets : Alive(c)' => Alive(c)
    BY <1>1, <1>2 DEF Alive
  <2>5. OneAlive'
    BY <1>2, <2>4 DEF NameInv, OneAlive
  <2>6. PoolOfOne' /\ BetAlone' /\ Findable'
    BY <1>2, <2>2, <2>3 DEF PoolOfOne, Playing, BetAlone, Findable, BettingAt
  <2> QED
    BY <2>5, <2>6 DEF NameInv
<1> QED
  BY <1>3, <1>4

LEMMA NameKept ==
  ASSUME MinesTypes, StakeInv, NameInv, [Next]_vars
  PROVE  NameInv'
<1> SUFFICES ASSUME ~strayed' PROVE NameInv'
  BY DEF NameInv
<1>1. ASSUME NEW s \in Threads, NEW b \in Bets, BetCall(s, b)
      PROVE  NameInv'
  BY <1>1, NameBetCall
<1>2. ASSUME NEW s \in Threads, NEW b \in Bets, Play(s, b)
      PROVE  NameInv'
  <2>1. ~strayed /\ row[b].status = "BET_DONE" /\ UNCHANGED <<row, pool, key>>
    BY <1>2 DEF Play, payVars
  <2>2. /\ Others(s) /\ job[s] = NoJob /\ job'[s].bet = b
        /\ job'[s].at \in {"bomb", "pay", "commit"}
    BY <1>2, PlayDoes, MinesTypesKept DEF MinesTypes, JobsOK, JobOK
  <2> QED
    BY <2>1, <2>2, NameStarts DEF BettingAt
<1>3. ASSUME NEW s \in Threads, NEW b \in Bets, Withdraw(s, b)
      PROVE  NameInv'
  <2>1. ~strayed /\ UNCHANGED <<row, pool, key>>
    BY <1>3 DEF Withdraw, payVars
  <2> QED
    BY <1>3, <2>1, WithdrawDoes, NameStarts DEF BettingAt
<1>4. ASSUME NEW s \in Threads, BetSet(s) \/ BetCommit(s) \/ BetRollback(s)
      PROVE  NameInv'
  BY <1>4, NameBetSet, NameBetCommit, NameBetRollback
<1>5. ASSUME NEW s \in Threads, PlayBomb(s)
      PROVE  NameInv'
  <2>1. ~strayed /\ UNCHANGED row
    BY <1>5 DEF PlayBomb, payVars
  <2> QED
    BY <1>5, <2>1, PlayBombDoes, NameDeletes DEF Moved, Closing, BettingAt
<1>6. ASSUME NEW s \in Threads, PayoutSubmit(s)
      PROVE  NameInv'
  <2>1. ~strayed /\ UNCHANGED row
    BY <1>6 DEF PayoutSubmit, payVars
  <2> QED
    BY <1>6, <2>1, PayoutSubmitDoes, NameDeletes DEF Moved, Closing, BettingAt
<1>7. ASSUME NEW s \in Threads, PlayCommit(s)
      PROVE  NameInv'
  <2>1. ~strayed /\ UNCHANGED <<pool, key>>
    BY <1>7 DEF PlayCommit
  <2>2. Closing(s) => row'[job[s].bet].status # "BET_DONE"
    BY <1>7, PlayCommitDoes DEF Closing
  <2> QED
    BY <1>7, <2>1, <2>2, PlayCommitDoes, NameGoes DEF BettingAt
<1>8. ASSUME NEW s \in Threads, PlayRollback(s)
      PROVE  NameInv'
  <2>1. /\ ~strayed /\ UNCHANGED <<row, pool, key>>
        /\ job[s].at = "commit" /\ ~job[s].bomb
    BY <1>8 DEF PlayRollback, payVars
  <2>2. ~Closing(s)
    BY <2>1 DEF Closing
  <2> QED
    BY <1>8, <2>1, <2>2, PlayRollbackDoes, NameGoes DEF BettingAt
<1>9. ASSUME NEW s \in Threads, PayoutCall(s)
      PROVE  NameInv'
  <2>1. ~strayed /\ UNCHANGED <<row, pool, key>>
    BY <1>9 DEF PayoutCall
  <2>2. /\ Others(s) /\ job[s].at = "pay" /\ job'[s].bet = job[s].bet
        /\ job'[s].at \in {"payout", "failed"}
    BY <1>9, PayoutCallDoes DEF Moved
  <2> QED
    BY <2>1, <2>2, NameGoes DEF BettingAt, Closing
<1>10. ASSUME NEW s \in Threads, PayoutRefused(s)
       PROVE  NameInv'
  <2>1. ~strayed /\ UNCHANGED <<row, pool, key>>
    BY <1>10 DEF PayoutRefused, payVars
  <2> QED
    BY <1>10, <2>1, PayoutRefusedDoes, NameGoes DEF BettingAt, Closing, Moved
<1>11. ASSUME NEW s \in Threads, PayoutCommit(s)
       PROVE  NameInv'
  <2>1. ~strayed /\ UNCHANGED <<pool, key>>
    BY <1>11 DEF PayoutCommit
  <2>2. /\ row'[job[s].bet].status # "BET_DONE"
        /\ job'[s] = NoJob \/ (job'[s].bet = job[s].bet /\ job'[s].at = "commit")
    BY <1>11, PayoutCommitDoes DEF Moved
  <2> QED
    BY <1>11, <2>1, <2>2, PayoutCommitDoes, NameGoes DEF BettingAt
<1>12. ASSUME NEW s \in Threads, PayoutRollback(s)
       PROVE  NameInv'
  <2>1. ~strayed /\ job[s].at # "record" /\ UNCHANGED <<row, pool, key>>
    BY <1>12 DEF PayoutRollback, payVars
  <2>2. job'[s] = NoJob \/ (job'[s].bet = job[s].bet /\ job'[s].at = "commit")
    BY <1>12, PayoutRollbackDoes DEF Moved
  <2> QED
    BY <1>12, <2>1, <2>2, PayoutRollbackDoes, NameGoes DEF BettingAt, Closing
<1>13. ASSUME NEW s \in Threads, LockLapses(s)
       PROVE  NameInv'
  <2>1. ~strayed /\ UNCHANGED <<row, pool, key>>
    BY <1>13 DEF LockLapses, payVars
  <2>2. \A r \in Threads : /\ job'[r].at = job[r].at /\ job'[r].bet = job[r].bet
                           /\ job'[r].bomb = job[r].bomb
    BY <1>13, LockLapsesDoes DEF Others
  <2> QED
    BY <2>1, <2>2, NameFrame
<1>14. ASSUME (PayNext /\ UNCHANGED minesVars) \/ (\E i \in TimeoutId : AgeAfterRequest(i))
       PROVE  NameInv'
  <2>1. OtherStep /\ UNCHANGED minesVars
    BY <1>14, PayStepDoes DEF OtherStep
  <2>2. ~strayed /\ UNCHANGED <<pool, key, job>>
    BY <2>1 DEF minesVars
  <2>3. \A b \in Bets : row'[b] = row[b]
                        \/ row'[b].status \notin {"BET_DONE", "WT_FAILED"}
    BY <2>1, OtherRows
  <2> QED
    BY <2>2, <2>3, NameFrame
<1>15. ASSUME NEW h \in Hands, MinesManualWrite(h)
       PROVE  NameInv'
  BY <1>15, NameManualWrite
<1>16. ASSUME NEW t \in KeyTask, KeyUpdate(t)
       PROVE  NameInv'
  <2>1. ~strayed
    BY <1>16 DEF KeyUpdate
  <2> QED
    BY <1>16, <2>1, NameKeyUpdate
<1>17. CASE Restart
  BY <1>17 DEF Restart
<1>18. CASE UNCHANGED vars
  <2>1. ~strayed /\ UNCHANGED <<row, pool, key, job>>
    BY <1>18 DEF vars, payVars, minesVars
  <2> QED
    BY <2>1, NameFrame
<1> QED
  BY <1>1, <1>2, <1>3, <1>4, <1>5, <1>6, <1>7, <1>8, <1>9, <1>10, <1>11, <1>12, <1>13,
     <1>14, <1>15, <1>16, <1>17, <1>18 DEF Next

LEMMA NameHolds == Spec => []NameInv
<1>1. Init => NameInv
  <2> SUFFICES ASSUME Init PROVE NameInv
    OBVIOUS
  <2>1. /\ \A b \in Bets : row[b].status = "NONE"
        /\ \A s \in Threads : job[s].at = "idle" /\ job[s].bet = NoBet
    BY DEF Init, PayInit, NoRow, NoJob
  <2> QED
    BY <2>1 DEF NameInv, OneAlive, Alive, PoolOfOne, Playing, BetAlone, Findable, BettingAt
<1> QED
  BY <1>1, NameKept, MinesTypesHold, StakeHolds, PTL DEF Spec

\* The key of the ongoing game, which pool threads write and delete in any order and
\* whatever became of the transaction, names the game in play once the pool has caught
\* up: as long as games do not overlap and every update that was submitted was meant.
THEOREM OngoingFound == Spec => []OngoingIsFound
<1>1. MinesTypes /\ NameInv => OngoingIsFound
  <2> SUFFICES ASSUME MinesTypes, NameInv, NEW b \in Bets, Quiet, ~strayed,
                      row[b].status = "BET_DONE"
               PROVE  key = b
    BY DEF OngoingIsFound
  <2>1. \A s \in Threads : ~Closing(s)
    BY DEF Quiet, Closing
  <2>2. WillName(b)
    BY <2>1 DEF NameInv, Findable
  <2>3. \A t \in KeyTask : pool[t] = 0
    BY DEF Quiet, PoolEmpty
  <2> QED
    BY <2>2, <2>3 DEF WillName
<1> QED
  BY <1>1, MinesTypesHold, NameHolds, PTL

(***************************************************************************)
(* What is paid is what is recorded.  First: a timeout row grows old only  *)
(* when no thread is on its bet, and the task takes old ones only; a game  *)
(* that is over has a mine on record.                                      *)
(***************************************************************************)

LEMMA OtherAges ==
  ASSUME MinesTypes, OtherStep, NEW i \in TimeoutId, Named(i)
  PROVE  \/ timeouts'[i] = timeouts[i]
         \/ /\ task.at \in {"mark", "failed"} /\ task.cur = i
            /\ timeouts[i].state # "young" => timeouts'[i].state # "young"
         \/ /\ timeouts[i].state = "young" /\ \A s \in Threads : job[s].bet # timeouts[i].bet
<1>1. CASE PayNext
  BY <1>1, PayAges DEF MinesTypes
<1>2. ASSUME NEW k \in TimeoutId, AgeAfterRequest(k)
      PROVE  \/ timeouts'[i] = timeouts[i]
             \/ /\ timeouts[i].state = "young"
                /\ \A s \in Threads : job[s].bet # timeouts[i].bet
  BY <1>2 DEF AgeAfterRequest, Age
<1>3. ASSUME NEW h \in Hands, MinesManualWrite(h)
      PROVE  timeouts' = timeouts
  BY <1>3 DEF MinesManualWrite, ManualWrite
<1>4. ASSUME NEW t \in KeyTask, KeyUpdate(t)
      PROVE  timeouts' = timeouts
  BY <1>4 DEF KeyUpdate, payVars
<1> QED
  BY <1>1, <1>2, <1>3, <1>4 DEF OtherStep

\* A thread does not touch the task and the orders, nor a timeout row there is.
LEMMA GameBooks ==
  ASSUME MinesTypes, NEW s \in Threads, GameStep(s) \/ LockLapses(s)
  PROVE  /\ UNCHANGED <<task, hand, byHand>>
         /\ \A i \in TimeoutId : Named(i) => timeouts'[i] = timeouts[i]
<1>1. ASSUME NEW b \in Bets, BetCall(s, b)
      PROVE  /\ UNCHANGED <<task, hand, byHand>>
             /\ \A i \in TimeoutId : Named(i) => timeouts'[i] = timeouts[i]
  <2>1. PICK ok \in BOOLEAN : Call(b, "BET", Stake, ok)
    BY <1>1, BetCallDoes
  <2>2. "BET" \in Op /\ Stake \in Amount
    BY DEF Op, Amount
  <2>3. UNCHANGED <<task, hand, byHand>>
    BY <1>1 DEF BetCall
  <2> QED
    BY <2>1, <2>2, <2>3, CallBooks DEF MinesTypes
<1>2. CASE PayoutCall(s)
  <2>1. PICK ok \in BOOLEAN : Call(job[s].bet, "WD", job[s].copy.amount, ok)
    BY <1>2, PayoutCallDoes
  <2>2. "WD" \in Op /\ job[s].copy.amount \in Amount /\ job[s].bet \in Bets
    BY <1>2, PayoutCallDoes DEF Op
  <2>3. UNCHANGED <<task, hand, byHand>>
    BY <1>2 DEF PayoutCall
  <2> QED
    BY <2>1, <2>2, <2>3, CallBooks DEF MinesTypes
<1>3. ASSUME NEW b \in Bets, Play(s, b) \/ Withdraw(s, b)
      PROVE  UNCHANGED <<task, hand, byHand, timeouts>>
  BY <1>3 DEF Play, Withdraw, payVars
<1>4. CASE \/ BetSet(s) \/ BetCommit(s) \/ BetRollback(s)
           \/ PlayBomb(s) \/ PlayCommit(s) \/ PlayRollback(s)
  <2>1. UNCHANGED <<task, hand, byHand, timeouts>>
    BY <1>4 DEF BetSet, BetCommit, BetRollback, PlayBomb, PlayCommit, PlayRollback, payVars
  <2> QED
    BY <2>1
<1>5. CASE PayoutRefused(s) \/ PayoutSubmit(s) \/ PayoutCommit(s) \/ PayoutRollback(s)
           \/ LockLapses(s)
  <2>1. UNCHANGED <<task, hand, byHand, timeouts>>
    BY <1>5 DEF PayoutRefused, PayoutSubmit, PayoutCommit, PayoutRollback, LockLapses,
                payVars
  <2> QED
    BY <2>1
<1> QED
  BY <1>1, <1>2, <1>3, <1>4, <1>5 DEF GameStep

\* The task takes rows that are old enough.
TakesOld ==
  /\ \A i \in task.todo : timeouts[i].state # "young"
  /\ task.at \in {"call", "paid", "mark", "failed"} => timeouts[task.cur].state # "young"

LEMMA TakesOldKept ==
  ASSUME MinesTypes, TakesOld, [Next]_vars
  PROVE  TakesOld'
<1>1. /\ task.todo \subseteq TimeoutId /\ \A i \in task.todo : Named(i)
      /\ task.at \in {"call", "paid", "mark", "failed"}
           => task.cur \in TimeoutId /\ Named(task.cur)
  BY DEF MinesTypes, PayInv, PayTypeOK, TaskHolds
<1>2. CASE OtherStep
  <2>1. \A i \in TimeoutId : Named(i) /\ timeouts[i].state # "young"
                               => timeouts'[i].state # "young"
    BY <1>2, OtherAges
  <2>2. MinesTypes' /\ TaskGoes
    BY <1>2, OtherPays
  <2>3. task'.todo \subseteq TimeoutId
    BY <2>2 DEF MinesTypes, PayInv, PayTypeOK
  <2>4. \A i \in task'.todo : timeouts'[i].state # "young"
    <3> SUFFICES ASSUME NEW i \in task'.todo PROVE timeouts'[i].state # "young"
      OBVIOUS
    <3>1. i \in TimeoutId /\ Named(i) /\ timeouts[i].state # "young"
      BY <1>1, <2>2, <2>3 DEF TakesOld, TaskGoes, Named
    <3> QED
      BY <2>1, <3>1
  <2>5. ASSUME task'.at \in {"call", "paid", "mark", "failed"}
        PROVE  timeouts'[task'.cur].state # "young"
    <3>1. \/ task'.cur = task.cur /\ task.at \in {"call", "paid", "mark", "failed"}
          \/ task'.cur \in task.todo
      BY <2>2, <2>5 DEF TaskGoes
    <3>2. /\ task'.cur \in TimeoutId /\ Named(task'.cur)
          /\ timeouts[task'.cur].state # "young"
      BY <1>1, <3>1 DEF TakesOld
    <3> QED
      BY <2>1, <3>2
  <2> QED
    BY <2>4, <2>5 DEF TakesOld
<1>3. ASSUME NEW s \in Threads, GameStep(s) \/ LockLapses(s)
      PROVE  TakesOld'
  <2>1. task' = task /\ \A i \in TimeoutId : Named(i) => timeouts'[i] = timeouts[i]
    BY <1>3, GameBooks
  <2> QED
    BY <1>1, <2>1 DEF TakesOld
<1>4. CASE Restart
  BY <1>4 DEF Restart, TakesOld, NoTask
<1>5. CASE UNCHANGED vars
  BY <1>5 DEF vars, payVars, TakesOld
<1> QED
  BY <1>2, <1>3, <1>4, <1>5, KindsOfStep

\* A game is written as over by a play that has seen a mine.
MineShown ==
  /\ \A b \in Bets : row[b].status = "BOMB" => shots[b].mine
  /\ \A s \in Threads : job[s].bomb => Seen(job[s].bet, job[s].new).mine

LEMMA MineShownGoes ==
  ASSUME MinesTypes, MineShown,
         \A b \in Bets : shots[b].mine => shots'[b].mine,
         \A b \in Bets : row'[b].status = "BOMB" => row[b].status = "BOMB" \/ shots'[b].mine,
         \A s \in Threads :
           job'[s].bomb => \/ /\ job[s].bomb /\ job'[s].bet = job[s].bet
                              /\ job'[s].new = job[s].new
                           \/ job'[s].new.mine \/ shots'[job'[s].bet].mine
  PROVE  MineShown'
<1>1. \A s \in Threads : job[s].bomb => job[s].bet \in Bets
  BY DEF MinesTypes, JobsOK, JobOK, NoJob
<1>2. \A b \in Bets : row'[b].status = "BOMB" => shots'[b].mine
  BY DEF MineShown
<1>3. ASSUME NEW s \in Threads, job'[s].bomb
      PROVE  shots'[job'[s].bet].mine \/ job'[s].new.mine
  BY <1>1, <1>3 DEF MineShown, Seen
<1> QED
  BY <1>2, <1>3 DEF MineShown, Seen

LEMMA MineShownKept ==
  ASSUME MinesTypes, StakeInv, MineShown, [Next]_vars
  PROVE  MineShown'
<1>1. \A b \in Bets : shots[b] \in Fields
  BY DEF MinesTypes, MinesTypeOK
<1>2. CASE OtherStep
  <2>1. UNCHANGED <<shots, job>>
    BY <1>2, StepOfOthers
  <2>2. \A b \in Bets : row'[b].status = "BOMB" => row[b].status = "BOMB"
    BY <1>2, OtherRows
  <2> QED
    BY <2>1, <2>2, MineShownGoes
<1>3. ASSUME NEW s \in Threads, NEW b \in Bets, BetCall(s, b) \/ Play(s, b) \/ Withdraw(s, b)
      PROVE  MineShown'
  <2>1. UNCHANGED <<row, shots>>
    BY <1>3 DEF BetCall, Play, Withdraw, payVars
  <2>2. Others(s) /\ job'[s].bet = b /\ (job'[s].bomb => Seen(b, job'[s].new).mine)
    BY <1>3, BetCallDoes, PlayDoes, WithdrawDoes
  <2>3. job'[s].bomb => job'[s].new.mine \/ shots[b].mine
    BY <2>2 DEF Seen
  <2> QED
    BY <2>1, <2>2, <2>3, MineShownGoes DEF Others
<1>4. ASSUME NEW s \in Threads, GameStep(s), Others(s), GoesOn(s) \/ Ends(s),
             \A b \in Bets : shots[b].mine => shots'[b].mine,
             \A b \in Bets : row'[b].status = "BOMB"
                               => row[b].status = "BOMB" \/ shots'[b].mine
      PROVE  MineShown'
  BY <1>4, MineShownGoes DEF Others, GoesOn, Ends, Moved, NoJob
<1>5. ASSUME NEW s \in Threads, BetSet(s) \/ BetRollback(s) \/ PlayBomb(s) \/ PlayRollback(s)
                                \/ PayoutCall(s) \/ PayoutRefused(s) \/ PayoutSubmit(s)
                                \/ PayoutRollback(s)
      PROVE  UNCHANGED <<row, shots>>
  BY <1>5 DEF BetSet, BetRollback, PlayBomb, PlayRollback, PayoutCall, PayoutRefused,
              PayoutSubmit, PayoutRollback, payVars
<1>6. ASSUME NEW s \in Threads, BetCommit(s) \/ PayoutCommit(s)
      PROVE  shots' = shots /\ \A b \in Bets : row'[b].status = "BOMB" => row[b].status = "BOMB"
  <2>1. shots' = shots
    BY <1>6 DEF BetCommit, PayoutCommit
  <2> QED
    BY <1>6, <2>1, BetCommitDoes, PayoutCommitDoes
<1>7. ASSUME NEW s \in Threads, PlayCommit(s)
      PROVE  /\ \A b \in Bets : shots[b].mine => shots'[b].mine
             /\ \A b \in Bets : row'[b].status = "BOMB"
                                  => row[b].status = "BOMB" \/ shots'[b].mine
  <2>1. /\ \A c \in Bets : c # job[s].bet => row'[c] = row[c] /\ shots'[c] = shots[c]
        /\ shots'[job[s].bet] = Seen(job[s].bet, job[s].new)
        /\ ~job[s].bomb => row'[job[s].bet] = row[job[s].bet]
    BY <1>7, PlayCommitDoes
  <2>2. shots[job[s].bet].mine => shots'[job[s].bet].mine
    <3>1. job[s].bet \in Bets
      BY <1>7, PlayCommitDoes
    <3>2. shots[job[s].bet].mine \in BOOLEAN
      BY <1>1, <3>1 DEF Fields
    <3>3. Seen(job[s].bet, job[s].new).mine = (shots[job[s].bet].mine \/ job[s].new.mine)
      BY DEF Seen
    <3> QED
      BY <2>1, <3>2, <3>3
  <2>3. job[s].bomb => shots'[job[s].bet].mine
    BY <2>1 DEF MineShown
  <2> QED
    BY <2>1, <2>2, <2>3
<1>8. ASSUME NEW s \in Threads, GameStep(s), job[s].at # "idle"
      PROVE  MineShown'
  <2>1. Others(s) /\ (GoesOn(s) \/ Ends(s))
    BY <1>8, StepOfOne DEF Starts, NoJob
  <2>2. /\ \A b \in Bets : shots[b].mine => shots'[b].mine
        /\ \A b \in Bets : row'[b].status = "BOMB" => row[b].status = "BOMB" \/ shots'[b].mine
    <3>1. CASE \E b \in Bets : BetCall(s, b) \/ Play(s, b) \/ Withdraw(s, b)
      BY <1>8, <3>1, BetCallDoes, PlayDoes, WithdrawDoes DEF NoJob
    <3> QED
      BY <1>5, <1>6, <1>7, <1>8, <3>1 DEF GameStep
  <2> QED
    BY <1>4, <1>8, <2>1, <2>2
<1>9. ASSUME NEW s \in Threads, GameStep(s), job[s].at = "idle"
      PROVE  MineShown'
  <2>1. \E b \in Bets : BetCall(s, b) \/ Play(s, b) \/ Withdraw(s, b)
    BY <1>9 DEF GameStep, BetSet, BetCommit, BetRollback, PlayBomb, PlayCommit, PlayRollback,
                PayoutCall, PayoutRefused, PayoutSubmit, PayoutCommit, PayoutRollback
  <2> QED
    BY <1>3, <2>1
<1>10. ASSUME NEW s \in Threads, LockLapses(s)
       PROVE  MineShown'
  <2>1. UNCHANGED <<row, shots>>
    BY <1>10 DEF LockLapses, payVars
  <2> QED
    BY <1>10, <2>1, LockLapsesDoes, MineShownGoes DEF Others
<1>11. CASE Restart
  <2>1. UNCHANGED <<row, shots>>
    BY <1>11 DEF Restart
  <2> QED
    BY <1>11, <2>1, RestartDoes, MineShownGoes DEF NoJob
<1>12. CASE UNCHANGED vars
  <2>1. UNCHANGED <<row, shots, job>>
    BY <1>12 DEF vars, payVars, minesVars
  <2> QED
    BY <2>1, MineShownGoes
<1> QED
  BY <1>2, <1>8, <1>9, <1>10, <1>11, <1>12, KindsOfStep

\* What a payout of b is of: of the diamonds on record, and of those the play that is on
\* has found.
Plays(s, b) == job[s].op = "play" /\ job[s].bet = b
Owed(b, n) ==
  IF \E s \in Threads : Plays(s, b)
  THEN \A s \in Threads : Plays(s, b) => n = Prize[Seen(b, job[s].new).diamonds]
  ELSE n = Prize[shots[b].diamonds]

LEMMA OwedFrame ==
  ASSUME NEW b \in Bets, shots'[b] = shots[b],
         \A s \in Threads : Plays(s, b)' <=> Plays(s, b),
         \A s \in Threads : Plays(s, b) => job'[s].new = job[s].new
  PROVE  \A n : Owed(b, n)' <=> Owed(b, n)
<1>1. \A s \in Threads : Plays(s, b) => Seen(b, job[s].new)' = Seen(b, job[s].new)
  BY DEF Seen
<1> QED
  BY <1>1 DEF Owed

\* It stays, once it was asked for and unless the player goes on.
LEMMA OwedStays ==
  ASSUME MinesTypes, StakeInv, Alone, [Next]_vars, lapses' = 0,
         NEW b \in Bets, b \in asked, b \notin moved'
  PROVE  \A n : Owed(b, n) => Owed(b, n)'
<1>1. lapses = 0
  BY LapsesGrow
<1>2. CASE OtherStep
  <2>1. UNCHANGED <<shots, job>>
    BY <1>2, StepOfOthers
  <2> QED
    BY <2>1, OwedFrame DEF Plays
<1>3. ASSUME NEW s \in Threads, NEW c \in Bets, BetCall(s, c) \/ Play(s, c) \/ Withdraw(s, c)
      PROVE  \A n : Owed(b, n) => Owed(b, n)'
  <2>1. shots' = shots /\ (Play(s, c) => c # b)
    BY <1>3 DEF BetCall, Play, Withdraw
  <2>2. Others(s) /\ job[s] = NoJob /\ (job'[s].op = "play" => job'[s].bet # b)
    BY <1>3, <2>1, BetCallDoes, PlayDoes, WithdrawDoes
  <2>3. \A r \in Threads : Plays(r, b)' <=> Plays(r, b)
    BY <2>2, JobNone DEF Plays, Others
  <2>4. \A r \in Threads : Plays(r, b) => job'[r].new = job[r].new
    BY <2>2, JobNone DEF Plays, Others
  <2> QED
    BY <2>1, <2>3, <2>4, OwedFrame
<1>4. ASSUME NEW s \in Threads, GameStep(s), shots' = shots, job[s].at # "idle",
             job'[s] = NoJob => job[s].op # "play" \/ job[s].bet # b
      PROVE  \A n : Owed(b, n) => Owed(b, n)'
  <2>1. Others(s) /\ (GoesOn(s) \/ Ends(s))
    BY <1>4, StepOfOne DEF Starts, NoJob
  <2>2. \/ job'[s] = NoJob
        \/ job'[s].op = job[s].op /\ job'[s].bet = job[s].bet /\ job'[s].new = job[s].new
    BY <2>1 DEF GoesOn, Ends, Moved
  <2>3. \A r \in Threads : Plays(r, b)' <=> Plays(r, b)
    BY <1>4, <2>1, <2>2, JobNone DEF Plays, Others
  <2>4. \A r \in Threads : Plays(r, b) => job'[r].new = job[r].new
    BY <1>4, <2>1, <2>2, JobNone DEF Plays, Others
  <2> QED
    BY <1>4, <2>3, <2>4, OwedFrame
<1>5. ASSUME NEW s \in Threads, BetSet(s) \/ BetCommit(s) \/ BetRollback(s)
      PROVE  \A n : Owed(b, n) => Owed(b, n)'
  <2>1. shots' = shots /\ job[s].at \in BettingAt
    BY <1>5 DEF BetSet, BetCommit, BetRollback, BettingAt
  <2>2. job[s].bet # b
    BY <2>1, OnlyPlaced DEF StakeInv, RecordHolds
  <2> QED
    BY <1>4, <1>5, <2>1, <2>2 DEF GameStep, BettingAt
<1>6. ASSUME NEW s \in Threads, PlayBomb(s) \/ PayoutCall(s) \/ PayoutRefused(s)
                                \/ PayoutSubmit(s)
      PROVE  \A n : Owed(b, n) => Owed(b, n)'
  <2>1. shots' = shots /\ job[s].at # "idle"
    BY <1>6 DEF PlayBomb, PayoutCall, PayoutRefused, PayoutSubmit
  <2>2. job'[s] # NoJob
    BY <1>6, PlayBombDoes, PayoutCallDoes, PayoutRefusedDoes, PayoutSubmitDoes
       DEF Moved, NoJob
  <2> QED
    BY <1>4, <1>6, <2>1, <2>2 DEF GameStep
<1>7. ASSUME NEW s \in Threads, PayoutCommit(s) \/ PayoutRollback(s)
      PROVE  \A n : Owed(b, n) => Owed(b, n)'
  <2>1. shots' = shots /\ job[s].at # "idle"
    BY <1>7 DEF PayoutCommit, PayoutRollback
  <2>2. job'[s] = NoJob => job[s].op # "play"
    BY <1>7, PayoutCommitDoes, PayoutRollbackDoes DEF Moved, NoJob
  <2> QED
    BY <1>4, <1>7, <2>1, <2>2 DEF GameStep
<1>8. ASSUME NEW s \in Threads, PlayRollback(s)
      PROVE  \A n : Owed(b, n) => Owed(b, n)'
  <2>1. shots' = shots /\ job[s].at # "idle" /\ job[s].bet # b
    BY <1>8 DEF PlayRollback
  <2> QED
    BY <1>4, <1>8, <2>1 DEF GameStep
<1>9. ASSUME NEW s \in Threads, PlayCommit(s)
      PROVE  \A n : Owed(b, n) => Owed(b, n)'
  <2>1. /\ Others(s) /\ job'[s] = NoJob /\ job[s].at = "commit" /\ job[s].op = "play"
        /\ \A c \in Bets : c # job[s].bet => shots'[c] = shots[c]
        /\ shots'[job[s].bet] = Seen(job[s].bet, job[s].new)
    BY <1>9, PlayCommitDoes
  <2>2. \A r \in Threads \ {s} : job[r] = NoJob
    BY <1>1, <2>1, OnlyOne
  <2>3. CASE job[s].bet # b
    <3>1. \A r \in Threads : ~Plays(r, b) /\ ~Plays(r, b)'
      BY <2>1, <2>2, <2>3, JobNone DEF Plays, Others
    <3> QED
      BY <2>1, <2>3, <3>1, OwedFrame
  <2>4. CASE job[s].bet = b
    <3>1. Plays(s, b) /\ \A r \in Threads : ~Plays(r, b)'
      BY <2>1, <2>2, <2>4, JobNone DEF Plays, Others
    <3> QED
      BY <2>1, <2>4, <3>1 DEF Owed
  <2> QED
    BY <2>3, <2>4
<1>10. ASSUME NEW s \in Threads, LockLapses(s)
       PROVE  FALSE
  BY <1>1, <1>10, LockLapsesDoes
<1>11. CASE Restart
  <2>1. shots' = shots /\ \A s \in Threads : job[s].bet # b
    BY <1>11 DEF Restart
  <2>2. \A s \in Threads : job'[s] = NoJob
    BY <1>11, RestartDoes
  <2> QED
    BY <2>1, <2>2, JobNone, OwedFrame DEF Plays
<1>12. CASE UNCHANGED vars
  <2>1. UNCHANGED <<shots, job>>
    BY <1>12 DEF vars, minesVars
  <2> QED
    BY <2>1, OwedFrame DEF Plays
<1> QED
  BY <1>2, <1>3, <1>5, <1>6, <1>7, <1>8, <1>9, <1>10, <1>11, <1>12, KindsOfStep
     DEF GameStep

\* There is one such amount.
LEMMA OwedIsOne ==
  ASSUME NEW b, NEW n, NEW k, Owed(b, n), Owed(b, k)
  PROVE  n = k
  BY DEF Owed

\* Of a payout that was asked for: the game has no mine; the bet table, the merchant, the
\* task and the orders have the amount owed; and as long as the bet is in play, only the
\* thread that had no answer has left a timeout row, which is not old yet.
DueGame(b) == ~shots[b].mine /\ \A s \in Threads : job[s].bet = b => ~job[s].bomb
DueRow(b) ==
  /\ row[b].status \in {"BET_DONE", "WT_DONE", "WT_FAILED"}
  /\ row[b].status # "BET_DONE" => Owed(b, row[b].amount)
DueMoney(b) ==
  \A m \in wallet \cup flight : m.bet = b /\ m.op = "WD" => Owed(b, m.amount)
DueNote(b) ==
  \A i \in TimeoutId :
    RowOf(i, b, "WD") /\ row[b].status = "BET_DONE"
      => /\ timeouts[i].state = "young"
         /\ \E s \in Threads : job[s].bet = b /\ job[s].at = "failed"
DueTask(b) ==
  task.at \in {"call", "paid"} /\ timeouts[task.cur].bet = b /\ timeouts[task.cur].op = "WD"
    => Owed(b, task.copy.amount)
DueHand(b) ==
  \A h \in Hands :
    hand[h].bet = b /\ hand[h].op = "WD"
      => /\ row[b].status # "BET_DONE"
         /\ hand[h].at \in {"call", "paid", "write"} => Owed(b, hand[h].copy.amount)
Due(b) == DueGame(b) /\ DueRow(b) /\ DueMoney(b) /\ DueNote(b) /\ DueTask(b) /\ DueHand(b)

\* A thread that pays for b carries the amount owed, whether it was asked for or not.
DueJob(b) ==
  \A s \in Threads :
    job[s].at \in PayingAt /\ job[s].bet = b => Owed(b, job[s].copy.amount)

DueInv ==
  lapses = 0 => \A b \in Bets \ (moved \cup byHand) : DueJob(b) /\ (b \in asked => Due(b))

\* The steps of the others.
LEMMA DueOther ==
  ASSUME MinesTypes, StakeInv, TakesOld, OtherStep,
         NEW b \in Bets, b \in asked, b \notin byHand', Due(b)
  PROVE  Due(b)'
<1>1. /\ UNCHANGED <<shots, job>> /\ b \in record
      /\ \A n : Owed(b, n)' <=> Owed(b, n)
  <2>1. UNCHANGED <<shots, job>>
    BY StepOfOthers
  <2>2. b \in record
    BY DEF StakeInv, RecordHolds
  <2> QED
    BY <2>1, <2>2, OwedFrame DEF Plays
<1>2. MinesTypes' /\ BooksGo /\ TaskGoes /\ \A h \in Hands : HandGoes(h)
  BY OtherPays
<1>3. /\ task.at \in {"call", "paid", "mark", "failed"}
           => /\ task.cur \in TimeoutId /\ Named(task.cur)
              /\ timeouts[task.cur].state # "young"
              /\ timeouts[task.cur].op \in {"BET", "WD"}
      /\ \A i \in task.todo : i \in TimeoutId /\ Named(i) /\ timeouts[i].state # "young"
  BY DEF MinesTypes, PayInv, PayTypeOK, TimeoutRow, TaskHolds, TakesOld
<1>4. \/ row'[b] = row[b]
      \/ /\ row'[b].status = "WT_DONE"
         /\ TaskWrites(b) \/ \E h \in Hands : HandWrites(h, b) /\ hand[h].op = "WD"
  <2>1. byHand \subseteq byHand'
    BY <1>2 DEF BooksGo
  <2> QED
    BY <1>1, <2>1, OtherRows
<1>5. row'[b].status = "BET_DONE" => row[b].status = "BET_DONE"
  BY <1>4
<1>6. DueGame(b)'
  BY <1>1 DEF Due, DueGame
<1>7. DueRow(b)'
  <2>1. CASE row'[b] = row[b]
    BY <1>1, <2>1 DEF Due, DueRow
  <2>2. CASE row'[b].status = "WT_DONE" /\ TaskWrites(b)
    <3>1. /\ task.at = "paid" /\ timeouts[task.cur].bet = b /\ timeouts[task.cur].op = "WD"
          /\ row'[b].amount = task.copy.amount
      BY <1>3, <2>2 DEF TaskWrites
    <3>2. Owed(b, row'[b].amount)
      BY <3>1 DEF Due, DueTask
    <3> QED
      BY <1>1, <2>2, <3>2 DEF DueRow
  <2>3. ASSUME NEW h \in Hands, HandWrites(h, b), hand[h].op = "WD", row'[b].status = "WT_DONE"
        PROVE  DueRow(b)'
    <3>1. hand[h].at = "write" /\ hand[h].bet = b /\ row'[b].amount = hand[h].copy.amount
      BY <2>3 DEF HandWrites
    <3>2. Owed(b, row'[b].amount)
      BY <2>3, <3>1 DEF Due, DueHand
    <3> QED
      BY <1>1, <2>3, <3>2 DEF DueRow
  <2> QED
    BY <1>4, <2>1, <2>2, <2>3
<1>8. DueMoney(b)'
  <2> SUFFICES ASSUME NEW m \in wallet' \cup flight', m.bet = b, m.op = "WD"
               PROVE  Owed(b, m.amount)
    BY <1>1 DEF DueMoney
  <2>1. CASE m \in wallet \cup flight
    BY <2>1 DEF Due, DueMoney
  <2>2. CASE TaskAsks(m)
    <3>1. /\ task.at = "call" /\ timeouts[task.cur].bet = b /\ timeouts[task.cur].op = "WD"
          /\ m.amount = task.copy.amount
      BY <1>3, <2>2 DEF TaskAsks, Asks
    <3> QED
      BY <3>1 DEF Due, DueTask
  <2>3. ASSUME NEW h \in Hands, HandAsks(h, m) PROVE Owed(b, m.amount)
    <3>1. /\ hand[h].at = "call" /\ hand[h].bet = b /\ hand[h].op = "WD"
          /\ m.amount = hand[h].copy.amount
      BY <2>3 DEF HandAsks
    <3> QED
      BY <3>1 DEF Due, DueHand
  <2> QED
    BY <1>2, <2>1, <2>2, <2>3 DEF BooksGo
<1>9. \A i \in TimeoutId : RowOf(i, b, "WD") /\ row[b].status = "BET_DONE"
        => /\ timeouts[i].state = "young"
           /\ \E s \in Threads : job[s].bet = b /\ job[s].at = "failed"
  BY DEF Due, DueNote
<1>10. DueNote(b)'
  <2> SUFFICES ASSUME NEW i \in TimeoutId, Named(i)', timeouts'[i].bet = b,
                      timeouts'[i].op = "WD", row[b].status = "BET_DONE"
               PROVE  /\ timeouts'[i].state = "young"
                      /\ \E s \in Threads : job[s].bet = b /\ job[s].at = "failed"
    BY <1>1, <1>5 DEF DueNote, RowOf
  <2>1. CASE Named(i)
    <3>1. RowOf(i, b, "WD")
      BY <1>2, <2>1 DEF BooksGo, RowOf
    <3>2. /\ timeouts[i].state = "young"
          /\ \E s \in Threads : job[s].bet = b /\ job[s].at = "failed"
      BY <1>9, <3>1
    <3>3. timeouts'[i] = timeouts[i]
      BY <1>3, <2>1, <3>1, <3>2, OtherAges DEF RowOf
    <3> QED
      BY <3>2, <3>3
  <2>2. CASE TaskNotes(i)
    <3>1. task.at = "call" /\ timeouts[task.cur].bet = b /\ timeouts[task.cur].op = "WD"
      BY <2>2 DEF TaskNotes
    <3>2. RowOf(task.cur, b, "WD")
      BY <1>3, <3>1 DEF RowOf
    <3> QED
      BY <1>3, <1>9, <3>1, <3>2
  <2>3. ASSUME NEW h \in Hands, HandNotes(h, i) PROVE FALSE
    <3>1. hand[h].bet = b /\ hand[h].op = "WD"
      BY <2>3 DEF HandNotes
    <3> QED
      BY <3>1 DEF Due, DueHand
  <2> QED
    BY <1>2, <2>1, <2>2, <2>3 DEF BooksGo
<1>11. DueTask(b)'
  <2> SUFFICES ASSUME task'.at \in {"call", "paid"}, timeouts'[task'.cur].bet = b,
                      timeouts'[task'.cur].op = "WD"
               PROVE  Owed(b, task'.copy.amount)
    BY <1>1 DEF DueTask
  <2>1. CASE task.at \in {"call", "paid"} /\ task'.cur = task.cur /\ task'.copy = task.copy
    <3>1. timeouts[task.cur].bet = b /\ timeouts[task.cur].op = "WD"
      BY <1>2, <1>3, <2>1 DEF BooksGo
    <3> QED
      BY <2>1, <3>1 DEF Due, DueTask
  <2>2. CASE task'.cur \in task.todo /\ task'.copy = row[timeouts[task'.cur].bet]
    <3>1. RowOf(task'.cur, b, "WD") /\ timeouts[task'.cur].state # "young"
      BY <1>2, <1>3, <2>2 DEF BooksGo, RowOf
    <3>2. row[b].status # "BET_DONE" /\ task'.copy = row[b]
      BY <1>3, <1>9, <2>2, <3>1 DEF RowOf
    <3> QED
      BY <3>2 DEF Due, DueRow
  <2> QED
    BY <1>2, <2>1, <2>2 DEF TaskGoes
<1>12. DueHand(b)'
  <2> SUFFICES ASSUME NEW h \in Hands, hand'[h].bet = b, hand'[h].op = "WD"
               PROVE  /\ row[b].status # "BET_DONE"
                      /\ hand'[h].at \in {"call", "paid", "write"}
                           => Owed(b, hand'[h].copy.amount)
    BY <1>1, <1>5 DEF DueHand
  <2>1. CASE hand'[h] = hand[h]
    BY <2>1 DEF Due, DueHand
  <2>2. CASE hand'[h].at = "page" /\ row[hand'[h].bet].status = "WT_FAILED"
    BY <2>2
  <2>3. CASE /\ hand'[h].bet = hand[h].bet /\ hand'[h].op = hand[h].op
             /\ \/ hand'[h].at = "done"
                \/ hand'[h].at = "call" /\ hand'[h].copy = row[hand[h].bet]
                \/ hand[h].at \in {"call", "paid"} /\ hand'[h].copy = hand[h].copy
    <3>1. row[b].status # "BET_DONE"
      BY <2>3 DEF Due, DueHand
    <3>2. Owed(b, row[b].amount)
      BY <3>1 DEF Due, DueRow
    <3> QED
      BY <2>3, <3>1, <3>2 DEF Due, DueHand
  <2>4. HandGoes(h)
    BY <1>2
  <2> QED
    BY <2>1, <2>2, <2>3, <2>4 DEF HandGoes
<1> QED
  BY <1>6, <1>7, <1>8, <1>10, <1>11, <1>12 DEF Due

\* A step that leaves the task (or ends it) and the orders, asks for nothing but the amount
\* owed, and writes nothing else over the row.
LEMMA DueStands ==
  ASSUME MinesTypes, NEW b \in Bets, Due(b), \A n : Owed(b, n) => Owed(b, n)',
         hand' = hand, task' = task \/ task' = NoTask,
         \A i \in TimeoutId : Named(i) => timeouts'[i] = timeouts[i],
         ~shots'[b].mine, \A s \in Threads : job'[s].bet = b => ~job'[s].bomb,
         \/ row'[b] = row[b]
         \/ row'[b].status \in {"WT_DONE", "WT_FAILED"} /\ Owed(b, row[b].amount)',
         \A m \in wallet' \cup flight' :
           m.bet = b /\ m.op = "WD" => m \in wallet \cup flight \/ Owed(b, m.amount)',
         \A i \in TimeoutId :
           RowOf(i, b, "WD")' /\ ~Named(i)
             => /\ timeouts'[i].state = "young"
                /\ \E s \in Threads : job'[s].bet = b /\ job'[s].at = "failed",
         row'[b].status = "BET_DONE"
           => \A s \in Threads : job[s].bet = b /\ job[s].at = "failed"
                                   => job'[s].bet = b /\ job'[s].at = "failed"
  PROVE  Due(b)'
<1>1. row'[b].status = "BET_DONE" => row[b].status = "BET_DONE"
  OBVIOUS
<1>2. DueGame(b)'
  BY DEF DueGame
<1>3. DueRow(b)'
  <2>1. CASE row'[b] = row[b]
    <3>1. PICK n : n = row[b].amount
      OBVIOUS
    <3>2. row[b].status # "BET_DONE" => Owed(b, n)'
      BY <3>1 DEF Due, DueRow
    <3>3. row'[b].amount = n
      BY <2>1, <3>1
    <3> QED
      BY <2>1, <3>2, <3>3 DEF Due, DueRow
  <2>2. CASE row'[b].status \in {"WT_DONE", "WT_FAILED"} /\ Owed(b, row[b].amount)'
    BY <2>2 DEF DueRow
  <2> QED
    BY <2>1, <2>2
<1>4. DueMoney(b)'
  BY DEF Due, DueMoney
<1>5. DueNote(b)'
  <2> SUFFICES ASSUME NEW i \in TimeoutId, RowOf(i, b, "WD")', row'[b].status = "BET_DONE"
               PROVE  /\ timeouts'[i].state = "young"
                      /\ \E s \in Threads : job'[s].bet = b /\ job'[s].at = "failed"
    BY DEF DueNote
  <2>1. CASE Named(i)
    <3>1. RowOf(i, b, "WD") /\ timeouts'[i] = timeouts[i]
      BY <2>1 DEF RowOf
    <3> QED
      BY <1>1, <3>1 DEF Due, DueNote
  <2> QED
    BY <2>1
<1>6. DueTask(b)'
  <2>1. CASE task' = NoTask
    BY <2>1 DEF DueTask, NoTask
  <2>2. CASE task' = task
    <3> SUFFICES ASSUME task.at \in {"call", "paid"}, timeouts'[task.cur].bet = b,
                        timeouts'[task.cur].op = "WD"
                 PROVE  Owed(b, task.copy.amount)'
      BY <2>2 DEF DueTask
    <3>1. timeouts'[task.cur] = timeouts[task.cur]
      BY DEF MinesTypes, PayInv, TaskHolds
    <3>2. Owed(b, task.copy.amount)
      BY <3>1 DEF Due, DueTask
    <3> QED
      BY <2>2, <3>2
  <2> QED
    BY <2>1, <2>2
<1>7. DueHand(b)'
  <2> SUFFICES ASSUME NEW h \in Hands, hand[h].bet = b, hand[h].op = "WD"
               PROVE  /\ row'[b].status # "BET_DONE"
                      /\ hand[h].at \in {"call", "paid", "write"}
                           => Owed(b, hand[h].copy.amount)'
    BY DEF DueHand
  <2> QED
    BY <1>1 DEF Due, DueHand
<1> QED
  BY <1>2, <1>3, <1>4, <1>5, <1>6, <1>7 DEF Due

\* A step of a thread that does not write the row, nor ask anything, of the bet.
LEMMA DueAside ==
  ASSUME MinesTypes, StakeInv, Alone, [Next]_vars, lapses' = 0,
         NEW s \in Threads, GameStep(s),
         NEW b \in Bets, b \in asked, b \notin moved', Due(b),
         row'[b] = row[b], ~shots'[b].mine, job'[s].bet = b => ~job'[s].bomb,
         job[s].bet = b => job[s].at # "failed",
         \A m \in wallet' \cup flight' : m.bet = b /\ m.op = "WD" => m \in wallet \cup flight,
         \A i \in TimeoutId : RowOf(i, b, "WD")' => Named(i)
  PROVE  Due(b)'
<1>1. hand' = hand /\ task' = task
      /\ \A i \in TimeoutId : Named(i) => timeouts'[i] = timeouts[i]
  BY GameBooks
<1>2. Others(s)
  BY StepOfOne
<1>3. \A n : Owed(b, n) => Owed(b, n)'
  BY OwedStays
<1>4. \A r \in Threads : job'[r].bet = b => ~job'[r].bomb
  BY <1>2 DEF Others, Due, DueGame
<1>5. \A r \in Threads : job[r].bet = b /\ job[r].at = "failed"
                           => job'[r].bet = b /\ job'[r].at = "failed"
  BY <1>2 DEF Others
<1> QED
  BY <1>1, <1>3, <1>4, <1>5, DueStands

\* Steps of a thread that ask nothing of the merchant.
LEMMA DueQuiet ==
  ASSUME MinesTypes, StakeInv, Alone, MineInv, [Next]_vars, lapses' = 0,
         NEW s \in Threads, GameStep(s), UNCHANGED <<wallet, flight, timeouts>>,
         NEW b \in Bets, b \in asked, b \notin moved', Due(b), ~PayoutCommit(s)
  PROVE  Due(b)'
<1>1. /\ ~shots[b].mine /\ b \in record
      /\ \A r \in Threads : job[r].bet = b => ~job[r].bomb
  BY DEF Due, DueGame, StakeInv, RecordHolds
<1>2. \A i \in TimeoutId : RowOf(i, b, "WD")' => Named(i)
  BY DEF RowOf, Named
<1>3. ASSUME row'[b] = row[b], ~shots'[b].mine, job'[s].bet = b => ~job'[s].bomb,
             job[s].bet = b => job[s].at # "failed"
      PROVE  Due(b)'
  BY <1>2, <1>3, DueAside
<1>4. ASSUME NEW c \in Bets, Play(s, c) \/ Withdraw(s, c)
      PROVE  Due(b)'
  <2>1. UNCHANGED <<row, shots>> /\ (Play(s, c) => c # b)
    BY <1>4 DEF Play, Withdraw, payVars
  <2>2. /\ job[s] = NoJob /\ job'[s].bet = c
        /\ Withdraw(s, c) => ~job'[s].bomb
    BY <1>4, PlayDoes, WithdrawDoes
  <2> QED
    BY <1>1, <1>3, <1>4, <2>1, <2>2, JobNone
<1>5. CASE BetSet(s) \/ BetCommit(s) \/ BetRollback(s)
  <2>1. job[s].at \in BettingAt /\ shots' = shots
    BY <1>5 DEF BetSet, BetCommit, BetRollback, BettingAt
  <2>2. job[s].bet # b
    BY <1>1, <2>1, OnlyPlaced
  <2>3. row'[b] = row[b] /\ job'[s].bet # b
    <3>1. CASE BetSet(s)
      BY <2>2, <3>1, BetSetDoes DEF BetSet, payVars, Moved
    <3>2. CASE BetCommit(s)
      BY <2>2, <3>2, BetCommitDoes, JobNone
    <3>3. CASE BetRollback(s)
      BY <2>2, <3>3, BetRollbackDoes, JobNone DEF BetRollback, payVars
    <3> QED
      BY <1>5, <3>1, <3>2, <3>3
  <2> QED
    BY <1>1, <1>3, <2>1, <2>2, <2>3
<1>6. CASE PlayBomb(s) \/ PayoutRefused(s) \/ PayoutSubmit(s)
  <2>1. UNCHANGED <<row, shots>> /\ job[s].at # "failed"
    BY <1>6 DEF PlayBomb, PayoutRefused, PayoutSubmit, payVars
  <2>2. job'[s].bet = job[s].bet /\ job'[s].bomb = job[s].bomb
    BY <1>6, PlayBombDoes, PayoutRefusedDoes, PayoutSubmitDoes DEF Moved
  <2> QED
    BY <1>1, <1>3, <2>1, <2>2
<1>7. CASE PlayCommit(s)
  <2>1. /\ job'[s] = NoJob /\ job[s].at = "commit" /\ job[s].op = "play"
        /\ \A c \in Bets : c # job[s].bet => row'[c] = row[c] /\ shots'[c] = shots[c]
        /\ shots'[job[s].bet] = Seen(job[s].bet, job[s].new)
        /\ ~job[s].bomb => row'[job[s].bet] = row[job[s].bet]
    BY <1>7, PlayCommitDoes
  <2>2. job[s].bet = b => ~job[s].bomb /\ ~Seen(job[s].bet, job[s].new).mine
    <3>1. MineSeen
      BY LapsesGrow DEF MineInv
    <3> QED
      BY <1>1, <2>1, <3>1 DEF MineSeen
  <2>3. row'[b] = row[b] /\ ~shots'[b].mine
    BY <1>1, <2>1, <2>2
  <2> QED
    BY <1>3, <2>1, <2>3, JobNone
<1>8. CASE PlayRollback(s)
  <2>1. UNCHANGED <<row, shots>> /\ job[s].at = "commit"
    BY <1>8 DEF PlayRollback, payVars
  <2> QED
    BY <1>1, <1>3, <1>8, <2>1, PlayRollbackDoes, JobNone
<1>9. CASE PayoutRollback(s)
  <2>1. UNCHANGED <<row, shots>> /\ (job[s].bet = b => job[s].at # "failed")
    BY <1>9 DEF PayoutRollback, payVars
  <2>2. job'[s] = NoJob \/ (job'[s].bet = job[s].bet /\ job'[s].bomb = job[s].bomb)
    BY <1>9, PayoutRollbackDoes DEF Moved
  <2> QED
    BY <1>1, <1>3, <2>1, <2>2, JobNone
<1>10. ASSUME NEW c \in Bets, BetCall(s, c)
       PROVE  Due(b)'
  <2>1. UNCHANGED <<row, shots>> /\ row[c].status = "NONE"
    BY <1>10 DEF BetCall, Fresh
  <2>2. job[s] = NoJob /\ job'[s].bet = c /\ ~job'[s].bomb
    BY <1>10, BetCallDoes
  <2> QED
    BY <1>1, <1>3, <2>1, <2>2, JobNone
<1>11. ASSUME PayoutCall(s)
       PROVE  Due(b)'
  <2>1. UNCHANGED <<row, shots>>
    BY <1>11 DEF PayoutCall
  <2>2. /\ job[s].at = "pay" /\ job'[s].bet = job[s].bet /\ job'[s].bomb = job[s].bomb
    BY <1>11, PayoutCallDoes DEF Moved
  <2> QED
    BY <1>1, <1>3, <2>1, <2>2
<1> QED
  BY <1>4, <1>5, <1>6, <1>7, <1>8, <1>9, <1>10, <1>11 DEF GameStep

\* A bet is placed: of another game.
LEMMA DueBetCall ==
  ASSUME MinesTypes, StakeInv, Alone, [Next]_vars, lapses' = 0,
         NEW s \in Threads, NEW c \in Bets, BetCall(s, c),
         NEW b \in Bets, b \in asked, b \notin moved', Due(b)
  PROVE  Due(b)'
<1>1. UNCHANGED <<row, shots>> /\ c # b
  BY DEF BetCall, Fresh, StakeInv, RecordHolds, InPlay
<1>2. job[s] = NoJob /\ job'[s].bet = c /\ GameStep(s)
  BY BetCallDoes DEF GameStep
<1>3. PICK ok \in BOOLEAN : Call(c, "BET", Stake, ok)
  BY BetCallDoes
<1>4. "BET" \in Op /\ Stake \in Amount
  BY DEF Op, Amount
<1>5. /\ \A m \in wallet' \cup flight' : m.bet = b => m \in wallet \cup flight
      /\ \A i \in TimeoutId : RowOf(i, b, "WD")' => Named(i)
  BY <1>1, <1>3, <1>4, CallBooks DEF MinesTypes, RowOf
<1>6. ~shots'[b].mine
  BY <1>1 DEF Due, DueGame
<1> QED
  BY <1>1, <1>2, <1>5, <1>6, JobNone, DueAside

\* The merchant is asked for a payout, of this game or of another, for the first time or
\* again.
LEMMA DuePayoutCall ==
  ASSUME MinesTypes, Alone, lapses = 0, NEW s \in Threads, PayoutCall(s),
         NEW b \in Bets, Due(b), DueJob(b)
  PROVE  Due(b)'
<1>1. /\ Others(s) /\ job[s].at = "pay" /\ job[s].op # "bet" /\ job[s].bet \in Bets
      /\ job[s].copy.amount \in Amount
  BY PayoutCallDoes
<1>2. PICK ok \in BOOLEAN : /\ Call(job[s].bet, "WD", job[s].copy.amount, ok)
                            /\ Moved(s, IF ok THEN "payout" ELSE "failed")
  BY PayoutCallDoes
<1>3. UNCHANGED <<row, shots, hand, task>>
  BY DEF PayoutCall
<1>4. \A n : Owed(b, n) => Owed(b, n)'
  BY <1>1, <1>2, <1>3, OwedFrame DEF Plays, Others, Moved
<1> DEFINE m == [bet |-> job[s].bet, op |-> "WD", amount |-> job[s].copy.amount]
<1>5. "WD" \in Op
  BY DEF Op
<1>6. /\ wallet' \subseteq wallet \cup {m} /\ flight' \subseteq flight \cup {m}
      /\ \A i \in TimeoutId : Named(i) => timeouts'[i] = timeouts[i]
      /\ \A i \in TimeoutId : Named(i)' /\ ~Named(i)
           => /\ ~ok /\ timeouts'[i].bet = job[s].bet /\ timeouts'[i].state = "young"
  BY <1>1, <1>2, <1>5, CallBooks DEF MinesTypes
<1>7. job[s].bet = b => Owed(b, job[s].copy.amount)
  BY <1>1 DEF DueJob, PayingAt
<1>8. PICK n : n = job[s].copy.amount
  OBVIOUS
<1>9. ASSUME NEW k \in wallet' \cup flight', k.bet = b, k.op = "WD"
      PROVE  k \in wallet \cup flight \/ Owed(b, k.amount)'
  <2>1. CASE k \in wallet \cup flight
    BY <2>1
  <2>2. CASE k.bet = job[s].bet /\ k.amount = n
    <3>1. Owed(b, n)'
      BY <1>4, <1>7, <1>8, <1>9, <2>2
    <3> QED
      BY <2>2, <3>1
  <2> QED
    BY <1>6, <1>8, <2>1, <2>2
<1>10. \A i \in TimeoutId :
         RowOf(i, b, "WD")' /\ ~Named(i)
           => /\ timeouts'[i].state = "young"
              /\ \E r \in Threads : job'[r].bet = b /\ job'[r].at = "failed"
  <2> SUFFICES ASSUME NEW i \in TimeoutId, RowOf(i, b, "WD")', ~Named(i)
               PROVE  /\ timeouts'[i].state = "young"
                      /\ job'[s].bet = b /\ job'[s].at = "failed"
    OBVIOUS
  <2>1. Named(i)' /\ timeouts'[i].bet = b
    BY DEF RowOf
  <2> QED
    BY <1>2, <1>6, <2>1 DEF Moved
<1>11. \A r \in Threads \ {s} : job[r] = NoJob
  BY <1>1, OnlyOne
<1>12. \A r \in Threads : job[r].at # "failed"
  BY <1>1, <1>11, JobNone
<1>13. ~shots'[b].mine /\ \A r \in Threads : job'[r].bet = b => ~job'[r].bomb
  BY <1>1, <1>2, <1>3 DEF Due, DueGame, Others, Moved
<1> QED
  BY <1>3, <1>4, <1>6, <1>9, <1>10, <1>12, <1>13, DueStands

\* The outcome of a payout is written: with the amount that was asked for.
LEMMA DuePayoutCommit ==
  ASSUME MinesTypes, StakeInv, Alone, [Next]_vars, lapses' = 0,
         NEW s \in Threads, PayoutCommit(s),
         NEW b \in Bets, b \in asked, b \notin moved', Due(b), DueJob(b)
  PROVE  Due(b)'
<1>1. /\ Others(s) /\ job[s].at \in {"record", "failed"} /\ job[s].bet \in Bets
      /\ \A c \in Bets : c # job[s].bet => row'[c] = row[c]
      /\ row'[job[s].bet].amount = job[s].copy.amount
      /\ row'[job[s].bet].status \in {"WT_DONE", "WT_FAILED"}
      /\ job'[s] = NoJob \/ Moved(s, "commit")
  BY PayoutCommitDoes
<1>2. UNCHANGED <<wallet, flight, timeouts, shots, hand, task>>
  BY DEF PayoutCommit
<1>3. \A n : Owed(b, n) => Owed(b, n)'
  BY OwedStays
<1>4. ~shots'[b].mine /\ \A r \in Threads : job'[r].bet = b => ~job'[r].bomb
  BY <1>1, <1>2, JobNone DEF Due, DueGame, Others, Moved
<1>5. CASE job[s].bet = b
  <2>1. PICK n : n = job[s].copy.amount
    OBVIOUS
  <2>2. Owed(b, n)
    BY <1>1, <1>5, <2>1 DEF DueJob, PayingAt
  <2>3. row'[b].amount = n /\ Owed(b, n)'
    BY <1>1, <1>3, <1>5, <2>1, <2>2
  <2>4. row'[b].status \in {"WT_DONE", "WT_FAILED"} /\ Owed(b, row[b].amount)'
    BY <1>1, <1>5, <2>3
  <2> QED
    BY <1>2, <1>3, <1>4, <2>4, DueStands DEF RowOf, Named
<1>6. CASE job[s].bet # b
  <2>1. row'[b] = row[b]
    BY <1>1, <1>6
  <2>2. \A r \in Threads : job[r].bet = b /\ job[r].at = "failed"
                             => job'[r].bet = b /\ job'[r].at = "failed"
    BY <1>1, <1>6 DEF Others
  <2> QED
    BY <1>2, <1>3, <1>4, <2>1, <2>2, DueStands DEF RowOf, Named
<1> QED
  BY <1>5, <1>6

\* A payout that is about to be asked for the first time: nothing of it is anywhere yet.
LEMMA DueFirst ==
  ASSUME MinesTypes, StakeInv, Alone, MineInv, MineShown, HandFree, lapses = 0,
         NEW s \in Threads, job[s].at = "pay",
         NEW b \in Bets, job[s].bet = b, b \notin asked, b \notin byHand
  PROVE  Due(b)
<1>1. /\ job[s].op \in {"play", "withdraw"} /\ ~job[s].bomb
      /\ \A r \in Threads \ {s} : job[r] = NoJob
  <2>1. job[s] \in Job /\ JobOK(job[s])
    BY DEF MinesTypes, MinesTypeOK, JobsOK
  <2> QED
    BY <2>1, OnlyOne DEF JobOK, Job, BettingAt, PayingAt
<1>2. DueGame(b)
  <2>1. MineSeen
    BY DEF MineInv
  <2>2. ~shots[b].mine
    BY <1>1, <2>1 DEF MineSeen, Seen
  <2> QED
    BY <1>1, <2>2, JobNone DEF DueGame
<1>3. DueRow(b)
  <2>1. b \in record
    BY <1>1 DEF StakeInv, JobHolds
  <2>2. row[b].status # "BOMB"
    BY <1>2 DEF MineShown, DueGame
  <2>3. row[b].status = "BET_DONE"
    BY <2>1, <2>2 DEF StakeInv, RecordHolds, InPlay
  <2> QED
    BY <2>3 DEF DueRow
<1>4. DueMoney(b) /\ DueNote(b)
  BY DEF StakeInv, MoneyHolds, DueMoney, DueNote, RowOf
<1>5. DueTask(b)
  BY DEF MinesTypes, PayInv, TaskHolds, StakeInv, MoneyHolds, DueTask
<1>6. DueHand(b)
  BY DEF StakeInv, OrderHolds, HandFree, DueHand
<1> QED
  BY <1>2, <1>3, <1>4, <1>5, <1>6 DEF Due

LEMMA DueJobStands ==
  ASSUME NEW b \in Bets, DueJob(b), \A n : Owed(b, n) => Owed(b, n)',
         \A r \in Threads : job'[r].at \in PayingAt /\ job'[r].bet = b
           => job[r].at \in PayingAt /\ job[r].bet = b /\ job'[r].copy = job[r].copy
  PROVE  DueJob(b)'
<1> SUFFICES ASSUME NEW r \in Threads, job'[r].at \in PayingAt, job'[r].bet = b
             PROVE  Owed(b, job[r].copy.amount)'
  BY DEF DueJob
<1>1. PICK n : n = job[r].copy.amount
  OBVIOUS
<1>2. Owed(b, n)
  BY <1>1 DEF DueJob
<1>3. Owed(b, n)' /\ job'[r].copy.amount = n
  BY <1>1, <1>2
<1> QED
  BY <1>3

LEMMA DueJobBegins ==
  ASSUME MinesTypes, Alone, MineInv, lapses = 0, NEW s \in Threads, NEW c \in Bets,
         BetCall(s, c) \/ Play(s, c) \/ Withdraw(s, c),
         NEW b \in Bets, b \in asked => Due(b)
  PROVE  DueJob(b)'
<1>1. /\ Others(s) /\ lock = NoThread /\ shots' = shots
      /\ job'[s].bet = c
  <2>1. shots' = shots
    BY DEF BetCall, Play, Withdraw
  <2> QED
    BY <2>1, BetCallDoes, PlayDoes, WithdrawDoes
<1>2. \A r \in Threads \ {s} : job'[r] = NoJob
  <2>1. \A r \in Threads : job[r].at = "idle"
    BY <1>1 DEF Alone
  <2> QED
    BY <1>1, <2>1 DEF Others, MinesTypes, JobsOK, JobOK
<1>3. SUFFICES ASSUME job'[s].at \in PayingAt, c = b
               PROVE  Owed(b, job[s].copy.amount)'
  BY <1>1, <1>2, JobNone DEF DueJob, PayingAt
<1>4. ~BetCall(s, c)
  BY <1>3, BetCallDoes DEF PayingAt
<1>5. CASE Play(s, c)
  <2>1. /\ job'[s].op = "play"
        /\ job'[s].copy.amount = Prize[Seen(b, job'[s].new).diamonds]
    BY <1>3, <1>5, PlayDoes DEF PayingAt
  <2>2. \A r \in Threads : Plays(r, b)' <=> r = s
    BY <1>1, <1>2, <1>3, <2>1, JobNone DEF Plays
  <2>3. Seen(b, job[s].new)' = Seen(b, job'[s].new)
    BY <1>1 DEF Seen
  <2> QED
    BY <2>1, <2>2, <2>3 DEF Owed
<1>6. CASE Withdraw(s, c)
  <2>1. /\ job'[s].op = "withdraw" /\ row[b].status \in {"BET_DONE", "WT_FAILED"}
        /\ ~shots[b].mine => job'[s].copy.amount = Prize[shots[b].diamonds]
    BY <1>3, <1>6, WithdrawDoes
  <2>2. ~shots[b].mine
    BY <2>1 DEF MineInv, MineEnds, Due, DueGame
  <2>3. \A r \in Threads : ~Plays(r, b)'
    BY <1>2, <2>1, JobNone DEF Plays
  <2> QED
    BY <1>1, <2>1, <2>2, <2>3 DEF Owed
<1> QED
  BY <1>4, <1>5, <1>6

LEMMA DueJobKept ==
  ASSUME MinesTypes, Alone, MineInv, [Next]_vars, lapses' = 0,
         NEW b \in Bets, DueJob(b), b \in asked => Due(b)
  PROVE  DueJob(b)'
<1>1. lapses = 0
  BY LapsesGrow
<1>2. ASSUME UNCHANGED <<shots, job>>
      PROVE  DueJob(b)'
  <2>1. \A n : Owed(b, n) <=> Owed(b, n)'
    BY <1>2, OwedFrame DEF Plays
  <2> QED
    BY <1>2, <2>1, DueJobStands
<1>3. CASE OtherStep
  BY <1>2, <1>3, StepOfOthers
<1>4. CASE UNCHANGED vars
  BY <1>2, <1>4 DEF vars, minesVars
<1>5. CASE Restart
  BY <1>5, RestartDoes, JobNone DEF DueJob, PayingAt
<1>6. ASSUME NEW s \in Threads, LockLapses(s)
      PROVE  FALSE
  BY <1>1, <1>6, LockLapsesDoes
<1>7. ASSUME NEW s \in Threads, Others(s), job[s].at # "idle",
             job'[s].at \notin PayingAt
      PROVE  DueJob(b)'
  <2>1. \A r \in Threads \ {s} : job'[r] = NoJob
    BY <1>1, <1>7, OnlyOne DEF Others
  <2> QED
    BY <1>7, <2>1, JobNone DEF DueJob, PayingAt
<1>8. ASSUME NEW s \in Threads, PayoutCall(s) \/ PayoutSubmit(s)
      PROVE  DueJob(b)'
  <2>1. /\ Others(s) /\ job[s].at \in PayingAt
        /\ \E a \in JobAt : Moved(s, a)
    BY <1>8, PayoutCallDoes, PayoutSubmitDoes DEF PayingAt, JobAt
  <2>2. shots' = shots
    BY <1>8 DEF PayoutCall, PayoutSubmit
  <2>3. \A n : Owed(b, n) <=> Owed(b, n)'
    BY <2>1, <2>2, OwedFrame DEF Plays, Others, Moved
  <2> QED
    BY <2>1, <2>3, DueJobStands DEF Others, Moved
<1>9. ASSUME NEW s \in Threads, NEW c \in Bets, BetCall(s, c) \/ Play(s, c) \/ Withdraw(s, c)
      PROVE  DueJob(b)'
  BY <1>1, <1>9, DueJobBegins
<1>10. ASSUME NEW s \in Threads, BetSet(s) \/ BetCommit(s) \/ BetRollback(s)
                                 \/ PlayBomb(s) \/ PlayCommit(s) \/ PlayRollback(s)
       PROVE  DueJob(b)'
  <2>1. job[s].at # "idle"
    BY <1>10 DEF BetSet, BetCommit, BetRollback, PlayBomb, PlayCommit, PlayRollback
  <2>2. Others(s) /\ job'[s].at \notin PayingAt
    BY <1>10, BetSetDoes, BetCommitDoes, BetRollbackDoes, PlayBombDoes, PlayCommitDoes,
       PlayRollbackDoes, JobNone DEF Moved, PayingAt
  <2> QED
    BY <1>7, <2>1, <2>2
<1>11. ASSUME NEW s \in Threads, PayoutRefused(s) \/ PayoutCommit(s) \/ PayoutRollback(s)
       PROVE  DueJob(b)'
  <2>1. job[s].at # "idle"
    BY <1>11 DEF PayoutRefused, PayoutCommit, PayoutRollback
  <2>2. Others(s) /\ job'[s].at \notin PayingAt
    BY <1>11, PayoutRefusedDoes, PayoutCommitDoes, PayoutRollbackDoes, JobNone
       DEF Moved, PayingAt
  <2> QED
    BY <1>7, <2>1, <2>2
<1> QED
  BY <1>3, <1>4, <1>5, <1>6, <1>8, <1>9, <1>10, <1>11, KindsOfStep DEF GameStep

\* A payout is asked for by one step only.
LEMMA AskedBy ==
  ASSUME MinesTypes, [Next]_vars, NEW b \in Bets, b \in asked', b \notin asked
  PROVE  \E s \in Threads : PayoutCall(s) /\ job[s].bet = b
<1>1. CASE OtherStep
  BY <1>1, StepOfOthers
<1>2. ASSUME NEW s \in Threads,
             \/ \E c \in Bets : BetCall(s, c) \/ Play(s, c) \/ Withdraw(s, c)
             \/ BetSet(s) \/ BetCommit(s) \/ BetRollback(s)
             \/ PlayBomb(s) \/ PlayCommit(s) \/ PlayRollback(s)
      PROVE  asked' = asked
  BY <1>2 DEF BetCall, Play, Withdraw, BetSet, BetCommit, BetRollback, PlayBomb,
              PlayCommit, PlayRollback
<1>3. ASSUME NEW s \in Threads,
             \/ PayoutRefused(s) \/ PayoutSubmit(s) \/ PayoutCommit(s)
             \/ PayoutRollback(s) \/ LockLapses(s)
      PROVE  asked' = asked
  BY <1>3 DEF PayoutRefused, PayoutSubmit, PayoutCommit, PayoutRollback, LockLapses
<1>4. ASSUME NEW s \in Threads, PayoutCall(s)
      PROVE  job[s].bet = b
  BY <1>4, PayoutCallDoes
<1>5. CASE Restart \/ UNCHANGED vars
  BY <1>5 DEF Restart, vars, minesVars
<1> QED
  BY <1>1, <1>2, <1>3, <1>4, <1>5, KindsOfStep DEF GameStep

\* An order to refund is not forgotten.
LEMMA ByHandGrows ==
  ASSUME MinesTypes, [Next]_vars
  PROVE  byHand \subseteq byHand'
<1>1. CASE OtherStep
  BY <1>1, OtherPays DEF BooksGo
<1>2. ASSUME NEW s \in Threads, GameStep(s) \/ LockLapses(s)
      PROVE  byHand' = byHand
  BY <1>2, GameBooks
<1>3. CASE Restart \/ UNCHANGED vars
  BY <1>3 DEF Restart, vars, payVars
<1> QED
  BY <1>1, <1>2, <1>3, KindsOfStep

LEMMA DueStays ==
  ASSUME MinesTypes, StakeInv, Alone, MineInv, TakesOld, [Next]_vars, lapses' = 0,
         NEW b \in Bets, b \in asked, b \notin moved', b \notin byHand', Due(b), DueJob(b)
  PROVE  Due(b)'
<1>1. lapses = 0
  BY LapsesGrow
<1>2. CASE OtherStep
  BY <1>2, DueOther
<1>3. ASSUME NEW s \in Threads, PayoutCommit(s) \/ PayoutCall(s)
                                \/ \E c \in Bets : BetCall(s, c)
      PROVE  Due(b)'
  BY <1>1, <1>3, DuePayoutCommit, DuePayoutCall, DueBetCall
<1>4. ASSUME NEW s \in Threads, GameStep(s), ~PayoutCommit(s), ~PayoutCall(s),
             ~\E c \in Bets : BetCall(s, c)
      PROVE  Due(b)'
  <2>1. CASE (\E c \in Bets : Play(s, c) \/ Withdraw(s, c)) \/ BetSet(s) \/ BetCommit(s)
             \/ BetRollback(s) \/ PlayBomb(s)
    <3>1. UNCHANGED <<wallet, flight, timeouts>>
      BY <2>1 DEF Play, Withdraw, BetSet, BetCommit, BetRollback, PlayBomb, payVars
    <3> QED
      BY <1>4, <3>1, DueQuiet
  <2>2. CASE PlayCommit(s) \/ PlayRollback(s) \/ PayoutRefused(s) \/ PayoutSubmit(s)
             \/ PayoutRollback(s)
    <3>1. UNCHANGED <<wallet, flight, timeouts>>
      BY <2>2 DEF PlayCommit, PlayRollback, PayoutRefused, PayoutSubmit, PayoutRollback,
                  payVars
    <3> QED
      BY <1>4, <3>1, DueQuiet
  <2> QED
    BY <1>4, <2>1, <2>2 DEF GameStep
<1>5. ASSUME NEW s \in Threads, LockLapses(s)
      PROVE  FALSE
  BY <1>1, <1>5, LockLapsesDoes
<1>6. \A n : Owed(b, n) => Owed(b, n)'
  BY OwedStays
<1>7. CASE Restart
  <2>1. /\ UNCHANGED <<row, wallet, flight, timeouts, shots, hand>> /\ task' = NoTask
        /\ \A s \in Threads : job[s].bet # b
    BY <1>7 DEF Restart
  <2>2. \A s \in Threads : job'[s] = NoJob
    BY <1>7, RestartDoes
  <2>3. ~shots'[b].mine /\ \A s \in Threads : ~job'[s].bomb
    BY <2>1, <2>2, JobNone DEF Due, DueGame
  <2> QED
    BY <1>6, <2>1, <2>3, DueStands DEF RowOf, Named
<1>8. CASE UNCHANGED vars
  <2>1. UNCHANGED <<row, wallet, flight, timeouts, shots, hand, task, job>>
    BY <1>8 DEF vars, payVars, minesVars
  <2>2. ~shots'[b].mine /\ \A s \in Threads : job'[s].bet = b => ~job'[s].bomb
    BY <2>1 DEF Due, DueGame
  <2> QED
    BY <1>6, <2>1, <2>2, DueStands DEF RowOf, Named
<1> QED
  BY <1>2, <1>3, <1>4, <1>5, <1>7, <1>8, KindsOfStep

LEMMA DueKept ==
  ASSUME MinesTypes, StakeInv, Alone, MineInv, MineShown, TakesOld, HandFree, DueInv,
         [Next]_vars
  PROVE  DueInv'
<1> SUFFICES ASSUME lapses' = 0, NEW b \in Bets, b \notin moved', b \notin byHand'
             PROVE  DueJob(b)' /\ (b \in asked' => Due(b)')
  BY DEF DueInv
<1>1. lapses = 0 /\ b \notin moved /\ b \notin byHand
  BY LapsesGrow, MovedGrow, ByHandGrows
<1>2. DueJob(b) /\ (b \in asked => Due(b))
  BY <1>1 DEF DueInv
<1>3. DueJob(b)'
  BY <1>2, DueJobKept
<1>4. ASSUME b \in asked', b \notin asked
      PROVE  Due(b)'
  <2>1. PICK s \in Threads : PayoutCall(s) /\ job[s].bet = b
    BY <1>4, AskedBy
  <2>2. job[s].at = "pay"
    BY <2>1, PayoutCallDoes
  <2>3. Due(b)
    BY <1>1, <1>4, <2>1, <2>2, DueFirst
  <2> QED
    BY <1>1, <1>2, <2>1, <2>3, DuePayoutCall
<1> QED
  BY <1>2, <1>3, <1>4, DueStays

LEMMA MineShownHolds == Spec => []MineShown
<1>1. Init => MineShown
  BY DEF Init, PayInit, NoRow, NoJob, MineShown
<1> QED
  BY <1>1, MineShownKept, MinesTypesHold, StakeHolds, PTL DEF Spec

LEMMA TakesOldHolds == Spec => []TakesOld
<1>1. Init => TakesOld
  BY DEF Init, PayInit, NoTask, TakesOld
<1> QED
  BY <1>1, TakesOldKept, MinesTypesHold, PTL DEF Spec

LEMMA DueHolds == Spec => []DueInv
<1>1. Init => DueInv
  BY DEF Init, DueInv, DueJob, NoJob, PayingAt
<1>2. OnceInv => HandFree
  BY DEF OnceInv
<1> QED
  BY <1>1, <1>2, DueKept, MinesTypesHold, StakeHolds, AloneHolds, MineHolds, OnceHolds,
     MineShownHolds, TakesOldHolds, PTL DEF Spec

\* What the bet table records of a payout is what the merchant paid, though the player,
\* the timeout task and the operator each ask for it from a copy of the row of their own,
\* taken at different times, and a copy goes over the row whatever it is by then: unless
\* the game was played on or an outcome rolled back after the first payout was asked, a
\* refund was ordered by hand, or a lease of the lock ended too early.
THEOREM PaidWhatIsRecorded == Spec => []PaidAsRecorded
<1>1. MinesTypes /\ DoneMeansPaid /\ StakeInv /\ DueInv => PaidAsRecorded
  <2> SUFFICES ASSUME MinesTypes, DoneMeansPaid, StakeInv, DueInv,
                      NEW b \in Bets, lapses = 0, row[b].status = "WT_DONE",
                      b \notin moved \cup byHand
               PROVE  [bet |-> b, op |-> "WD", amount |-> row[b].amount] \in wallet
    BY DEF PaidAsRecorded
  <2>1. Due(b)
    BY DEF DueInv, StakeInv, RecordHolds
  <2>2. PICK m \in wallet : m.bet = b /\ m.op = "WD"
    BY DEF DoneMeansPaid, Applied
  <2>3. Owed(b, m.amount) /\ Owed(b, row[b].amount)
    BY <2>1, <2>2 DEF Due, DueMoney, DueRow
  <2>4. m.amount = row[b].amount
    BY <2>3, OwedIsOne
  <2>5. m \in Request
    BY DEF MinesTypes, PayInv, PayTypeOK
  <2>6. m = [bet |-> b, op |-> "WD", amount |-> row[b].amount]
    BY <2>2, <2>4, <2>5 DEF Request
  <2> QED
    BY <2>2, <2>6
<1> QED
  BY <1>1, MinesTypesHold, MinesDoneIsPaid, StakeHolds, DueHolds, PTL

(***************************************************************************)
(* The status of a bet.                                                    *)
(***************************************************************************)

\* Only these steps of a thread write a row.
LEMMA RowsStand ==
  ASSUME NEW s \in Threads, GameStep(s) \/ LockLapses(s),
         ~BetCommit(s), ~PlayCommit(s), ~PayoutCommit(s)
  PROVE  row' = row
<1>1. CASE (\E b \in Bets : BetCall(s, b) \/ Play(s, b) \/ Withdraw(s, b))
           \/ BetSet(s) \/ BetRollback(s) \/ PlayBomb(s) \/ PlayRollback(s)
  BY <1>1 DEF BetCall, Play, Withdraw, BetSet, BetRollback, PlayBomb, PlayRollback, payVars
<1>2. CASE PayoutCall(s) \/ PayoutRefused(s) \/ PayoutSubmit(s) \/ PayoutRollback(s)
           \/ LockLapses(s)
  BY <1>2 DEF PayoutCall, PayoutRefused, PayoutSubmit, PayoutRollback, LockLapses, payVars
<1> QED
  BY <1>1, <1>2 DEF GameStep

\* Nobody reads what he writes over: a thread, the task and the operator write a copy of
\* the row with a status of their own.  But for the refunds by hand, the plays after a
\* payout was asked and the leases that ended too early, the status of a bet takes the
\* moves of the game: in particular a game with a mine is not opened again, none that was
\* paid is cancelled, and none whose payout was asked ends as a bomb.
THEOREM StatusMoves == Spec => StatusMovesForward
<1>1. MinesTypes /\ StakeInv /\ DueInv /\ [Next]_vars
        => (lapses' = 0 =>
              \A b \in Bets \ (byHand' \cup moved') :
                row'[b].status # row[b].status => <<row[b].status, row'[b].status>> \in Moves)
  <2> SUFFICES ASSUME MinesTypes, StakeInv, DueInv, [Next]_vars, lapses' = 0,
                      NEW b \in Bets, b \notin byHand', b \notin moved',
                      row'[b].status # row[b].status
               PROVE  <<row[b].status, row'[b].status>> \in Moves
    OBVIOUS
  <2>1. lapses = 0 /\ b \notin moved /\ b \notin byHand
    BY LapsesGrow, MovedGrow, ByHandGrows
  <2>2. b \in asked => /\ row[b].status \in {"BET_DONE", "WT_DONE", "WT_FAILED"}
                       /\ \A s \in Threads : job[s].bet = b => ~job[s].bomb
    BY <2>1 DEF DueInv, Due, DueRow, DueGame
  <2>3. /\ b \in record => row[b].status \in InPlay
        /\ b \notin record => row[b].status \in OutOfPlay
        /\ row[b].status \in {"WT_DONE", "WT_FAILED"} => b \in asked
        /\ row[b].status # "REFUND"
    BY <2>1 DEF StakeInv, RecordHolds
  <2>4. ASSUME row[b].status \in {"BET_DONE", "WT_DONE", "WT_FAILED"},
               row'[b].status \in {"WT_DONE", "WT_FAILED"}
        PROVE  <<row[b].status, row'[b].status>> \in Moves
    BY <2>4 DEF Moves
  <2>5. CASE OtherStep
    <3>1. CASE b \notin record /\ row'[b].status = "CANCEL" /\ TaskWrites(b)
      <4>1. row[b].status # "NONE"
        BY <3>1 DEF TaskWrites, StakeInv, TaskLooked
      <4>2. row[b].status = "BET_FAILED"
        BY <2>3, <3>1, <4>1 DEF OutOfPlay
      <4> QED
        BY <3>1, <4>2 DEF Moves
    <3>2. CASE b \in asked /\ row'[b].status = "WT_DONE"
      BY <2>2, <2>4, <3>2
    <3> QED
      BY <2>1, <2>5, <3>1, <3>2, OtherRows
  <2>6. ASSUME NEW s \in Threads, BetCommit(s)
        PROVE  <<row[b].status, row'[b].status>> \in Moves
    <3>1. /\ job[s].bet = b /\ job[s].at \in BettingAt
          /\ row'[b].status \in {"BET_DONE", "BET_FAILED"}
      BY <2>6, BetCommitDoes DEF BettingAt
    <3>2. row[b].status = "NONE"
      BY <3>1, OnlyPlaced DEF Placing
    <3> QED
      BY <3>1, <3>2 DEF Moves
  <2>7. ASSUME NEW s \in Threads, PlayCommit(s)
        PROVE  <<row[b].status, row'[b].status>> \in Moves
    <3>1. /\ job[s].bet = b /\ job[s].bomb /\ job[s].op = "play"
          /\ row'[b].status = "BOMB"
      BY <2>7, PlayCommitDoes
    <3>2. b \in record /\ b \notin asked
      BY <2>2, <3>1 DEF StakeInv, JobHolds
    <3>3. row[b].status = "BET_DONE"
      BY <2>3, <3>1, <3>2 DEF InPlay
    <3> QED
      BY <3>1, <3>3 DEF Moves
  <2>8. ASSUME NEW s \in Threads, PayoutCommit(s)
        PROVE  <<row[b].status, row'[b].status>> \in Moves
    <3>1. /\ job[s].bet = b /\ job[s].at \in {"record", "failed"}
          /\ row'[b].status \in {"WT_DONE", "WT_FAILED"}
      BY <2>8, PayoutCommitDoes
    <3>2. b \in asked
      BY <3>1 DEF StakeInv, JobHolds
    <3> QED
      BY <2>2, <2>4, <3>1, <3>2
  <2>9. CASE Restart \/ UNCHANGED vars
    BY <2>9 DEF Restart, vars, payVars
  <2> QED
    BY <2>5, <2>6, <2>7, <2>8, <2>9, RowsStand, KindsOfStep
<1> QED
  BY <1>1, MinesTypesHold, StakeHolds, DueHolds, PTL DEF Spec, StatusMovesForward
=============================================================================
