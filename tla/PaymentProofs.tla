---------------------------- MODULE PaymentProofs ----------------------------
(***************************************************************************)
(* Lemmas about Payment, for the proofs about the games that extend it:    *)
(* what each step of the timeout task, the merchant and the operator, and a *)
(* call by a game, keeps of the types, of what the two hold, and of the bet *)
(* table saying only what the merchant did.                                *)
(***************************************************************************)
EXTENDS Payment, FiniteSetTheorems, TLAPS

USE PaymentAssumption DEF PaymentAssumption

(***************************************************************************)
(* The inductive invariant of the payment side.                            *)
(***************************************************************************)

\* A timeout row that was inserted has a bet and an id up to the last.
Named(i) == timeouts[i].state # "none"
RowsNamed ==
  \A i \in TimeoutId : Named(i) => i <= last /\ timeouts[i].bet \in Bets

\* What the timeout task asks of the merchant for a row.
Asks(r) == IF r.op = "BET" THEN "REFUND" ELSE "WD"

\* The task holds rows that were inserted; what it is about to write was done.
TaskHolds ==
  /\ \A i \in task.todo : Named(i)
  /\ task.at \in {"call", "paid", "mark", "failed"}
       => task.cur \in TimeoutId /\ Named(task.cur)
  /\ task.at = "paid"
       => Applied(timeouts[task.cur].bet, Asks(timeouts[task.cur]))

\* So does the operator.
HandHolds ==
  \A h \in Hands :
    /\ hand[h].at # "idle" => hand[h].bet \in Bets
    /\ hand[h].at = "paid" => hand[h].op = "WD"
    /\ hand[h].at \in {"paid", "write"} => Applied(hand[h].bet, hand[h].op)

PayInv == PayTypeOK /\ RowsNamed /\ TaskHolds /\ HandHolds /\ DoneMeansPaid

\* The merchant has, or may yet get, such a request.
Asked(b, op) == \E m \in wallet \cup flight : m.bet = b /\ m.op = op

RowOf(i, b, op) == Named(i) /\ timeouts[i].bet = b /\ timeouts[i].op = op

\* The merchant returns only what it took.
Returned == \A m \in wallet : m.op = "REFUND" => Applied(m.bet, "BET")

(***************************************************************************)
(* Calls.                                                                  *)
(***************************************************************************)

\* What the merchant did stays done.
LEMMA Stays ==
  ASSUME wallet \subseteq wallet', NEW b, NEW op, Applied(b, op)
  PROVE  Applied(b, op)'
  BY DEF Applied

\* A game row with another status.
LEMMA RowType ==
  ASSUME NEW r \in BetRow, NEW s \in Status
  PROVE  [r EXCEPT !.status = s] \in BetRow /\ [r EXCEPT !.status = s].status = s
  BY DEF BetRow

\* A call leaves the tables typed, takes nothing back, inserts at most one row
\* after the last, and when it is answered with success it was carried out.
LEMMA CallResult ==
  ASSUME PayTypeOK, RowsNamed,
         NEW b \in Bets, NEW op \in Op, NEW amount \in Amount, NEW ok \in BOOLEAN,
         Call(b, op, amount, ok)
  PROVE  /\ wallet' \subseteq Request /\ wallet \subseteq wallet'
         /\ flight' \subseteq Request
         /\ timeouts' \in [TimeoutId -> TimeoutRow] /\ last' \in 0 .. MaxTimeouts
         /\ RowsNamed'
         /\ \A i \in TimeoutId : i <= last => timeouts'[i] = timeouts[i]
         /\ ok => Applied(b, op)'
<1> DEFINE m == [bet |-> b, op |-> op, amount |-> amount]
<1>1. m \in Request
  BY DEF Request
<1>2. CASE ok
  <2>1. CarryOut(m) /\ UNCHANGED <<flight, timeouts, last>>
    BY <1>2 DEF Call
  <2>2. wallet \subseteq wallet' /\ wallet' \subseteq Request /\ Applied(b, op)'
    BY <1>1, <2>1 DEF CarryOut, Applied, PayTypeOK
  <2>3. RowsNamed'
    BY <2>1 DEF RowsNamed, Named
  <2> QED
    BY <2>1, <2>2, <2>3 DEF PayTypeOK
<1>3. CASE ~ ok
  <2>1. Unanswered(m) /\ (NoteTimeout(b, op) \/ UNCHANGED <<timeouts, last>>)
    BY <1>3 DEF Call
  <2>2. /\ wallet \subseteq wallet' /\ wallet' \subseteq Request
        /\ flight' \subseteq Request
    BY <1>1, <2>1 DEF Unanswered, CarryOut, PayTypeOK
  <2>3. CASE UNCHANGED <<timeouts, last>>
    BY <1>3, <2>2, <2>3 DEF PayTypeOK, RowsNamed, Named
  <2>4. CASE NoteTimeout(b, op)
    <3> DEFINE new == [bet |-> b, op |-> op, count |-> 0, state |-> "young"]
    <3>1. op \in {"BET", "WD"} /\ last < MaxTimeouts /\ last' = last + 1
      BY <2>4 DEF NoteTimeout, Op
    <3>2. last \in Nat /\ last + 1 \in TimeoutId /\ last' \in 0 .. MaxTimeouts
      BY <3>1 DEF PayTypeOK, TimeoutId
    <3>3. new \in TimeoutRow
      BY <3>1 DEF TimeoutRow
    <3>4. timeouts' = [timeouts EXCEPT ![last + 1] = new]
      BY <2>4 DEF NoteTimeout
    <3>5. timeouts \in [TimeoutId -> TimeoutRow]
      BY DEF PayTypeOK
    <3>6. timeouts' \in [TimeoutId -> TimeoutRow]
      BY <3>2, <3>3, <3>4, <3>5
    <3>7. \A i \in TimeoutId : i <= last => timeouts'[i] = timeouts[i]
      BY <3>2, <3>4, <3>5 DEF TimeoutId
    <3>8. RowsNamed'
      <4> SUFFICES ASSUME NEW i \in TimeoutId, Named(i)'
                   PROVE  i <= last' /\ timeouts'[i].bet \in Bets
        BY DEF RowsNamed
      <4>1. CASE i = last + 1
        BY <3>1, <3>2, <3>4, <3>5, <4>1
      <4>2. CASE i # last + 1
        BY <3>1, <3>2, <3>4, <3>5, <4>2 DEF RowsNamed, Named, TimeoutId
      <4> QED
        BY <4>1, <4>2
    <3> QED
      BY <1>3, <2>2, <3>2, <3>6, <3>7, <3>8
  <2> QED
    BY <2>1, <2>3, <2>4
<1> QED
  BY <1>2, <1>3

\* A step that writes no game row, leaves task and operator alone and only adds
\* rows after the last keeps what they hold.
LEMMA HoldersKept ==
  ASSUME PayInv, UNCHANGED <<row, task, hand>>, wallet \subseteq wallet',
         \A i \in TimeoutId : i <= last => timeouts'[i] = timeouts[i]
  PROVE  TaskHolds' /\ HandHolds' /\ DoneMeansPaid'
<1>1. TaskHolds'
  <2>1. \A i \in TimeoutId : Named(i) => timeouts'[i] = timeouts[i]
    BY DEF PayInv, RowsNamed
  <2>2. task.todo \subseteq TimeoutId
    BY DEF PayInv, PayTypeOK
  <2> QED
    BY <2>1, <2>2, Stays DEF PayInv, TaskHolds, Named
<1>2. HandHolds'
  BY Stays DEF PayInv, HandHolds
<1>3. DoneMeansPaid'
  BY Stays DEF PayInv, DoneMeansPaid
<1> QED
  BY <1>1, <1>2, <1>3

\* A call by a game keeps the payment side's invariant.
LEMMA GameCall ==
  ASSUME PayInv, UNCHANGED <<row, payouts, task, hand, byHand>>,
         NEW b \in Bets, NEW op \in Op, NEW amount \in Amount, NEW ok \in BOOLEAN,
         Call(b, op, amount, ok)
  PROVE  PayInv' /\ wallet \subseteq wallet' /\ (ok => Applied(b, op)')
<1>1. /\ wallet' \subseteq Request /\ wallet \subseteq wallet' /\ flight' \subseteq Request
      /\ timeouts' \in [TimeoutId -> TimeoutRow] /\ last' \in 0 .. MaxTimeouts
      /\ RowsNamed'
      /\ \A i \in TimeoutId : i <= last => timeouts'[i] = timeouts[i]
      /\ ok => Applied(b, op)'
  BY CallResult DEF PayInv
<1>2. PayTypeOK'
  BY <1>1 DEF PayInv, PayTypeOK
<1>3. TaskHolds' /\ HandHolds' /\ DoneMeansPaid'
  BY <1>1, HoldersKept
<1> QED
  BY <1>1, <1>2, <1>3 DEF PayInv

\* So does a write of game rows that says only what the merchant did.
LEMMA RowsWritten ==
  ASSUME PayInv, UNCHANGED <<wallet, flight, timeouts, last, task, hand, byHand>>,
         row' \in [Bets -> BetRow], payouts' \in [Bets -> 0 .. 2], DoneMeansPaid'
  PROVE  PayInv'
<1>1. PayTypeOK'
  BY DEF PayInv, PayTypeOK
<1>2. RowsNamed' /\ TaskHolds' /\ HandHolds'
  BY Stays DEF PayInv, RowsNamed, TaskHolds, HandHolds, Named
<1> QED
  BY <1>1, <1>2 DEF PayInv

\* What a call may add to the merchant's book, to the requests on their way and to
\* the timeout rows.
LEMMA CallBooks ==
  ASSUME PayInv,
         NEW c \in Bets, NEW op \in Op, NEW amount \in Amount, NEW ok \in BOOLEAN,
         Call(c, op, amount, ok)
  PROVE  LET m == [bet |-> c, op |-> op, amount |-> amount]
         IN  /\ wallet \subseteq wallet'
             /\ ok => Applied(c, op)'
             /\ wallet' \subseteq wallet \cup {m} /\ flight' \subseteq flight \cup {m}
             /\ \A i \in TimeoutId : Named(i) => timeouts'[i] = timeouts[i]
             /\ \A i \in TimeoutId : Named(i)' => \/ Named(i)
                                                  \/ /\ ~ok /\ op # "REFUND"
                                                     /\ timeouts'[i].bet = c
                                                     /\ timeouts'[i].op = op
                                                     /\ timeouts'[i].state = "young"
<1> DEFINE m == [bet |-> c, op |-> op, amount |-> amount]
<1>1. /\ wallet \subseteq wallet' /\ (ok => Applied(c, op)')
      /\ \A i \in TimeoutId : i <= last => timeouts'[i] = timeouts[i]
  BY CallResult DEF PayInv
<1>2. wallet' \subseteq wallet \cup {m} /\ flight' \subseteq flight \cup {m}
  BY DEF Call, CarryOut, Unanswered
<1>3. \A i \in TimeoutId : Named(i) => timeouts'[i] = timeouts[i]
  BY <1>1 DEF PayInv, RowsNamed
<1>4. \A i \in TimeoutId : Named(i)' => \/ Named(i)
                                        \/ /\ ~ok /\ op # "REFUND"
                                           /\ timeouts'[i].bet = c
                                           /\ timeouts'[i].op = op
                                           /\ timeouts'[i].state = "young"
  <2>1. CASE UNCHANGED timeouts
    BY <2>1 DEF Named
  <2>2. CASE ~ok /\ NoteTimeout(c, op)
    <3> DEFINE new == [bet |-> c, op |-> op, count |-> 0, state |-> "young"]
    <3>1. timeouts' = [timeouts EXCEPT ![last + 1] = new] /\ op # "REFUND"
      BY <2>2 DEF NoteTimeout
    <3>2. timeouts \in [TimeoutId -> TimeoutRow]
      BY DEF PayInv, PayTypeOK
    <3>3. \A i \in TimeoutId : timeouts'[i] = timeouts[i] \/ timeouts'[i] = new
      BY <3>1, <3>2
    <3> QED
      BY <2>2, <3>1, <3>3 DEF Named
  <2> QED
    BY <2>1, <2>2 DEF Call
<1> QED
  BY <1>1, <1>2, <1>3, <1>4

\* And it gives back only what was taken.
LEMMA CallAdds ==
  ASSUME PayInv, Returned,
         NEW c \in Bets, NEW op \in Op, NEW amount \in Amount, NEW ok \in BOOLEAN,
         Call(c, op, amount, ok)
  PROVE  LET m == [bet |-> c, op |-> op, amount |-> amount]
         IN  /\ wallet \subseteq wallet' /\ Returned'
             /\ ok => Applied(c, op)'
             /\ wallet' \subseteq wallet \cup {m} /\ flight' \subseteq flight \cup {m}
             /\ \A i \in TimeoutId : Named(i) => timeouts'[i] = timeouts[i]
             /\ \A i \in TimeoutId : Named(i)' => \/ Named(i)
                                                  \/ /\ ~ok /\ op # "REFUND"
                                                     /\ timeouts'[i].bet = c
                                                     /\ timeouts'[i].op = op
                                                     /\ timeouts'[i].state = "young"
<1> DEFINE m == [bet |-> c, op |-> op, amount |-> amount]
<1>1. wallet \subseteq wallet' /\ wallet' \subseteq wallet \cup {m}
  BY CallBooks
<1>2. Returned'
  <2> SUFFICES ASSUME NEW n \in wallet', n.op = "REFUND"
               PROVE  Applied(n.bet, "BET")'
    BY DEF Returned
  <2>1. Applied(n.bet, "BET")
    <3>1. CASE n \in wallet
      BY <3>1 DEF Returned
    <3>2. CASE n \notin wallet
      BY <1>1, <3>2 DEF Call, CarryOut, Unanswered, Accepts
    <3> QED
      BY <3>1, <3>2
  <2> QED
    BY <1>1, <2>1, Stays
<1> QED
  BY <1>2, CallBooks

(***************************************************************************)
(* The payment side: what each of its steps keeps.                         *)
(***************************************************************************)

LEMMA LateStep ==
  ASSUME PayInv, NEW m \in flight, MerchantLate(m)
  PROVE  PayInv'
<1>1. wallet \subseteq wallet' /\ PayTypeOK'
  <2>1. m \in Request
    BY DEF PayInv, PayTypeOK
  <2>2. wallet \subseteq wallet' /\ wallet' \subseteq Request
    BY <2>1 DEF MerchantLate, CarryOut, PayInv, PayTypeOK
  <2> QED
    BY <2>2 DEF MerchantLate, PayInv, PayTypeOK
<1>2. RowsNamed'
  BY DEF MerchantLate, PayInv, RowsNamed, Named
<1>3. TaskHolds' /\ HandHolds' /\ DoneMeansPaid'
  BY <1>1, HoldersKept DEF MerchantLate, PayInv
<1> QED
  BY <1>1, <1>2, <1>3 DEF PayInv

LEMMA AgeStep ==
  ASSUME PayInv, NEW i \in TimeoutId, Age(i)
  PROVE  PayInv'
<1> USE DEF Age
<1>1. timeouts \in [TimeoutId -> TimeoutRow]
  BY DEF PayInv, PayTypeOK
<1>2. timeouts' \in [TimeoutId -> TimeoutRow]
  BY <1>1 DEF TimeoutRow
<1>3. \A j \in TimeoutId : /\ timeouts'[j].bet = timeouts[j].bet
                          /\ timeouts'[j].op = timeouts[j].op
                          /\ Named(j)' = Named(j)
  BY <1>1 DEF Named, TimeoutRow
<1>4. PayTypeOK'
  BY <1>2 DEF PayInv, PayTypeOK
<1>5. RowsNamed'
  BY <1>3 DEF PayInv, RowsNamed
<1>6. TaskHolds'
  BY <1>3, Stays DEF PayInv, PayTypeOK, TaskHolds, Asks
<1>7. HandHolds' /\ DoneMeansPaid'
  BY Stays DEF PayInv, HandHolds, DoneMeansPaid
<1> QED
  BY <1>4, <1>5, <1>6, <1>7 DEF PayInv

\* Steps that move the task on and change nothing else.
LEMMA TaskMoves ==
  ASSUME PayInv, TaskStart \/ TaskNext \/ TaskThrows \/ TaskDies
  PROVE  PayInv'
<1>1. UNCHANGED <<row, payouts, wallet, flight, timeouts, last, hand, byHand>>
  BY DEF TaskStart, TaskNext, TaskThrows, TaskDies
<1>2. /\ task \in [at : TaskAt, todo : SUBSET TimeoutId, cur : 0 .. MaxTimeouts,
                   copy : BetRow]
      /\ row \in [Bets -> BetRow]
  BY DEF PayInv, PayTypeOK
<1>3. NoTask \in [at : TaskAt, todo : SUBSET TimeoutId, cur : 0 .. MaxTimeouts,
                  copy : BetRow]
  BY DEF NoTask, TaskAt, NoRow, BetRow, Status, Amount
<1>4. PayTypeOK' /\ TaskHolds'
  <2>1. CASE TaskStart
    BY <1>1, <1>2, <1>3, <2>1
       DEF TaskStart, NoTask, TaskAt, TaskHolds, Named, PayInv, PayTypeOK
  <2>2. CASE TaskNext
    <3>1. CASE task' = NoTask
      BY <1>1, <1>3, <3>1 DEF NoTask, TaskHolds, PayInv, PayTypeOK
    <3>2. ASSUME NEW i \in task.todo, row[timeouts[i].bet].status = "NONE",
                 task' = [task EXCEPT !.todo = @ \ {i}]
          PROVE  PayTypeOK' /\ TaskHolds'
      <4>1. /\ task'.at = task.at /\ task'.cur = task.cur
            /\ task'.todo = task.todo \ {i}
            /\ task' \in [at : TaskAt, todo : SUBSET TimeoutId, cur : 0 .. MaxTimeouts,
                          copy : BetRow]
        BY <1>2, <3>2
      <4> QED
        BY <1>1, <4>1 DEF TaskHolds, Named, Applied, PayInv, PayTypeOK
    <3>3. ASSUME NEW i \in task.todo,
                 task' = [at |-> "call", todo |-> task.todo \ {i}, cur |-> i,
                          copy |-> row[timeouts[i].bet]]
          PROVE  PayTypeOK' /\ TaskHolds'
      <4>1. i \in TimeoutId /\ Named(i) /\ timeouts[i].bet \in Bets
        BY <1>2 DEF PayInv, TaskHolds, RowsNamed
      <4>2. task' \in [at : TaskAt, todo : SUBSET TimeoutId, cur : 0 .. MaxTimeouts,
                       copy : BetRow]
        BY <1>2, <3>3, <4>1 DEF TaskAt, TimeoutId
      <4>3. PayTypeOK'
        BY <1>1, <4>2 DEF PayInv, PayTypeOK
      <4>4. TaskHolds'
        BY <1>1, <3>3, <4>1 DEF TaskHolds, Named, PayInv
      <4> QED
        BY <4>3, <4>4
    <3> QED
      BY <2>2, <3>1, <3>2, <3>3 DEF TaskNext
  <2>3. CASE TaskThrows
    BY <1>1, <1>2, <2>3
       DEF TaskThrows, TaskAt, TaskHolds, Named, PayInv, PayTypeOK
  <2>4. CASE TaskDies
    BY <1>1, <1>3, <2>4 DEF TaskDies, NoTask, TaskHolds, PayInv, PayTypeOK
  <2> QED
    BY <2>1, <2>2, <2>3, <2>4
<1>5. RowsNamed'
  BY <1>1 DEF RowsNamed, Named, PayInv
<1>6. HandHolds' /\ DoneMeansPaid'
  BY <1>1, Stays DEF HandHolds, DoneMeansPaid, PayInv
<1> QED
  BY <1>4, <1>5, <1>6 DEF PayInv

LEMMA TaskCallStep ==
  ASSUME PayInv, TaskCall
  PROVE  PayInv'
<1> DEFINE r == timeouts[task.cur]
           amount == IF r.op = "BET" THEN Stake ELSE task.copy.amount
<1>1. PICK ok \in BOOLEAN :
        /\ Call(r.bet, Asks(r), amount, ok)
        /\ task' = [task EXCEPT !.at = IF ok THEN "paid" ELSE "failed"]
  BY DEF TaskCall, Asks
<1>2. /\ task.at = "call" /\ task.cur \in TimeoutId /\ Named(task.cur)
      /\ task.cur <= last
      /\ r.bet \in Bets /\ Asks(r) \in Op /\ amount \in Amount
      /\ task \in [at : TaskAt, todo : SUBSET TimeoutId, cur : 0 .. MaxTimeouts,
                   copy : BetRow]
  <2>1. task.at = "call" /\ task.cur \in TimeoutId /\ Named(task.cur)
    BY DEF TaskCall, PayInv, TaskHolds
  <2>2. task.cur <= last /\ r.bet \in Bets
    BY <2>1 DEF PayInv, RowsNamed
  <2>3. task \in [at : TaskAt, todo : SUBSET TimeoutId, cur : 0 .. MaxTimeouts,
                  copy : BetRow]
    BY DEF PayInv, PayTypeOK
  <2>4. Stake \in Amount /\ task.copy.amount \in Amount
    BY <2>3 DEF Amount, BetRow
  <2> QED
    BY <2>1, <2>2, <2>3, <2>4 DEF Asks, Op
<1>3. /\ wallet' \subseteq Request /\ wallet \subseteq wallet' /\ flight' \subseteq Request
      /\ timeouts' \in [TimeoutId -> TimeoutRow] /\ last' \in 0 .. MaxTimeouts
      /\ RowsNamed'
      /\ \A i \in TimeoutId : i <= last => timeouts'[i] = timeouts[i]
      /\ ok => Applied(r.bet, Asks(r))'
  BY <1>1, <1>2, CallResult DEF PayInv
<1>4. /\ task' \in [at : TaskAt, todo : SUBSET TimeoutId, cur : 0 .. MaxTimeouts,
                    copy : BetRow]
      /\ task'.todo = task.todo /\ task'.cur = task.cur
      /\ task'.at = IF ok THEN "paid" ELSE "failed"
  BY <1>1, <1>2 DEF TaskAt
<1>5. PayTypeOK'
  BY <1>3, <1>4 DEF TaskCall, PayInv, PayTypeOK
<1>6. \A i \in TimeoutId : Named(i) => timeouts'[i] = timeouts[i]
  BY <1>3 DEF PayInv, RowsNamed
<1>7. TaskHolds'
  <2>1. \A i \in task'.todo : Named(i)'
    BY <1>2, <1>4, <1>6 DEF PayInv, TaskHolds, Named
  <2>2. (task.cur \in TimeoutId /\ Named(task.cur))'
    BY <1>2, <1>4, <1>6 DEF Named
  <2>3. (task.at = "paid" => Applied(r.bet, Asks(r)))'
    BY <1>3, <1>4
  <2> QED
    BY <2>1, <2>2, <2>3 DEF TaskHolds
<1>8. HandHolds' /\ DoneMeansPaid'
  BY <1>3, Stays DEF TaskCall, PayInv, HandHolds, DoneMeansPaid
<1> QED
  BY <1>3, <1>5, <1>7, <1>8 DEF PayInv

LEMMA TaskWriteStep ==
  ASSUME PayInv, TaskWrite
  PROVE  PayInv'
<1> DEFINE r == timeouts[task.cur]
           new == IF r.op = "BET" THEN "CANCEL" ELSE "WT_DONE"
<1>1. /\ task.at = "paid"
      /\ row' = [row EXCEPT ![r.bet] = [task.copy EXCEPT !.status = new]]
      /\ task' = [task EXCEPT !.at = "mark"]
      /\ UNCHANGED <<payouts, wallet, flight, timeouts, last, hand, byHand>>
  BY DEF TaskWrite
<1>2. /\ task.cur \in TimeoutId /\ Named(task.cur) /\ r.bet \in Bets
      /\ Applied(r.bet, Asks(r))
  BY <1>1 DEF PayInv, TaskHolds, RowsNamed
<1>3. /\ task \in [at : TaskAt, todo : SUBSET TimeoutId, cur : 0 .. MaxTimeouts,
                   copy : BetRow]
      /\ row \in [Bets -> BetRow]
  BY DEF PayInv, PayTypeOK
<1>4. new \in Status
  BY DEF Status
<1>5. /\ [task.copy EXCEPT !.status = new] \in BetRow
      /\ [task.copy EXCEPT !.status = new].status = new
  BY <1>3, <1>4, RowType
<1>6. /\ row' \in [Bets -> BetRow]
      /\ row'[r.bet].status = new
      /\ \A b \in Bets \ {r.bet} : row'[b] = row[b]
  BY <1>1, <1>2, <1>3, <1>5
<1>7. /\ task' \in [at : TaskAt, todo : SUBSET TimeoutId, cur : 0 .. MaxTimeouts,
                    copy : BetRow]
      /\ task'.todo = task.todo /\ task'.cur = task.cur /\ task'.at = "mark"
  BY <1>1, <1>3 DEF TaskAt
<1>8. PayTypeOK'
  BY <1>1, <1>6, <1>7 DEF PayInv, PayTypeOK
<1>9. RowsNamed' /\ TaskHolds'
  BY <1>1, <1>2, <1>7 DEF PayInv, RowsNamed, TaskHolds, Named
<1>10. HandHolds'
  BY <1>1, Stays DEF PayInv, HandHolds
<1>11. DoneMeansPaid'
  <2> SUFFICES ASSUME NEW b \in Bets
               PROVE  /\ row'[b].status = "WT_DONE" => Applied(b, "WD")'
                      /\ row'[b].status \in {"CANCEL", "REFUND"} => Applied(b, "REFUND")'
    BY DEF DoneMeansPaid
  <2>1. CASE b = r.bet
    BY <1>1, <1>2, <1>6, <2>1, Stays DEF Asks
  <2>2. CASE b # r.bet
    BY <1>1, <1>6, <2>2, Stays DEF PayInv, DoneMeansPaid
  <2> QED
    BY <2>1, <2>2
<1> QED
  BY <1>8, <1>9, <1>10, <1>11 DEF PayInv

LEMMA TaskMarkStep ==
  ASSUME PayInv, TaskMark
  PROVE  PayInv'
<1> DEFINE r == timeouts[task.cur]
           state == IF task.at = "mark" THEN "done"
                    ELSE IF r.count + 1 >= Retries(r.op) THEN "dead" ELSE r.state
           new == [bet |-> r.bet, op |-> r.op, count |-> r.count + 1, state |-> state]
<1>1. /\ task.at \in {"mark", "failed"}
      /\ timeouts' = [timeouts EXCEPT ![task.cur] = new]
      /\ task' = [task EXCEPT !.at = "next"]
      /\ UNCHANGED <<row, payouts, wallet, flight, last, hand, byHand>>
  BY DEF TaskMark
<1>2. task.cur \in TimeoutId /\ Named(task.cur)
  BY <1>1 DEF PayInv, TaskHolds
<1>3. /\ task \in [at : TaskAt, todo : SUBSET TimeoutId, cur : 0 .. MaxTimeouts,
                   copy : BetRow]
      /\ timeouts \in [TimeoutId -> TimeoutRow]
  BY DEF PayInv, PayTypeOK
<1>4. state \in {"none", "young", "open", "done", "dead"} /\ state # "none"
  BY <1>2, <1>3 DEF TimeoutRow, Named
<1>5. new \in TimeoutRow /\ new.bet = r.bet /\ new.state = state
  <2> HIDE DEF state
  <2> QED
    BY <1>2, <1>3, <1>4 DEF TimeoutRow
<1>6. /\ timeouts' \in [TimeoutId -> TimeoutRow]
      /\ \A i \in TimeoutId : timeouts'[i].bet = timeouts[i].bet /\ Named(i)' = Named(i)
  BY <1>1, <1>2, <1>3, <1>4, <1>5 DEF Named
<1>7. /\ task' \in [at : TaskAt, todo : SUBSET TimeoutId, cur : 0 .. MaxTimeouts,
                    copy : BetRow]
      /\ task'.todo = task.todo /\ task'.at = "next"
  BY <1>1, <1>3 DEF TaskAt
<1>8. PayTypeOK'
  BY <1>1, <1>6, <1>7 DEF PayInv, PayTypeOK
<1>9. RowsNamed'
  BY <1>1, <1>6 DEF PayInv, RowsNamed
<1>10. TaskHolds'
  BY <1>3, <1>6, <1>7 DEF PayInv, TaskHolds
<1>11. HandHolds' /\ DoneMeansPaid'
  BY <1>1, Stays DEF PayInv, HandHolds, DoneMeansPaid
<1> QED
  BY <1>8, <1>9, <1>10, <1>11 DEF PayInv

(***************************************************************************)
(* The operator.                                                           *)
(***************************************************************************)

HandRow == [at : HandAt, op : {"WD", "REFUND"}, bet : Bets \cup {NoBet}, copy : BetRow]

\* An order changes and the tables do not; it holds no answer of the merchant yet.
LEMMA OrderMoves ==
  ASSUME PayInv, NEW h \in Hands, NEW o \in HandRow,
         o.at \in {"page", "call", "done"}, o.bet \in Bets,
         hand' = [hand EXCEPT ![h] = o],
         UNCHANGED <<row, payouts, wallet, flight, timeouts, last, task, byHand>>
  PROVE  PayInv'
<1>1. hand \in [Hands -> HandRow]
  BY DEF PayInv, PayTypeOK, HandRow
<1>2. hand' \in [Hands -> HandRow]
  BY <1>1
<1>3. PayTypeOK'
  BY <1>2 DEF PayInv, PayTypeOK, HandRow
<1>4. RowsNamed' /\ TaskHolds' /\ DoneMeansPaid'
  BY Stays DEF PayInv, RowsNamed, TaskHolds, DoneMeansPaid, Named
<1>5. HandHolds'
  BY <1>1, Stays DEF PayInv, HandHolds
<1> QED
  BY <1>3, <1>4, <1>5 DEF PayInv

LEMMA ShowPageStep ==
  ASSUME PayInv, NEW h \in Hands, ShowPage(h)
  PROVE  PayInv'
<1>1. PICK b \in Bets, op \in {"WD", "REFUND"} :
        hand' = [hand EXCEPT ![h] =
                   [at |-> "page", op |-> op, bet |-> b, copy |-> NoRow]]
  BY DEF ShowPage
<1> DEFINE o == [at |-> "page", op |-> op, bet |-> b, copy |-> NoRow]
<1>2. hand' = [hand EXCEPT ![h] = o]
  BY <1>1
<1>3. NoRow \in BetRow
  BY DEF NoRow, BetRow, Status, Amount
<1>4. o \in HandRow /\ o.at = "page" /\ o.bet = b
  BY <1>3 DEF HandRow, HandAt
<1> HIDE DEF o
<1> QED
  BY <1>2, <1>4, OrderMoves DEF ShowPage

LEMMA ManualLoadStep ==
  ASSUME PayInv, NEW h \in Hands, ManualLoad(h)
  PROVE  PayInv'
<1> DEFINE o == IF hand[h].op = "WD" /\ row[hand[h].bet].amount = 0
                THEN [hand[h] EXCEPT !.at = "done"]
                ELSE [hand[h] EXCEPT !.at = "call", !.copy = row[hand[h].bet]]
<1>1. /\ hand[h] \in HandRow /\ row \in [Bets -> BetRow] /\ hand[h].bet \in Bets
  BY DEF ManualLoad, PayInv, PayTypeOK, HandHolds, HandRow
<1>2. o \in HandRow /\ o.at \in {"page", "call", "done"} /\ o.bet \in Bets
  BY <1>1 DEF HandRow, HandAt
<1>3. hand' = [hand EXCEPT ![h] = o]
  BY DEF ManualLoad
<1> HIDE DEF o
<1> QED
  BY <1>2, <1>3, OrderMoves DEF ManualLoad

LEMMA ManualDiesStep ==
  ASSUME PayInv, NEW h \in Hands, ManualDies(h)
  PROVE  PayInv'
<1> DEFINE o == [hand[h] EXCEPT !.at = "done"]
<1>1. hand \in [Hands -> HandRow] /\ hand[h].bet \in Bets
  BY DEF ManualDies, PayInv, PayTypeOK, HandHolds, HandRow
<1>2. o \in HandRow /\ o.at = "done" /\ o.bet \in Bets
  BY <1>1 DEF HandRow, HandAt
<1>3. hand' = [hand EXCEPT ![h] = o]
  BY <1>1 DEF ManualDies
<1> HIDE DEF o
<1> QED
  BY <1>2, <1>3, OrderMoves DEF ManualDies

LEMMA ManualCallStep ==
  ASSUME PayInv, NEW h \in Hands, ManualCall(h)
  PROVE  PayInv'
<1> DEFINE o == hand[h]
           amount == IF o.op = "WD" THEN o.copy.amount ELSE Stake
           at(ok) == IF ~ok THEN "done" ELSE IF o.op = "WD" THEN "paid" ELSE "write"
<1>1. PICK ok \in BOOLEAN : /\ Call(o.bet, o.op, amount, ok)
                            /\ hand' = [hand EXCEPT ![h].at = at(ok)]
  BY DEF ManualCall
<1>2. hand \in [Hands -> HandRow] /\ o.at = "call" /\ o.bet \in Bets
  BY DEF ManualCall, PayInv, PayTypeOK, HandHolds, HandRow
<1>3. o.op \in Op /\ amount \in Amount
  BY <1>2 DEF HandRow, BetRow, Amount, Op
<1>4. /\ wallet' \subseteq Request /\ wallet \subseteq wallet' /\ flight' \subseteq Request
      /\ timeouts' \in [TimeoutId -> TimeoutRow] /\ last' \in 0 .. MaxTimeouts
      /\ RowsNamed'
      /\ \A i \in TimeoutId : i <= last => timeouts'[i] = timeouts[i]
      /\ \A b, op : ok /\ b = o.bet /\ op = o.op => Applied(b, op)'
  <2> HIDE DEF amount
  <2> QED
    BY <1>1, <1>2, <1>3, CallResult DEF PayInv
<1>5. hand' \in [Hands -> HandRow]
  BY <1>1, <1>2 DEF HandRow, HandAt
<1>6. byHand' \subseteq Bets /\ UNCHANGED <<row, payouts, task>>
  BY <1>2 DEF ManualCall, PayInv, PayTypeOK
<1>7. PayTypeOK'
  BY <1>4, <1>5, <1>6 DEF PayInv, PayTypeOK, HandRow
<1>8. \A i \in TimeoutId : Named(i) => timeouts'[i] = timeouts[i]
  BY <1>4 DEF PayInv, RowsNamed
<1>9. TaskHolds'
  BY <1>4, <1>6, <1>8, Stays DEF PayInv, PayTypeOK, TaskHolds, Named
<1>10. HandHolds'
  <2> SUFFICES ASSUME NEW k \in Hands
               PROVE  /\ hand'[k].at # "idle" => hand'[k].bet \in Bets
                      /\ hand'[k].at = "paid" => hand'[k].op = "WD"
                      /\ hand'[k].at \in {"paid", "write"}
                           => Applied(hand[k].bet, hand[k].op)'
    BY DEF HandHolds
  <2>1. CASE k = h
    <3>1. /\ hand'[k].bet = o.bet /\ hand'[k].op = o.op
          /\ hand'[k].at = IF ~ok THEN "done" ELSE IF o.op = "WD" THEN "paid" ELSE "write"
      BY <1>1, <1>2, <2>1 DEF HandRow
    <3> QED
      BY <1>2, <1>4, <3>1
  <2>2. CASE k # h
    <3>1. hand'[k] = hand[k]
      BY <1>1, <1>2, <2>2
    <3> QED
      BY <1>4, <3>1, Stays DEF PayInv, HandHolds
  <2> QED
    BY <2>1, <2>2
<1>11. DoneMeansPaid'
  BY <1>4, <1>6, Stays DEF PayInv, DoneMeansPaid
<1> QED
  BY <1>4, <1>7, <1>9, <1>10, <1>11 DEF PayInv

LEMMA ManualRecordStep ==
  ASSUME PayInv, NEW h \in Hands, ManualRecord(h)
  PROVE  PayInv'
<1>1. /\ hand \in [Hands -> HandRow] /\ hand[h].at = "paid" /\ hand[h].bet \in Bets
      /\ hand' = [hand EXCEPT ![h].at = "write"]
      /\ UNCHANGED <<row, wallet, flight, timeouts, last, task, byHand>>
  BY DEF ManualRecord, PayInv, PayTypeOK, HandHolds, HandRow
<1>2. hand' \in [Hands -> HandRow]
  BY <1>1 DEF HandRow, HandAt
<1>3. payouts' \in [Bets -> 0 .. 2]
  BY <1>1 DEF ManualRecord, PayInv, PayTypeOK, OneMore
<1>4. PayTypeOK'
  BY <1>1, <1>2, <1>3 DEF PayInv, PayTypeOK, HandRow
<1>5. RowsNamed' /\ TaskHolds' /\ DoneMeansPaid'
  BY <1>1, Stays DEF PayInv, RowsNamed, TaskHolds, DoneMeansPaid, Named
<1>6. HandHolds'
  <2>1. \A k \in Hands : /\ hand'[k].bet = hand[k].bet /\ hand'[k].op = hand[k].op
                         /\ k # h => hand'[k].at = hand[k].at
                         /\ k = h => hand'[k].at = "write"
    BY <1>1 DEF HandRow
  <2> QED
    BY <1>1, <2>1, Stays DEF PayInv, HandHolds
<1> QED
  BY <1>4, <1>5, <1>6 DEF PayInv

LEMMA ManualWriteStep ==
  ASSUME PayInv, NEW h \in Hands, ManualWrite(h)
  PROVE  PayInv'
<1> DEFINE o == hand[h]
           new == IF o.op = "WD" THEN "WT_DONE" ELSE "REFUND"
<1>1. /\ o.at = "write"
      /\ row' = [row EXCEPT ![o.bet] = [o.copy EXCEPT !.status = new]]
      /\ hand' = [hand EXCEPT ![h].at = "done"]
      /\ UNCHANGED <<payouts, wallet, flight, timeouts, last, task, byHand>>
  BY DEF ManualWrite
<1>2. /\ hand \in [Hands -> HandRow] /\ row \in [Bets -> BetRow]
      /\ o.bet \in Bets /\ Applied(o.bet, o.op)
  BY <1>1 DEF PayInv, PayTypeOK, HandHolds, HandRow
<1>3. /\ new \in Status /\ o.copy \in BetRow /\ o.op \in {"WD", "REFUND"}
  BY <1>2 DEF Status, HandRow
<1>4. /\ [o.copy EXCEPT !.status = new] \in BetRow
      /\ [o.copy EXCEPT !.status = new].status = new
  BY <1>3, RowType
<1>5. /\ row' \in [Bets -> BetRow]
      /\ row'[o.bet].status = new
      /\ \A b \in Bets \ {o.bet} : row'[b] = row[b]
  BY <1>1, <1>2, <1>4
<1>6. hand' \in [Hands -> HandRow]
  BY <1>1, <1>2 DEF HandRow, HandAt
<1>7. PayTypeOK'
  BY <1>1, <1>5, <1>6 DEF PayInv, PayTypeOK, HandRow
<1>8. RowsNamed' /\ TaskHolds'
  BY <1>1, Stays DEF PayInv, RowsNamed, TaskHolds, Named
<1>9. HandHolds'
  <2>1. \A k \in Hands : /\ hand'[k].bet = hand[k].bet /\ hand'[k].op = hand[k].op
                         /\ k # h => hand'[k].at = hand[k].at
                         /\ k = h => hand'[k].at = "done"
    BY <1>1, <1>2 DEF HandRow
  <2> QED
    BY <1>1, <1>2, <2>1, Stays DEF PayInv, HandHolds
<1>10. DoneMeansPaid'
  <2> SUFFICES ASSUME NEW b \in Bets
               PROVE  /\ row'[b].status = "WT_DONE" => Applied(b, "WD")'
                      /\ row'[b].status \in {"CANCEL", "REFUND"} => Applied(b, "REFUND")'
    BY DEF DoneMeansPaid
  <2>1. CASE b = o.bet
    BY <1>1, <1>2, <1>3, <1>5, <2>1, Stays
  <2>2. CASE b # o.bet
    BY <1>1, <1>5, <2>2, Stays DEF PayInv, DoneMeansPaid
  <2> QED
    BY <2>1, <2>2
<1> QED
  BY <1>7, <1>8, <1>9, <1>10 DEF PayInv

(***************************************************************************)
(* The payment side as a whole.                                            *)
(***************************************************************************)

\* It starts empty.
LEMMA PayStart == PayInit => PayInv
<1> SUFFICES ASSUME PayInit PROVE PayInv
  OBVIOUS
<1> USE DEF PayInit
<1>1. NoRow \in BetRow
  BY DEF NoRow, BetRow, Status, Amount
<1>2. PayTypeOK
  <2>1. row \in [Bets -> BetRow] /\ payouts \in [Bets -> 0 .. 2]
    BY <1>1
  <2>2. timeouts \in [TimeoutId -> TimeoutRow] /\ last \in 0 .. MaxTimeouts
    BY DEF NoTimeout, TimeoutRow
  <2>3. task \in [at : TaskAt, todo : SUBSET TimeoutId, cur : 0 .. MaxTimeouts,
                  copy : BetRow]
    BY <1>1 DEF NoTask, TaskAt
  <2>4. hand \in [Hands -> HandRow]
    BY <1>1 DEF NoHand, HandRow, HandAt
  <2> QED
    BY <2>1, <2>2, <2>3, <2>4 DEF PayTypeOK, HandRow
<1>3. RowsNamed
  BY DEF RowsNamed, Named, NoTimeout
<1>4. TaskHolds /\ HandHolds
  BY DEF TaskHolds, NoTask, HandHolds, NoHand
<1>5. DoneMeansPaid
  BY DEF DoneMeansPaid, NoRow
<1> QED
  BY <1>2, <1>3, <1>4, <1>5 DEF PayInv

\* A step of the payment side keeps it.
LEMMA PayNextKeeps ==
  ASSUME PayInv, PayNext
  PROVE  PayInv'
<1>1. CASE \E m \in flight : MerchantLate(m)
  BY <1>1, LateStep
<1>2. CASE TaskStep \/ TaskThrows \/ TaskDies
  BY <1>2, TaskMoves, TaskCallStep, TaskWriteStep, TaskMarkStep DEF TaskStep
<1>3. CASE \E h \in Hands : ManualStep(h)
  BY <1>3, ShowPageStep, ManualLoadStep, ManualCallStep, ManualRecordStep, ManualDiesStep
     DEF ManualStep
<1> QED
  BY <1>1, <1>2, <1>3 DEF PayNext

\* Nothing the merchant did is taken back.
LEMMA BookStands ==
  ASSUME PayNext \/ (\E i \in TimeoutId : Age(i)) \/ (\E h \in Hands : ManualWrite(h))
  PROVE  wallet \subseteq wallet'
<1>1. \A c, op, amount, ok : Call(c, op, amount, ok) => wallet \subseteq wallet'
  BY DEF Call, CarryOut, Unanswered
<1>2. CASE \E m \in flight : MerchantLate(m)
  BY <1>2 DEF MerchantLate, CarryOut
<1>3. CASE TaskStep \/ TaskThrows \/ TaskDies
  BY <1>1, <1>3 DEF TaskStep, TaskThrows, TaskDies, TaskStart, TaskNext, TaskCall,
                    TaskWrite, TaskMark
<1>4. CASE \E h \in Hands : ManualStep(h)
  BY <1>1, <1>4 DEF ManualStep, ShowPage, ManualLoad, ManualCall, ManualRecord, ManualDies
<1>5. CASE (\E i \in TimeoutId : Age(i)) \/ (\E h \in Hands : ManualWrite(h))
  BY <1>5 DEF Age, ManualWrite
<1> QED
  BY <1>2, <1>3, <1>4, <1>5 DEF PayNext

\* So does a step that leaves the payment side alone.
LEMMA PayFrame ==
  ASSUME PayInv, UNCHANGED payVars
  PROVE  PayInv'
<1>1. /\ UNCHANGED <<wallet, flight, timeouts, last, task, hand, byHand>>
      /\ UNCHANGED <<row, payouts>>
  BY DEF payVars
<1> QED
  BY <1>1, RowsWritten, Stays DEF PayInv, PayTypeOK, DoneMeansPaid

(***************************************************************************)
(* What a step of the payment side may change, whoever takes it.           *)
(***************************************************************************)

PayStep == PayNext \/ (\E i \in TimeoutId : Age(i)) \/ (\E h \in Hands : ManualWrite(h))

\* Request m is what the task, or order h, is about to ask for.
TaskAsks(m) ==
  /\ task.at = "call"
  /\ m.bet = timeouts[task.cur].bet /\ m.op = Asks(timeouts[task.cur])
  /\ m.op = "WD" => m.amount = task.copy.amount
HandAsks(h, m) ==
  /\ hand[h].at = "call"
  /\ m.bet = hand[h].bet /\ m.op = hand[h].op
  /\ m.op = "WD" => m.amount = hand[h].copy.amount

\* Timeout row i is new, of a payout the task or an operator asked for.
TaskNotes(i) ==
  /\ task.at = "call"
  /\ timeouts[task.cur].op = "WD" /\ timeouts'[i].op = "WD"
  /\ timeouts'[i].bet = timeouts[task.cur].bet
HandNotes(h, i) ==
  /\ hand[h].at = "call"
  /\ hand[h].op = "WD" /\ timeouts'[i].op = "WD"
  /\ timeouts'[i].bet = hand[h].bet

\* Nothing is taken back; what is new was asked for by the task or by an operator,
\* who is on record for a refund.
BooksGo ==
  /\ wallet \subseteq wallet' /\ byHand \subseteq byHand'
  /\ \A m \in wallet' \cup flight' :
       \/ m \in wallet \cup flight
       \/ TaskAsks(m)
       \/ \E h \in Hands : HandAsks(h, m) /\ (m.op = "REFUND" => m.bet \in byHand')
  /\ \A i \in TimeoutId : Named(i) => /\ Named(i)' /\ timeouts'[i].bet = timeouts[i].bet
                                      /\ timeouts'[i].op = timeouts[i].op
  /\ \A i \in TimeoutId :
       Named(i)' => \/ Named(i)
                    \/ TaskNotes(i)
                    \/ \E h \in Hands : HandNotes(h, i)

\* Steps that touch none of these.
LEMMA BooksStand ==
  ASSUME UNCHANGED <<wallet, flight, timeouts, byHand>>
  PROVE  BooksGo
  BY DEF BooksGo, Named

LEMMA TaskCallBooks ==
  ASSUME PayInv, TaskCall
  PROVE  BooksGo
<1> DEFINE r == timeouts[task.cur]
           amount == IF r.op = "BET" THEN Stake ELSE task.copy.amount
           m == [bet |-> r.bet, op |-> Asks(r), amount |-> amount]
<1>1. PICK ok \in BOOLEAN : Call(r.bet, Asks(r), amount, ok)
  BY DEF TaskCall, Asks
<1>2. /\ task.at = "call" /\ task.cur \in TimeoutId /\ r.bet \in Bets
      /\ r.op \in {"BET", "WD"} /\ task.copy \in BetRow /\ byHand' = byHand
  BY DEF TaskCall, PayInv, PayTypeOK, TaskHolds, RowsNamed, TimeoutRow
<1>3. Asks(r) \in Op /\ amount \in Amount
  BY <1>2 DEF Asks, Op, Amount, BetRow
<1>4. /\ wallet \subseteq wallet'
      /\ wallet' \subseteq wallet \cup {m} /\ flight' \subseteq flight \cup {m}
      /\ \A i \in TimeoutId : Named(i) => timeouts'[i] = timeouts[i]
      /\ \A i \in TimeoutId : Named(i)' => \/ Named(i)
                                           \/ /\ Asks(r) # "REFUND"
                                              /\ timeouts'[i].bet = r.bet
                                              /\ timeouts'[i].op = Asks(r)
  <2> HIDE DEF r, amount
  <2> QED
    BY <1>1, <1>2, <1>3, CallBooks
<1>5. TaskAsks(m)
  BY <1>2 DEF TaskAsks, Asks
<1>6. \A n \in wallet' \cup flight' : n \in wallet \cup flight \/ TaskAsks(n)
  <2> HIDE DEF m
  <2> QED
    BY <1>4, <1>5
<1>7. \A i \in TimeoutId : Named(i)' => Named(i) \/ TaskNotes(i)
  BY <1>2, <1>4 DEF TaskNotes, Asks
<1> QED
  BY <1>2, <1>4, <1>6, <1>7 DEF BooksGo, Named

LEMMA HandCallBooks ==
  ASSUME PayInv, NEW h \in Hands, ManualCall(h)
  PROVE  BooksGo
<1> DEFINE o == hand[h]
           amount == IF o.op = "WD" THEN o.copy.amount ELSE Stake
           m == [bet |-> o.bet, op |-> o.op, amount |-> amount]
<1>1. PICK ok \in BOOLEAN : Call(o.bet, o.op, amount, ok)
  BY DEF ManualCall
<1>2. /\ o.at = "call" /\ o.bet \in Bets /\ o.op \in {"WD", "REFUND"} /\ o.copy \in BetRow
      /\ byHand' = IF o.op = "REFUND" THEN byHand \cup {o.bet} ELSE byHand
  BY DEF ManualCall, PayInv, PayTypeOK, HandHolds
<1>3. o.op \in Op /\ amount \in Amount
  BY <1>2 DEF Op, Amount, BetRow
<1>4. /\ wallet \subseteq wallet'
      /\ wallet' \subseteq wallet \cup {m} /\ flight' \subseteq flight \cup {m}
      /\ \A i \in TimeoutId : Named(i) => timeouts'[i] = timeouts[i]
      /\ \A i \in TimeoutId : Named(i)' => \/ Named(i)
                                           \/ /\ o.op # "REFUND"
                                              /\ timeouts'[i].bet = o.bet
                                              /\ timeouts'[i].op = o.op
  <2> HIDE DEF o, amount
  <2> QED
    BY <1>1, <1>2, <1>3, CallBooks
<1>5. HandAsks(h, m) /\ (m.op = "REFUND" => m.bet \in byHand')
  BY <1>2 DEF HandAsks
<1>6. \A n \in wallet' \cup flight' :
        \/ n \in wallet \cup flight
        \/ HandAsks(h, n) /\ (n.op = "REFUND" => n.bet \in byHand')
  <2> HIDE DEF m
  <2> QED
    BY <1>4, <1>5
<1>7. \A i \in TimeoutId : Named(i)' => Named(i) \/ HandNotes(h, i)
  BY <1>2, <1>4 DEF HandNotes
<1>8. byHand \subseteq byHand'
  BY <1>2
<1> HIDE DEF o, m, amount
<1> QED
  BY <1>4, <1>6, <1>7, <1>8 DEF BooksGo, Named

LEMMA PayBooks ==
  ASSUME PayInv, PayStep
  PROVE  BooksGo
<1>1. ASSUME NEW m \in flight, MerchantLate(m)
      PROVE  BooksGo
  BY <1>1 DEF MerchantLate, CarryOut, BooksGo, Named
<1>2. CASE TaskStart \/ TaskNext \/ TaskThrows \/ TaskDies \/ TaskWrite
  BY <1>2, BooksStand DEF TaskStart, TaskNext, TaskThrows, TaskDies, TaskWrite
<1>3. CASE TaskMark
  <2> DEFINE r == timeouts[task.cur]
             state == IF task.at = "mark" THEN "done"
                      ELSE IF r.count + 1 >= Retries(r.op) THEN "dead" ELSE r.state
             new == [bet |-> r.bet, op |-> r.op, count |-> r.count + 1, state |-> state]
  <2>1. /\ timeouts' = [timeouts EXCEPT ![task.cur] = new] /\ task.at \in {"mark", "failed"}
        /\ UNCHANGED <<wallet, flight, byHand>>
    BY <1>3 DEF TaskMark
  <2>2. /\ Named(task.cur) /\ task.cur \in TimeoutId
        /\ timeouts \in [TimeoutId -> TimeoutRow]
    BY <2>1 DEF PayInv, PayTypeOK, TaskHolds
  <2>3. new.bet = r.bet /\ new.op = r.op /\ new.state # "none"
    BY <2>2 DEF Named
  <2> HIDE DEF new
  <2>4. \A i \in TimeoutId : IF i = task.cur THEN timeouts'[i] = new
                                             ELSE timeouts'[i] = timeouts[i]
    BY <2>1, <2>2
  <2> QED
    BY <2>1, <2>2, <2>3, <2>4 DEF BooksGo, Named
<1>4. ASSUME NEW i \in TimeoutId, Age(i)
      PROVE  BooksGo
  <2>1. /\ timeouts[i].state = "young" /\ timeouts' = [timeouts EXCEPT ![i].state = "open"]
        /\ UNCHANGED <<wallet, flight, byHand>>
    BY <1>4 DEF Age
  <2>2. timeouts \in [TimeoutId -> TimeoutRow]
    BY DEF PayInv, PayTypeOK
  <2>3. \A k \in TimeoutId : /\ timeouts'[k].bet = timeouts[k].bet
                            /\ timeouts'[k].op = timeouts[k].op
                            /\ Named(k)' = Named(k)
    BY <2>1, <2>2 DEF Named, TimeoutRow
  <2> QED
    BY <2>1, <2>3 DEF BooksGo
<1>5. ASSUME NEW h \in Hands, ShowPage(h) \/ ManualLoad(h) \/ ManualRecord(h)
                              \/ ManualDies(h) \/ ManualWrite(h)
      PROVE  BooksGo
  BY <1>5, BooksStand DEF ShowPage, ManualLoad, ManualRecord, ManualDies, ManualWrite
<1> QED
  BY <1>1, <1>2, <1>3, <1>4, <1>5, TaskCallBooks, HandCallBooks
     DEF PayStep, PayNext, TaskStep, ManualStep

\* The task and the operators write their copies over game rows.
TaskWrites(c) ==
  /\ task.at = "paid" /\ c = timeouts[task.cur].bet
  /\ row'[c].amount = task.copy.amount
  /\ row'[c].status = IF timeouts[task.cur].op = "BET" THEN "CANCEL" ELSE "WT_DONE"
HandWrites(h, c) ==
  /\ hand[h].at = "write" /\ c = hand[h].bet
  /\ row'[c].amount = hand[h].copy.amount
  /\ row'[c].status = IF hand[h].op = "WD" THEN "WT_DONE" ELSE "REFUND"
RowsGo ==
  /\ row' \in [Bets -> BetRow]
  /\ \A c \in Bets :
       row'[c] = row[c] \/ TaskWrites(c) \/ \E h \in Hands : HandWrites(h, c)

\* Only an operator enters a payout.
PayoutsGo ==
  \A c \in Bets : payouts'[c] = payouts[c]
                  \/ \E h \in Hands : hand[h].at = "paid" /\ hand[h].bet = c

\* The task takes a row that is open and has a bet, with a copy of it; from then on it
\* keeps the two.
TaskGoes ==
  /\ \A i \in task'.todo : i \in task.todo \/ timeouts[i].state = "open"
  /\ \/ task' = task
     \/ task'.at \in {"idle", "next"}
     \/ /\ task.at \in {"call", "paid"} /\ task'.at \in {"paid", "mark", "failed"}
        /\ task'.at = "paid" => task.at = "call"
        /\ task'.cur = task.cur /\ task'.copy = task.copy
     \/ /\ task'.at = "call" /\ task'.cur \in task.todo
        /\ row[timeouts[task'.cur].bet].status # "NONE"
        /\ task'.copy = row[timeouts[task'.cur].bet]

\* So does an order: the page offers a bet, which is loaded and then kept.
HandGoes(h) ==
  \/ hand'[h] = hand[h]
  \/ /\ hand[h].at = "idle" /\ hand'[h].at = "page" /\ hand'[h].bet \in Bets
     /\ \/ row[hand'[h].bet].status = "WT_FAILED"
        \/ hand'[h].op = "REFUND" /\ row[hand'[h].bet].status = "BET_DONE"
  \/ /\ hand[h].at # "idle" /\ hand'[h].at # "idle"
     /\ hand'[h].bet = hand[h].bet /\ hand'[h].op = hand[h].op
     /\ \/ hand'[h].at = "done"
        \/ hand[h].at = "page" /\ hand'[h].at = "call" /\ hand'[h].copy = row[hand[h].bet]
        \/ /\ hand[h].at \in {"call", "paid"} /\ hand'[h].at \in {"paid", "write"}
           /\ hand'[h].copy = hand[h].copy
           /\ hand[h].op = "REFUND" => hand[h].bet \in byHand'

LEMMA PayRows ==
  ASSUME PayInv, PayInv', PayStep
  PROVE  RowsGo /\ PayoutsGo
<1>1. row' \in [Bets -> BetRow] /\ row \in [Bets -> BetRow] /\ payouts \in [Bets -> 0 .. 2]
      /\ hand \in [Hands -> HandRow]
  BY DEF PayInv, PayTypeOK, HandRow
<1>2. CASE UNCHANGED <<row, payouts>>
  BY <1>1, <1>2 DEF RowsGo, PayoutsGo
<1>3. CASE TaskWrite
  <2> DEFINE r == timeouts[task.cur]
             status == IF r.op = "BET" THEN "CANCEL" ELSE "WT_DONE"
             new == [task.copy EXCEPT !.status = status]
  <2>1. task.at = "paid" /\ row' = [row EXCEPT ![r.bet] = new] /\ payouts' = payouts
    BY <1>3 DEF TaskWrite
  <2>2. task.copy \in BetRow
    BY DEF PayInv, PayTypeOK
  <2>3. new.status = status /\ new.amount = task.copy.amount
    BY <2>2 DEF BetRow
  <2> HIDE DEF new
  <2>4. \A c \in Bets : row'[c] = row[c] \/ (c = r.bet /\ row'[c] = new)
    BY <1>1, <2>1
  <2>5. \A c \in Bets : row'[c] = row[c] \/ TaskWrites(c)
    BY <2>1, <2>3, <2>4 DEF TaskWrites
  <2> QED
    BY <1>1, <2>1, <2>5 DEF RowsGo, PayoutsGo
<1>4. ASSUME NEW h \in Hands, ManualWrite(h)
      PROVE  RowsGo /\ PayoutsGo
  <2> DEFINE o == hand[h]
             status == IF o.op = "WD" THEN "WT_DONE" ELSE "REFUND"
             new == [o.copy EXCEPT !.status = status]
  <2>1. o.at = "write" /\ row' = [row EXCEPT ![o.bet] = new] /\ payouts' = payouts
    BY <1>4 DEF ManualWrite
  <2>2. o.copy \in BetRow
    BY <1>1 DEF HandRow
  <2>3. new.status = status /\ new.amount = o.copy.amount
    BY <2>2 DEF BetRow
  <2> HIDE DEF new
  <2>4. \A c \in Bets : row'[c] = row[c] \/ (c = o.bet /\ row'[c] = new)
    BY <1>1, <2>1
  <2>5. \A c \in Bets : row'[c] = row[c] \/ HandWrites(h, c)
    BY <2>1, <2>3, <2>4 DEF HandWrites
  <2> QED
    BY <1>1, <2>1, <2>5 DEF RowsGo, PayoutsGo
<1>5. ASSUME NEW h \in Hands, ManualRecord(h)
      PROVE  RowsGo /\ PayoutsGo
  <2>1. /\ hand[h].at = "paid" /\ payouts' = [payouts EXCEPT ![hand[h].bet] = OneMore(@)]
        /\ row' = row
    BY <1>5 DEF ManualRecord
  <2>2. \A c \in Bets : payouts'[c] = payouts[c] \/ c = hand[h].bet
    BY <1>1, <2>1
  <2> QED
    BY <1>1, <2>1, <2>2 DEF RowsGo, PayoutsGo
<1>6. ASSUME NEW m \in flight, MerchantLate(m)
      PROVE  UNCHANGED <<row, payouts>>
  BY <1>6 DEF MerchantLate
<1>7. ASSUME TaskStart \/ TaskNext \/ TaskCall \/ TaskMark \/ TaskThrows \/ TaskDies
      PROVE  UNCHANGED <<row, payouts>>
  BY <1>7 DEF TaskStart, TaskNext, TaskCall, TaskMark, TaskThrows, TaskDies
<1>8. ASSUME NEW i \in TimeoutId, Age(i)
      PROVE  UNCHANGED <<row, payouts>>
  BY <1>8 DEF Age
<1>9. ASSUME NEW h \in Hands, ShowPage(h) \/ ManualLoad(h) \/ ManualCall(h) \/ ManualDies(h)
      PROVE  UNCHANGED <<row, payouts>>
  BY <1>9 DEF ShowPage, ManualLoad, ManualCall, ManualDies
<1> QED
  BY <1>2, <1>3, <1>4, <1>5, <1>6, <1>7, <1>8, <1>9
     DEF PayStep, PayNext, TaskStep, ManualStep

LEMMA PayTask ==
  ASSUME PayInv, PayStep
  PROVE  TaskGoes
<1>1. /\ task \in [at : TaskAt, todo : SUBSET TimeoutId, cur : 0 .. MaxTimeouts,
                   copy : BetRow]
  BY DEF PayInv, PayTypeOK
<1>2. CASE task' = task
  BY <1>2 DEF TaskGoes
<1>3. CASE TaskStart
  <2>1. task'.at = "next" /\ task'.todo = {i \in TimeoutId : timeouts[i].state = "open"}
    BY <1>3 DEF TaskStart, NoTask
  <2> QED
    BY <2>1 DEF TaskGoes
<1>4. CASE TaskNext
  <2>1. CASE task' = NoTask
    BY <2>1 DEF TaskGoes, NoTask
  <2>2. ASSUME NEW i \in task.todo, task' = [task EXCEPT !.todo = @ \ {i}]
        PROVE  TaskGoes
    <3>1. task'.at = "next" /\ task'.todo \subseteq task.todo
      BY <1>1, <1>4, <2>2 DEF TaskNext
    <3> QED
      BY <3>1 DEF TaskGoes
  <2>3. ASSUME NEW i \in task.todo, row[timeouts[i].bet].status # "NONE",
               task' = [at |-> "call", todo |-> task.todo \ {i}, cur |-> i,
                        copy |-> row[timeouts[i].bet]]
        PROVE  TaskGoes
    BY <2>3 DEF TaskGoes
  <2> QED
    BY <1>4, <2>1, <2>2, <2>3 DEF TaskNext
<1>5. CASE TaskCall
  <2>1. /\ task.at = "call" /\ task'.at \in {"paid", "failed"} /\ task'.cur = task.cur
        /\ task'.todo = task.todo /\ task'.copy = task.copy
    <3>1. PICK ok \in BOOLEAN : task' = [task EXCEPT !.at = IF ok THEN "paid" ELSE "failed"]
      BY <1>5 DEF TaskCall
    <3> QED
      BY <1>1, <1>5, <3>1 DEF TaskCall
  <2> QED
    BY <2>1 DEF TaskGoes
<1>6. CASE TaskWrite
  <2>1. /\ task.at = "paid" /\ task'.at = "mark" /\ task'.cur = task.cur
        /\ task'.todo = task.todo /\ task'.copy = task.copy
    BY <1>1, <1>6 DEF TaskWrite
  <2> QED
    BY <2>1 DEF TaskGoes
<1>7. CASE TaskMark \/ TaskThrows
  <2>1. task'.at = "next" /\ task'.todo = task.todo
    BY <1>1, <1>7 DEF TaskMark, TaskThrows
  <2> QED
    BY <2>1 DEF TaskGoes
<1>8. CASE TaskDies
  BY <1>8 DEF TaskDies, NoTask, TaskGoes
<1>9. ASSUME NEW m \in flight, MerchantLate(m)
      PROVE  task' = task
  BY <1>9 DEF MerchantLate
<1>10. ASSUME NEW i \in TimeoutId, Age(i)
       PROVE  task' = task
  BY <1>10 DEF Age
<1>11. ASSUME NEW h \in Hands, ManualStep(h) \/ ManualWrite(h)
       PROVE  task' = task
  BY <1>11 DEF ManualStep, ShowPage, ManualLoad, ManualCall, ManualRecord, ManualDies,
               ManualWrite
<1> QED
  BY <1>2, <1>3, <1>4, <1>5, <1>6, <1>7, <1>8, <1>9, <1>10, <1>11
     DEF PayStep, PayNext, TaskStep

LEMMA PayHands ==
  ASSUME PayInv, PayStep
  PROVE  \A h \in Hands : HandGoes(h)
<1>1. /\ hand \in [Hands -> HandRow]
  BY DEF PayInv, PayTypeOK, HandRow
<1>2. CASE hand' = hand
  BY <1>2 DEF HandGoes
<1>3. ASSUME NEW m \in flight, MerchantLate(m)
      PROVE  hand' = hand
  BY <1>3 DEF MerchantLate
<1>4. ASSUME NEW i \in TimeoutId, Age(i)
      PROVE  hand' = hand
  BY <1>4 DEF Age
<1>5. ASSUME TaskStep \/ TaskThrows \/ TaskDies
      PROVE  hand' = hand
  BY <1>5 DEF TaskStep, TaskStart, TaskNext, TaskCall, TaskWrite, TaskMark, TaskThrows,
              TaskDies
<1>6. ASSUME NEW h \in Hands, ManualStep(h) \/ ManualWrite(h)
      PROVE  \A k \in Hands : HandGoes(k)
  <2>1. CASE ShowPage(h)
    <3>1. PICK b \in Bets, op \in {"WD", "REFUND"} :
            /\ row[b].status = "WT_FAILED" \/ (op = "REFUND" /\ row[b].status = "BET_DONE")
            /\ hand' = [hand EXCEPT ![h] =
                          [at |-> "page", op |-> op, bet |-> b, copy |-> NoRow]]
      BY <2>1 DEF ShowPage
    <3> QED
      BY <1>1, <2>1, <3>1 DEF HandGoes, ShowPage
  <2>2. CASE ManualLoad(h)
    <3>1. hand[h].at = "page" /\ hand[h] \in HandRow
      BY <1>1, <2>2 DEF ManualLoad
    <3>2. \/ hand' = [hand EXCEPT ![h] = [hand[h] EXCEPT !.at = "done"]]
          \/ hand' = [hand EXCEPT ![h] = [hand[h] EXCEPT !.at = "call",
                                                         !.copy = row[hand[h].bet]]]
      BY <2>2 DEF ManualLoad
    <3>3. \A k \in Hands \ {h} : hand'[k] = hand[k]
      BY <1>1, <3>2
    <3>4. /\ hand'[h].bet = hand[h].bet /\ hand'[h].op = hand[h].op
          /\ \/ hand'[h].at = "done"
             \/ hand'[h].at = "call" /\ hand'[h].copy = row[hand[h].bet]
      <4>1. CASE hand' = [hand EXCEPT ![h] = [hand[h] EXCEPT !.at = "done"]]
        BY <1>1, <3>1, <4>1 DEF HandRow
      <4>2. CASE hand' = [hand EXCEPT ![h] = [hand[h] EXCEPT !.at = "call",
                                                             !.copy = row[hand[h].bet]]]
        <5>1. hand'[h] = [hand[h] EXCEPT !.at = "call", !.copy = row[hand[h].bet]]
          BY <1>1, <4>2
        <5> QED
          BY <3>1, <5>1 DEF HandRow
      <4> QED
        BY <3>2, <4>1, <4>2
    <3> QED
      BY <3>1, <3>3, <3>4 DEF HandGoes
  <2>3. CASE ManualCall(h)
    <3>1. PICK ok \in BOOLEAN :
            hand' = [hand EXCEPT ![h].at = IF ~ok THEN "done"
                                           ELSE IF hand[h].op = "WD" THEN "paid"
                                           ELSE "write"]
      BY <2>3 DEF ManualCall
    <3>2. /\ hand[h].at = "call"
          /\ byHand' = IF hand[h].op = "REFUND" THEN byHand \cup {hand[h].bet} ELSE byHand
      BY <2>3 DEF ManualCall
    <3> QED
      BY <1>1, <3>1, <3>2 DEF HandGoes, HandRow
  <2>4. CASE ManualRecord(h)
    <3>1. hand[h].op = "WD"
      BY <2>4 DEF ManualRecord, PayInv, HandHolds
    <3> QED
      BY <1>1, <2>4, <3>1 DEF HandGoes, HandRow, ManualRecord
  <2>5. CASE ManualDies(h)
    BY <1>1, <2>5 DEF HandGoes, HandRow, ManualDies
  <2>6. CASE ManualWrite(h)
    BY <1>1, <2>6 DEF HandGoes, HandRow, ManualWrite
  <2> QED
    BY <1>6, <2>1, <2>2, <2>3, <2>4, <2>5, <2>6 DEF ManualStep
<1> QED
  BY <1>2, <1>3, <1>4, <1>5, <1>6 DEF PayStep, PayNext

\* A timeout row is changed by the task only, which marks the one it worked on.
LEMMA PayAges ==
  ASSUME PayInv, PayNext, NEW i \in TimeoutId, Named(i)
  PROVE  \/ timeouts'[i] = timeouts[i]
         \/ /\ task.at \in {"mark", "failed"} /\ task.cur = i
            /\ timeouts[i].state # "young" => timeouts'[i].state # "young"
<1>1. ASSUME NEW m \in flight, MerchantLate(m)
      PROVE  timeouts' = timeouts
  BY <1>1 DEF MerchantLate
<1>2. CASE TaskStart \/ TaskNext \/ TaskThrows \/ TaskDies \/ TaskWrite
  BY <1>2 DEF TaskStart, TaskNext, TaskThrows, TaskDies, TaskWrite
<1>3. CASE TaskMark
  <2> DEFINE r == timeouts[task.cur]
             state == IF task.at = "mark" THEN "done"
                      ELSE IF r.count + 1 >= Retries(r.op) THEN "dead" ELSE r.state
             new == [bet |-> r.bet, op |-> r.op, count |-> r.count + 1, state |-> state]
  <2>1. timeouts' = [timeouts EXCEPT ![task.cur] = new] /\ task.at \in {"mark", "failed"}
    BY <1>3 DEF TaskMark
  <2>2. timeouts \in [TimeoutId -> TimeoutRow]
    BY DEF PayInv, PayTypeOK
  <2>3. new.state # "young" \/ r.state = "young"
    OBVIOUS
  <2> HIDE DEF new
  <2> QED
    BY <2>1, <2>2, <2>3
<1>4. CASE TaskCall
  <2> DEFINE r == timeouts[task.cur]
             amount == IF r.op = "BET" THEN Stake ELSE task.copy.amount
  <2>1. PICK ok \in BOOLEAN : Call(r.bet, Asks(r), amount, ok)
    BY <1>4 DEF TaskCall, Asks
  <2>2. /\ task.cur \in TimeoutId /\ r.bet \in Bets
        /\ r.op \in {"BET", "WD"} /\ task.copy \in BetRow
    BY <1>4 DEF TaskCall, PayInv, PayTypeOK, TaskHolds, RowsNamed, TimeoutRow
  <2>3. Asks(r) \in Op /\ amount \in Amount
    BY <2>2 DEF Asks, Op, Amount, BetRow
  <2> HIDE DEF r, amount
  <2> QED
    BY <2>1, <2>2, <2>3, CallBooks
<1>5. ASSUME NEW h \in Hands, ManualCall(h)
      PROVE  timeouts'[i] = timeouts[i]
  <2> DEFINE o == hand[h]
             amount == IF o.op = "WD" THEN o.copy.amount ELSE Stake
  <2>1. PICK ok \in BOOLEAN : Call(o.bet, o.op, amount, ok)
    BY <1>5 DEF ManualCall
  <2>2. /\ o.at = "call" /\ o.bet \in Bets /\ o.op \in {"WD", "REFUND"} /\ o.copy \in BetRow
    BY <1>5 DEF ManualCall, PayInv, PayTypeOK, HandHolds
  <2>3. o.op \in Op /\ amount \in Amount
    BY <2>2 DEF Op, Amount, BetRow
  <2> HIDE DEF o, amount
  <2> QED
    BY <2>1, <2>2, <2>3, CallBooks
<1>6. ASSUME NEW h \in Hands, ShowPage(h) \/ ManualLoad(h) \/ ManualRecord(h) \/ ManualDies(h)
      PROVE  timeouts' = timeouts
  BY <1>6 DEF ShowPage, ManualLoad, ManualRecord, ManualDies
<1> QED
  BY <1>1, <1>2, <1>3, <1>4, <1>5, <1>6 DEF PayNext, TaskStep, ManualStep

\* A new timeout row is young.
LEMMA CallNotes ==
  ASSUME PayInv, NEW c, NEW op, NEW amount, NEW ok, Call(c, op, amount, ok)
  PROVE  \A i \in TimeoutId : Named(i)' /\ ~Named(i) => timeouts'[i].state = "young"
<1>1. timeouts \in [TimeoutId -> TimeoutRow]
  BY DEF PayInv, PayTypeOK
<1>2. CASE timeouts' = timeouts
  BY <1>2 DEF Named
<1>3. CASE NoteTimeout(c, op)
  <2> DEFINE new == [bet |-> c, op |-> op, count |-> 0, state |-> "young"]
  <2>1. timeouts' = [timeouts EXCEPT ![last + 1] = new] /\ new.state = "young"
    BY <1>3 DEF NoteTimeout
  <2> HIDE DEF new
  <2> QED
    BY <1>1, <2>1 DEF Named
<1> QED
  BY <1>2, <1>3 DEF Call
=============================================================================
