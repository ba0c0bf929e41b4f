------------------------- MODULE CoinTracesProofs --------------------------
(***************************************************************************)
(* Proofs about CoinPayment: nothing is forgotten without a cause.  A      *)
(* stake the merchant took for a bet that is not in play is returned, or   *)
(* asked for by a row of game_payment_timeout; a winner that is not yet    *)
(* answered is with a payout task.  And the status of a bet goes forward.  *)
(***************************************************************************)
EXTENDS CoinPaymentProofs

USE PaymentAssumption, CoinPaymentAssumption DEF PaymentAssumption, CoinPaymentAssumption

(***************************************************************************)
(* The inductive invariant.                                                *)
(***************************************************************************)

Exists(b) == row[b].status # "NONE"

\* A bet gets its row when its request ends, and only such bets are cancelled, paid
\* or shown to the operator.
RowsExist ==
  /\ \A b \in Bets : req[b] # "over" => ~Exists(b)
  /\ \A b \in Bets : cancel[b] # "idle" \/ Held(b) => Exists(b)
  /\ \A h \in Hands : hand[h].at # "idle" => Exists(hand[h].bet)

\* A debit that was not answered with success, and whose bet is not in play, left a
\* row of game_payment_timeout.
Outside == {"NONE", "BET_FAILED"}
DebitTraced(b) ==
  /\ req[b] = "idle" => ~Asked(b, "BET")
  /\ req[b] \in {"declined", "over"} /\ row[b].status \in Outside /\ Asked(b, "BET")
       => (\E i \in TimeoutId : RowOf(i, b, "BET")) \/ b \in unheard
DebitsTraced == \A b \in Bets : DebitTraced(b)

\* A timeout row is marked done after what it asks for.
DoneWasAsked ==
  /\ \A i \in TimeoutId :
       timeouts[i].state = "done" => Applied(timeouts[i].bet, Asks(timeouts[i]))
  /\ task.at = "mark" => Applied(timeouts[task.cur].bet, Asks(timeouts[task.cur]))

Traces == RowsExist /\ DebitsTraced /\ DoneWasAsked /\ PayingIsHeld
TraceInv == SettleInv /\ Traces

(***************************************************************************)
(* Lemmas.                                                                 *)
(***************************************************************************)

\* Timeout rows stay, and are not marked done.
RowsStay ==
  /\ \A i \in TimeoutId : Named(i) => /\ Named(i)'
                                      /\ timeouts'[i].bet = timeouts[i].bet
                                      /\ timeouts'[i].op = timeouts[i].op
  /\ \A i \in TimeoutId : timeouts'[i].state = "done" => timeouts[i].state = "done"

LEMMA DoneKept ==
  ASSUME TraceInv, RowsStay, wallet \subseteq wallet',
         task'.at = "mark" => task.at = "mark" /\ task'.cur = task.cur
  PROVE  DoneWasAsked'
<1>1. ASSUME NEW i \in TimeoutId, timeouts'[i].state = "done"
      PROVE  Applied(timeouts[i].bet, Asks(timeouts[i]))'
  <2>1. timeouts[i].state = "done" /\ Named(i)
    BY <1>1 DEF RowsStay, Named
  <2>2. Applied(timeouts[i].bet, Asks(timeouts[i]))
    BY <2>1 DEF TraceInv, Traces, DoneWasAsked
  <2>3. timeouts'[i].bet = timeouts[i].bet /\ timeouts'[i].op = timeouts[i].op
    BY <2>1 DEF RowsStay
  <2> QED
    BY <2>2, <2>3 DEF Applied, Asks
<1>2. ASSUME task'.at = "mark"
      PROVE  Applied(timeouts[task.cur].bet, Asks(timeouts[task.cur]))'
  <2>1. task.at = "mark" /\ task'.cur = task.cur
    BY <1>2
  <2>2. task.cur \in TimeoutId /\ Named(task.cur)
    BY <2>1 DEF TraceInv, SettleInv, PaidInv, PayInv, TaskHolds
  <2>3. Applied(timeouts[task.cur].bet, Asks(timeouts[task.cur]))
    BY <2>1 DEF TraceInv, Traces, DoneWasAsked
  <2>4. /\ timeouts'[task.cur].bet = timeouts[task.cur].bet
        /\ timeouts'[task.cur].op = timeouts[task.cur].op
    BY <2>2 DEF RowsStay
  <2> QED
    BY <2>1, <2>3, <2>4 DEF Applied, Asks
<1> QED
  BY <1>1, <1>2 DEF DoneWasAsked

\* The payment side writes end statuses over bets that exist, asks for no stake and
\* shows the operator bets that exist.
LEMMA PaySideTraces ==
  ASSUME TraceInv, UNCHANGED coinVars,
         \A b \in Bets : \/ row'[b] = row[b]
                         \/ Exists(b) /\ row'[b].status \in {"CANCEL", "WT_DONE", "REFUND"},
         \A b \in Bets : Asked(b, "BET")' => Asked(b, "BET"),
         \A i \in TimeoutId : Named(i) => /\ Named(i)'
                                          /\ timeouts'[i].bet = timeouts[i].bet
                                          /\ timeouts'[i].op = timeouts[i].op,
         \A h \in Hands : hand'[h].at # "idle" =>
           /\ hand'[h].bet \in Bets
           /\ Exists(hand'[h].bet),
         DoneWasAsked'
  PROVE  Traces'
<1>1. \A b \in Bets : Exists(b)' <=> Exists(b)
  BY DEF Exists
<1>2. \A b \in Bets : Held(b)' = Held(b)
  BY DEF Held, Waits, coinVars
<1>3. RowsExist'
  BY <1>1, <1>2 DEF RowsExist, TraceInv, Traces, coinVars
<1>4. DebitsTraced'
  <2> SUFFICES ASSUME NEW b \in Bets
               PROVE  DebitTraced(b)'
    BY DEF DebitsTraced
  <2>1. row'[b].status \in Outside => row[b].status \in Outside
    BY DEF Outside
  <2>2. \A i \in TimeoutId : RowOf(i, b, "BET") => RowOf(i, b, "BET")'
    BY DEF RowOf
  <2>3. req' = req /\ unheard' = unheard
    BY DEF coinVars
  <2> QED
    BY <2>1, <2>2, <2>3 DEF TraceInv, Traces, DebitsTraced, DebitTraced
<1>5. PayingIsHeld'
  BY <1>2 DEF PayingIsHeld, TraceInv, Traces, coinVars
<1> QED
  BY <1>3, <1>4, <1>5 DEF Traces

\* What a call adds belongs to its bet and its kind; its timeout row is young.
LEMMA CallStays ==
  ASSUME TraceInv, NEW c \in Bets, NEW op \in Op, NEW amount \in Amount, NEW ok \in BOOLEAN,
         Call(c, op, amount, ok)
  PROVE  /\ wallet \subseteq wallet' /\ RowsStay
         /\ \A b : \A o : Asked(b, o)' => Asked(b, o) \/ (b = c /\ o = op)
<1>1. /\ wallet \subseteq wallet'
      /\ wallet' \subseteq wallet \cup {[bet |-> c, op |-> op, amount |-> amount]}
      /\ flight' \subseteq flight \cup {[bet |-> c, op |-> op, amount |-> amount]}
      /\ \A i \in TimeoutId : Named(i) => timeouts'[i] = timeouts[i]
      /\ \A i \in TimeoutId : Named(i)' => \/ Named(i)
                                           \/ timeouts'[i].state = "young"
  BY CallAdds DEF TraceInv, SettleInv, PaidInv, Others
<1>2. RowsStay
  BY <1>1 DEF RowsStay, Named
<1>3. \A b : \A o : Asked(b, o)' => Asked(b, o) \/ (b = c /\ o = op)
  BY <1>1 DEF Asked
<1> QED
  BY <1>1, <1>2, <1>3

(***************************************************************************)
(* The payment side.                                                       *)
(***************************************************************************)

LEMMA LateTraces ==
  ASSUME TraceInv, NEW m \in flight, MerchantLate(m), UNCHANGED coinVars
  PROVE  Traces'
<1>1. /\ UNCHANGED <<row, timeouts, task, hand>>
      /\ wallet \subseteq wallet'
      /\ wallet' \cup flight' \subseteq wallet \cup flight
  BY DEF MerchantLate, CarryOut
<1>2. DoneWasAsked'
  BY <1>1, DoneKept DEF RowsStay, Named
<1>3. \A b \in Bets : Asked(b, "BET")' => Asked(b, "BET")
  BY <1>1 DEF Asked
<1>4. \A h \in Hands : hand[h].at # "idle" => hand[h].bet \in Bets /\ Exists(hand[h].bet)
  BY DEF TraceInv, SettleInv, PaidInv, PayInv, HandHolds, Traces, RowsExist
<1> QED
  BY <1>1, <1>2, <1>3, <1>4, PaySideTraces DEF Named

LEMMA AgeTraces ==
  ASSUME TraceInv, NEW i \in TimeoutId, Age(i), UNCHANGED coinVars
  PROVE  Traces'
<1>1. /\ UNCHANGED <<row, wallet, flight, task, hand>>
      /\ timeouts' = [timeouts EXCEPT ![i].state = "open"]
      /\ timeouts[i].state = "young"
  BY DEF Age
<1>2. timeouts \in [TimeoutId -> TimeoutRow]
  BY DEF TraceInv, SettleInv, PaidInv, PayInv, PayTypeOK
<1>3. RowsStay
  BY <1>1, <1>2 DEF RowsStay, Named, TimeoutRow
<1>4. DoneWasAsked'
  BY <1>1, <1>3, DoneKept
<1>5. \A h \in Hands : hand[h].at # "idle" => hand[h].bet \in Bets /\ Exists(hand[h].bet)
  BY DEF TraceInv, SettleInv, PaidInv, PayInv, HandHolds, Traces, RowsExist
<1> QED
  BY <1>1, <1>3, <1>4, <1>5, PaySideTraces DEF RowsStay, Asked

LEMMA TaskMovesTraces ==
  ASSUME TraceInv, TaskStart \/ TaskNext \/ TaskThrows \/ TaskDies, UNCHANGED coinVars
  PROVE  Traces'
<1>1. UNCHANGED <<row, wallet, flight, timeouts, hand>>
  BY DEF TaskStart, TaskNext, TaskThrows, TaskDies
<1>2. task'.at # "mark"
  <2>1. task \in [at : TaskAt, todo : SUBSET TimeoutId, cur : 0 .. MaxTimeouts,
                  copy : BetRow]
    BY DEF TraceInv, SettleInv, PaidInv, PayInv, PayTypeOK
  <2>2. CASE TaskStart
    BY <2>2 DEF TaskStart, NoTask
  <2>3. CASE TaskNext
    <3>1. CASE task' = NoTask
      BY <3>1 DEF NoTask
    <3>2. CASE task' # NoTask
      <4>1. PICK i \in task.todo :
              \/ task' = [task EXCEPT !.todo = @ \ {i}]
              \/ task' = [at |-> "call", todo |-> task.todo \ {i}, cur |-> i,
                          copy |-> row[timeouts[i].bet]]
        BY <2>3, <3>2 DEF TaskNext
      <4>2. task.at = "next"
        BY <2>3 DEF TaskNext
      <4> QED
        BY <2>1, <4>1, <4>2
    <3> QED
      BY <3>1, <3>2
  <2>4. CASE TaskThrows \/ TaskDies
    BY <2>1, <2>4 DEF TaskThrows, TaskDies, NoTask
  <2> QED
    BY <2>2, <2>3, <2>4
<1>3. DoneWasAsked'
  BY <1>1, <1>2, DoneKept DEF RowsStay, Named
<1>4. \A h \in Hands : hand[h].at # "idle" => hand[h].bet \in Bets /\ Exists(hand[h].bet)
  BY DEF TraceInv, SettleInv, PaidInv, PayInv, HandHolds, Traces, RowsExist
<1> QED
  BY <1>1, <1>3, <1>4, PaySideTraces DEF Asked, Named

LEMMA TaskCallTraces ==
  ASSUME TraceInv, TaskCall, UNCHANGED coinVars
  PROVE  Traces'
<1> DEFINE r == timeouts[task.cur]
           amount == IF r.op = "BET" THEN Stake ELSE task.copy.amount
<1>1. PICK ok \in BOOLEAN :
        /\ Call(r.bet, Asks(r), amount, ok)
        /\ task' = [task EXCEPT !.at = IF ok THEN "paid" ELSE "failed"]
  BY DEF TaskCall, Asks
<1>2. /\ r.bet \in Bets /\ amount \in Amount
      /\ task \in [at : TaskAt, todo : SUBSET TimeoutId, cur : 0 .. MaxTimeouts,
                   copy : BetRow]
  <2>1. task.cur \in TimeoutId /\ Named(task.cur)
    BY DEF TaskCall, TraceInv, SettleInv, PaidInv, PayInv, TaskHolds
  <2>2. r.bet \in Bets
    BY <2>1 DEF TraceInv, SettleInv, PaidInv, PayInv, RowsNamed
  <2> QED
    BY <2>2 DEF TraceInv, SettleInv, PaidInv, PayInv, PayTypeOK, Amount, BetRow
<1>3. Asks(r) \in Op /\ Asks(r) # "BET"
  BY DEF Asks, Op
<1>4. /\ wallet \subseteq wallet' /\ RowsStay
      /\ \A b : \A o : Asked(b, o)' => Asked(b, o) \/ (b = r.bet /\ o = Asks(r))
  BY <1>1, <1>2, <1>3, CallStays
<1>5. DoneWasAsked'
  <2>1. task'.at # "mark"
    BY <1>1, <1>2
  <2> QED
    BY <1>4, <2>1, DoneKept
<1>6. UNCHANGED <<row, hand>>
  BY DEF TaskCall
<1>7. \A h \in Hands : hand[h].at # "idle" => hand[h].bet \in Bets /\ Exists(hand[h].bet)
  BY DEF TraceInv, SettleInv, PaidInv, PayInv, HandHolds, Traces, RowsExist
<1>8. \A b \in Bets : Asked(b, "BET")' => Asked(b, "BET")
  BY <1>3, <1>4
<1> QED
  BY <1>4, <1>5, <1>6, <1>7, <1>8, PaySideTraces DEF RowsStay

LEMMA TaskWriteTraces ==
  ASSUME TraceInv, TaskWrite, UNCHANGED coinVars
  PROVE  Traces'
<1> DEFINE r == timeouts[task.cur]
           new == IF r.op = "BET" THEN "CANCEL" ELSE "WT_DONE"
<1>1. /\ task.at = "paid"
      /\ row' = [row EXCEPT ![r.bet] = [task.copy EXCEPT !.status = new]]
      /\ task' = [task EXCEPT !.at = "mark"]
      /\ UNCHANGED <<wallet, flight, timeouts, hand>>
  BY DEF TaskWrite
<1>2. /\ r.bet \in Bets /\ Exists(r.bet)
      /\ task \in [at : TaskAt, todo : SUBSET TimeoutId, cur : 0 .. MaxTimeouts,
                   copy : BetRow]
      /\ row \in [Bets -> BetRow]
  <2>1. task.cur \in TimeoutId /\ Named(task.cur)
    BY <1>1 DEF TraceInv, SettleInv, PaidInv, PayInv, TaskHolds
  <2>2. r.bet \in Bets /\ Exists(r.bet)
    BY <1>1, <2>1 DEF TraceInv, SettleInv, PaidInv, PayInv, RowsNamed, Others, TaskOpen, Exists
  <2> QED
    BY <2>2 DEF TraceInv, SettleInv, PaidInv, PayInv, PayTypeOK
<1>3. [task.copy EXCEPT !.status = new].status = new
  <2>1. task.copy \in BetRow /\ new \in Status
    BY <1>2 DEF Status
  <2> QED
    BY <2>1, RowType
<1>4. \A b \in Bets : \/ row'[b] = row[b]
                      \/ Exists(b) /\ row'[b].status \in {"CANCEL", "WT_DONE", "REFUND"}
  BY <1>1, <1>2, <1>3
<1>5. DoneWasAsked'
  <2>1. Applied(r.bet, Asks(r))
    BY <1>1 DEF TraceInv, SettleInv, PaidInv, PayInv, TaskHolds
  <2>2. task'.cur = task.cur
    BY <1>1, <1>2
  <2> QED
    BY <1>1, <2>1, <2>2 DEF DoneWasAsked, TraceInv, Traces, Applied, Asks
<1>6. \A h \in Hands : hand[h].at # "idle" => hand[h].bet \in Bets /\ Exists(hand[h].bet)
  BY DEF TraceInv, SettleInv, PaidInv, PayInv, HandHolds, Traces, RowsExist
<1> QED
  BY <1>1, <1>4, <1>5, <1>6, PaySideTraces DEF Asked, Named

LEMMA TaskMarkTraces ==
  ASSUME TraceInv, TaskMark, UNCHANGED coinVars
  PROVE  Traces'
<1> DEFINE r == timeouts[task.cur]
           state == IF task.at = "mark" THEN "done"
                    ELSE IF r.count + 1 >= Retries(r.op) THEN "dead" ELSE r.state
           new == [bet |-> r.bet, op |-> r.op, count |-> r.count + 1, state |-> state]
<1>1. /\ task.at \in {"mark", "failed"}
      /\ timeouts' = [timeouts EXCEPT ![task.cur] = new]
      /\ task' = [task EXCEPT !.at = "next"]
      /\ UNCHANGED <<row, wallet, flight, hand>>
  BY DEF TaskMark
<1>2. /\ task.cur \in TimeoutId /\ Named(task.cur)
      /\ task \in [at : TaskAt, todo : SUBSET TimeoutId, cur : 0 .. MaxTimeouts,
                   copy : BetRow]
      /\ timeouts \in [TimeoutId -> TimeoutRow]
  BY <1>1 DEF TraceInv, SettleInv, PaidInv, PayInv, PayTypeOK, TaskHolds
<1>3. /\ new.bet = r.bet /\ new.op = r.op /\ new.state = state
      /\ state # "none"
  BY <1>2 DEF Named
<1>4. /\ timeouts'[task.cur] = new
      /\ \A i \in TimeoutId : i # task.cur => timeouts'[i] = timeouts[i]
  BY <1>1, <1>2
<1> HIDE DEF new
<1>5. \A i \in TimeoutId : Named(i) => /\ Named(i)'
                                       /\ timeouts'[i].bet = timeouts[i].bet
                                       /\ timeouts'[i].op = timeouts[i].op
  BY <1>3, <1>4 DEF Named
<1>6. DoneWasAsked'
  <2>1. task'.at # "mark"
    BY <1>1, <1>2
  <2>2. ASSUME NEW i \in TimeoutId, timeouts'[i].state = "done"
        PROVE  Applied(timeouts[i].bet, Asks(timeouts[i]))'
    <3>1. CASE i = task.cur /\ task.at = "mark"
      <4>1. Applied(r.bet, Asks(r))
        BY <3>1 DEF TraceInv, Traces, DoneWasAsked
      <4> QED
        BY <1>1, <1>3, <1>4, <3>1, <4>1 DEF Applied, Asks
    <3>2. CASE ~(i = task.cur /\ task.at = "mark")
      <4>1. timeouts[i].state = "done"
        BY <1>3, <1>4, <2>2, <3>2
      <4>2. Applied(timeouts[i].bet, Asks(timeouts[i])) /\ Named(i)
        BY <4>1 DEF TraceInv, Traces, DoneWasAsked, Named
      <4> QED
        BY <1>1, <1>5, <4>2 DEF Applied, Asks
    <3> QED
      BY <3>1, <3>2
  <2> QED
    BY <2>1, <2>2 DEF DoneWasAsked
<1>7. \A h \in Hands : hand[h].at # "idle" => hand[h].bet \in Bets /\ Exists(hand[h].bet)
  BY DEF TraceInv, SettleInv, PaidInv, PayInv, HandHolds, Traces, RowsExist
<1> QED
  BY <1>1, <1>5, <1>6, <1>7, PaySideTraces DEF Asked

\* The operator is shown bets that exist, and stays with them.
LEMMA OrderExists ==
  ASSUME TraceInv, NEW h \in Hands, ManualStep(h) \/ ManualWrite(h)
  PROVE  \A k \in Hands : hand'[k].at # "idle" => hand'[k].bet \in Bets /\ Exists(hand'[k].bet)
<1>1. \A k \in Hands : hand[k].at # "idle" => hand[k].bet \in Bets /\ Exists(hand[k].bet)
  BY DEF TraceInv, SettleInv, PaidInv, PayInv, HandHolds, Traces, RowsExist
<1>2. hand \in [Hands -> HandRow]
  BY DEF TraceInv, SettleInv, PaidInv, PayInv, PayTypeOK, HandRow
<1>3. CASE ShowPage(h)
  <2>1. PICK b \in Bets, op \in {"WD", "REFUND"} :
          /\ row[b].status \in {"WT_FAILED", "BET_DONE"}
          /\ hand' = [hand EXCEPT ![h] =
                        [at |-> "page", op |-> op, bet |-> b, copy |-> NoRow]]
    BY <1>3 DEF ShowPage
  <2>2. Exists(b)
    BY <2>1 DEF Exists
  <2>3. \A k \in Hands : hand'[k] = hand[k] \/ hand'[k].bet = b
    BY <1>2, <2>1
  <2> QED
    BY <1>1, <2>2, <2>3
<1>4. CASE ManualLoad(h) \/ ManualCall(h) \/ ManualRecord(h) \/ ManualDies(h) \/ ManualWrite(h)
  <2>1. hand[h].at # "idle"
    BY <1>4 DEF ManualLoad, ManualCall, ManualRecord, ManualDies, ManualWrite
  <2>2. \A k \in Hands : k # h => hand'[k] = hand[k]
    BY <1>2, <1>4 DEF ManualLoad, ManualCall, ManualRecord, ManualDies, ManualWrite
  <2>3. hand'[h].bet = hand[h].bet
    <3>1. hand[h] \in HandRow
      BY <1>2
    <3>2. CASE ManualLoad(h)
      <4>1. \/ hand'[h] = [hand[h] EXCEPT !.at = "done"]
            \/ hand'[h] = [hand[h] EXCEPT !.at = "call", !.copy = row[hand[h].bet]]
        BY <1>2, <3>2 DEF ManualLoad
      <4> QED
        BY <3>1, <4>1 DEF HandRow
    <3>3. CASE ~ManualLoad(h)
      <4>1. \E s \in HandAt : hand'[h] = [hand[h] EXCEPT !.at = s]
        BY <1>2, <1>4, <3>3
           DEF ManualCall, ManualRecord, ManualDies, ManualWrite, HandAt
      <4> QED
        BY <3>1, <4>1 DEF HandRow
    <3> QED
      BY <3>2, <3>3
  <2> QED
    BY <1>1, <2>1, <2>2, <2>3
<1> QED
  BY <1>3, <1>4 DEF ManualStep

LEMMA OrderTraces ==
  ASSUME TraceInv, NEW h \in Hands, ManualStep(h), UNCHANGED coinVars
  PROVE  Traces'
<1>1. \A k \in Hands : hand'[k].at # "idle" => hand'[k].bet \in Bets /\ Exists(hand'[k].bet)
  BY OrderExists
<1>2. UNCHANGED <<row, task>>
  BY DEF ManualStep, ShowPage, ManualLoad, ManualCall, ManualRecord, ManualDies
<1>3. /\ wallet \subseteq wallet' /\ RowsStay
      /\ \A b : Asked(b, "BET")' => Asked(b, "BET")
  <2>1. CASE ManualCall(h)
    <3> DEFINE o == hand[h]
               amount == IF o.op = "WD" THEN o.copy.amount ELSE Stake
    <3>1. PICK ok \in BOOLEAN : Call(o.bet, o.op, amount, ok)
      BY <2>1 DEF ManualCall
    <3>2. /\ o.bet \in Bets /\ o.op \in Op /\ o.op # "BET" /\ amount \in Amount
      BY <2>1 DEF ManualCall, TraceInv, SettleInv, PaidInv, PayInv, PayTypeOK, HandHolds,
                  BetRow, Amount, Op
    <3> HIDE DEF amount
    <3> QED
      BY <3>1, <3>2, CallStays
  <2>2. CASE ~ManualCall(h)
    <3>1. UNCHANGED <<wallet, flight, timeouts>>
      BY <2>2 DEF ManualStep, ShowPage, ManualLoad, ManualRecord, ManualDies
    <3> QED
      BY <3>1 DEF RowsStay, Named, Asked
  <2> QED
    BY <2>1, <2>2
<1>4. DoneWasAsked'
  BY <1>2, <1>3, DoneKept
<1> QED
  BY <1>1, <1>2, <1>3, <1>4, PaySideTraces DEF RowsStay

LEMMA ManualWriteTraces ==
  ASSUME TraceInv, NEW h \in Hands, ManualWrite(h), UNCHANGED coinVars
  PROVE  Traces'
<1> DEFINE o == hand[h]
           new == IF o.op = "WD" THEN "WT_DONE" ELSE "REFUND"
<1>1. /\ o.at = "write"
      /\ row' = [row EXCEPT ![o.bet] = [o.copy EXCEPT !.status = new]]
      /\ UNCHANGED <<wallet, flight, timeouts, task>>
  BY DEF ManualWrite
<1>2. \A k \in Hands : hand'[k].at # "idle" => hand'[k].bet \in Bets /\ Exists(hand'[k].bet)
  BY OrderExists
<1>3. o.copy \in BetRow /\ o.bet \in Bets /\ Exists(o.bet) /\ row \in [Bets -> BetRow]
  BY <1>1 DEF TraceInv, SettleInv, PaidInv, PayInv, PayTypeOK, HandHolds, Traces, RowsExist
<1>4. [o.copy EXCEPT !.status = new].status = new
  <2>1. new \in Status
    BY DEF Status
  <2> QED
    BY <1>3, <2>1, RowType
<1>5. \A b \in Bets : \/ row'[b] = row[b]
                      \/ Exists(b) /\ row'[b].status \in {"CANCEL", "WT_DONE", "REFUND"}
  BY <1>1, <1>3, <1>4
<1>6. DoneWasAsked'
  BY <1>1, DoneKept DEF RowsStay, Named
<1> QED
  BY <1>1, <1>2, <1>5, <1>6, PaySideTraces DEF Asked, Named

(***************************************************************************)
(* The coin game.                                                          *)
(***************************************************************************)

\* A step that does nothing to the debit of a bet.
LEMMA DebitKept ==
  ASSUME TraceInv, NEW b \in Bets, req'[b] = req[b],
         row'[b].status \in Outside => row[b].status \in Outside,
         Asked(b, "BET")' => Asked(b, "BET"),
         RowsStay, unheard \subseteq unheard'
  PROVE  DebitTraced(b)'
<1>1. \A i \in TimeoutId : RowOf(i, b, "BET") => RowOf(i, b, "BET")'
  BY DEF RowOf, RowsStay
<1>2. DebitTraced(b)
  BY DEF TraceInv, Traces, DebitsTraced
<1> QED
  BY <1>1, <1>2 DEF DebitTraced

\* A step of the game makes rows only for requests that end, and holds and cancels
\* only bets that have one.
LEMMA GameTraces ==
  ASSUME TraceInv, UNCHANGED <<task, hand>>, wallet \subseteq wallet', RowsStay,
         \A b \in Bets :
           /\ Exists(b) => Exists(b)'
           /\ Exists(b)' => Exists(b) \/ req'[b] = "over"
           /\ req[b] = "over" => req'[b] = "over"
           /\ cancel'[b] # "idle" => cancel[b] # "idle" \/ Exists(b)
           /\ Held(b)' => Held(b) \/ Exists(b)',
         DebitsTraced', PayingIsHeld'
  PROVE  Traces'
<1>1. DoneWasAsked'
  BY DoneKept
<1>2. RowsExist'
  <2>1. \A h \in Hands : hand[h].at # "idle" => hand[h].bet \in Bets
    BY DEF TraceInv, SettleInv, PaidInv, PayInv, HandHolds
  <2>2. RowsExist
    BY DEF TraceInv, Traces
  <2>3. \A b \in Bets : req'[b] # "over" => ~Exists(b)'
    BY <2>2 DEF RowsExist
  <2>4. \A b \in Bets : cancel'[b] # "idle" \/ Held(b)' => Exists(b)'
    BY <2>2 DEF RowsExist
  <2>5. \A h \in Hands : hand'[h].at # "idle" => Exists(hand[h].bet)'
    BY <2>1, <2>2 DEF RowsExist
  <2> QED
    BY <2>3, <2>4, <2>5 DEF RowsExist, Exists
<1> QED
  BY <1>1, <1>2 DEF Traces

LEMMA BetCallTraces ==
  ASSUME TraceInv, NEW c \in Bets, BetCall(c)
  PROVE  Traces'
<1> DEFINE m == [bet |-> c, op |-> "BET", amount |-> Stake]
<1>1. PICK ok \in BOOLEAN :
        /\ Call(c, "BET", Stake, ok)
        /\ req' = [req EXCEPT ![c] = IF ok THEN "paid" ELSE "declined"]
        /\ unheard' = IF ~ok /\ Untraced(m) THEN unheard \cup {c} ELSE unheard
  BY DEF BetCall
<1>2. /\ req[c] = "idle"
      /\ UNCHANGED <<row, payouts, task, hand, byHand, open, cancel, queue, answers,
                     drops, lost, dropped>>
  BY DEF BetCall
<1>3. /\ req \in [Bets -> ReqAt] /\ Stake \in Amount /\ "BET" \in Op
      /\ timeouts \in [TimeoutId -> TimeoutRow] /\ last \in 0 .. MaxTimeouts
  BY DEF TraceInv, SettleInv, PaidInv, PayInv, PayTypeOK, CoinInv, CoinTypeOK, Amount, Op
<1>4. /\ wallet \subseteq wallet' /\ RowsStay
      /\ \A b : \A o : Asked(b, o)' => Asked(b, o) \/ (b = c /\ o = "BET")
  BY <1>1, <1>3, CallStays
<1>5. /\ \A b \in Bets \ {c} : req'[b] = req[b]
      /\ req'[c] = IF ok THEN "paid" ELSE "declined"
  BY <1>1, <1>3
<1>6. DebitTraced(c)'
  <2>1. CASE ok
    BY <1>5, <2>1 DEF DebitTraced
  <2>2. CASE ~ok
    <3>1. ASSUME Asked(c, "BET")'
          PROVE  (\E i \in TimeoutId : RowOf(i, c, "BET")') \/ c \in unheard'
      <4>1. CASE NoteTimeout(c, "BET")
        <5>1. last + 1 \in TimeoutId
          BY <1>3, <4>1 DEF NoteTimeout, TimeoutId
        <5>2. timeouts'[last + 1] = [bet |-> c, op |-> "BET", count |-> 0, state |-> "young"]
          BY <1>3, <4>1, <5>1 DEF NoteTimeout
        <5> QED
          BY <5>1, <5>2 DEF RowOf, Named
      <4>2. CASE UNCHANGED <<timeouts, last>>
        <5>1. ~Asked(c, "BET")
          BY <1>2 DEF TraceInv, Traces, DebitsTraced, DebitTraced
        <5>2. wallet' \subseteq wallet \cup {m} /\ flight' \subseteq flight \cup {m}
          BY <1>1 DEF Call, CarryOut, Unanswered
        <5>3. m \in wallet' \/ m \in flight'
          BY <3>1, <5>1, <5>2 DEF Asked
        <5> QED
          BY <1>1, <2>2, <4>2, <5>3 DEF Untraced
      <4> QED
        BY <1>1, <2>2, <4>1, <4>2 DEF Call
    <3> QED
      BY <1>5, <2>2, <3>1 DEF DebitTraced
  <2> QED
    BY <2>1, <2>2
<1>7. \A b \in Bets \ {c} : DebitTraced(b)'
  BY <1>1, <1>2, <1>4, <1>5, DebitKept
<1>8. PayingIsHeld'
  BY <1>2 DEF PayingIsHeld, TraceInv, Traces
<1>9. \A b \in Bets : Exists(b)' = Exists(b) /\ Held(b)' = Held(b)
  BY <1>2 DEF Exists, Held, Waits
<1>10. \A b \in Bets : req[b] = "over" => req'[b] = "over"
  BY <1>2, <1>5
<1> QED
  BY <1>2, <1>4, <1>6, <1>7, <1>8, <1>9, <1>10, GameTraces DEF DebitsTraced

LEMMA BetCommitTraces ==
  ASSUME TraceInv, NEW c \in Bets, BetCommit(c)
  PROVE  Traces'
<1>1. /\ req[c] \in {"paid", "declined"}
      /\ req' = [req EXCEPT ![c] = "over"]
      /\ UNCHANGED <<payouts, wallet, flight, timeouts, last, task, hand, byHand,
                     open, cancel, queue, answers, drops, lost, dropped>>
  BY DEF BetCommit
<1>2. /\ \A b \in Bets \ {c} : row'[b] = row[b]
      /\ \/ row'[c] = row[c] /\ (req[c] = "paid" => c \in unheard')
         \/ row'[c].status = IF req[c] = "paid" THEN "BET_DONE" ELSE "BET_FAILED"
      /\ unheard \subseteq unheard'
  <2>1. row \in [Bets -> BetRow]
    BY DEF TraceInv, SettleInv, PaidInv, PayInv, PayTypeOK
  <2> QED
    BY <2>1 DEF BetCommit
<1>3. /\ req \in [Bets -> ReqAt] /\ row[c].status = "NONE"
      /\ \A b \in Bets \ {c} : req'[b] = req[b]
      /\ req'[c] = "over"
  BY <1>1 DEF TraceInv, SettleInv, PaidInv, CoinInv, CoinTypeOK, Traces, RowsExist, Exists
<1>4. RowsStay /\ \A b : \A o : Asked(b, o)' = Asked(b, o)
  BY <1>1 DEF RowsStay, Named, Asked
<1>5. DebitTraced(c)'
  <2>1. DebitTraced(c)
    BY DEF TraceInv, Traces, DebitsTraced
  <2>2. \A i \in TimeoutId : RowOf(i, c, "BET")' = RowOf(i, c, "BET")
    BY <1>1 DEF RowOf, Named
  <2>3. CASE req[c] = "paid"
    BY <1>2, <1>3, <2>3 DEF DebitTraced, Outside
  <2>4. CASE req[c] = "declined"
    BY <1>2, <1>3, <1>4, <2>1, <2>2, <2>4 DEF DebitTraced, Outside
  <2> QED
    BY <1>1, <2>3, <2>4
<1>6. \A b \in Bets \ {c} : DebitTraced(b)'
  BY <1>2, <1>3, <1>4, DebitKept
<1>7. PayingIsHeld'
  <2>1. \A b \in Bets : row'[b].status = "PAY_ING" => row[b].status = "PAY_ING"
    BY <1>2
  <2> QED
    BY <1>1, <2>1 DEF PayingIsHeld, TraceInv, Traces
<1>8. \A b \in Bets : Held(b)' = Held(b)
  BY <1>1 DEF Held, Waits
<1>9. \A b \in Bets : /\ Exists(b) => Exists(b)'
                      /\ Exists(b)' => Exists(b) \/ req'[b] = "over"
                      /\ req[b] = "over" => req'[b] = "over"
  BY <1>2, <1>3 DEF Exists
<1> QED
  BY <1>1, <1>4, <1>5, <1>6, <1>7, <1>8, <1>9, GameTraces DEF DebitsTraced

\* A step after the bets were placed, which writes statuses over bets in play.
LEMMA LaterTraces ==
  ASSUME TraceInv, UNCHANGED <<task, hand, req, unheard>>, wallet \subseteq wallet', RowsStay,
         \A b \in Bets : /\ row'[b] = row[b] \/ (Exists(b) /\ row'[b].status \notin Outside)
                         /\ Asked(b, "BET")' => Asked(b, "BET")
                         /\ cancel'[b] # "idle" => cancel[b] # "idle" \/ Exists(b)
                         /\ Held(b)' => Held(b) \/ Exists(b),
         PayingIsHeld'
  PROVE  Traces'
<1>1. \A b \in Bets : Exists(b)' <=> Exists(b)
  BY DEF Exists, Outside
<1>2. ASSUME NEW b \in Bets
      PROVE  DebitTraced(b)'
  BY DebitKept
<1> QED
  BY <1>1, <1>2, GameTraces DEF DebitsTraced

LEMMA CancelTraces ==
  ASSUME TraceInv, NEW c \in Bets, CancelLoad(c) \/ CancelCall(c) \/ CancelCommit(c)
  PROVE  Traces'
<1>1. /\ UNCHANGED <<task, hand, req, unheard, queue, answers, dropped>>
      /\ row' = row \/ (cancel[c] = "refunded" /\ row' = [row EXCEPT ![c].status = "CANCEL"])
  BY DEF CancelLoad, CancelCall, CancelCommit, payVars
<1>2. /\ row \in [Bets -> BetRow] /\ cancel \in [Bets -> CancelAt]
      /\ Stake \in Amount /\ "REFUND" \in Op
  BY DEF TraceInv, SettleInv, PaidInv, PayInv, PayTypeOK, CoinInv, CoinTypeOK, Amount, Op
<1>3. /\ wallet \subseteq wallet' /\ RowsStay
      /\ \A b : Asked(b, "BET")' => Asked(b, "BET")
  <2>1. CASE CancelCall(c)
    <3>1. PICK ok \in BOOLEAN : Call(c, "REFUND", Stake, ok)
      BY <2>1 DEF CancelCall
    <3> QED
      BY <1>2, <3>1, CallStays
  <2>2. CASE CancelLoad(c) \/ CancelCommit(c)
    <3>1. UNCHANGED <<wallet, flight, timeouts>>
      BY <2>2 DEF CancelLoad, CancelCommit, payVars
    <3> QED
      BY <3>1 DEF RowsStay, Named, Asked
  <2> QED
    BY <2>1, <2>2
<1>4. \A b \in Bets : cancel[b] # "idle" => Exists(b)
  BY DEF TraceInv, Traces, RowsExist
<1>5. \A b \in Bets : row'[b] = row[b] \/ (Exists(b) /\ row'[b].status = "CANCEL")
  <2>1. CASE row' = row
    BY <2>1
  <2>2. CASE cancel[c] = "refunded" /\ row' = [row EXCEPT ![c].status = "CANCEL"]
    <3>1. Exists(c) /\ row[c] \in BetRow
      BY <1>2, <1>4, <2>2
    <3>2. row'[c].status = "CANCEL"
      BY <1>2, <2>2, <3>1 DEF BetRow
    <3> QED
      BY <1>2, <2>2, <3>1, <3>2
  <2> QED
    BY <1>1, <2>1, <2>2
<1>6. \A b \in Bets : cancel'[b] # "idle" => cancel[b] # "idle" \/ Exists(b)
  <2>1. CASE CancelLoad(c)
    BY <1>2, <2>1 DEF CancelLoad, Exists
  <2>2. CASE CancelCall(c) \/ CancelCommit(c)
    BY <1>2, <2>2 DEF CancelCall, CancelCommit
  <2> QED
    BY <2>1, <2>2
<1>7. \A b \in Bets : Held(b)' = Held(b)
  BY <1>1 DEF Held, Waits
<1>8. PayingIsHeld'
  BY <1>1, <1>5 DEF PayingIsHeld, TraceInv, Traces
<1> QED
  BY <1>1, <1>3, <1>5, <1>6, <1>7, <1>8, LaterTraces DEF Outside

LEMMA DrawTraces ==
  ASSUME TraceInv, Draw
  PROVE  Traces'
<1> DEFINE playing == {b \in Bets : row[b].status = "BET_DONE"}
<1>1. UNCHANGED <<payouts, wallet, flight, timeouts, last, task, hand, byHand, req,
                  cancel, answers, drops, unheard, lost, dropped>>
  BY DEF Draw
<1>2. PICK won \in [playing -> Amount] :
        /\ row' = [b \in Bets |->
                     IF b \notin playing THEN row[b]
                     ELSE [status |-> IF won[b] > 0 THEN "PAY_ING" ELSE "BOMB",
                           amount |-> won[b]]]
        /\ queue' = Groups({b \in playing : won[b] > 0})
  BY DEF Draw
<1> DEFINE W == {b \in playing : won[b] > 0}
<1>3. \A b \in W : \E g \in queue' : b \in g
  <2>1. CASE Batch
    BY <1>2, <2>1 DEF Groups
  <2>2. CASE ~Batch
    BY <1>2, <2>2 DEF Groups
  <2> QED
    BY <2>1, <2>2
<1>4. \A g \in queue' : g \subseteq W
  BY <1>2 DEF Groups
<1>5. \A b \in Bets :
        \/ row'[b] = row[b]
        \/ b \in playing /\ row'[b].status \in {"PAY_ING", "BOMB"}
             /\ (row'[b].status = "PAY_ING" => b \in W)
  BY <1>2
<1>6. PayingIsHeld'
  <2> SUFFICES ASSUME NEW b \in Bets, row'[b].status = "PAY_ING"
               PROVE  \/ \E g \in queue' : b \in g
                      \/ \E a \in answers' : b \in a.group
                      \/ b \in dropped'
    BY DEF PayingIsHeld
  <2>1. CASE row'[b] = row[b]
    <3>1. row[b].status = "PAY_ING"
      BY <2>1
    <3>2. queue = {}
      BY DEF Draw, TraceInv, SettleInv, Others, HeldOnce
    <3> QED
      BY <1>1, <3>1, <3>2 DEF PayingIsHeld, TraceInv, Traces
  <2>2. CASE b \in W
    BY <1>3, <2>2
  <2> QED
    BY <1>5, <2>1, <2>2
<1>7. \A b \in Bets : Held(b)' => Held(b) \/ Exists(b)
  <2>1. \A b \in playing : Exists(b)
    BY DEF Exists
  <2> QED
    BY <1>1, <1>4, <2>1 DEF Held, Waits
<1>8. \A b \in Bets : row'[b] = row[b] \/ (Exists(b) /\ row'[b].status \notin Outside)
  BY <1>5 DEF Exists, Outside
<1> QED
  BY <1>1, <1>6, <1>7, <1>8, LaterTraces DEF RowsStay, Named, Asked

\* A group is taken from the queue and its answer kept.
LEMMA AnswerTraces ==
  ASSUME TraceInv, NEW g \in queue, queue' = queue \ {g},
         \E a : a.group = g /\ answers' = answers \cup {a},
         UNCHANGED <<row, task, hand, req, cancel, unheard, dropped>>,
         wallet \subseteq wallet', RowsStay,
         \A b : Asked(b, "BET")' => Asked(b, "BET")
  PROVE  Traces'
<1>1. \A b \in Bets : Held(b)' => Held(b)
  BY DEF Held, Waits
<1>2. PayingIsHeld'
  BY DEF PayingIsHeld, TraceInv, Traces
<1> QED
  BY <1>1, <1>2, LaterTraces

LEMMA PayCallTraces ==
  ASSUME TraceInv, NEW g \in queue, PayCall(g)
  PROVE  Traces'
<1>1. /\ queue' = queue \ {g}
      /\ UNCHANGED <<row, task, hand, req, cancel, unheard, dropped>>
  BY DEF PayCall
<1>2. PICK b \in g, ok \in BOOLEAN :
        /\ Call(b, "WD", row[b].amount, ok)
        /\ answers' = answers \cup {[group |-> g,
                                     told |-> [c \in g |-> IF ok THEN "ok" ELSE "no"],
                                     success |-> ok]}
  BY DEF PayCall
<1>3. b \in Bets /\ row[b].amount \in Amount /\ "WD" \in Op
  BY DEF TraceInv, SettleInv, PaidInv, PayInv, PayTypeOK, CoinInv, CoinTypeOK, BetRow, Op
<1>4. /\ wallet \subseteq wallet' /\ RowsStay
      /\ \A c : Asked(c, "BET")' => Asked(c, "BET")
  BY <1>2, <1>3, CallStays
<1>5. \E a : a.group = g /\ answers' = answers \cup {a}
  BY <1>2
<1> QED
  BY <1>1, <1>4, <1>5, AnswerTraces

LEMMA BatchTraces ==
  ASSUME TraceInv, NEW g \in queue, BatchCall(g)
  PROVE  Traces'
<1>1. /\ queue' = queue \ {g}
      /\ UNCHANGED <<row, task, hand, req, cancel, unheard, dropped>>
  BY DEF BatchCall
<1>2. CASE BatchAnswered(g)
  <2>1. PICK said \in [g -> Told] :
          /\ \E more \in SUBSET (g \ {b \in g : said[b] = "ok"}) :
               wallet' = Book({b \in g : said[b] = "ok"} \cup more)
          /\ answers' = answers \cup {[group |-> g, told |-> said, success |-> TRUE]}
    BY <1>2 DEF BatchAnswered
  <2>2. wallet \subseteq wallet' /\ \A m \in wallet' : m \in wallet \/ m.op = "WD"
    BY <2>1 DEF Book, Payouts
  <2>3. UNCHANGED <<flight, timeouts>>
    BY <1>2 DEF BatchAnswered
  <2>4. RowsStay /\ \A b : Asked(b, "BET")' => Asked(b, "BET")
    BY <2>2, <2>3 DEF RowsStay, Named, Asked
  <2>5. \E a : a.group = g /\ answers' = answers \cup {a}
    BY <2>1
  <2> QED
    BY <1>1, <2>2, <2>4, <2>5, AnswerTraces
<1>3. CASE BatchFailed(g)
  <2>1. /\ wallet \subseteq wallet'
        /\ \A m \in wallet' \cup flight' : m \in wallet \cup flight \/ m.op = "WD"
    <3>1. CASE (\E done \in SUBSET g : wallet' = Book(done)) /\ UNCHANGED flight
      BY <3>1 DEF Book, Payouts
    <3>2. CASE flight' = flight \cup Payouts(g) /\ UNCHANGED wallet
      BY <3>2 DEF Payouts
    <3> QED
      BY <1>3, <3>1, <3>2 DEF BatchFailed
  <2>2. RowsStay
    BY <1>3, BatchRows DEF TraceInv, RowsStay, Named
  <2>3. \A b : Asked(b, "BET")' => Asked(b, "BET")
    BY <2>1 DEF Asked
  <2>4. \E a : a.group = g /\ answers' = answers \cup {a}
    BY <1>3 DEF BatchFailed
  <2> QED
    BY <1>1, <2>1, <2>2, <2>3, <2>4, AnswerTraces
<1> QED
  BY <1>2, <1>3 DEF BatchCall

LEMMA PayCommitTraces ==
  ASSUME TraceInv, NEW a \in answers, PayCommit(a)
  PROVE  Traces'
<1>1. /\ UNCHANGED <<wallet, flight, timeouts, task, hand, req, cancel, queue, unheard>>
      /\ answers' = answers \ {a}
      /\ dropped' = dropped \cup {b \in a.group : a.told[b] = "silent"}
  BY DEF PayCommit
<1>2. \A b \in Bets :
        IF b \in a.group /\ a.told[b] # "silent"
        THEN row'[b].status \in {"WT_DONE", "WT_FAILED"}
        ELSE row'[b] = row[b]
  <2> SUFFICES ASSUME NEW b \in Bets, b \in a.group, a.told[b] # "silent"
               PROVE  row'[b].status \in {"WT_DONE", "WT_FAILED"}
    BY DEF PayCommit
  <2>1. row[b] \in BetRow
    BY DEF TraceInv, SettleInv, PaidInv, PayInv, PayTypeOK
  <2>2. \E s \in {"WT_DONE", "WT_FAILED"} : row'[b] = [row[b] EXCEPT !.status = s]
    BY DEF PayCommit
  <2> QED
    BY <2>1, <2>2 DEF BetRow
<1>3. \A b \in a.group : b \in Bets /\ Exists(b)
  BY DEF TraceInv, SettleInv, PaidInv, CoinInv, CoinTypeOK, Traces, RowsExist, Held
<1>4. \A b \in Bets : row'[b] = row[b] \/ (Exists(b) /\ row'[b].status \notin Outside)
  BY <1>2, <1>3 DEF Outside
<1>5. \A b \in Bets : Held(b)' => Held(b)
  BY <1>1 DEF Held, Waits
<1>6. PayingIsHeld'
  <2> SUFFICES ASSUME NEW b \in Bets, row'[b].status = "PAY_ING"
               PROVE  \/ \E g \in queue' : b \in g
                      \/ \E c \in answers' : b \in c.group
                      \/ b \in dropped'
    BY DEF PayingIsHeld
  <2>1. row[b].status = "PAY_ING" /\ (b \in a.group => a.told[b] = "silent")
    BY <1>2
  <2> QED
    BY <1>1, <2>1 DEF PayingIsHeld, TraceInv, Traces
<1> QED
  BY <1>1, <1>4, <1>5, <1>6, LaterTraces DEF RowsStay, Named, Asked

LEMMA DropTaskTraces ==
  ASSUME TraceInv, DropTask
  PROVE  Traces'
<1>1. UNCHANGED <<row, wallet, flight, timeouts, task, hand, req, cancel, unheard>>
  BY DEF DropTask, payVars
<1>2. \/ \E g \in queue : /\ queue' = queue \ {g} /\ dropped' = dropped \cup g
                          /\ UNCHANGED answers
      \/ \E a \in answers : /\ answers' = answers \ {a} /\ dropped' = dropped \cup a.group
                            /\ UNCHANGED queue
  BY DEF DropTask
<1>3. \A b \in Bets : Held(b)' => Held(b)
  BY <1>2 DEF Held, Waits
<1>4. PayingIsHeld'
  BY <1>1, <1>2 DEF PayingIsHeld, TraceInv, Traces
<1> QED
  BY <1>1, <1>3, <1>4, LaterTraces DEF RowsStay, Named, Asked

(***************************************************************************)
(* The theorems.                                                           *)
(***************************************************************************)

LEMMA InitTraces ==
  Init => TraceInv
<1> SUFFICES ASSUME Init
             PROVE  TraceInv
  OBVIOUS
<1>1. SettleInv
  BY InitSettles
<1>2. RowsExist
  BY DEF Init, PayInit, RowsExist, Exists, NoRow, Held, Waits, NoHand
<1>3. DebitsTraced
  BY DEF Init, PayInit, DebitsTraced, DebitTraced, Asked
<1>4. DoneWasAsked
  BY DEF Init, PayInit, DoneWasAsked, NoTimeout, NoTask
<1>5. PayingIsHeld
  BY DEF Init, PayInit, PayingIsHeld, NoRow
<1> QED
  BY <1>1, <1>2, <1>3, <1>4, <1>5 DEF TraceInv, Traces

LEMMA TraceInvKept ==
  TraceInv /\ [Next]_vars => TraceInv'
<1> SUFFICES ASSUME TraceInv, [Next]_vars
             PROVE  Traces'
  BY SettleInvKept DEF TraceInv
<1>1. CASE PayNext /\ UNCHANGED coinVars
  <2>1. CASE \E m \in flight : MerchantLate(m)
    BY <1>1, <2>1, LateTraces
  <2>2. CASE TaskStep \/ TaskThrows \/ TaskDies
    BY <1>1, <2>2, TaskMovesTraces, TaskCallTraces, TaskWriteTraces, TaskMarkTraces
       DEF TaskStep
  <2>3. CASE \E h \in Hands : ManualStep(h)
    BY <1>1, <2>3, OrderTraces
  <2> QED
    BY <1>1, <2>1, <2>2, <2>3 DEF PayNext
<1>2. CASE (\E h \in Hands : ManualWrite(h)) /\ UNCHANGED coinVars
  BY <1>2, ManualWriteTraces
<1>3. CASE (\E i \in TimeoutId : AgeAfterRequest(i)) /\ UNCHANGED coinVars
  BY <1>3, AgeTraces DEF AgeAfterRequest
<1>4. CASE \E b \in Bets : \/ BetCall(b) \/ BetCommit(b)
                           \/ CancelLoad(b) \/ CancelCall(b) \/ CancelCommit(b)
  BY <1>4, BetCallTraces, BetCommitTraces, CancelTraces
<1>5. CASE Draw
  BY <1>5, DrawTraces
<1>6. CASE \E g \in queue : PayCall(g) \/ BatchCall(g)
  BY <1>6, PayCallTraces, BatchTraces
<1>7. CASE \E a \in answers : PayCommit(a)
  BY <1>7, PayCommitTraces
<1>8. CASE DropTask
  BY <1>8, DropTaskTraces
<1>9. CASE UNCHANGED vars
  <2>1. /\ UNCHANGED <<row, wallet, flight, timeouts, task, hand, req, cancel, queue,
                       answers, unheard, dropped>>
    BY <1>9 DEF vars, payVars, coinVars
  <2>2. PayingIsHeld'
    BY <2>1 DEF PayingIsHeld, TraceInv, Traces
  <2> QED
    BY <2>1, <2>2, LaterTraces DEF RowsStay, Named, Asked, Held, Waits
<1> QED
  BY <1>1, <1>2, <1>3, <1>4, <1>5, <1>6, <1>7, <1>8, <1>9 DEF Next

LEMMA TraceInvAlways ==
  Spec => []TraceInv
<1> QED
  BY InitTraces, TraceInvKept, PTL DEF Spec

\* PaymentTimeoutTask and PaymentServiceImpl.timeout between them forget no stake: one
\* the merchant took for a bet that was declined, rolled back or cancelled is returned,
\* or a row that is not done asks for it, or its debit left nothing in the tables.
THEOREM TakenIsAccountedAlways ==
  Spec => []TakenIsAccounted
<1>1. TraceInv => TakenIsAccounted
  <2> SUFFICES ASSUME TraceInv, NEW b \in Bets, Applied(b, "BET"), req[b] = "over",
                      row[b].status \in {"NONE", "BET_FAILED", "CANCEL", "REFUND"}
               PROVE  \/ Applied(b, "REFUND")
                      \/ Noted(b, "BET", {"young", "open", "dead"})
                      \/ b \in unheard
    BY DEF TakenIsAccounted
  <2>1. CASE row[b].status \in {"CANCEL", "REFUND"}
    BY <2>1 DEF TraceInv, SettleInv, PaidInv, PayInv, DoneMeansPaid
  <2>2. CASE row[b].status \in Outside
    <3>1. DebitTraced(b) /\ Asked(b, "BET")
      BY DEF TraceInv, Traces, DebitsTraced, Applied, Asked
    <3>2. CASE b \in unheard
      BY <3>2
    <3>3. CASE \E i \in TimeoutId : RowOf(i, b, "BET")
      <4>1. PICK i \in TimeoutId : RowOf(i, b, "BET")
        BY <3>3
      <4>2. timeouts[i].state \in {"young", "open", "dead", "done"}
        BY <4>1 DEF RowOf, Named, TraceInv, SettleInv, PaidInv, PayInv, PayTypeOK, TimeoutRow
      <4>3. timeouts[i].state = "done" => Applied(b, "REFUND")
        BY <4>1 DEF RowOf, Asks, TraceInv, Traces, DoneWasAsked
      <4> QED
        BY <4>1, <4>2, <4>3 DEF Noted, RowOf
    <3> QED
      BY <2>2, <3>1, <3>2, <3>3 DEF DebitTraced
  <2> QED
    BY <2>1, <2>2 DEF Outside
<1> QED
  BY <1>1, TraceInvAlways, PTL

\* Every winner CoinDrawServiceImpl.draw leaves PAY_ING is in a payout task of the
\* executor, or was in one that a restart or a silent batch answer dropped.
THEOREM PayingIsHeldAlways ==
  Spec => []PayingIsHeld
<1>1. TraceInv => PayingIsHeld
  BY DEF TraceInv, Traces
<1> QED
  BY <1>1, TraceInvAlways, PTL

(***************************************************************************)
(* The status of a bet moves forward, also that of a bet whose refund was  *)
(* lost, which is on neither side.                                         *)
(***************************************************************************)

\* Before the draw: a bet with a timed out debit is not in play, one being cancelled is.
BetCourse(b) ==
  /\ row[b].status # "REFUND"
  /\ row[b].status = "NONE" => row[b].amount = 0
  /\ cancel[b] \in {"call", "refunded"} => row[b].status = "BET_DONE"
  /\ \A i \in TimeoutId : RowOf(i, b, "BET") =>
       req[b] \in {"declined", "over"} /\ row[b].status \in Refunding \cup {"NONE"}

\* After it: who pays a bet finds it there, and no longer in a payout task.
PayCourse(b) ==
  /\ Held(b) => row[b].status = "PAY_ING"
  /\ \A i \in TimeoutId : RowOf(i, b, "WD") =>
       /\ row[b].status \in Paying
       /\ ~Waits(b)
       /\ timeouts[i].state # "young" => ~Held(b)
  /\ \A h \in Hands : Pays(h, b) => row[b].status \in {"WT_FAILED", "WT_DONE"}

\* The copies that will be written back carry the amount the bet has by then.
Copies(b) ==
  /\ task.at \in {"call", "paid"} /\ timeouts[task.cur].bet = b
       => task.copy.amount = row[b].amount
  /\ \A h \in Hands : Pays(h, b) /\ hand[h].at # "page"
       => hand[h].copy.amount = row[b].amount

Course(b) == BetCourse(b) /\ PayCourse(b) /\ Copies(b)
CourseInv == TraceInv /\ \A b \in Bets \ byHand : Course(b)

\* The step StatusMovesForward allows b.
Forward(b) ==
  /\ row'[b].status # row[b].status => <<row[b].status, row'[b].status>> \in Moves
  /\ row'[b].amount # row[b].amount => row[b].status = "BET_DONE"

\* A step of the task, the merchant or the operator.
MoneyStep ==
  /\ \/ PayNext
     \/ \E h \in Hands : ManualWrite(h)
     \/ \E i \in TimeoutId : AgeAfterRequest(i)
  /\ UNCHANGED coinVars

\* What the task works on.
LEMMA TaskIsOn ==
  ASSUME TraceInv, task.at \in {"call", "paid", "mark", "failed"}
  PROVE  /\ task.cur \in TimeoutId /\ Named(task.cur)
         /\ timeouts[task.cur].op \in {"BET", "WD"} /\ timeouts[task.cur].state # "young"
         /\ timeouts[task.cur].bet \in Bets /\ Exists(timeouts[task.cur].bet)
<1>1. task.cur \in TimeoutId /\ Named(task.cur)
  BY DEF TraceInv, SettleInv, PaidInv, PayInv, TaskHolds
<1>2. timeouts[task.cur] \in TimeoutRow /\ timeouts[task.cur].bet \in Bets
  BY <1>1 DEF TraceInv, SettleInv, PaidInv, PayInv, PayTypeOK, RowsNamed
<1>3. timeouts[task.cur].state # "young" /\ row[timeouts[task.cur].bet].status # "NONE"
  BY DEF TraceInv, SettleInv, Others, TaskOpen
<1> QED
  BY <1>1, <1>2, <1>3 DEF TimeoutRow, Exists

LEMMA MoneyRows ==
  ASSUME CourseInv, MoneyStep, NEW b \in Bets \ byHand'
  PROVE  /\ row'[b].amount = row[b].amount
         /\ \/ row'[b].status = row[b].status
            \/ row[b].status \in Refunding /\ row'[b].status = "CANCEL"
            \/ row[b].status \in Paying /\ ~Held(b) /\ row'[b].status = "WT_DONE"
<1>1. PayStep /\ PayInv
  BY DEF MoneyStep, PayStep, AgeAfterRequest, CourseInv, TraceInv, SettleInv, PaidInv
<1>2. PayInv'
  <2>1. [Next]_vars
    BY DEF MoneyStep, Next
  <2> QED
    BY <2>1, TraceInvKept DEF CourseInv, TraceInv, SettleInv, PaidInv
<1>3. RowsGo /\ BooksGo
  BY <1>1, <1>2, PayRows, PayBooks
<1>4. b \in Bets \ byHand /\ Course(b)
  BY <1>3 DEF BooksGo, CourseInv
<1>5. CASE row'[b] = row[b]
  BY <1>5
<1>6. CASE TaskWrites(b)
  <2>1. task.at = "paid" /\ b = timeouts[task.cur].bet
    BY <1>6 DEF TaskWrites
  <2>2. /\ task.cur \in TimeoutId /\ Named(task.cur)
        /\ timeouts[task.cur].op \in {"BET", "WD"} /\ timeouts[task.cur].state # "young"
        /\ Exists(b)
    BY <2>1, TaskIsOn DEF CourseInv
  <2>3. task.copy.amount = row[b].amount
    BY <1>4, <2>1 DEF Course, Copies
  <2>4. CASE timeouts[task.cur].op = "BET"
    <3>1. row[b].status \in Refunding
      BY <1>4, <2>1, <2>2, <2>4 DEF Course, BetCourse, RowOf, Exists
    <3> QED
      BY <1>6, <2>3, <2>4, <3>1 DEF TaskWrites
  <2>5. CASE timeouts[task.cur].op = "WD"
    <3>1. row[b].status \in Paying /\ ~Held(b)
      BY <1>4, <2>1, <2>2, <2>5 DEF Course, PayCourse, RowOf
    <3> QED
      BY <1>6, <2>3, <2>5, <3>1 DEF TaskWrites
  <2> QED
    BY <2>2, <2>4, <2>5
<1>7. ASSUME NEW h \in Hands, HandWrites(h, b)
      PROVE  /\ row'[b].amount = row[b].amount
             /\ row[b].status \in Paying /\ ~Held(b) /\ row'[b].status = "WT_DONE"
  <2>1. hand[h].at = "write" /\ b = hand[h].bet
    BY <1>7 DEF HandWrites
  <2>2. hand[h].op \in {"WD", "REFUND"}
    BY <1>1 DEF PayInv, PayTypeOK
  <2>3. hand[h].op # "REFUND"
    BY <1>4, <2>1 DEF CourseInv, TraceInv, SettleInv, Others, HandRefunds
  <2>4. Pays(h, b)
    BY <2>1, <2>2, <2>3 DEF Pays
  <2>5. row[b].status \in Paying /\ ~Held(b)
    BY <1>4, <2>4 DEF Course, PayCourse, Paying
  <2>6. hand[h].copy.amount = row[b].amount
    BY <1>4, <2>1, <2>4 DEF Course, Copies
  <2> QED
    BY <1>7, <2>2, <2>3, <2>5, <2>6 DEF HandWrites
<1> QED
  BY <1>3, <1>5, <1>6, <1>7 DEF RowsGo

\* A timeout row of b that is new is one of a payout somebody may make.
LEMMA MoneyNotes ==
  ASSUME CourseInv, MoneyStep, NEW b \in Bets \ byHand', NEW i \in TimeoutId,
         Named(i)', timeouts'[i].bet = b
  PROVE  /\ RowOf(i, b, "BET")' => RowOf(i, b, "BET")
         /\ RowOf(i, b, "WD")' => /\ row[b].status \in Paying
                                  /\ ~Waits(b)
                                  /\ timeouts'[i].state # "young" => ~Held(b)
<1>1. PayStep /\ PayInv
  BY DEF MoneyStep, PayStep, AgeAfterRequest, CourseInv, TraceInv, SettleInv, PaidInv
<1>2. BooksGo
  BY <1>1, PayBooks
<1>3. b \in Bets \ byHand /\ Course(b)
  BY <1>2 DEF BooksGo, CourseInv
<1>4. CASE Named(i)
  <2>1. timeouts'[i].bet = timeouts[i].bet /\ timeouts'[i].op = timeouts[i].op
    BY <1>2, <1>4 DEF BooksGo
  <2>2. ASSUME RowOf(i, b, "WD"), timeouts[i].state = "young", timeouts'[i].state # "young"
        PROVE  ~Held(b)
    <3>1. CASE PayNext
      <4>1. task.at \in {"mark", "failed"} /\ task.cur = i
        BY <1>1, <1>4, <2>2, <3>1, PayAges
      <4> QED
        BY <2>2, <4>1, TaskIsOn DEF CourseInv
    <3>2. ASSUME NEW h \in Hands, ManualWrite(h)
          PROVE  FALSE
      BY <2>2, <3>2 DEF ManualWrite
    <3>3. ASSUME NEW k \in TimeoutId, AgeAfterRequest(k)
          PROVE  ~Held(b)
      <4>1. timeouts' = [timeouts EXCEPT ![k].state = "open"]
        BY <3>3 DEF AgeAfterRequest, Age
      <4>2. timeouts \in [TimeoutId -> TimeoutRow]
        BY <1>1 DEF PayInv, PayTypeOK
      <4>3. k = i
        BY <2>2, <4>1, <4>2
      <4>4. \A a \in answers : b \notin a.group
        BY <2>2, <3>3, <4>3 DEF AgeAfterRequest, RowOf
      <4>5. ~Waits(b)
        BY <1>3, <2>2 DEF Course, PayCourse
      <4> QED
        BY <4>4, <4>5 DEF Held
    <3> QED
      BY <3>1, <3>2, <3>3 DEF MoneyStep
  <2> QED
    BY <1>3, <1>4, <2>1, <2>2 DEF RowOf, Course, PayCourse
<1>5. CASE TaskNotes(i)
  <2>1. /\ task.at = "call" /\ timeouts[task.cur].op = "WD" /\ timeouts'[i].op = "WD"
        /\ timeouts[task.cur].bet = b
    BY <1>5 DEF TaskNotes
  <2>2. /\ task.cur \in TimeoutId /\ RowOf(task.cur, b, "WD")
        /\ timeouts[task.cur].state # "young"
    BY <2>1, TaskIsOn DEF CourseInv, RowOf
  <2>3. row[b].status \in Paying /\ ~Held(b) /\ ~Waits(b)
    BY <1>3, <2>2 DEF Course, PayCourse
  <2> QED
    BY <2>1, <2>3 DEF RowOf
<1>6. ASSUME NEW h \in Hands, HandNotes(h, i)
      PROVE  timeouts'[i].op = "WD" /\ row[b].status \in Paying /\ ~Held(b)
  <2>1. Pays(h, b) /\ timeouts'[i].op = "WD"
    BY <1>6 DEF HandNotes, Pays
  <2> QED
    BY <1>3, <2>1 DEF Course, PayCourse, Paying
<1>7. Named(i) \/ TaskNotes(i) \/ \E h \in Hands : HandNotes(h, i)
  BY <1>2 DEF BooksGo
<1> QED
  BY <1>4, <1>5, <1>6, <1>7 DEF RowOf, Held

LEMMA MoneyCopies ==
  ASSUME CourseInv, MoneyStep, NEW b \in Bets \ byHand'
  PROVE  Copies(b)'
<1>1. PayStep /\ PayInv
  BY DEF MoneyStep, PayStep, AgeAfterRequest, CourseInv, TraceInv, SettleInv, PaidInv
<1>2. TaskGoes /\ BooksGo /\ \A h \in Hands : HandGoes(h)
  BY <1>1, PayTask, PayBooks, PayHands
<1>3. b \in Bets \ byHand /\ Course(b)
  BY <1>2 DEF BooksGo, CourseInv
<1>4. row'[b].amount = row[b].amount
  BY MoneyRows
<1>5. ASSUME task'.at \in {"call", "paid"}, timeouts'[task'.cur].bet = b
      PROVE  task'.copy.amount = row[b].amount
  <2>1. CASE task.at \in {"call", "paid"} /\ task'.cur = task.cur /\ task'.copy = task.copy
    <3>1. timeouts[task.cur].bet = b
      BY <1>2, <1>5, <2>1, TaskIsOn DEF BooksGo, CourseInv
    <3> QED
      BY <1>3, <2>1, <3>1 DEF Course, Copies
  <2>2. CASE task'.cur \in task.todo /\ task'.copy = row[timeouts[task'.cur].bet]
    <3>1. task'.cur \in TimeoutId /\ Named(task'.cur)
      BY <1>1, <2>2 DEF PayInv, PayTypeOK, TaskHolds
    <3>2. timeouts[task'.cur].bet = b
      BY <1>2, <1>5, <3>1 DEF BooksGo
    <3> QED
      BY <2>2, <3>2
  <2> QED
    BY <1>2, <1>5, <2>1, <2>2 DEF TaskGoes
<1>6. ASSUME NEW h \in Hands, Pays(h, b)', hand'[h].at # "page"
      PROVE  hand'[h].copy.amount = row[b].amount
  <2>1. hand'[h].at \notin {"idle", "done"} /\ hand'[h].bet = b /\ hand'[h].op = "WD"
    BY <1>6 DEF Pays
  <2>2. CASE hand'[h] = hand[h]
    BY <1>3, <1>6, <2>1, <2>2 DEF Course, Copies, Pays
  <2>3. CASE hand[h].at = "page" /\ hand'[h].copy = row[hand[h].bet]
                                 /\ hand'[h].bet = hand[h].bet
    BY <2>1, <2>3
  <2>4. CASE /\ hand[h].at \in {"call", "paid"} /\ hand'[h].copy = hand[h].copy
             /\ hand'[h].bet = hand[h].bet /\ hand'[h].op = hand[h].op
    BY <1>3, <2>1, <2>4 DEF Course, Copies, Pays
  <2>5. HandGoes(h)
    BY <1>2
  <2> QED
    BY <1>6, <2>1, <2>2, <2>3, <2>4, <2>5 DEF HandGoes
<1> QED
  BY <1>4, <1>5, <1>6 DEF Copies, Pays

\* The task, the merchant and the operator.
LEMMA MoneyCourse ==
  ASSUME CourseInv, MoneyStep, NEW b \in Bets \ byHand'
  PROVE  Course(b)' /\ Forward(b)
<1>1. PayStep /\ PayInv
  BY DEF MoneyStep, PayStep, AgeAfterRequest, CourseInv, TraceInv, SettleInv, PaidInv
<1>2. BooksGo /\ \A h \in Hands : HandGoes(h)
  BY <1>1, PayBooks, PayHands
<1>3. b \in Bets \ byHand /\ Course(b)
  BY <1>2 DEF BooksGo, CourseInv
<1>4. /\ row'[b].amount = row[b].amount
      /\ \/ row'[b].status = row[b].status
         \/ row[b].status \in Refunding /\ row'[b].status = "CANCEL"
         \/ row[b].status \in Paying /\ ~Held(b) /\ row'[b].status = "WT_DONE"
  BY MoneyRows
<1>5. req' = req /\ cancel' = cancel /\ Held(b)' = Held(b) /\ Waits(b)' = Waits(b)
  BY DEF MoneyStep, coinVars, Held, Waits
<1>6. \A i \in TimeoutId :
        /\ RowOf(i, b, "BET")' => RowOf(i, b, "BET")
        /\ RowOf(i, b, "WD")' => /\ row[b].status \in Paying
                                 /\ ~Waits(b)
                                 /\ timeouts'[i].state # "young" => ~Held(b)
  BY MoneyNotes DEF RowOf
<1>7. BetCourse(b)'
  <2>1. row'[b].status # "REFUND"
    BY <1>3, <1>4 DEF Course, BetCourse
  <2>2. row'[b].status = "NONE" => row'[b].amount = 0
    BY <1>3, <1>4 DEF Course, BetCourse
  <2>3. cancel'[b] \in {"call", "refunded"} => row'[b].status = "BET_DONE"
    BY <1>3, <1>4, <1>5 DEF Course, BetCourse, Refunding, Paying
  <2>4. \A i \in TimeoutId : RowOf(i, b, "BET")' =>
          req'[b] \in {"declined", "over"} /\ row'[b].status \in Refunding \cup {"NONE"}
    BY <1>3, <1>4, <1>5, <1>6 DEF Course, BetCourse, Refunding, Paying
  <2> QED
    BY <2>1, <2>2, <2>3, <2>4 DEF BetCourse
<1>8. PayCourse(b)'
  <2>1. Held(b)' => row'[b].status = "PAY_ING"
    BY <1>3, <1>4, <1>5 DEF Course, PayCourse, Refunding
  <2>2. \A i \in TimeoutId : RowOf(i, b, "WD")' =>
          /\ row'[b].status \in Paying
          /\ ~Waits(b)'
          /\ timeouts'[i].state # "young" => ~Held(b)'
    BY <1>4, <1>5, <1>6 DEF Refunding, Paying
  <2>3. ASSUME NEW h \in Hands, Pays(h, b)'
        PROVE  row'[b].status \in {"WT_FAILED", "WT_DONE"}
    <3>1. HandGoes(h)
      BY <1>2
    <3>2. hand'[h].at \notin {"idle", "done"} /\ hand'[h].bet = b /\ hand'[h].op = "WD"
      BY <2>3 DEF Pays
    <3>3. Pays(h, b) \/ row[b].status = "WT_FAILED"
      <4>1. CASE hand'[h] = hand[h]
        BY <3>2, <4>1 DEF Pays
      <4>2. CASE hand[h].at = "idle"
        BY <3>1, <3>2, <4>2 DEF HandGoes
      <4>3. CASE hand'[h] # hand[h] /\ hand[h].at # "idle"
        <5>1. hand[h].bet = b /\ hand[h].op = "WD" /\ hand[h].at \in {"page", "call", "paid"}
          BY <3>1, <3>2, <4>3 DEF HandGoes
        <5> QED
          BY <5>1 DEF Pays
      <4> QED
        BY <4>1, <4>2, <4>3
    <3>4. row[b].status \in {"WT_FAILED", "WT_DONE"}
      BY <1>3, <3>3 DEF Course, PayCourse
    <3> QED
      BY <1>4, <3>4 DEF Refunding
  <2> QED
    BY <2>1, <2>2, <2>3 DEF PayCourse
<1>9. Copies(b)'
  BY MoneyCopies
<1>10. Forward(b)
  <2>1. CASE row'[b].status = row[b].status
    BY <1>4, <2>1 DEF Forward
  <2>2. CASE row[b].status \in Refunding /\ row'[b].status = "CANCEL"
    BY <1>4, <2>2 DEF Forward, Refunding, Moves
  <2>3. CASE row[b].status \in Paying /\ row'[b].status = "WT_DONE"
    BY <1>4, <2>3 DEF Forward, Paying, Moves
  <2> QED
    BY <1>4, <2>1, <2>2, <2>3
<1> QED
  BY <1>7, <1>8, <1>9, <1>10 DEF Course

\* The game leaves the task, the operator and what they hold alone.
LEMMA CopiesStand ==
  ASSUME CourseInv, UNCHANGED <<task, hand>>,
         \A i \in TimeoutId : Named(i) => timeouts'[i] = timeouts[i],
         NEW b \in Bets \ byHand,
         row'[b].amount = row[b].amount \/ row[b].status = "BET_DONE"
  PROVE  Copies(b)'
<1>1. Course(b) /\ b \in Bets
  BY DEF CourseInv
<1>2. ASSUME task.at \in {"call", "paid"}, timeouts'[task.cur].bet = b
      PROVE  task.copy.amount = row'[b].amount
  <2>1. /\ task.cur \in TimeoutId /\ timeouts[task.cur].bet = b /\ Named(task.cur)
        /\ timeouts[task.cur].op \in {"BET", "WD"}
    BY <1>2, TaskIsOn DEF CourseInv
  <2>2. row[b].status # "BET_DONE"
    BY <1>1, <2>1 DEF Course, BetCourse, PayCourse, RowOf, Refunding, Paying
  <2> QED
    BY <1>1, <1>2, <2>1, <2>2 DEF Course, Copies
<1>3. ASSUME NEW h \in Hands, Pays(h, b), hand[h].at # "page"
      PROVE  hand[h].copy.amount = row'[b].amount
  <2>1. row[b].status # "BET_DONE"
    BY <1>1, <1>3 DEF Course, PayCourse
  <2> QED
    BY <1>1, <1>3, <2>1 DEF Course, Copies
<1> QED
  BY <1>2, <1>3 DEF Copies, Pays

\* A bet the game leaves alone stays on its course.
LEMMA CourseStands ==
  ASSUME CourseInv, UNCHANGED <<task, hand>>,
         \A i \in TimeoutId : Named(i) => timeouts'[i] = timeouts[i],
         NEW b \in Bets \ byHand,
         row'[b] = row[b], req'[b] = req[b],
         cancel'[b] \in {"call", "refunded"} => cancel[b] \in {"call", "refunded"},
         Held(b)' => Held(b), Waits(b)' => Waits(b),
         \A i \in TimeoutId : RowOf(i, b, "BET")' => Named(i),
         \A i \in TimeoutId : RowOf(i, b, "WD")' => \/ Named(i)
                                                    \/ /\ row[b].status \in Paying
                                                       /\ ~Waits(b)'
                                                       /\ timeouts'[i].state = "young"
  PROVE  Course(b)' /\ Forward(b)
<1>1. Course(b) /\ b \in Bets
  BY DEF CourseInv
<1>2. \A i \in TimeoutId : \A o : Named(i) /\ RowOf(i, b, o)' => RowOf(i, b, o)
  BY DEF RowOf, Named
<1>3. BetCourse(b)'
  BY <1>1, <1>2 DEF Course, BetCourse
<1>4. PayCourse(b)'
  <2>1. \A i \in TimeoutId : RowOf(i, b, "WD")' =>
          /\ row[b].status \in Paying
          /\ ~Waits(b)'
          /\ timeouts'[i].state # "young" => ~Held(b)'
    BY <1>1, <1>2 DEF Course, PayCourse
  <2>2. \A h \in Hands : Pays(h, b)' = Pays(h, b)
    BY DEF Pays
  <2> QED
    BY <1>1, <2>1, <2>2 DEF Course, PayCourse
<1>5. Copies(b)'
  BY CopiesStand
<1>6. Forward(b)
  BY DEF Forward
<1> QED
  BY <1>3, <1>4, <1>5, <1>6 DEF Course

LEMMA BetCallCourse ==
  ASSUME CourseInv, NEW c \in Bets, BetCall(c), NEW b \in Bets \ byHand'
  PROVE  Course(b)' /\ Forward(b)
<1>1. PICK ok \in BOOLEAN :
        /\ Call(c, "BET", Stake, ok)
        /\ req' = [req EXCEPT ![c] = IF ok THEN "paid" ELSE "declined"]
  BY DEF BetCall
<1>2. /\ req[c] = "idle"
      /\ UNCHANGED <<row, task, hand, byHand, cancel, queue, answers>>
  BY DEF BetCall
<1>3. req \in [Bets -> ReqAt] /\ Stake \in Amount /\ "BET" \in Op /\ PayInv
  BY DEF CourseInv, TraceInv, SettleInv, PaidInv, CoinInv, CoinTypeOK, Amount, Op
<1>4. /\ \A i \in TimeoutId : Named(i) => timeouts'[i] = timeouts[i]
      /\ \A i \in TimeoutId : Named(i)' => \/ Named(i)
                                           \/ /\ ~ok
                                              /\ timeouts'[i].bet = c
                                              /\ timeouts'[i].op = "BET"
  BY <1>1, <1>3, CallBooks
<1>5. /\ \A d \in Bets \ {c} : req'[d] = req[d]
      /\ req'[c] = IF ok THEN "paid" ELSE "declined"
  BY <1>1, <1>3
<1>6. Held(b)' = Held(b) /\ Waits(b)' = Waits(b)
  BY <1>2 DEF Held, Waits
<1>7. CASE b # c
  <2>1. \A i \in TimeoutId : \A o : RowOf(i, b, o)' => Named(i)
    BY <1>4, <1>7 DEF RowOf
  <2> QED
    BY <1>2, <1>4, <1>5, <1>6, <1>7, <2>1, CourseStands
<1>8. CASE b = c
  <2>1. Course(b) /\ row[b].status = "NONE" /\ b \notin byHand
    BY <1>2, <1>8 DEF CourseInv, TraceInv, Traces, RowsExist, Exists
  <2>2. \A i \in TimeoutId : \A o : Named(i) /\ RowOf(i, b, o)' => RowOf(i, b, o)
    BY <1>4 DEF RowOf
  <2>3. ASSUME NEW i \in TimeoutId, RowOf(i, b, "BET")'
        PROVE  req'[b] \in {"declined", "over"}
    <3>1. ~Named(i)
      BY <1>2, <1>8, <2>1, <2>2, <2>3 DEF Course, BetCourse
    <3>2. ~ok
      BY <1>4, <2>3, <3>1 DEF RowOf
    <3> QED
      BY <1>5, <1>8, <3>2
  <2>4. BetCourse(b)'
    BY <1>2, <2>1, <2>3 DEF Course, BetCourse
  <2>5. \A i \in TimeoutId : ~RowOf(i, b, "WD")'
    BY <1>4, <2>1, <2>2 DEF RowOf, Course, PayCourse, Paying
  <2>6. PayCourse(b)'
    BY <1>2, <1>6, <2>1, <2>5 DEF Course, PayCourse, Pays
  <2>7. Copies(b)'
    BY <1>2, <1>4, <2>1, CopiesStand
  <2>8. Forward(b)
    BY <1>2 DEF Forward
  <2> QED
    BY <2>4, <2>6, <2>7, <2>8 DEF Course
<1> QED
  BY <1>7, <1>8

LEMMA BetCommitCourse ==
  ASSUME CourseInv, NEW c \in Bets, BetCommit(c), NEW b \in Bets \ byHand'
  PROVE  Course(b)' /\ Forward(b)
<1>1. /\ req[c] \in {"paid", "declined"}
      /\ req' = [req EXCEPT ![c] = "over"]
      /\ \/ row' = [row EXCEPT ![c] =
                      [status |-> IF req[c] = "paid" THEN "BET_DONE" ELSE "BET_FAILED",
                       amount |-> 0]]
         \/ UNCHANGED row
      /\ UNCHANGED <<timeouts, task, hand, byHand, cancel, queue, answers>>
  BY DEF BetCommit
<1>2. req \in [Bets -> ReqAt] /\ row \in [Bets -> BetRow]
  BY DEF CourseInv, TraceInv, SettleInv, PaidInv, PayInv, PayTypeOK, CoinInv, CoinTypeOK
<1>3. /\ \A d \in Bets \ {c} : req'[d] = req[d] /\ row'[d] = row[d]
      /\ req'[c] = "over"
      /\ \/ row'[c] = [status |-> IF req[c] = "paid" THEN "BET_DONE" ELSE "BET_FAILED",
                       amount |-> 0]
         \/ row'[c] = row[c]
  BY <1>1, <1>2
<1>4. /\ Held(b)' = Held(b) /\ Waits(b)' = Waits(b)
      /\ \A i \in TimeoutId : \A o : RowOf(i, b, o)' = RowOf(i, b, o)
      /\ \A h \in Hands : Pays(h, b)' = Pays(h, b)
  BY <1>1 DEF Held, Waits, RowOf, Named, Pays
<1>5. CASE b # c
  <2>1. \A i \in TimeoutId : \A o : RowOf(i, b, o)' => Named(i)
    BY <1>4 DEF RowOf
  <2> QED
    BY <1>1, <1>3, <1>4, <1>5, <2>1, CourseStands
<1>6. CASE b = c
  <2>1. Course(b) /\ row[b].status = "NONE" /\ b \notin byHand
    BY <1>1, <1>6 DEF CourseInv, TraceInv, Traces, RowsExist, Exists
  <2>2. /\ row[b].amount = 0 /\ row'[b].amount = 0
        /\ \/ row'[b].status = "NONE"
           \/ req[b] = "paid" /\ row'[b].status = "BET_DONE"
           \/ req[b] = "declined" /\ row'[b].status = "BET_FAILED"
    <3>1. row[b].amount = 0
      BY <2>1 DEF Course, BetCourse
    <3> QED
      BY <1>1, <1>3, <1>6, <2>1, <3>1
  <2>3. BetCourse(b)'
    BY <1>1, <1>3, <1>4, <1>6, <2>1, <2>2 DEF Course, BetCourse, Refunding
  <2>4. PayCourse(b)'
    BY <1>4, <2>1 DEF Course, PayCourse, Paying
  <2>5. Copies(b)'
    BY <1>1, <2>1, <2>2, CopiesStand
  <2>6. Forward(b)
    BY <2>1, <2>2 DEF Forward, Moves
  <2> QED
    BY <2>3, <2>4, <2>5, <2>6 DEF Course
<1> QED
  BY <1>5, <1>6

LEMMA CancelCourse ==
  ASSUME CourseInv, NEW c \in Bets, CancelLoad(c) \/ CancelCall(c) \/ CancelCommit(c),
         NEW b \in Bets \ byHand'
  PROVE  Course(b)' /\ Forward(b)
<1>1. UNCHANGED <<task, hand, byHand, req, queue, answers>>
  BY DEF CancelLoad, CancelCall, CancelCommit, payVars
<1>2. /\ cancel \in [Bets -> CancelAt] /\ row \in [Bets -> BetRow] /\ PayInv
      /\ Stake \in Amount /\ "REFUND" \in Op
  BY DEF CourseInv, TraceInv, SettleInv, PaidInv, PayInv, PayTypeOK, CoinInv, CoinTypeOK,
         Amount, Op
<1>3. Course(b) /\ b \notin byHand
  BY <1>1 DEF CourseInv
<1>4. Held(b)' = Held(b) /\ Waits(b)' = Waits(b) /\ \A h \in Hands : Pays(h, b)' = Pays(h, b)
  BY <1>1 DEF Held, Waits, Pays
<1>5. /\ \A i \in TimeoutId : Named(i) => timeouts'[i] = timeouts[i]
      /\ \A i \in TimeoutId : Named(i)' => Named(i)
  <2>1. CASE CancelLoad(c) \/ CancelCommit(c)
    <3>1. timeouts' = timeouts
      BY <2>1 DEF CancelLoad, CancelCommit, payVars
    <3> QED
      BY <3>1 DEF Named
  <2>2. CASE CancelCall(c)
    <3>1. PICK ok \in BOOLEAN : Call(c, "REFUND", Stake, ok)
      BY <2>2 DEF CancelCall
    <3> QED
      BY <1>2, <3>1, CallBooks
  <2> QED
    BY <2>1, <2>2
<1>6. \A i \in TimeoutId : \A o : RowOf(i, b, o)' => Named(i) /\ RowOf(i, b, o)
  BY <1>5 DEF RowOf
<1>7. CASE /\ row'[b] = row[b]
           /\ cancel'[b] \in {"call", "refunded"} => cancel[b] \in {"call", "refunded"}
  BY <1>1, <1>3, <1>4, <1>5, <1>6, <1>7, CourseStands
<1>8. CASE row[b].status = "BET_DONE" /\ row'[b] = row[b]
  <2>1. BetCourse(b)'
    BY <1>1, <1>3, <1>6, <1>8 DEF Course, BetCourse, Refunding
  <2>2. PayCourse(b)'
    BY <1>3, <1>4, <1>6, <1>8 DEF Course, PayCourse, Paying
  <2>3. Copies(b)'
    BY <1>1, <1>3, <1>5, <1>8, CopiesStand
  <2>4. Forward(b)
    BY <1>8 DEF Forward
  <2> QED
    BY <2>1, <2>2, <2>3, <2>4 DEF Course
<1>9. CASE /\ row[b].status = "BET_DONE" /\ row'[b] = [row[b] EXCEPT !.status = "CANCEL"]
           /\ cancel'[b] = "over"
  <2>1. row'[b].status = "CANCEL" /\ row'[b].amount = row[b].amount
    BY <1>2, <1>9 DEF BetRow
  <2>2. BetCourse(b)'
    BY <1>1, <1>3, <1>6, <1>9, <2>1 DEF Course, BetCourse, Refunding
  <2>3. PayCourse(b)'
    BY <1>3, <1>4, <1>6, <1>9, <2>1 DEF Course, PayCourse, Paying
  <2>4. Copies(b)'
    BY <1>1, <1>3, <1>5, <2>1, CopiesStand
  <2>5. Forward(b)
    BY <1>9, <2>1 DEF Forward, Moves
  <2> QED
    BY <2>2, <2>3, <2>4, <2>5 DEF Course
<1>10. \/ /\ row'[b] = row[b]
          /\ cancel'[b] \in {"call", "refunded"} => cancel[b] \in {"call", "refunded"}
       \/ row[b].status = "BET_DONE" /\ row'[b] = row[b]
       \/ /\ row[b].status = "BET_DONE" /\ row'[b] = [row[b] EXCEPT !.status = "CANCEL"]
          /\ cancel'[b] = "over"
  <2>1. CASE CancelLoad(c)
    BY <1>2, <2>1 DEF CancelLoad, payVars
  <2>2. CASE CancelCall(c)
    BY <1>2, <2>2 DEF CancelCall
  <2>3. CASE CancelCommit(c)
    <3>1. c = b => row[b].status = "BET_DONE"
      BY <1>3, <2>3 DEF CancelCommit, Course, BetCourse
    <3> QED
      BY <1>2, <2>3, <3>1 DEF CancelCommit
  <2> QED
    BY <2>1, <2>2, <2>3
<1> QED
  BY <1>7, <1>8, <1>9, <1>10

LEMMA DrawCourse ==
  ASSUME CourseInv, Draw, NEW b \in Bets \ byHand'
  PROVE  Course(b)' /\ Forward(b)
<1> DEFINE playing == {c \in Bets : row[c].status = "BET_DONE"}
<1>1. /\ open /\ \A c \in Bets : ~Requesting(c)
      /\ UNCHANGED <<timeouts, task, hand, byHand, req, cancel, answers>>
  BY DEF Draw
<1>2. PICK won \in [playing -> Amount] :
        /\ row' = [c \in Bets |->
                     IF c \notin playing THEN row[c]
                     ELSE [status |-> IF won[c] > 0 THEN "PAY_ING" ELSE "BOMB",
                           amount |-> won[c]]]
        /\ queue' = Groups({c \in playing : won[c] > 0})
  BY DEF Draw
<1> DEFINE W == {c \in playing : won[c] > 0}
<1>3. answers' = {}
  BY <1>1 DEF CourseInv, TraceInv, SettleInv, Others, HeldOnce
<1>4. \A g \in queue' : g \subseteq W
  <2> HIDE DEF W
  <2>1. \A g \in Groups(W) : g \subseteq W
    BY DEF Groups
  <2> QED
    BY <1>2, <2>1 DEF W
<1>5. Course(b) /\ b \notin byHand
  BY <1>1 DEF CourseInv
<1>6. /\ Held(b)' => b \in W
      /\ Waits(b)' => b \in W
      /\ \A i \in TimeoutId : Named(i) => timeouts'[i] = timeouts[i]
      /\ \A i \in TimeoutId : \A o : RowOf(i, b, o)' => Named(i) /\ RowOf(i, b, o)
      /\ \A h \in Hands : Pays(h, b)' = Pays(h, b)
  BY <1>1, <1>3, <1>4 DEF Held, Waits, RowOf, Named, Pays
<1>7. CASE b \in playing
  <2>1. /\ row[b].status = "BET_DONE"
        /\ row'[b].status = IF b \in W THEN "PAY_ING" ELSE "BOMB"
    BY <1>2, <1>7
  <2>2. cancel'[b] \notin {"call", "refunded"}
    BY <1>1 DEF Requesting
  <2> HIDE DEF W
  <2>3. BetCourse(b)'
    BY <1>1, <1>5, <1>6, <2>1, <2>2 DEF Course, BetCourse, Refunding
  <2>4. PayCourse(b)'
    BY <1>5, <1>6, <2>1 DEF Course, PayCourse, Paying
  <2>5. Copies(b)'
    BY <1>1, <1>5, <1>6, <2>1, CopiesStand
  <2>6. Forward(b)
    BY <2>1 DEF Forward, Moves
  <2> QED
    BY <2>3, <2>4, <2>5, <2>6 DEF Course
<1>8. CASE b \notin playing
  <2>1. row'[b] = row[b] /\ b \notin W
    BY <1>2, <1>8
  <2> HIDE DEF W
  <2> QED
    BY <1>1, <1>5, <1>6, <2>1, CourseStands
<1> QED
  BY <1>7, <1>8

\* A group is taken from the queue; timeout rows that are new are of its bets.
LEMMA AnswerCourse ==
  ASSUME CourseInv, NEW g \in queue, PayCall(g) \/ BatchCall(g), NEW b \in Bets \ byHand'
  PROVE  Course(b)' /\ Forward(b)
<1>1. queue' = queue \ {g} /\ UNCHANGED <<row, task, hand, byHand, req, cancel>>
  BY DEF PayCall, BatchCall
<1>2. \E a : a.group = g /\ answers' = answers \cup {a}
  <2>1. CASE PayCall(g)
    BY <2>1 DEF PayCall
  <2>2. CASE BatchCall(g)
    <3>1. CASE BatchAnswered(g)
      <4>1. PICK said \in [g -> Told] :
              answers' = answers \cup {[group |-> g, told |-> said, success |-> TRUE]}
        BY <3>1 DEF BatchAnswered
      <4> QED
        BY <4>1
    <3>2. CASE BatchFailed(g)
      BY <3>2 DEF BatchFailed
    <3> QED
      BY <2>2, <3>1, <3>2 DEF BatchCall
  <2> QED
    BY <2>1, <2>2
<1>3. /\ \A i \in TimeoutId : Named(i) => timeouts'[i] = timeouts[i]
      /\ \A i \in TimeoutId : Named(i)' => \/ Named(i)
                                           \/ /\ timeouts'[i].bet \in g
                                              /\ timeouts'[i].op = "WD"
                                              /\ timeouts'[i].state = "young"
  <2>1. CASE PayCall(g)
    <3>1. PICK c \in g, ok \in BOOLEAN : Call(c, "WD", row[c].amount, ok)
      BY <2>1 DEF PayCall
    <3>2. c \in Bets /\ row[c].amount \in Amount /\ "WD" \in Op /\ PayInv
      BY DEF CourseInv, TraceInv, SettleInv, PaidInv, PayInv, PayTypeOK, CoinInv, CoinTypeOK,
             BetRow, Op
    <3> QED
      BY <3>1, <3>2, CallBooks
  <2>2. CASE BatchCall(g)
    <3>1. CASE BatchAnswered(g)
      BY <3>1 DEF BatchAnswered, Named
    <3>2. CASE BatchFailed(g)
      <4>1. \A i \in TimeoutId :
              \/ timeouts'[i] = timeouts[i]
              \/ /\ ~Named(i)
                 /\ timeouts'[i].bet \in g
                 /\ timeouts'[i].op = "WD"
                 /\ timeouts'[i].state = "young"
        BY <3>2, BatchRows DEF CourseInv, TraceInv
      <4> QED
        BY <4>1 DEF Named
    <3> QED
      BY <2>2, <3>1, <3>2 DEF BatchCall
  <2> QED
    BY <2>1, <2>2
<1>4. Course(b) /\ b \notin byHand
  BY <1>1 DEF CourseInv
<1>5. /\ Held(b)' => Held(b)
      /\ Waits(b)' => Waits(b) /\ b \notin g
  BY <1>1, <1>2 DEF Held, Waits, CourseInv, TraceInv, SettleInv, Others, HeldOnce
<1>6. b \in g => row[b].status \in Paying
  BY <1>4 DEF Course, PayCourse, Held, Waits, Paying
<1>7. \A i \in TimeoutId : RowOf(i, b, "BET")' => Named(i)
  BY <1>3 DEF RowOf
<1>8. \A i \in TimeoutId : RowOf(i, b, "WD")' => \/ Named(i)
                                                 \/ /\ row[b].status \in Paying
                                                    /\ ~Waits(b)'
                                                    /\ timeouts'[i].state = "young"
  BY <1>3, <1>5, <1>6 DEF RowOf
<1> QED
  BY <1>1, <1>3, <1>4, <1>5, <1>7, <1>8, CourseStands

LEMMA PayCommitCourse ==
  ASSUME CourseInv, NEW a \in answers, PayCommit(a), NEW b \in Bets \ byHand'
  PROVE  Course(b)' /\ Forward(b)
<1>1. /\ UNCHANGED <<timeouts, task, hand, byHand, req, cancel, queue>>
      /\ answers' = answers \ {a}
  BY DEF PayCommit
<1>2. Course(b) /\ b \notin byHand /\ row[b] \in BetRow
  BY <1>1 DEF CourseInv, TraceInv, SettleInv, PaidInv, PayInv, PayTypeOK
<1>3. /\ Held(b)' => Held(b)
      /\ Waits(b)' = Waits(b)
      /\ b \in a.group => Held(b) /\ ~Held(b)'
  BY <1>1 DEF Held, Waits, CourseInv, TraceInv, SettleInv, Others, HeldOnce
<1>4. /\ \A i \in TimeoutId : Named(i) => timeouts'[i] = timeouts[i]
      /\ \A i \in TimeoutId : \A o : RowOf(i, b, o)' => Named(i) /\ RowOf(i, b, o)
      /\ \A h \in Hands : Pays(h, b)' = Pays(h, b)
  BY <1>1 DEF RowOf, Named, Pays
<1>5. CASE row'[b] = row[b]
  BY <1>1, <1>2, <1>3, <1>4, <1>5, CourseStands
<1>6. ASSUME b \in a.group, NEW s \in {"WT_DONE", "WT_FAILED"},
             row'[b] = [row[b] EXCEPT !.status = s]
      PROVE  Course(b)' /\ Forward(b)
  <2>1. row'[b].status = s /\ row'[b].amount = row[b].amount
    BY <1>2, <1>6 DEF BetRow
  <2>2. row[b].status = "PAY_ING" /\ ~Held(b)'
    BY <1>2, <1>3, <1>6 DEF Course, PayCourse
  <2>3. BetCourse(b)'
    BY <1>1, <1>2, <1>4, <2>1, <2>2 DEF Course, BetCourse, Refunding
  <2>4. PayCourse(b)'
    <3>1. \A i \in TimeoutId : RowOf(i, b, "WD")' => ~Waits(b)
      BY <1>2, <1>4 DEF Course, PayCourse
    <3> QED
      BY <1>3, <2>1, <2>2, <3>1 DEF PayCourse, Paying
  <2>5. Copies(b)'
    BY <1>1, <1>2, <1>4, <2>1, CopiesStand
  <2>6. Forward(b)
    BY <2>1, <2>2 DEF Forward, Moves
  <2> QED
    BY <2>3, <2>4, <2>5, <2>6 DEF Course
<1>7. \/ row'[b] = row[b]
      \/ b \in a.group /\ \E s \in {"WT_DONE", "WT_FAILED"} :
                            row'[b] = [row[b] EXCEPT !.status = s]
  BY DEF PayCommit
<1> QED
  BY <1>5, <1>6, <1>7

LEMMA DropTaskCourse ==
  ASSUME CourseInv, DropTask, NEW b \in Bets \ byHand'
  PROVE  Course(b)' /\ Forward(b)
<1>1. UNCHANGED <<row, timeouts, task, hand, byHand, req, cancel>>
  BY DEF DropTask, payVars
<1>2. queue' \subseteq queue /\ answers' \subseteq answers
  BY DEF DropTask
<1>3. /\ Held(b)' => Held(b)
      /\ Waits(b)' => Waits(b)
      /\ \A i \in TimeoutId : Named(i) => timeouts'[i] = timeouts[i]
      /\ \A i \in TimeoutId : \A o : RowOf(i, b, o)' => Named(i)
  BY <1>1, <1>2 DEF Held, Waits, RowOf, Named
<1> QED
  BY <1>1, <1>3, CourseStands

LEMMA InitCourse ==
  Init => CourseInv
<1> SUFFICES ASSUME Init, NEW b \in Bets
             PROVE  Course(b)
  BY InitTraces DEF CourseInv
<1>1. row[b].status = "NONE" /\ row[b].amount = 0 /\ cancel[b] = "idle"
  BY DEF Init, PayInit, NoRow
<1>2. /\ \A i \in TimeoutId : ~Named(i)
      /\ ~Held(b) /\ task.at = "idle" /\ \A h \in Hands : ~Pays(h, b)
  BY DEF Init, PayInit, NoTimeout, Named, Held, Waits, NoTask, NoHand, Pays
<1> QED
  BY <1>1, <1>2 DEF Course, BetCourse, PayCourse, Copies, RowOf

LEMMA CourseStep ==
  ASSUME CourseInv, [Next]_vars, NEW b \in Bets \ byHand'
  PROVE  Course(b)' /\ Forward(b)
<1>1. CASE MoneyStep
  BY <1>1, MoneyCourse
<1>2. CASE \E c \in Bets : \/ BetCall(c) \/ BetCommit(c)
                           \/ CancelLoad(c) \/ CancelCall(c) \/ CancelCommit(c)
  BY <1>2, BetCallCourse, BetCommitCourse, CancelCourse
<1>3. CASE Draw
  BY <1>3, DrawCourse
<1>4. CASE \E g \in queue : PayCall(g) \/ BatchCall(g)
  BY <1>4, AnswerCourse
<1>5. CASE \E a \in answers : PayCommit(a)
  BY <1>5, PayCommitCourse
<1>6. CASE DropTask
  BY <1>6, DropTaskCourse
<1>7. CASE UNCHANGED vars
  <2>1. UNCHANGED <<row, timeouts, task, hand, byHand, req, cancel, queue, answers>>
    BY <1>7 DEF vars, payVars, coinVars
  <2>2. /\ Held(b)' = Held(b) /\ Waits(b)' = Waits(b)
        /\ \A i \in TimeoutId : \A o : RowOf(i, b, o)' => Named(i)
    BY <2>1 DEF Held, Waits, RowOf, Named
  <2> QED
    BY <2>1, <2>2, CourseStands
<1> QED
  BY <1>1, <1>2, <1>3, <1>4, <1>5, <1>6, <1>7 DEF Next, MoneyStep

\* Though no writer of game_bet (PaymentTimeoutTask.updateGameBet, a cancel, the draw,
\* a payout, ManualTransactionServiceImpl) reads the status it writes over, the status
\* of a bet that was not refunded by hand only goes forward, and a settled amount stays.
THEOREM StatusMovesAlways ==
  Spec => StatusMovesForward
<1>1. CourseInv /\ [Next]_vars => CourseInv'
  BY CourseStep, TraceInvKept DEF CourseInv
<1>2. CourseInv /\ [Next]_vars
        => [\A b \in Bets \ byHand' :
              /\ row'[b].status # row[b].status
                   => <<row[b].status, row'[b].status>> \in Moves
              /\ row'[b].amount # row[b].amount => row[b].status = "BET_DONE"]_vars
  BY CourseStep DEF Forward
<1> QED
  BY <1>1, <1>2, InitCourse, PTL DEF Spec, StatusMovesForward
=========================================================================
