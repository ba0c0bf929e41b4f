------------------------- MODULE CoinPaymentProofs -------------------------
(***************************************************************************)
(* Proofs about CoinPayment, for every number of bets, orders, timeout     *)
(* rows and retries: types, that the bet table never says of a bet that it *)
(* was paid or refunded unless the merchant did so, that a stake is not    *)
(* both returned and paid out, and the refinement of Settlement.           *)
(***************************************************************************)
EXTENDS CoinPayment, PaymentProofs

USE PaymentAssumption, CoinPaymentAssumption DEF PaymentAssumption, CoinPaymentAssumption

(***************************************************************************)
(* The inductive invariant.                                                *)
(***************************************************************************)

\* What a payout task was told to be paid was paid.
AnswersHold ==
  \A a \in answers :
    /\ a.success \in BOOLEAN
    /\ \A b \in a.group : a.told[b] = "ok" => Applied(b, "WD")

\* A cancel writes what was refunded.
CancelsHold == \A b \in Bets : cancel[b] = "refunded" => Applied(b, "REFUND")

\* One winner at a time when payouts are not batched.
QueueHolds == Batch \/ \A g \in queue : \E b \in Bets : g = {b}

CoinTypeOK ==
  /\ open \in BOOLEAN
  /\ req \in [Bets -> ReqAt]
  /\ cancel \in [Bets -> CancelAt]
  /\ queue \subseteq SUBSET Bets
  /\ \A a \in answers : a.group \subseteq Bets /\ a.told \in [a.group -> Told]
  /\ drops \in 0 .. MaxDrops
  /\ unheard \subseteq Bets
  /\ lost \subseteq Bets
  /\ dropped \subseteq Bets

CoinInv == CoinTypeOK /\ AnswersHold /\ CancelsHold /\ QueueHolds
PaidInv == PayInv /\ CoinInv

(***************************************************************************)
(* Lemmas.                                                                 *)
(***************************************************************************)

\* A step of the payment side leaves what the coin game holds alone.
LEMMA CoinKept ==
  ASSUME CoinInv, UNCHANGED coinVars, wallet \subseteq wallet'
  PROVE  CoinInv'
<1>1. CoinTypeOK'
  BY DEF CoinInv, CoinTypeOK, coinVars
<1>2. AnswersHold'
  BY Stays DEF CoinInv, AnswersHold, coinVars
<1>3. CancelsHold' /\ QueueHolds'
  BY Stays DEF CoinInv, CancelsHold, QueueHolds, coinVars
<1> QED
  BY <1>1, <1>2, <1>3 DEF CoinInv

(***************************************************************************)
(* The coin game: bets and cancels.                                        *)
(***************************************************************************)

LEMMA BetCallStep ==
  ASSUME PaidInv, NEW b \in Bets, BetCall(b)
  PROVE  PaidInv'
<1>1. PICK ok \in BOOLEAN :
        /\ Call(b, "BET", Stake, ok)
        /\ req' = [req EXCEPT ![b] = IF ok THEN "paid" ELSE "declined"]
  BY DEF BetCall
<1>2. UNCHANGED <<row, payouts, task, hand, byHand, open, cancel, queue, answers, drops,
                  lost, dropped>>
      /\ unheard' \in {unheard, unheard \cup {b}}
  BY DEF BetCall
<1>3. "BET" \in Op /\ Stake \in Amount
  BY DEF Op, Amount
<1>4. PayInv' /\ wallet \subseteq wallet'
  BY <1>1, <1>2, <1>3, GameCall DEF PaidInv
<1>5. CoinTypeOK'
  BY <1>1, <1>2 DEF PaidInv, CoinInv, CoinTypeOK, ReqAt
<1>6. AnswersHold' /\ CancelsHold' /\ QueueHolds'
  BY <1>2, <1>4, Stays DEF PaidInv, CoinInv, AnswersHold, CancelsHold, QueueHolds
<1> QED
  BY <1>4, <1>5, <1>6 DEF PaidInv, CoinInv

LEMMA BetCommitStep ==
  ASSUME PaidInv, NEW b \in Bets, BetCommit(b)
  PROVE  PaidInv'
<1>1. /\ UNCHANGED <<payouts, wallet, flight, timeouts, last, task, hand, byHand,
                     open, cancel, queue, answers, drops, lost, dropped>>
      /\ req' = [req EXCEPT ![b] = "over"]
      /\ unheard' \in {unheard, unheard \cup {b}}
  BY DEF BetCommit
<1>2. row \in [Bets -> BetRow] /\ payouts' \in [Bets -> 0 .. 2]
  BY <1>1 DEF PaidInv, PayInv, PayTypeOK
<1>3. \/ UNCHANGED row
      \/ \E s \in {"BET_DONE", "BET_FAILED"} :
           row' = [row EXCEPT ![b] = [status |-> s, amount |-> 0]]
  BY DEF BetCommit
<1>4. row' \in [Bets -> BetRow]
  <2>1. ASSUME NEW s \in {"BET_DONE", "BET_FAILED"}
        PROVE  [status |-> s, amount |-> 0] \in BetRow
    BY DEF BetRow, Status, Amount
  <2> QED
    BY <1>2, <1>3, <2>1
<1>5. DoneMeansPaid'
  <2>1. \A c \in Bets : row'[c] = row[c] \/ row'[c].status \in {"BET_DONE", "BET_FAILED"}
    BY <1>2, <1>3
  <2> QED
    BY <1>1, <2>1, Stays DEF PaidInv, PayInv, DoneMeansPaid
<1>6. PayInv'
  BY <1>1, <1>2, <1>4, <1>5, RowsWritten DEF PaidInv
<1>7. CoinTypeOK'
  BY <1>1 DEF PaidInv, CoinInv, CoinTypeOK, ReqAt
<1>8. AnswersHold' /\ CancelsHold' /\ QueueHolds'
  BY <1>1, Stays DEF PaidInv, CoinInv, AnswersHold, CancelsHold, QueueHolds
<1> QED
  BY <1>6, <1>7, <1>8 DEF PaidInv, CoinInv

LEMMA CancelLoadStep ==
  ASSUME PaidInv, NEW b \in Bets, CancelLoad(b)
  PROVE  PaidInv'
<1>1. /\ UNCHANGED <<payVars, open, req, queue, answers, drops, unheard, lost, dropped>>
      /\ cancel' = [cancel EXCEPT ![b] = "call"]
  BY DEF CancelLoad
<1>2. /\ UNCHANGED <<wallet, flight, timeouts, last, task, hand, byHand, row, payouts>>
  BY <1>1 DEF payVars
<1>3. PayInv'
  BY <1>2, RowsWritten, Stays DEF PaidInv, PayInv, PayTypeOK, DoneMeansPaid
<1>4. CoinTypeOK'
  BY <1>1 DEF PaidInv, CoinInv, CoinTypeOK, CancelAt
<1>5. AnswersHold' /\ CancelsHold' /\ QueueHolds'
  BY <1>1, <1>2, Stays DEF PaidInv, CoinInv, CoinTypeOK, AnswersHold, CancelsHold, QueueHolds
<1> QED
  BY <1>3, <1>4, <1>5 DEF PaidInv, CoinInv

LEMMA CancelCallStep ==
  ASSUME PaidInv, NEW b \in Bets, CancelCall(b)
  PROVE  PaidInv'
<1>1. PICK ok \in BOOLEAN :
        /\ Call(b, "REFUND", Stake, ok)
        /\ cancel' = [cancel EXCEPT ![b] = IF ok THEN "refunded" ELSE "over"]
  BY DEF CancelCall
<1>2. /\ UNCHANGED <<row, payouts, task, hand, byHand, open, req, queue, answers, drops,
                     unheard, dropped>>
      /\ lost' \in {lost, lost \cup {b}}
  BY DEF CancelCall
<1>3. "REFUND" \in Op /\ Stake \in Amount
  BY DEF Op, Amount
<1>4. PayInv' /\ wallet \subseteq wallet' /\ (ok => Applied(b, "REFUND")')
  BY <1>1, <1>2, <1>3, GameCall DEF PaidInv
<1>5. CoinTypeOK'
  BY <1>1, <1>2 DEF PaidInv, CoinInv, CoinTypeOK, CancelAt
<1>6. AnswersHold' /\ QueueHolds'
  BY <1>2, <1>4, Stays DEF PaidInv, CoinInv, AnswersHold, QueueHolds
<1>7. CancelsHold'
  <2> SUFFICES ASSUME NEW c \in Bets, cancel'[c] = "refunded"
               PROVE  Applied(c, "REFUND")'
    BY DEF CancelsHold
  <2>1. CASE c = b
    BY <1>1, <1>4, <2>1 DEF PaidInv, CoinInv, CoinTypeOK
  <2>2. CASE c # b
    BY <1>1, <1>4, <2>2, Stays DEF PaidInv, CoinInv, CoinTypeOK, CancelsHold
  <2> QED
    BY <2>1, <2>2
<1> QED
  BY <1>4, <1>5, <1>6, <1>7 DEF PaidInv, CoinInv

LEMMA CancelCommitStep ==
  ASSUME PaidInv, NEW b \in Bets, CancelCommit(b)
  PROVE  PaidInv'
<1>1. /\ UNCHANGED <<payouts, wallet, flight, timeouts, last, task, hand, byHand,
                     open, req, queue, answers, drops, unheard, dropped>>
      /\ cancel[b] = "refunded"
      /\ cancel' = [cancel EXCEPT ![b] = "over"]
      /\ lost' \in {lost, lost \cup {b}}
      /\ UNCHANGED row \/ row' = [row EXCEPT ![b].status = "CANCEL"]
  BY DEF CancelCommit
<1>2. /\ row \in [Bets -> BetRow] /\ payouts' \in [Bets -> 0 .. 2]
      /\ Applied(b, "REFUND") /\ cancel \in [Bets -> CancelAt]
  BY <1>1 DEF PaidInv, PayInv, PayTypeOK, CoinInv, CancelsHold, CoinTypeOK
<1>3. /\ row' \in [Bets -> BetRow]
      /\ \A c \in Bets : row'[c] = row[c] \/ (c = b /\ row'[c].status = "CANCEL")
  <2>1. "CANCEL" \in Status
    BY DEF Status
  <2>2. /\ [row[b] EXCEPT !.status = "CANCEL"] \in BetRow
        /\ [row[b] EXCEPT !.status = "CANCEL"].status = "CANCEL"
    BY <1>2, <2>1, RowType
  <2>3. UNCHANGED row \/ row' = [row EXCEPT ![b] = [row[b] EXCEPT !.status = "CANCEL"]]
    BY <1>1
  <2> DEFINE new == [row[b] EXCEPT !.status = "CANCEL"]
  <2>4. new \in BetRow /\ new.status = "CANCEL"
    BY <2>2
  <2>5. UNCHANGED row \/ row' = [row EXCEPT ![b] = new]
    BY <2>3
  <2> HIDE DEF new
  <2> QED
    BY <1>2, <2>4, <2>5
<1>4. DoneMeansPaid'
  BY <1>1, <1>2, <1>3, Stays DEF PaidInv, PayInv, DoneMeansPaid
<1>5. PayInv'
  BY <1>1, <1>2, <1>3, <1>4, RowsWritten DEF PaidInv
<1>6. CoinTypeOK'
  BY <1>1 DEF PaidInv, CoinInv, CoinTypeOK, CancelAt
<1>7. AnswersHold' /\ CancelsHold' /\ QueueHolds'
  BY <1>1, <1>2, Stays DEF PaidInv, CoinInv, AnswersHold, CancelsHold, QueueHolds
<1> QED
  BY <1>5, <1>6, <1>7 DEF PaidInv, CoinInv

(***************************************************************************)
(* The coin game: the draw and the payouts.                                *)
(***************************************************************************)

LEMMA DrawStep ==
  ASSUME PaidInv, Draw
  PROVE  PaidInv'
<1> DEFINE playing == {b \in Bets : row[b].status = "BET_DONE"}
<1>1. /\ open' = FALSE
      /\ UNCHANGED <<payouts, wallet, flight, timeouts, last, task, hand, byHand, req,
                     cancel, answers, drops, unheard, lost, dropped>>
  BY DEF Draw
<1>2. PICK won \in [playing -> Amount] :
        /\ row' = [b \in Bets |->
                     IF b \notin playing THEN row[b]
                     ELSE [status |-> IF won[b] > 0 THEN "PAY_ING" ELSE "BOMB",
                           amount |-> won[b]]]
        /\ queue' = Groups({b \in playing : won[b] > 0})
  BY DEF Draw
<1>3. row \in [Bets -> BetRow] /\ payouts' \in [Bets -> 0 .. 2]
  BY <1>1 DEF PaidInv, PayInv, PayTypeOK
<1>4. \A b \in Bets : \/ row'[b] = row[b]
                      \/ /\ row'[b] \in BetRow
                         /\ row'[b].status \in {"PAY_ING", "BOMB"}
  <2> SUFFICES ASSUME NEW b \in Bets, b \in playing
               PROVE  row'[b] \in BetRow /\ row'[b].status \in {"PAY_ING", "BOMB"}
    BY <1>2
  <2>1. won[b] \in Amount
    BY <1>2
  <2>2. row'[b] = [status |-> IF won[b] > 0 THEN "PAY_ING" ELSE "BOMB",
                   amount |-> won[b]]
    BY <1>2
  <2> QED
    BY <2>1, <2>2 DEF BetRow, Status
<1>5. row' \in [Bets -> BetRow]
  BY <1>2, <1>3, <1>4
<1>6. DoneMeansPaid'
  BY <1>1, <1>4, Stays DEF PaidInv, PayInv, DoneMeansPaid
<1>7. PayInv'
  BY <1>1, <1>3, <1>5, <1>6, RowsWritten DEF PaidInv
<1>8. queue' \subseteq SUBSET Bets
  <2> DEFINE W == {b \in playing : won[b] > 0}
  <2>1. W \subseteq Bets
    OBVIOUS
  <2> HIDE DEF W
  <2>2. Groups(W) \subseteq SUBSET Bets
    BY <2>1 DEF Groups
  <2> QED
    BY <1>2, <2>2 DEF W
<1>9. CoinTypeOK'
  BY <1>1, <1>8 DEF PaidInv, CoinInv, CoinTypeOK
<1>10. AnswersHold' /\ CancelsHold'
  BY <1>1, Stays DEF PaidInv, CoinInv, AnswersHold, CancelsHold
<1>11. QueueHolds'
  <2> DEFINE W == {b \in playing : won[b] > 0}
  <2>1. W \subseteq Bets
    OBVIOUS
  <2> HIDE DEF W
  <2>2. ~Batch => \A g \in Groups(W) : \E b \in Bets : g = {b}
    BY <2>1 DEF Groups
  <2> QED
    BY <1>2, <2>2 DEF W, QueueHolds
<1> QED
  BY <1>7, <1>9, <1>10, <1>11 DEF PaidInv, CoinInv

\* An answer is added that claims only what the merchant did.
LEMMA AnswerAdded ==
  ASSUME CoinInv, wallet \subseteq wallet',
         NEW g \in SUBSET Bets, NEW said \in [g -> Told], NEW success \in BOOLEAN,
         \A b \in g : said[b] = "ok" => Applied(b, "WD")',
         answers' = answers \cup {[group |-> g, told |-> said, success |-> success]},
         queue' \subseteq queue,
         UNCHANGED <<open, req, cancel, drops, unheard, lost, dropped>>
  PROVE  CoinInv'
<1> DEFINE new == [group |-> g, told |-> said, success |-> success]
<1>1. new.group = g /\ new.told = said /\ new.success = success
  OBVIOUS
<1>2. answers' = answers \cup {new}
  OBVIOUS
<1> HIDE DEF new
<1>3. CoinTypeOK'
  <2>1. \A a \in answers' : a.group \subseteq Bets /\ a.told \in [a.group -> Told]
    BY <1>1, <1>2 DEF CoinInv, CoinTypeOK
  <2> QED
    BY <2>1 DEF CoinInv, CoinTypeOK
<1>4. AnswersHold'
  <2> SUFFICES ASSUME NEW a \in answers'
               PROVE  /\ a.success \in BOOLEAN
                      /\ \A b \in a.group : a.told[b] = "ok" => Applied(b, "WD")'
    BY DEF AnswersHold
  <2>1. CASE a \in answers
    BY <2>1, Stays DEF CoinInv, AnswersHold
  <2>2. CASE a = new
    BY <1>1, <2>2
  <2> QED
    BY <1>2, <2>1, <2>2
<1>5. CancelsHold' /\ QueueHolds'
  BY Stays DEF CoinInv, CancelsHold, QueueHolds
<1> QED
  BY <1>3, <1>4, <1>5 DEF CoinInv

LEMMA PayCallStep ==
  ASSUME PaidInv, NEW g \in queue, PayCall(g)
  PROVE  PaidInv'
<1>1. /\ queue' = queue \ {g}
      /\ UNCHANGED <<row, payouts, task, hand, byHand, open, req, cancel, drops,
                     unheard, lost, dropped>>
  BY DEF PayCall
<1>2. PICK b \in g, ok \in BOOLEAN :
        /\ Call(b, "WD", row[b].amount, ok)
        /\ answers' = answers \cup {[group |-> g,
                                     told |-> [c \in g |-> IF ok THEN "ok" ELSE "no"],
                                     success |-> ok]}
  BY DEF PayCall
<1>3. /\ g \in SUBSET Bets /\ b \in Bets /\ row[b].amount \in Amount
      /\ "WD" \in Op
  BY DEF PaidInv, PayInv, PayTypeOK, CoinInv, CoinTypeOK, BetRow, Op
<1>4. g = {b}
  BY DEF PayCall, PaidInv, CoinInv, QueueHolds
<1>5. PayInv' /\ wallet \subseteq wallet' /\ (ok => Applied(b, "WD")')
  BY <1>1, <1>2, <1>3, GameCall DEF PaidInv
<1> DEFINE said == [c \in g |-> IF ok THEN "ok" ELSE "no"]
<1>6. said \in [g -> Told]
  BY DEF Told
<1>7. \A c \in g : said[c] = "ok" => Applied(c, "WD")'
  BY <1>4, <1>5
<1>8. answers' = answers \cup {[group |-> g, told |-> said, success |-> ok]}
  BY <1>2
<1> HIDE DEF said
<1>9. CoinInv'
  BY <1>1, <1>3, <1>5, <1>6, <1>7, <1>8, AnswerAdded DEF PaidInv
<1> QED
  BY <1>5, <1>9 DEF PaidInv

\* The merchant's book only grows by what it carries out of a batch.
LEMMA BookGrows ==
  ASSUME PayInv, NEW S \in SUBSET Bets
  PROVE  /\ wallet \subseteq Book(S) /\ Book(S) \subseteq Request
         /\ Payouts(S) \subseteq Request
         /\ \A b \in S : \E m \in Book(S) : m.bet = b /\ m.op = "WD"
<1>1. row \in [Bets -> BetRow] /\ wallet \subseteq Request
  BY DEF PayInv, PayTypeOK
<1>2. Payouts(S) \subseteq Request
  BY <1>1 DEF Payouts, Request, Op, BetRow
<1>3. ASSUME NEW b \in S
      PROVE  \E m \in Book(S) : m.bet = b /\ m.op = "WD"
  <2> DEFINE m == [bet |-> b, op |-> "WD", amount |-> row[b].amount]
  <2>1. m \in Payouts(S) /\ m.bet = b /\ m.op = "WD"
    BY DEF Payouts
  <2>2. CASE Applied(b, "WD")
    BY <2>2 DEF Applied, Book
  <2>3. CASE ~Applied(b, "WD")
    BY <2>1, <2>3 DEF Book
  <2> QED
    BY <2>2, <2>3
<1> QED
  BY <1>1, <1>2, <1>3 DEF Book

LEMMA BatchAnsweredStep ==
  ASSUME PaidInv, NEW g \in queue, BatchCall(g), BatchAnswered(g)
  PROVE  PaidInv'
<1>1. /\ queue' = queue \ {g}
      /\ UNCHANGED <<row, payouts, task, hand, byHand, open, req, cancel, drops,
                     unheard, lost, dropped, flight, timeouts, last>>
  BY DEF BatchCall, BatchAnswered
<1>2. PICK said \in [g -> Told] :
        /\ \E more \in SUBSET (g \ {b \in g : said[b] = "ok"}) :
             wallet' = Book({b \in g : said[b] = "ok"} \cup more)
        /\ answers' = answers \cup {[group |-> g, told |-> said, success |-> TRUE]}
  BY DEF BatchAnswered
<1> DEFINE ok == {b \in g : said[b] = "ok"}
<1>3. PICK more \in SUBSET (g \ ok) : wallet' = Book(ok \cup more)
  BY <1>2
<1>4. g \in SUBSET Bets /\ ok \cup more \in SUBSET Bets
  BY DEF PaidInv, CoinInv, CoinTypeOK
<1>5. /\ wallet \subseteq wallet' /\ wallet' \subseteq Request
      /\ \A b \in g : said[b] = "ok" => Applied(b, "WD")'
  <2>1. \A b \in ok \cup more : \E m \in wallet' : m.bet = b /\ m.op = "WD"
    BY <1>3, <1>4, BookGrows DEF PaidInv
  <2>2. wallet \subseteq wallet' /\ wallet' \subseteq Request
    BY <1>3, <1>4, BookGrows DEF PaidInv
  <2> QED
    BY <2>1, <2>2 DEF Applied
<1>6. PayInv'
  <2>1. PayTypeOK'
    BY <1>1, <1>5 DEF PaidInv, PayInv, PayTypeOK
  <2>2. RowsNamed'
    BY <1>1 DEF PaidInv, PayInv, RowsNamed, Named
  <2>3. TaskHolds' /\ HandHolds' /\ DoneMeansPaid'
    BY <1>1, <1>5, HoldersKept DEF PaidInv
  <2> QED
    BY <2>1, <2>2, <2>3 DEF PayInv
<1>7. CoinInv'
  BY <1>1, <1>2, <1>4, <1>5, AnswerAdded DEF PaidInv
<1> QED
  BY <1>6, <1>7 DEF PaidInv

LEMMA BatchFailedStep ==
  ASSUME PaidInv, NEW g \in queue, BatchCall(g), BatchFailed(g)
  PROVE  PaidInv'
<1>1. /\ queue' = queue \ {g}
      /\ UNCHANGED <<row, payouts, task, hand, byHand, open, req, cancel, drops,
                     unheard, lost, dropped>>
      /\ answers' = answers \cup {[group |-> g, told |-> [b \in g |-> "no"],
                                   success |-> FALSE]}
  BY DEF BatchCall, BatchFailed
<1>2. g \in SUBSET Bets
  BY DEF PaidInv, CoinInv, CoinTypeOK
<1>3. /\ wallet \subseteq wallet' /\ wallet' \subseteq Request
      /\ flight' \subseteq Request
  <2>1. wallet \subseteq Request /\ flight \subseteq Request /\ PayInv
    BY DEF PaidInv, PayInv, PayTypeOK
  <2>2. CASE (\E done \in SUBSET g : wallet' = Book(done)) /\ UNCHANGED flight
    BY <1>2, <2>1, <2>2, BookGrows
  <2>3. CASE flight' = flight \cup Payouts(g) /\ UNCHANGED wallet
    BY <1>2, <2>1, <2>3, BookGrows
  <2> QED
    BY <2>2, <2>3 DEF BatchFailed
<1>4. /\ timeouts' \in [TimeoutId -> TimeoutRow] /\ last' \in 0 .. MaxTimeouts
      /\ RowsNamed'
      /\ \A i \in TimeoutId : i <= last => timeouts'[i] = timeouts[i]
  <2>0. timeouts \in [TimeoutId -> TimeoutRow] /\ last \in 0 .. MaxTimeouts /\ RowsNamed
    BY DEF PaidInv, PayInv, PayTypeOK
  <2>1. CASE UNCHANGED <<timeouts, last>>
    BY <2>0, <2>1 DEF RowsNamed, Named
  <2>2. CASE ~UNCHANGED <<timeouts, last>>
    <3> DEFINE n == Cardinality(g)
    <3>1. n \in Nat
      BY <1>2, FS_Subset, FS_CardinalityType
    <3> HIDE DEF n
    <3>2. /\ last + n <= MaxTimeouts /\ last' = last + n
          /\ \E order \in [last + 1 .. last + n -> g] :
               timeouts' = [i \in TimeoutId |->
                 IF i \in DOMAIN order
                 THEN [bet |-> order[i], op |-> "WD", count |-> 0, state |-> "young"]
                 ELSE timeouts[i]]
      BY <2>2 DEF BatchFailed, n
    <3>3. PICK order \in [last + 1 .. last + n -> g] :
            timeouts' = [i \in TimeoutId |->
              IF i \in DOMAIN order
              THEN [bet |-> order[i], op |-> "WD", count |-> 0, state |-> "young"]
              ELSE timeouts[i]]
      BY <3>2
    <3>4. last' \in 0 .. MaxTimeouts
      BY <2>0, <3>1, <3>2
    <3>5. \A i \in TimeoutId :
            \/ i \in last + 1 .. last + n /\ timeouts'[i] \in TimeoutRow
               /\ timeouts'[i].bet \in Bets
            \/ i \notin last + 1 .. last + n /\ timeouts'[i] = timeouts[i]
      <4> SUFFICES ASSUME NEW i \in TimeoutId, i \in last + 1 .. last + n
                   PROVE  timeouts'[i] \in TimeoutRow /\ timeouts'[i].bet \in Bets
        BY <3>3
      <4>1. timeouts'[i]
              = [bet |-> order[i], op |-> "WD", count |-> 0, state |-> "young"]
        BY <3>3
      <4>2. order[i] \in Bets
        BY <1>2, <3>3
      <4> QED
        BY <4>1, <4>2 DEF TimeoutRow
    <3>6. timeouts' \in [TimeoutId -> TimeoutRow]
      BY <2>0, <3>3, <3>5
    <3>7. \A i \in TimeoutId : i <= last => timeouts'[i] = timeouts[i]
      BY <2>0, <3>1, <3>5
    <3>8. RowsNamed'
      <4> SUFFICES ASSUME NEW i \in TimeoutId, timeouts'[i].state # "none"
                   PROVE  i <= last' /\ timeouts'[i].bet \in Bets
        BY DEF RowsNamed, Named
      <4>1. CASE i \in last + 1 .. last + n
        BY <2>0, <3>1, <3>2, <3>5, <4>1
      <4>2. CASE i \notin last + 1 .. last + n
        BY <2>0, <3>1, <3>2, <3>5, <4>2 DEF RowsNamed, Named, TimeoutId
      <4> QED
        BY <4>1, <4>2
    <3> QED
      BY <3>4, <3>6, <3>7, <3>8
  <2> QED
    BY <2>1, <2>2
<1>5. PayInv'
  <2>1. PayTypeOK'
    BY <1>1, <1>3, <1>4 DEF PaidInv, PayInv, PayTypeOK
  <2>2. TaskHolds' /\ HandHolds' /\ DoneMeansPaid'
    BY <1>1, <1>3, <1>4, HoldersKept DEF PaidInv
  <2> QED
    BY <1>4, <2>1, <2>2 DEF PayInv
<1>6. CoinInv'
  <2> DEFINE said == [b \in g |-> "no"]
  <2>1. said \in [g -> Told] /\ (\A b \in g : said[b] # "ok")
    BY DEF Told
  <2>2. answers' = answers \cup {[group |-> g, told |-> said, success |-> FALSE]}
    BY <1>1
  <2> HIDE DEF said
  <2> QED
    BY <1>1, <1>2, <1>3, <2>1, <2>2, AnswerAdded DEF PaidInv
<1> QED
  BY <1>5, <1>6 DEF PaidInv

LEMMA PayCommitStep ==
  ASSUME PaidInv, NEW a \in answers, PayCommit(a)
  PROVE  PaidInv'
<1>1. /\ UNCHANGED <<wallet, flight, timeouts, last, task, hand, byHand, open, req,
                     cancel, queue, drops, unheard, lost>>
      /\ answers' = answers \ {a}
      /\ dropped' = dropped \cup {b \in a.group : a.told[b] = "silent"}
  BY DEF PayCommit
<1>2. /\ row \in [Bets -> BetRow] /\ payouts \in [Bets -> 0 .. 2]
      /\ a.group \subseteq Bets /\ a.told \in [a.group -> Told]
      /\ a.success \in BOOLEAN
      /\ \A b \in a.group : a.told[b] = "ok" => Applied(b, "WD")
  BY DEF PaidInv, PayInv, PayTypeOK, CoinInv, CoinTypeOK, AnswersHold
<1>3. \A b \in Bets :
        \/ row'[b] = row[b]
        \/ row'[b] = [row[b] EXCEPT !.status = "WT_FAILED"]
        \/ row'[b] = [row[b] EXCEPT !.status = "WT_DONE"] /\ Applied(b, "WD")
  BY <1>2 DEF PayCommit
<1>4. \A b \in Bets :
        \/ row'[b] = row[b]
        \/ row'[b] \in BetRow /\ row'[b].status = "WT_FAILED"
        \/ row'[b] \in BetRow /\ row'[b].status = "WT_DONE" /\ Applied(b, "WD")
  <2> SUFFICES ASSUME NEW b \in Bets
               PROVE  \/ row'[b] = row[b]
                      \/ row'[b] \in BetRow /\ row'[b].status = "WT_FAILED"
                      \/ row'[b] \in BetRow /\ row'[b].status = "WT_DONE"
                         /\ Applied(b, "WD")
    OBVIOUS
  <2>1. row[b] \in BetRow /\ "WT_FAILED" \in Status /\ "WT_DONE" \in Status
    BY <1>2 DEF Status
  <2>2. /\ [row[b] EXCEPT !.status = "WT_FAILED"] \in BetRow
        /\ [row[b] EXCEPT !.status = "WT_FAILED"].status = "WT_FAILED"
    BY <2>1, RowType
  <2>3. /\ [row[b] EXCEPT !.status = "WT_DONE"] \in BetRow
        /\ [row[b] EXCEPT !.status = "WT_DONE"].status = "WT_DONE"
    BY <2>1, RowType
  <2>4. CASE row'[b] = row[b]
    BY <2>4
  <2>5. CASE row'[b] = [row[b] EXCEPT !.status = "WT_FAILED"]
    BY <2>2, <2>5
  <2>6. CASE row'[b] = [row[b] EXCEPT !.status = "WT_DONE"] /\ Applied(b, "WD")
    BY <2>3, <2>6
  <2> QED
    BY <1>3, <2>4, <2>5, <2>6
<1>5. row' \in [Bets -> BetRow]
  <2>1. row' = [b \in Bets |-> row'[b]]
    BY DEF PayCommit
  <2> QED
    BY <1>2, <1>4, <2>1
<1>6. payouts' \in [Bets -> 0 .. 2]
  BY <1>2 DEF PayCommit, OneMore
<1>7. DoneMeansPaid'
  BY <1>1, <1>4, Stays DEF PaidInv, PayInv, DoneMeansPaid
<1>8. PayInv'
  BY <1>1, <1>5, <1>6, <1>7, RowsWritten DEF PaidInv
<1>9. CoinTypeOK'
  BY <1>1, <1>2 DEF PaidInv, CoinInv, CoinTypeOK
<1>10. AnswersHold' /\ CancelsHold' /\ QueueHolds'
  BY <1>1, Stays DEF PaidInv, CoinInv, AnswersHold, CancelsHold, QueueHolds
<1> QED
  BY <1>8, <1>9, <1>10 DEF PaidInv, CoinInv

LEMMA DropTaskStep ==
  ASSUME PaidInv, DropTask
  PROVE  PaidInv'
<1>1. /\ UNCHANGED <<payVars, open, req, cancel, unheard, lost>>
      /\ drops < MaxDrops /\ drops' = drops + 1
      /\ queue' \subseteq queue /\ answers' \subseteq answers
  BY DEF DropTask
<1>2. UNCHANGED <<wallet, flight, timeouts, last, task, hand, byHand, row, payouts>>
  BY <1>1 DEF payVars
<1>3. PayInv'
  BY <1>2, RowsWritten, Stays DEF PaidInv, PayInv, PayTypeOK, DoneMeansPaid
<1>4. dropped' \subseteq Bets
  BY DEF DropTask, PaidInv, CoinInv, CoinTypeOK
<1>5. CoinTypeOK'
  BY <1>1, <1>4 DEF PaidInv, CoinInv, CoinTypeOK
<1>6. AnswersHold' /\ CancelsHold' /\ QueueHolds'
  BY <1>1, <1>2, Stays DEF PaidInv, CoinInv, AnswersHold, CancelsHold, QueueHolds
<1> QED
  BY <1>3, <1>5, <1>6 DEF PaidInv, CoinInv

(***************************************************************************)
(* The theorems.                                                           *)
(***************************************************************************)

LEMMA InitHolds ==
  Init => PaidInv
<1> SUFFICES ASSUME Init
             PROVE  PaidInv
  OBVIOUS
<1>1. PayInv
  BY PayStart DEF Init
<1>2. CoinInv
  BY DEF Init, PayInit, CoinInv, CoinTypeOK, AnswersHold, CancelsHold, QueueHolds, ReqAt,
         CancelAt
<1> QED
  BY <1>1, <1>2 DEF PaidInv

LEMMA StutterStep ==
  ASSUME PaidInv, UNCHANGED vars
  PROVE  PaidInv'
<1>1. UNCHANGED payVars /\ UNCHANGED coinVars /\ wallet' = wallet
  BY DEF vars, payVars
<1> QED
  BY <1>1, PayFrame, CoinKept DEF PaidInv

\* The payment side's own steps.
LEMMA PaymentStep ==
  ASSUME PaidInv, UNCHANGED coinVars,
         PayNext \/ (\E i \in TimeoutId : Age(i)) \/ (\E h \in Hands : ManualWrite(h))
  PROVE  PaidInv'
<1>1. PayInv'
  BY PayNextKeeps, AgeStep, ManualWriteStep DEF PaidInv
<1>2. CoinInv'
  BY BookStands, CoinKept DEF PaidInv
<1> QED
  BY <1>1, <1>2 DEF PaidInv

LEMMA PaidInvKept ==
  PaidInv /\ [Next]_vars => PaidInv'
<1> SUFFICES ASSUME PaidInv, [Next]_vars
             PROVE  PaidInv'
  OBVIOUS
<1>1. CASE PayNext /\ UNCHANGED coinVars
  BY <1>1, PaymentStep
<1>2. CASE (\E h \in Hands : ManualWrite(h)) /\ UNCHANGED coinVars
  BY <1>2, PaymentStep
<1>3. CASE (\E i \in TimeoutId : AgeAfterRequest(i)) /\ UNCHANGED coinVars
  BY <1>3, PaymentStep DEF AgeAfterRequest
<1>4. CASE \E b \in Bets : \/ BetCall(b) \/ BetCommit(b)
                           \/ CancelLoad(b) \/ CancelCall(b) \/ CancelCommit(b)
  BY <1>4, BetCallStep, BetCommitStep, CancelLoadStep, CancelCallStep, CancelCommitStep
<1>5. CASE Draw
  BY <1>5, DrawStep
<1>6. CASE \E g \in queue : PayCall(g) \/ BatchCall(g)
  <2>1. ASSUME NEW g \in queue, BatchCall(g)
        PROVE  PaidInv'
    BY <2>1, BatchAnsweredStep, BatchFailedStep DEF BatchCall
  <2> QED
    BY <1>6, <2>1, PayCallStep
<1>7. CASE \E a \in answers : PayCommit(a)
  BY <1>7, PayCommitStep
<1>8. CASE DropTask
  BY <1>8, DropTaskStep
<1>9. CASE UNCHANGED vars
  BY <1>9, StutterStep
<1> QED
  BY <1>1, <1>2, <1>3, <1>4, <1>5, <1>6, <1>7, <1>8, <1>9 DEF Next

LEMMA PaidInvAlways ==
  Spec => []PaidInv
<1> QED
  BY InitHolds, PaidInvKept, PTL DEF Spec

\* Every value the payment service, the timeout task, the payout executor and the
\* operator's page handle has its type, whatever calls fail and wherever they stop.
THEOREM TypeCorrect ==
  Spec => []TypeOK
<1>1. PaidInv => TypeOK
  BY DEF PaidInv, PayInv, CoinInv, CoinTypeOK, TypeOK
<1> QED
  BY <1>1, PaidInvAlways, PTL

\* game_bet never claims money that did not move: PayCommit, TaskWrite, CancelCommit
\* and ManualWrite, which write a bet's end status without reading the old one,
\* write WT_DONE only over a paid bet and CANCEL or REFUND only over a refunded one.
THEOREM DoneMeansPaidAlways ==
  Spec => []DoneMeansPaid
<1>1. PaidInv => DoneMeansPaid
  BY DEF PaidInv, PayInv
<1> QED
  BY <1>1, PaidInvAlways, PTL

(***************************************************************************)
(* A stake is returned or paid out, not both, and the payment side         *)
(* implements Settlement.                                                  *)
(*                                                                         *)
(* A bet is on one of two sides.  On the refund side are the bets that are *)
(* not in play: declined, rolled back or cancelled.  On the pay side are   *)
(* the winners of the draw.  Each request to the merchant, each row of     *)
(* game_payment_timeout and each order of the operator belongs to a side,  *)
(* and a bet never crosses over; only a refund the service lost sight of,  *)
(* or one ordered by hand, breaks this.                                    *)
(***************************************************************************)

Paying == {"PAY_ING", "WT_DONE", "WT_FAILED"}
Refunding == {"BET_FAILED", "CANCEL"}

\* b waits in the executor; a payout task holds b.
Waits(b) == \E g \in queue : b \in g
Held(b) == Waits(b) \/ \E a \in answers : b \in a.group

\* The operator is about to pay b.
Pays(h, b) == hand[h].at \notin {"idle", "done"} /\ hand[h].bet = b /\ hand[h].op = "WD"

RequestSide(b) ==
  /\ req[b] # "over" => row[b].status = "NONE"
  /\ req[b] = "paid" => Applied(b, "BET")
  /\ row[b].status \in Paying \cup {"BOMB", "BET_DONE"} => Applied(b, "BET")
  /\ row[b].status # "REFUND"

RefundSide(b) ==
  /\ \A i \in TimeoutId : RowOf(i, b, "BET") =>
       req[b] \in {"declined", "over"} /\ row[b].status \in Refunding \cup {"NONE"}
  /\ cancel[b] \in {"call", "refunded"} => row[b].status = "BET_DONE"
  /\ Asked(b, "REFUND") => row[b].status \in Refunding \/ cancel[b] = "refunded"

PaySide(b) ==
  /\ Held(b) => row[b].status = "PAY_ING"
  /\ Asked(b, "WD") => row[b].status \in Paying
  /\ \A i \in TimeoutId : RowOf(i, b, "WD") =>
       /\ row[b].status \in Paying
       /\ ~Waits(b)
       /\ timeouts[i].state # "young" => ~Held(b)
  /\ \A h \in Hands : Pays(h, b) => row[b].status \in {"WT_FAILED", "WT_DONE"}

Side(b) == RequestSide(b) /\ RefundSide(b) /\ PaySide(b)

Clean(b) == b \notin byHand \cup lost
Sides == \A b \in Bets : Clean(b) => Side(b)

\* The task works on rows that are old enough, of bets that exist.
TaskOpen ==
  /\ \A i \in task.todo : timeouts[i].state # "young"
  /\ task.at \in {"call", "paid", "mark", "failed"}
       => /\ timeouts[task.cur].state # "young"
          /\ row[timeouts[task.cur].bet].status # "NONE"

\* A winner is in one payout task, and in none before the draw.
HeldOnce ==
  /\ open => queue = {} /\ answers = {}
  /\ \A g, k \in queue : g # k => g \cap k = {}
  /\ \A a, c \in answers : a # c => a.group \cap c.group = {}
  /\ \A g \in queue, a \in answers : g \cap a.group = {}

\* A refund by hand is remembered.
HandRefunds ==
  \A h \in Hands : hand[h].at = "write" /\ hand[h].op = "REFUND" => hand[h].bet \in byHand

Others == TaskOpen /\ HeldOnce /\ Returned /\ HandRefunds
SettleInv == PaidInv /\ Sides /\ Others

(***************************************************************************)
(* Lemmas.                                                                 *)
(***************************************************************************)

\* A bet whose status stays keeps its side, if whatever is new about it belongs to
\* the side.
LEMMA SideKept ==
  ASSUME NEW b \in Bets, Side(b),
         row'[b].status = row[b].status, req'[b] = req[b], cancel'[b] = cancel[b],
         wallet \subseteq wallet',
         Asked(b, "REFUND")' => Asked(b, "REFUND") \/ row[b].status \in Refunding,
         Asked(b, "WD")' => Asked(b, "WD") \/ row[b].status \in Paying,
         \A i \in TimeoutId : RowOf(i, b, "BET")' => RowOf(i, b, "BET"),
         \A i \in TimeoutId : RowOf(i, b, "WD")' =>
           /\ row[b].status \in Paying
           /\ ~Waits(b)'
           /\ timeouts'[i].state # "young" => ~Held(b)',
         Held(b)' => Held(b),
         \A h \in Hands : Pays(h, b)' => Pays(h, b) \/ row[b].status = "WT_FAILED"
  PROVE  Side(b)'
<1>1. RequestSide(b)'
  BY Stays DEF Side, RequestSide
<1>2. RefundSide(b)'
  BY DEF Side, RefundSide
<1>3. PaySide(b)'
  BY DEF Side, PaySide
<1> QED
  BY <1>1, <1>2, <1>3 DEF Side

\* A bet of the pay side gets another status of the pay side once no payout task
\* holds it.
LEMMA SidePaid ==
  ASSUME NEW b \in Bets, Side(b), row[b].status \in Paying,
         row'[b].status \in {"WT_DONE", "WT_FAILED"},
         UNCHANGED <<wallet, flight, timeouts, req, cancel>>,
         \A h \in Hands : Pays(h, b)' => Pays(h, b),
         ~Held(b)'
  PROVE  Side(b)'
<1>1. RequestSide(b)'
  BY Stays DEF Side, RequestSide, Paying
<1>2. RefundSide(b)'
  BY DEF Side, RefundSide, Paying, Refunding, RowOf, Named, Asked
<1>3. PaySide(b)'
  BY DEF Side, PaySide, Paying, RowOf, Named, Asked, Held
<1> QED
  BY <1>1, <1>2, <1>3 DEF Side

(***************************************************************************)
(* The payment side: what each of its steps keeps.                         *)
(***************************************************************************)

LEMMA LateSides ==
  ASSUME SettleInv, NEW m \in flight, MerchantLate(m), UNCHANGED coinVars
  PROVE  (Sides /\ Others)'
<1>1. /\ UNCHANGED <<row, timeouts, task, hand, byHand>>
      /\ wallet \subseteq wallet'
      /\ wallet' \cup flight' \subseteq wallet \cup flight
  BY DEF MerchantLate, CarryOut
<1>2. Returned'
  <2> SUFFICES ASSUME NEW n \in wallet', n.op = "REFUND"
               PROVE  Applied(n.bet, "BET")'
    BY DEF Returned
  <2>1. Applied(n.bet, "BET")
    <3>1. CASE n \in wallet
      BY <3>1 DEF SettleInv, Others, Returned
    <3>2. CASE n \notin wallet
      BY <3>2 DEF MerchantLate, CarryOut, Accepts
    <3> QED
      BY <3>1, <3>2
  <2> QED
    BY <1>1, <2>1, Stays
<1>3. Sides'
  <2> SUFFICES ASSUME NEW b \in Bets, Clean(b)'
               PROVE  Side(b)'
    BY DEF Sides
  <2>1. Side(b)
    BY <1>1 DEF SettleInv, Sides, Clean, coinVars
  <2>2. \A op : Asked(b, op)' => Asked(b, op)
    BY <1>1 DEF Asked
  <2> QED
    BY <1>1, <2>1, <2>2, SideKept
       DEF coinVars, RowOf, Named, Waits, Held, Pays, Side, PaySide
<1>4. TaskOpen' /\ HeldOnce' /\ HandRefunds'
  BY <1>1 DEF SettleInv, Others, TaskOpen, HeldOnce, HandRefunds, coinVars
<1> QED
  BY <1>2, <1>3, <1>4 DEF Others

LEMMA AgeSides ==
  ASSUME SettleInv, NEW i \in TimeoutId, AgeAfterRequest(i), UNCHANGED coinVars
  PROVE  (Sides /\ Others)'
<1>1. /\ UNCHANGED <<row, wallet, flight, task, hand, byHand>>
      /\ timeouts[i].state = "young"
      /\ timeouts' = [timeouts EXCEPT ![i].state = "open"]
      /\ \A a \in answers : timeouts[i].bet \notin a.group
  BY DEF AgeAfterRequest, Age
<1>2. timeouts \in [TimeoutId -> TimeoutRow]
  BY DEF SettleInv, PaidInv, PayInv, PayTypeOK
<1>3. /\ \A j \in TimeoutId : /\ timeouts'[j].bet = timeouts[j].bet
                              /\ timeouts'[j].op = timeouts[j].op
                              /\ Named(j)' = Named(j)
      /\ \A j \in TimeoutId : j # i => timeouts'[j] = timeouts[j]
      /\ timeouts'[i].state = "open"
  BY <1>1, <1>2 DEF Named, TimeoutRow
<1>4. Sides'
  <2> SUFFICES ASSUME NEW b \in Bets, Clean(b)'
               PROVE  Side(b)'
    BY DEF Sides
  <2>1. Side(b)
    BY <1>1 DEF SettleInv, Sides, Clean, coinVars
  <2>2. \A j \in TimeoutId : \A op : RowOf(j, b, op)' => RowOf(j, b, op)
    BY <1>3 DEF RowOf
  <2>3. ASSUME NEW j \in TimeoutId, RowOf(j, b, "WD")'
        PROVE  /\ row[b].status \in Paying
               /\ ~Waits(b)'
               /\ timeouts'[j].state # "young" => ~Held(b)'
    <3>1. RowOf(j, b, "WD")
      BY <2>2, <2>3
    <3>2. /\ row[b].status \in Paying /\ ~Waits(b)
          /\ timeouts[j].state # "young" => ~Held(b)
      BY <2>1, <3>1 DEF Side, PaySide
    <3>3. Waits(b)' = Waits(b) /\ Held(b)' = Held(b)
      BY DEF Waits, Held, coinVars
    <3>4. CASE j = i
      BY <1>1, <3>1, <3>2, <3>3, <3>4 DEF RowOf, Held
    <3>5. CASE j # i
      BY <1>3, <3>2, <3>3, <3>5
    <3> QED
      BY <3>4, <3>5
  <2> QED
    BY <1>1, <2>1, <2>2, <2>3, SideKept DEF coinVars, Waits, Held, Pays, Asked
<1>5. TaskOpen'
  BY <1>1, <1>2, <1>3 DEF SettleInv, PaidInv, PayInv, PayTypeOK, TaskHolds, Others, TaskOpen
<1>6. HeldOnce' /\ Returned' /\ HandRefunds'
  BY <1>1, Stays DEF SettleInv, Others, HeldOnce, HandRefunds, Returned, coinVars
<1> QED
  BY <1>4, <1>5, <1>6 DEF Others

\* Steps that write neither game rows nor timeout rows, call nobody and start no
\* payout by hand.
LEMMA QuietSides ==
  ASSUME SettleInv, UNCHANGED <<row, wallet, flight, timeouts, byHand>>,
         UNCHANGED coinVars, TaskOpen', HandRefunds',
         \A h \in Hands, b \in Bets : Pays(h, b)' => Pays(h, b) \/ row[b].status = "WT_FAILED"
  PROVE  (Sides /\ Others)'
<1>1. Sides'
  <2> SUFFICES ASSUME NEW b \in Bets, Clean(b)'
               PROVE  Side(b)'
    BY DEF Sides
  <2>1. Side(b)
    BY DEF SettleInv, Sides, Clean, coinVars
  <2> QED
    BY <2>1, SideKept DEF coinVars, RowOf, Named, Waits, Held, Asked, Side, PaySide
<1>2. HeldOnce' /\ Returned'
  BY Stays DEF SettleInv, Others, HeldOnce, Returned, coinVars
<1> QED
  BY <1>1, <1>2 DEF Others

LEMMA TaskMovesSides ==
  ASSUME SettleInv, TaskStart \/ TaskNext \/ TaskThrows \/ TaskDies, UNCHANGED coinVars
  PROVE  (Sides /\ Others)'
<1>1. UNCHANGED <<row, payouts, wallet, flight, timeouts, last, hand, byHand>>
  BY DEF TaskStart, TaskNext, TaskThrows, TaskDies
<1>2. /\ task \in [at : TaskAt, todo : SUBSET TimeoutId, cur : 0 .. MaxTimeouts,
                   copy : BetRow]
      /\ TaskOpen
  BY DEF SettleInv, PaidInv, PayInv, PayTypeOK, Others
<1>3. TaskOpen'
  <2>1. CASE TaskStart
    BY <1>1, <2>1 DEF TaskStart, NoTask, TaskOpen
  <2>2. CASE TaskNext
    <3>1. CASE task' = NoTask
      BY <3>1 DEF NoTask, TaskOpen
    <3>2. ASSUME NEW i \in task.todo, task.at = "next",
                 task' = [task EXCEPT !.todo = @ \ {i}]
          PROVE  TaskOpen'
      <4>1. task'.at = "next" /\ task'.todo = task.todo \ {i}
        BY <1>2, <3>2
      <4> QED
        BY <1>1, <1>2, <4>1 DEF TaskOpen
    <3>3. ASSUME NEW i \in task.todo, row[timeouts[i].bet].status # "NONE",
                 task' = [at |-> "call", todo |-> task.todo \ {i}, cur |-> i,
                          copy |-> row[timeouts[i].bet]]
          PROVE  TaskOpen'
      BY <1>1, <1>2, <3>3 DEF TaskOpen
    <3> QED
      BY <2>2, <3>1, <3>2, <3>3 DEF TaskNext
  <2>3. CASE TaskThrows
    <3>1. task'.at = "next" /\ task'.todo = task.todo
      BY <1>2, <2>3 DEF TaskThrows
    <3> QED
      BY <1>1, <1>2, <3>1 DEF TaskOpen
  <2>4. CASE TaskDies
    BY <1>1, <2>4 DEF TaskDies, NoTask, TaskOpen
  <2> QED
    BY <2>1, <2>2, <2>3, <2>4
<1>4. HandRefunds'
  BY <1>1 DEF SettleInv, Others, HandRefunds
<1> QED
  BY <1>1, <1>3, <1>4, QuietSides DEF Pays

\* A call for a bet the request belongs to, by the task or the operator.
LEMMA CallSides ==
  ASSUME SettleInv, UNCHANGED <<row, coinVars>>, byHand \subseteq byHand',
         NEW c \in Bets, NEW op \in {"WD", "REFUND"}, NEW amount \in Amount,
         NEW ok \in BOOLEAN, Call(c, op, amount, ok),
         Clean(c)' => IF op = "REFUND" THEN row[c].status \in Refunding
                      ELSE row[c].status \in Paying /\ ~Held(c),
         \A h \in Hands, b \in Bets : Pays(h, b)' => Pays(h, b)
  PROVE  Sides' /\ HeldOnce' /\ Returned'
<1> DEFINE m == [bet |-> c, op |-> op, amount |-> amount]
<1>1. op \in Op
  BY DEF Op
<1>2. /\ wallet \subseteq wallet' /\ Returned'
      /\ wallet' \subseteq wallet \cup {m} /\ flight' \subseteq flight \cup {m}
      /\ \A i \in TimeoutId : Named(i) => timeouts'[i] = timeouts[i]
      /\ \A i \in TimeoutId : Named(i)' => \/ Named(i)
                                           \/ /\ op # "REFUND"
                                              /\ timeouts'[i].bet = c
                                              /\ timeouts'[i].op = op
                                              /\ timeouts'[i].state = "young"
  BY <1>1, CallAdds DEF SettleInv, PaidInv, Others
<1>3. m.bet = c /\ m.op = op
  OBVIOUS
<1> HIDE DEF m
<1>4. Sides'
  <2> SUFFICES ASSUME NEW b \in Bets, Clean(b)'
               PROVE  Side(b)'
    BY DEF Sides
  <2>1. Side(b)
    BY DEF SettleInv, Sides, Clean, coinVars
  <2>2. \A o : Asked(b, o)' => Asked(b, o) \/ (b = c /\ o = op)
    BY <1>2, <1>3 DEF Asked
  <2>3. Waits(b)' = Waits(b) /\ Held(b)' = Held(b)
    BY DEF Waits, Held, coinVars
  <2>4. ASSUME NEW i \in TimeoutId, RowOf(i, b, "WD")'
        PROVE  /\ row[b].status \in Paying
               /\ ~Waits(b)'
               /\ timeouts'[i].state # "young" => ~Held(b)'
    <3>1. CASE Named(i)
      BY <1>2, <2>1, <2>3, <2>4, <3>1 DEF RowOf, Side, PaySide
    <3>2. CASE ~Named(i)
      BY <1>2, <2>3, <2>4, <3>2 DEF RowOf, Held
    <3> QED
      BY <3>1, <3>2
  <2>5. \A i \in TimeoutId : RowOf(i, b, "BET")' => RowOf(i, b, "BET")
    BY <1>2 DEF RowOf
  <2>6. /\ Asked(b, "REFUND")' => Asked(b, "REFUND") \/ row[b].status \in Refunding
        /\ Asked(b, "WD")' => Asked(b, "WD") \/ row[b].status \in Paying
    BY <2>2
  <2>7. UNCHANGED <<req, cancel>>
    BY DEF coinVars
  <2> QED
    BY <1>2, <2>1, <2>3, <2>4, <2>5, <2>6, <2>7, SideKept
<1>5. HeldOnce'
  BY DEF SettleInv, Others, HeldOnce, coinVars
<1> QED
  BY <1>2, <1>4, <1>5

LEMMA TaskCallSides ==
  ASSUME SettleInv, TaskCall, UNCHANGED coinVars
  PROVE  (Sides /\ Others)'
<1> DEFINE r == timeouts[task.cur]
           amount == IF r.op = "BET" THEN Stake ELSE task.copy.amount
<1>1. PICK ok \in BOOLEAN :
        /\ Call(r.bet, Asks(r), amount, ok)
        /\ task' = [task EXCEPT !.at = IF ok THEN "paid" ELSE "failed"]
  BY DEF TaskCall, Asks
<1>2. UNCHANGED <<row, payouts, hand, byHand>>
  BY DEF TaskCall
<1>3. /\ task.at = "call" /\ task.cur \in TimeoutId /\ Named(task.cur)
      /\ r.bet \in Bets /\ r \in TimeoutRow
      /\ r.state # "young" /\ row[r.bet].status # "NONE"
      /\ task \in [at : TaskAt, todo : SUBSET TimeoutId, cur : 0 .. MaxTimeouts,
                   copy : BetRow]
  <2>1. task.at = "call" /\ task.cur \in TimeoutId /\ Named(task.cur)
    BY DEF TaskCall, SettleInv, PaidInv, PayInv, TaskHolds
  <2>2. r.bet \in Bets
    BY <2>1 DEF SettleInv, PaidInv, PayInv, RowsNamed
  <2> QED
    BY <2>1, <2>2 DEF SettleInv, PaidInv, PayInv, PayTypeOK, Others, TaskOpen
<1>4. Asks(r) \in {"WD", "REFUND"} /\ amount \in Amount
  <2>1. Stake \in Amount /\ task.copy.amount \in Amount
    BY <1>3 DEF Amount, BetRow
  <2> QED
    BY <2>1 DEF Asks
<1>5. ASSUME Clean(r.bet)
      PROVE  IF Asks(r) = "REFUND" THEN row[r.bet].status \in Refunding
             ELSE row[r.bet].status \in Paying /\ ~Held(r.bet)
  <2>1. Side(r.bet)
    BY <1>3, <1>5 DEF SettleInv, Sides
  <2>2. r.op = "BET" => row[r.bet].status \in Refunding
    BY <1>3, <2>1 DEF Side, RefundSide, RowOf
  <2>3. r.op # "BET" => row[r.bet].status \in Paying /\ ~Held(r.bet)
    BY <1>3, <2>1 DEF Side, PaySide, RowOf, TimeoutRow
  <2> QED
    BY <2>2, <2>3 DEF Asks
<1>6. Sides' /\ HeldOnce' /\ Returned'
  <2> DEFINE c == r.bet
             op == Asks(r)
  <2>1. c \in Bets /\ op \in {"WD", "REFUND"} /\ Call(c, op, amount, ok)
    BY <1>1, <1>3, <1>4
  <2>2. Clean(c) => IF op = "REFUND" THEN row[c].status \in Refunding
                    ELSE row[c].status \in Paying /\ ~Held(c)
    BY <1>5
  <2>3. PICK d \in Bets, o \in {"WD", "REFUND"} :
          /\ Call(d, o, amount, ok)
          /\ Clean(d) => IF o = "REFUND" THEN row[d].status \in Refunding
                         ELSE row[d].status \in Paying /\ ~Held(d)
    BY <2>1, <2>2
  <2>4. Clean(d)' = Clean(d)
    BY <1>2 DEF Clean, coinVars
  <2>5. \A h \in Hands, b \in Bets : Pays(h, b)' => Pays(h, b)
    BY <1>2 DEF Pays
  <2> HIDE DEF amount, c, op
  <2> QED
    BY <1>2, <1>4, <2>3, <2>4, <2>5, CallSides
<1>7. TaskOpen'
  <2>1. task'.todo = task.todo /\ task'.cur = task.cur
    BY <1>1, <1>3
  <2>2. \A i \in TimeoutId : Named(i) => timeouts'[i] = timeouts[i]
    <3>1. Asks(r) \in Op
      BY <1>4 DEF Op
    <3> QED
      BY <1>1, <1>3, <1>4, <3>1, CallResult DEF SettleInv, PaidInv, PayInv, RowsNamed
  <2>3. \A i \in task.todo : i \in TimeoutId /\ Named(i)
    BY DEF SettleInv, PaidInv, PayInv, PayTypeOK, TaskHolds
  <2> QED
    BY <1>2, <1>3, <2>1, <2>2, <2>3 DEF SettleInv, Others, TaskOpen
<1>8. HandRefunds'
  BY <1>2 DEF SettleInv, Others, HandRefunds
<1> QED
  BY <1>6, <1>7, <1>8 DEF Others

\* An end status is written over a bet of its side, and of no bet that is held.
Ends(c, s) ==
  /\ row'[c].status = s
  /\ \A b \in Bets \ {c} : row'[b] = row[b]
  /\ Clean(c) => \/ s = "CANCEL" /\ row[c].status \in Refunding
                 \/ s = "WT_DONE" /\ row[c].status \in Paying /\ ~Held(c)

LEMMA WriteSides ==
  ASSUME SettleInv, UNCHANGED <<wallet, flight, timeouts, byHand>>, UNCHANGED coinVars,
         NEW c \in Bets, NEW s \in {"CANCEL", "WT_DONE", "REFUND"}, Ends(c, s),
         \A h \in Hands, b \in Bets : Pays(h, b)' => Pays(h, b)
  PROVE  Sides' /\ HeldOnce' /\ Returned'
<1> USE DEF Ends
<1>1. Sides'
  <2> SUFFICES ASSUME NEW b \in Bets, Clean(b)'
               PROVE  Side(b)'
    BY DEF Sides
  <2>1. Side(b) /\ Clean(b)
    BY DEF SettleInv, Sides, Clean, coinVars
  <2>2. Waits(b)' = Waits(b) /\ Held(b)' = Held(b)
    BY DEF Waits, Held, coinVars
  <2>3. \A o : Asked(b, o)' = Asked(b, o)
    BY DEF Asked
  <2>4. \A i \in TimeoutId : \A o : RowOf(i, b, o)' = RowOf(i, b, o)
    BY DEF RowOf, Named
  <2>5. UNCHANGED <<req, cancel>>
    BY DEF coinVars
  <2>6. CASE b = c /\ s = "CANCEL" /\ row[c].status \in Refunding
    <3>1. row[b].status \in Refunding /\ row'[b].status = "CANCEL"
      BY <2>6
    <3>2. RequestSide(b)'
      BY <2>1, <2>5, <3>1, Stays DEF Side, RequestSide, Refunding, Paying
    <3>3. RefundSide(b)'
      BY <2>1, <2>3, <2>4, <2>5, <3>1 DEF Side, RefundSide, Refunding
    <3>4. PaySide(b)'
      BY <2>1, <2>2, <2>3, <2>4, <3>1 DEF Side, PaySide, Refunding, Paying
    <3> QED
      BY <3>2, <3>3, <3>4 DEF Side
  <2>7. CASE b = c /\ s = "WT_DONE" /\ row[c].status \in Paying /\ ~Held(c)
    BY <2>1, <2>2, <2>5, <2>7, SidePaid
  <2>8. CASE b # c
    <3>1. row'[b] = row[b]
      BY <2>8
    <3>2. ASSUME NEW i \in TimeoutId, RowOf(i, b, "WD")'
          PROVE  /\ row[b].status \in Paying
                 /\ ~Waits(b)'
                 /\ timeouts'[i].state # "young" => ~Held(b)'
      BY <2>1, <2>2, <2>4, <3>2 DEF Side, PaySide
    <3> QED
      BY <2>1, <2>2, <2>3, <2>4, <2>5, <3>1, <3>2, SideKept
  <2> QED
    BY <2>1, <2>6, <2>7, <2>8
<1>2. HeldOnce'
  BY DEF SettleInv, Others, HeldOnce, coinVars
<1>3. Returned'
  BY Stays DEF SettleInv, Others, Returned
<1> QED
  BY <1>1, <1>2, <1>3

LEMMA TaskWriteEnds ==
  ASSUME SettleInv, TaskWrite
  PROVE  \E c \in Bets, s \in {"CANCEL", "WT_DONE"} : Ends(c, s)
<1> DEFINE r == timeouts[task.cur]
           new == IF r.op = "BET" THEN "CANCEL" ELSE "WT_DONE"
<1>1. /\ task.at = "paid"
      /\ row' = [row EXCEPT ![r.bet] = [task.copy EXCEPT !.status = new]]
      /\ task' = [task EXCEPT !.at = "mark"]
      /\ UNCHANGED <<payouts, wallet, flight, timeouts, last, hand, byHand>>
  BY DEF TaskWrite
<1>2. /\ task.cur \in TimeoutId /\ Named(task.cur)
      /\ r.bet \in Bets /\ r \in TimeoutRow
      /\ r.state # "young" /\ row[r.bet].status # "NONE"
      /\ task \in [at : TaskAt, todo : SUBSET TimeoutId, cur : 0 .. MaxTimeouts,
                   copy : BetRow]
      /\ row \in [Bets -> BetRow]
  <2>1. task.cur \in TimeoutId /\ Named(task.cur)
    BY <1>1 DEF SettleInv, PaidInv, PayInv, TaskHolds
  <2>2. r.bet \in Bets
    BY <2>1 DEF SettleInv, PaidInv, PayInv, RowsNamed
  <2> QED
    BY <1>1, <2>1, <2>2 DEF SettleInv, PaidInv, PayInv, PayTypeOK, Others, TaskOpen
<1>3. /\ row'[r.bet].status = new
      /\ \A b \in Bets \ {r.bet} : row'[b] = row[b]
  <2>1. new \in Status
    BY DEF Status
  <2>2. [task.copy EXCEPT !.status = new].status = new
    BY <1>2, <2>1, RowType
  <2> QED
    BY <1>1, <1>2, <2>2
<1>4. ASSUME Clean(r.bet)
      PROVE  \/ new = "CANCEL" /\ row[r.bet].status \in Refunding
             \/ new = "WT_DONE" /\ row[r.bet].status \in Paying /\ ~Held(r.bet)
  <2>1. Side(r.bet)
    BY <1>2, <1>4 DEF SettleInv, Sides
  <2>2. r.op = "BET" => row[r.bet].status \in Refunding
    BY <1>2, <2>1 DEF Side, RefundSide, RowOf
  <2>3. r.op # "BET" => row[r.bet].status \in Paying /\ ~Held(r.bet)
    BY <1>2, <2>1 DEF Side, PaySide, RowOf, TimeoutRow
  <2> QED
    BY <2>2, <2>3
<1> QED
  BY <1>2, <1>3, <1>4 DEF Ends

LEMMA TaskWriteSides ==
  ASSUME SettleInv, TaskWrite, UNCHANGED coinVars
  PROVE  (Sides /\ Others)'
<1>1. /\ task.at = "paid" /\ task' = [task EXCEPT !.at = "mark"]
      /\ UNCHANGED <<payouts, wallet, flight, timeouts, last, hand, byHand>>
  BY DEF TaskWrite
<1>2. PICK c \in Bets, s \in {"CANCEL", "WT_DONE"} : Ends(c, s)
  BY TaskWriteEnds
<1>3. Sides' /\ HeldOnce' /\ Returned'
  BY <1>1, <1>2, WriteSides DEF Pays
<1>4. TaskOpen'
  <2>1. task'.todo = task.todo /\ task'.cur = task.cur
    BY <1>1 DEF SettleInv, PaidInv, PayInv, PayTypeOK
  <2>2. timeouts[task.cur].bet \in Bets
    BY <1>1 DEF SettleInv, PaidInv, PayInv, TaskHolds, RowsNamed
  <2>3. \A b \in Bets : row[b].status # "NONE" => row'[b].status # "NONE"
    BY <1>2 DEF Ends
  <2> QED
    BY <1>1, <2>1, <2>2, <2>3 DEF SettleInv, Others, TaskOpen
<1>5. HandRefunds'
  BY <1>1 DEF SettleInv, Others, HandRefunds
<1> QED
  BY <1>3, <1>4, <1>5 DEF Others

LEMMA TaskMarkSides ==
  ASSUME SettleInv, TaskMark, UNCHANGED coinVars
  PROVE  (Sides /\ Others)'
<1> DEFINE r == timeouts[task.cur]
           state == IF task.at = "mark" THEN "done"
                    ELSE IF r.count + 1 >= Retries(r.op) THEN "dead" ELSE r.state
           new == [bet |-> r.bet, op |-> r.op, count |-> r.count + 1, state |-> state]
<1>1. /\ task.at \in {"mark", "failed"}
      /\ timeouts' = [timeouts EXCEPT ![task.cur] = new]
      /\ task' = [task EXCEPT !.at = "next"]
      /\ UNCHANGED <<row, payouts, wallet, flight, last, hand, byHand>>
  BY DEF TaskMark
<1>2. /\ task.cur \in TimeoutId /\ Named(task.cur) /\ r.state # "young"
      /\ task \in [at : TaskAt, todo : SUBSET TimeoutId, cur : 0 .. MaxTimeouts,
                   copy : BetRow]
      /\ timeouts \in [TimeoutId -> TimeoutRow]
  BY <1>1 DEF SettleInv, PaidInv, PayInv, PayTypeOK, TaskHolds, Others, TaskOpen
<1>3. state # "young" /\ state # "none"
  BY <1>2 DEF Named
<1>4. /\ timeouts'[task.cur] = new
      /\ \A i \in TimeoutId : i # task.cur => timeouts'[i] = timeouts[i]
  BY <1>1, <1>2
<1>5. \A i \in TimeoutId : /\ timeouts'[i].bet = timeouts[i].bet
                          /\ timeouts'[i].op = timeouts[i].op
                          /\ (timeouts'[i].state # "none") = Named(i)
                          /\ (timeouts'[i].state # "young") = (timeouts[i].state # "young")
  <2> HIDE DEF state
  <2>1. /\ new.bet = r.bet /\ new.op = r.op /\ new.state = state
    OBVIOUS
  <2> QED
    BY <1>2, <1>3, <1>4, <2>1 DEF Named
<1>6. Sides'
  <2> SUFFICES ASSUME NEW b \in Bets, Clean(b)'
               PROVE  Side(b)'
    BY DEF Sides
  <2>1. Side(b)
    BY <1>1 DEF SettleInv, Sides, Clean, coinVars
  <2>2. Waits(b)' = Waits(b) /\ Held(b)' = Held(b)
    BY DEF Waits, Held, coinVars
  <2>3. \A i \in TimeoutId : \A o : RowOf(i, b, o)' => RowOf(i, b, o)
    BY <1>5 DEF RowOf, Named
  <2>4. ASSUME NEW i \in TimeoutId, RowOf(i, b, "WD")'
        PROVE  /\ row[b].status \in Paying
               /\ ~Waits(b)'
               /\ timeouts'[i].state # "young" => ~Held(b)'
    BY <1>5, <2>1, <2>2, <2>3, <2>4 DEF Side, PaySide
  <2> HIDE DEF new
  <2> QED
    BY <1>1, <2>1, <2>2, <2>3, <2>4, SideKept DEF coinVars, Pays, Asked
<1>7. TaskOpen'
  <2>1. task'.todo = task.todo /\ task'.at = "next"
    BY <1>1, <1>2
  <2> HIDE DEF new
  <2> QED
    BY <1>2, <1>5, <2>1 DEF SettleInv, Others, TaskOpen
<1>8. HeldOnce' /\ Returned' /\ HandRefunds'
  BY <1>1, Stays DEF SettleInv, Others, HeldOnce, HandRefunds, Returned, coinVars
<1> QED
  BY <1>6, <1>7, <1>8 DEF Others

(***************************************************************************)
(* The operator.                                                           *)
(***************************************************************************)

LEMMA ShowPageSides ==
  ASSUME SettleInv, NEW h \in Hands, ShowPage(h), UNCHANGED coinVars
  PROVE  (Sides /\ Others)'
<1>1. PICK c \in Bets, op \in {"WD", "REFUND"} :
        /\ row[c].status = "WT_FAILED" \/ op = "REFUND"
        /\ hand' = [hand EXCEPT ![h] =
                      [at |-> "page", op |-> op, bet |-> c, copy |-> NoRow]]
  BY DEF ShowPage
<1>2. /\ hand \in [Hands -> HandRow]
      /\ UNCHANGED <<row, wallet, flight, timeouts, task, byHand>>
  BY DEF ShowPage, SettleInv, PaidInv, PayInv, PayTypeOK, HandRow
<1>3. /\ \A k \in Hands : k # h => hand'[k] = hand[k]
      /\ hand'[h].at = "page" /\ hand'[h].op = op /\ hand'[h].bet = c
  BY <1>1, <1>2
<1>4. \A k \in Hands, b \in Bets : Pays(k, b)' => Pays(k, b) \/ row[b].status = "WT_FAILED"
  BY <1>1, <1>3 DEF Pays
<1>5. TaskOpen' /\ HandRefunds'
  BY <1>2, <1>3 DEF SettleInv, Others, TaskOpen, HandRefunds
<1> QED
  BY <1>2, <1>4, <1>5, QuietSides

\* The order goes on, without a call or a write of the bet.
LEMMA OrderGoesOn ==
  ASSUME SettleInv, NEW h \in Hands, UNCHANGED coinVars,
         ManualLoad(h) \/ ManualRecord(h) \/ ManualDies(h)
  PROVE  (Sides /\ Others)'
<1>1. /\ hand \in [Hands -> HandRow]
      /\ UNCHANGED <<row, wallet, flight, timeouts, last, task, byHand>>
  BY DEF ManualLoad, ManualRecord, ManualDies, SettleInv, PaidInv, PayInv, PayTypeOK, HandRow
<1>2. /\ \A k \in Hands : k # h => hand'[k] = hand[k]
      /\ hand'[h].op = hand[h].op /\ hand'[h].bet = hand[h].bet
      /\ hand[h].at \in {"page", "call", "paid", "write"}
      /\ hand'[h].at = "write" => hand[h].at = "paid"
  <2>1. CASE ManualLoad(h)
    BY <1>1, <2>1 DEF ManualLoad, HandRow
  <2>2. CASE ManualRecord(h)
    BY <1>1, <2>2 DEF ManualRecord, HandRow
  <2>3. CASE ManualDies(h)
    BY <1>1, <2>3 DEF ManualDies, HandRow
  <2> QED
    BY <2>1, <2>2, <2>3
<1>3. \A k \in Hands, b \in Bets : Pays(k, b)' => Pays(k, b)
  BY <1>2 DEF Pays
<1>4. hand[h].at = "paid" => hand[h].op = "WD"
  BY DEF SettleInv, PaidInv, PayInv, HandHolds
<1>5. TaskOpen' /\ HandRefunds'
  BY <1>1, <1>2, <1>4 DEF SettleInv, Others, TaskOpen, HandRefunds
<1> QED
  BY <1>1, <1>3, <1>5, QuietSides

LEMMA ManualCallSides ==
  ASSUME SettleInv, NEW h \in Hands, ManualCall(h), UNCHANGED coinVars
  PROVE  (Sides /\ Others)'
<1> DEFINE o == hand[h]
           amount == IF o.op = "WD" THEN o.copy.amount ELSE Stake
           at(ok) == IF ~ok THEN "done" ELSE IF o.op = "WD" THEN "paid" ELSE "write"
<1>1. PICK ok \in BOOLEAN : /\ Call(o.bet, o.op, amount, ok)
                            /\ hand' = [hand EXCEPT ![h].at = at(ok)]
  BY DEF ManualCall
<1>2. /\ hand \in [Hands -> HandRow] /\ o.at = "call" /\ o.bet \in Bets
      /\ UNCHANGED <<row, payouts, task>>
      /\ byHand' = IF o.op = "REFUND" THEN byHand \cup {o.bet} ELSE byHand
  BY DEF ManualCall, SettleInv, PaidInv, PayInv, PayTypeOK, HandHolds, HandRow
<1>3. o.op \in {"WD", "REFUND"} /\ o.op \in Op /\ amount \in Amount
  BY <1>2 DEF HandRow, BetRow, Amount, Op
<1>4. ASSUME o.bet \notin byHand' \cup lost'
      PROVE  o.op = "WD" /\ row[o.bet].status \in Paying /\ ~Held(o.bet)
  <2>1. o.op = "WD" /\ Clean(o.bet)
    BY <1>2, <1>3, <1>4 DEF Clean, coinVars
  <2>2. Side(o.bet)
    BY <1>2, <2>1 DEF SettleInv, Sides
  <2>3. Pays(h, o.bet)
    BY <1>2, <2>1 DEF Pays
  <2> QED
    BY <2>1, <2>2, <2>3 DEF Side, PaySide, Paying
<1>5. /\ \A k \in Hands : k # h => hand'[k] = hand[k]
      /\ hand'[h].op = o.op /\ hand'[h].bet = o.bet
  BY <1>1, <1>2 DEF HandRow
<1>6. Sides' /\ HeldOnce' /\ Returned'
  <2>1. PICK d \in Bets, q \in {"WD", "REFUND"} :
          /\ Call(d, q, amount, ok)
          /\ Clean(d)' => IF q = "REFUND" THEN row[d].status \in Refunding
                          ELSE row[d].status \in Paying /\ ~Held(d)
    <3>1. o.bet \notin byHand' \cup lost'
            => IF o.op = "REFUND" THEN row[o.bet].status \in Refunding
               ELSE row[o.bet].status \in Paying /\ ~Held(o.bet)
      BY <1>4
    <3>2. PICK d \in Bets, q \in {"WD", "REFUND"} : d = o.bet /\ q = o.op
      BY <1>2, <1>3
    <3> QED
      BY <1>1, <3>1, <3>2 DEF Clean
  <2>2. byHand \subseteq byHand'
    BY <1>2
  <2>3. \A k \in Hands, b \in Bets : Pays(k, b)' => Pays(k, b)
    BY <1>2, <1>5 DEF Pays
  <2> HIDE DEF amount
  <2> QED
    BY <1>2, <1>3, <2>1, <2>2, <2>3, CallSides
<1>7. TaskOpen'
  <2>1. \A i \in TimeoutId : Named(i) => timeouts'[i] = timeouts[i]
    <3> HIDE DEF amount
    <3> QED
      BY <1>1, <1>2, <1>3, CallResult DEF SettleInv, PaidInv, PayInv, RowsNamed
  <2>2. \A i \in task.todo : i \in TimeoutId /\ Named(i)
    BY DEF SettleInv, PaidInv, PayInv, PayTypeOK, TaskHolds
  <2>3. task.at \in {"call", "paid", "mark", "failed"}
          => timeouts'[task.cur] = timeouts[task.cur]
    BY <2>1 DEF SettleInv, PaidInv, PayInv, TaskHolds
  <2> QED
    BY <1>2, <2>1, <2>2, <2>3 DEF SettleInv, Others, TaskOpen
<1>8. HandRefunds'
  BY <1>2, <1>5 DEF SettleInv, Others, HandRefunds
<1> QED
  BY <1>6, <1>7, <1>8 DEF Others

LEMMA ManualWriteEnds ==
  ASSUME SettleInv, NEW h \in Hands, ManualWrite(h)
  PROVE  \E c \in Bets, s \in {"REFUND", "WT_DONE"} : Ends(c, s)
<1> DEFINE o == hand[h]
           new == IF o.op = "WD" THEN "WT_DONE" ELSE "REFUND"
<1>1. /\ o.at = "write"
      /\ row' = [row EXCEPT ![o.bet] = [o.copy EXCEPT !.status = new]]
      /\ hand' = [hand EXCEPT ![h].at = "done"]
      /\ UNCHANGED <<payouts, wallet, flight, timeouts, last, task, byHand>>
  BY DEF ManualWrite
<1>2. /\ hand \in [Hands -> HandRow] /\ row \in [Bets -> BetRow] /\ o.bet \in Bets
      /\ o.op \in {"WD", "REFUND"} /\ o.copy \in BetRow
  BY <1>1 DEF SettleInv, PaidInv, PayInv, PayTypeOK, HandHolds, HandRow
<1>3. /\ row'[o.bet].status = new
      /\ \A b \in Bets \ {o.bet} : row'[b] = row[b]
  <2>1. new \in Status
    BY DEF Status
  <2>2. [o.copy EXCEPT !.status = new].status = new
    BY <1>2, <2>1, RowType
  <2> QED
    BY <1>1, <1>2, <2>2
<1>4. ASSUME Clean(o.bet)
      PROVE  new = "WT_DONE" /\ row[o.bet].status \in Paying /\ ~Held(o.bet)
  <2>1. o.op = "WD"
    BY <1>1, <1>2, <1>4 DEF Clean, SettleInv, Others, HandRefunds
  <2>2. Side(o.bet)
    BY <1>2, <1>4 DEF SettleInv, Sides
  <2>3. Pays(h, o.bet)
    BY <1>1, <2>1 DEF Pays
  <2> QED
    BY <2>1, <2>2, <2>3 DEF Side, PaySide, Paying
<1> QED
  BY <1>2, <1>3, <1>4 DEF Ends

LEMMA ManualWriteSides ==
  ASSUME SettleInv, NEW h \in Hands, ManualWrite(h), UNCHANGED coinVars
  PROVE  (Sides /\ Others)'
<1>1. /\ hand \in [Hands -> HandRow]
      /\ hand' = [hand EXCEPT ![h].at = "done"]
      /\ UNCHANGED <<payouts, wallet, flight, timeouts, last, task, byHand>>
  BY DEF ManualWrite, SettleInv, PaidInv, PayInv, PayTypeOK, HandRow
<1>2. /\ \A k \in Hands : k # h => hand'[k] = hand[k]
      /\ hand'[h].at = "done"
  BY <1>1 DEF HandRow
<1>3. PICK c \in Bets, s \in {"REFUND", "WT_DONE"} : Ends(c, s)
  BY ManualWriteEnds
<1>4. Sides' /\ HeldOnce' /\ Returned'
  BY <1>1, <1>2, <1>3, WriteSides DEF Pays
<1>5. TaskOpen'
  <2>1. \A b \in Bets : row[b].status # "NONE" => row'[b].status # "NONE"
    BY <1>3 DEF Ends
  <2>2. task.at \in {"call", "paid", "mark", "failed"} => timeouts[task.cur].bet \in Bets
    BY DEF SettleInv, PaidInv, PayInv, TaskHolds, RowsNamed
  <2> QED
    BY <1>1, <2>1, <2>2 DEF SettleInv, Others, TaskOpen
<1>6. HandRefunds'
  BY <1>1, <1>2 DEF SettleInv, Others, HandRefunds
<1> QED
  BY <1>4, <1>5, <1>6 DEF Others

(***************************************************************************)
(* The coin game: bets and cancels.                                        *)
(***************************************************************************)

\* A step of the game leaves task and operator alone.
LEMMA GameKeeps ==
  ASSUME SettleInv, UNCHANGED <<task, hand, byHand>>,
         \A i \in TimeoutId : Named(i) => timeouts'[i] = timeouts[i],
         \A b \in Bets : row[b].status # "NONE" => row'[b].status # "NONE"
  PROVE  TaskOpen' /\ HandRefunds'
<1>1. /\ \A i \in task.todo : i \in TimeoutId /\ Named(i)
      /\ task.at \in {"call", "paid", "mark", "failed"}
           => /\ task.cur \in TimeoutId /\ Named(task.cur)
              /\ timeouts[task.cur].bet \in Bets
  BY DEF SettleInv, PaidInv, PayInv, PayTypeOK, TaskHolds, RowsNamed
<1>2. TaskOpen'
  BY <1>1 DEF SettleInv, Others, TaskOpen
<1>3. HandRefunds'
  BY DEF SettleInv, Others, HandRefunds
<1> QED
  BY <1>2, <1>3

LEMMA BetCallSides ==
  ASSUME SettleInv, NEW c \in Bets, BetCall(c)
  PROVE  (Sides /\ Others)'
<1>1. PICK ok \in BOOLEAN :
        /\ Call(c, "BET", Stake, ok)
        /\ req' = [req EXCEPT ![c] = IF ok THEN "paid" ELSE "declined"]
  BY DEF BetCall
<1>2. /\ UNCHANGED <<row, payouts, task, hand, byHand, open, cancel, queue, answers, drops,
                     lost, dropped>>
      /\ req[c] = "idle"
  BY DEF BetCall
<1> DEFINE m == [bet |-> c, op |-> "BET", amount |-> Stake]
<1>3. /\ wallet \subseteq wallet' /\ Returned' /\ (ok => Applied(c, "BET")')
      /\ wallet' \subseteq wallet \cup {m} /\ flight' \subseteq flight \cup {m}
      /\ \A i \in TimeoutId : Named(i) => timeouts'[i] = timeouts[i]
      /\ \A i \in TimeoutId : Named(i)' => \/ Named(i)
                                           \/ /\ ~ok
                                              /\ timeouts'[i].bet = c
                                              /\ timeouts'[i].op = "BET"
                                              /\ timeouts'[i].state = "young"
  <2>1. "BET" \in Op /\ Stake \in Amount
    BY DEF Op, Amount
  <2> QED
    BY <1>1, <2>1, CallAdds DEF SettleInv, PaidInv, Others
<1>4. m.bet = c /\ m.op = "BET"
  OBVIOUS
<1> HIDE DEF m
<1>5. Sides'
  <2> SUFFICES ASSUME NEW b \in Bets, Clean(b)'
               PROVE  Side(b)'
    BY DEF Sides
  <2>1. Side(b)
    BY <1>2 DEF SettleInv, Sides, Clean
  <2>2. /\ Asked(b, "REFUND")' => Asked(b, "REFUND")
        /\ Asked(b, "WD")' => Asked(b, "WD")
    BY <1>3, <1>4 DEF Asked
  <2>3. Waits(b)' = Waits(b) /\ Held(b)' = Held(b)
    BY <1>2 DEF Waits, Held
  <2>4. \A h \in Hands : Pays(h, b)' = Pays(h, b)
    BY <1>2 DEF Pays
  <2>5. \A i \in TimeoutId : RowOf(i, b, "WD")' => RowOf(i, b, "WD") /\ timeouts'[i] = timeouts[i]
    BY <1>3 DEF RowOf
  <2>6. \A i \in TimeoutId : RowOf(i, b, "BET")' => RowOf(i, b, "BET") \/ (b = c /\ ~ok)
    BY <1>3 DEF RowOf
  <2>7. PaySide(b)'
    BY <1>2, <2>1, <2>2, <2>3, <2>4, <2>5 DEF Side, PaySide
  <2>8. CASE b = c
    <3>1. row[b].status = "NONE" /\ req'[b] = IF ok THEN "paid" ELSE "declined"
      BY <1>1, <1>2, <2>1, <2>8
         DEF Side, RequestSide, SettleInv, PaidInv, CoinInv, CoinTypeOK
    <3>2. RequestSide(b)'
      BY <1>2, <1>3, <2>8, <3>1 DEF RequestSide, Paying
    <3>3. RefundSide(b)'
      BY <1>2, <2>1, <2>2, <2>6, <2>8, <3>1 DEF Side, RefundSide
    <3> QED
      BY <2>7, <3>2, <3>3 DEF Side
  <2>9. CASE b # c
    <3>1. req'[b] = req[b]
      BY <1>1, <2>9 DEF SettleInv, PaidInv, CoinInv, CoinTypeOK
    <3>2. RequestSide(b)'
      BY <1>2, <1>3, <2>1, <3>1, Stays DEF Side, RequestSide
    <3>3. RefundSide(b)'
      BY <1>2, <2>1, <2>2, <2>6, <2>9, <3>1 DEF Side, RefundSide
    <3> QED
      BY <2>7, <3>2, <3>3 DEF Side
  <2> QED
    BY <2>8, <2>9
<1>6. TaskOpen' /\ HandRefunds'
  BY <1>2, <1>3, GameKeeps
<1>7. HeldOnce'
  BY <1>2 DEF SettleInv, Others, HeldOnce
<1> QED
  BY <1>3, <1>5, <1>6, <1>7 DEF Others

\* Only the bet c, its requests and the sets of lost bets change.
LEMMA OneBetSides ==
  ASSUME SettleInv, NEW c \in Bets,
         UNCHANGED <<wallet, flight, timeouts, task, hand, byHand, open, queue, answers>>,
         lost \subseteq lost',
         \A b \in Bets \ {c} : row'[b] = row[b] /\ req'[b] = req[b] /\ cancel'[b] = cancel[b],
         row[c].status # "NONE" => row'[c].status # "NONE",
         (Clean(c))' => (Side(c))'
  PROVE  (Sides /\ Others)'
<1>1. Sides'
  <2> SUFFICES ASSUME NEW b \in Bets, Clean(b)', b # c
               PROVE  Side(b)'
    BY DEF Sides
  <2>1. Side(b)
    BY DEF SettleInv, Sides, Clean
  <2> QED
    BY <2>1, SideKept DEF RowOf, Named, Waits, Held, Asked, Pays, Side, PaySide
<1>2. TaskOpen' /\ HandRefunds'
  BY GameKeeps
<1>3. HeldOnce' /\ Returned'
  BY Stays DEF SettleInv, Others, HeldOnce, Returned
<1> QED
  BY <1>1, <1>2, <1>3 DEF Others

LEMMA BetCommitSides ==
  ASSUME SettleInv, NEW c \in Bets, BetCommit(c)
  PROVE  (Sides /\ Others)'
<1>1. /\ UNCHANGED <<payouts, wallet, flight, timeouts, last, task, hand, byHand,
                     open, cancel, queue, answers, drops, lost, dropped>>
      /\ req' = [req EXCEPT ![c] = "over"]
      /\ req[c] \in {"paid", "declined"}
      /\ \/ UNCHANGED row
         \/ row' = [row EXCEPT ![c] =
                      [status |-> IF req[c] = "paid" THEN "BET_DONE" ELSE "BET_FAILED",
                       amount |-> 0]]
  BY DEF BetCommit
<1>2. row \in [Bets -> BetRow] /\ req \in [Bets -> ReqAt]
  BY DEF SettleInv, PaidInv, PayInv, PayTypeOK, CoinInv, CoinTypeOK
<1>3. /\ \A b \in Bets \ {c} : row'[b] = row[b] /\ req'[b] = req[b]
      /\ req'[c] = "over"
      /\ \/ row'[c] = row[c]
         \/ row'[c].status = IF req[c] = "paid" THEN "BET_DONE" ELSE "BET_FAILED"
  BY <1>1, <1>2
<1>4. ASSUME (Clean(c))'
      PROVE  (Side(c))'
  <2>1. Side(c)
    BY <1>1, <1>4 DEF SettleInv, Sides, Clean
  <2>2. row[c].status = "NONE" /\ (req[c] = "paid" => Applied(c, "BET"))
    BY <1>1, <2>1 DEF Side, RequestSide
  <2>3. cancel[c] \notin {"call", "refunded"} /\ ~Asked(c, "REFUND")
        /\ (req[c] = "paid" => \A i \in TimeoutId : ~RowOf(i, c, "BET"))
    BY <2>1, <2>2 DEF Side, RefundSide, Refunding
  <2>4. /\ ~Held(c) /\ ~Asked(c, "WD")
        /\ \A i \in TimeoutId : ~RowOf(i, c, "WD")
        /\ \A h \in Hands : ~Pays(h, c)
    BY <2>1, <2>2 DEF Side, PaySide, Paying
  <2>5. /\ Held(c)' = Held(c) /\ (\A o : Asked(c, o)' = Asked(c, o))
        /\ \A i \in TimeoutId : \A o : RowOf(i, c, o)' = RowOf(i, c, o)
        /\ \A h \in Hands : Pays(h, c)' = Pays(h, c)
    BY <1>1 DEF Held, Waits, Asked, RowOf, Named, Pays
  <2>6. RequestSide(c)'
    BY <1>1, <1>3, <2>1, <2>2, Stays DEF RequestSide, Side, Paying
  <2>7. RefundSide(c)'
    BY <1>1, <1>3, <2>2, <2>3, <2>5 DEF RefundSide, Refunding
  <2>8. PaySide(c)'
    BY <2>4, <2>5 DEF PaySide
  <2> QED
    BY <2>6, <2>7, <2>8 DEF Side
<1>5. row[c].status # "NONE" => row'[c].status # "NONE"
  BY <1>3
<1> QED
  BY <1>1, <1>3, <1>4, <1>5, OneBetSides

LEMMA CancelLoadSides ==
  ASSUME SettleInv, NEW c \in Bets, CancelLoad(c)
  PROVE  (Sides /\ Others)'
<1>1. /\ UNCHANGED <<row, payouts, wallet, flight, timeouts, last, task, hand, byHand,
                     open, req, queue, answers, drops, unheard, lost, dropped>>
      /\ cancel' = [cancel EXCEPT ![c] = "call"]
      /\ cancel[c] = "idle" /\ row[c].status = "BET_DONE"
  BY DEF CancelLoad, payVars
<1>2. /\ \A b \in Bets \ {c} : cancel'[b] = cancel[b]
      /\ cancel'[c] = "call"
  BY <1>1 DEF SettleInv, PaidInv, CoinInv, CoinTypeOK
<1>3. ASSUME (Clean(c))'
      PROVE  (Side(c))'
  <2>1. Side(c)
    BY <1>1, <1>3 DEF SettleInv, Sides, Clean
  <2>2. RequestSide(c)'
    BY <1>1, <2>1, Stays DEF RequestSide, Side
  <2>3. RefundSide(c)'
    BY <1>1, <1>2, <2>1 DEF RefundSide, Side, Refunding, RowOf, Named, Asked
  <2>4. PaySide(c)'
    BY <1>1, <2>1 DEF PaySide, Side, RowOf, Named, Asked, Held, Waits, Pays
  <2> QED
    BY <2>2, <2>3, <2>4 DEF Side
<1> QED
  BY <1>1, <1>2, <1>3, OneBetSides

LEMMA CancelCallSides ==
  ASSUME SettleInv, NEW c \in Bets, CancelCall(c)
  PROVE  (Sides /\ Others)'
<1> DEFINE m == [bet |-> c, op |-> "REFUND", amount |-> Stake]
<1>1. PICK ok \in BOOLEAN :
        /\ Call(c, "REFUND", Stake, ok)
        /\ cancel' = [cancel EXCEPT ![c] = IF ok THEN "refunded" ELSE "over"]
        /\ lost' = IF ~ok /\ (m \in wallet' \/ m \in flight') THEN lost \cup {c} ELSE lost
  BY DEF CancelCall
<1>2. /\ UNCHANGED <<row, payouts, task, hand, byHand, open, req, queue, answers, drops,
                     unheard, dropped>>
      /\ cancel[c] = "call"
  BY DEF CancelCall
<1>3. /\ wallet \subseteq wallet' /\ Returned'
      /\ wallet' \subseteq wallet \cup {m} /\ flight' \subseteq flight \cup {m}
      /\ \A i \in TimeoutId : Named(i) => timeouts'[i] = timeouts[i]
      /\ \A i \in TimeoutId : Named(i)' => Named(i)
  <2>1. "REFUND" \in Op /\ Stake \in Amount
    BY DEF Op, Amount
  <2> QED
    BY <1>1, <2>1, CallAdds DEF SettleInv, PaidInv, Others
<1>4. m.bet = c /\ m.op = "REFUND"
  OBVIOUS
<1> HIDE DEF m
<1>5. /\ \A b \in Bets \ {c} : cancel'[b] = cancel[b]
      /\ cancel'[c] = IF ok THEN "refunded" ELSE "over"
  BY <1>1 DEF SettleInv, PaidInv, CoinInv, CoinTypeOK
<1>6. Sides'
  <2> SUFFICES ASSUME NEW b \in Bets, Clean(b)'
               PROVE  Side(b)'
    BY DEF Sides
  <2>1. Side(b)
    BY <1>1, <1>2 DEF SettleInv, Sides, Clean
  <2>2. Asked(b, "WD")' => Asked(b, "WD")
    BY <1>3, <1>4 DEF Asked
  <2>3. Waits(b)' = Waits(b) /\ Held(b)' = Held(b)
    BY <1>2 DEF Waits, Held
  <2>4. \A h \in Hands : Pays(h, b)' = Pays(h, b)
    BY <1>2 DEF Pays
  <2>5. \A i \in TimeoutId : \A o : RowOf(i, b, o)' => RowOf(i, b, o) /\ timeouts'[i] = timeouts[i]
    BY <1>3 DEF RowOf
  <2>6. PaySide(b)'
    BY <1>2, <2>1, <2>2, <2>3, <2>4, <2>5 DEF Side, PaySide
  <2>7. RequestSide(b)'
    BY <1>2, <1>3, <2>1, Stays DEF Side, RequestSide
  <2>8. RefundSide(b)'
    <3>1. CASE b # c
      <4>1. Asked(b, "REFUND")' => Asked(b, "REFUND")
        BY <1>3, <1>4, <3>1 DEF Asked
      <4> QED
        BY <1>2, <1>5, <2>1, <2>5, <3>1, <4>1 DEF Side, RefundSide
    <3>2. CASE b = c
      <4>1. row[b].status = "BET_DONE"
        BY <1>2, <2>1, <3>2 DEF Side, RefundSide
      <4>2. ~ok => (Asked(b, "REFUND")' => Asked(b, "REFUND"))
        BY <1>1, <1>3, <3>2 DEF Asked, Clean
      <4> QED
        BY <1>2, <1>5, <2>1, <2>5, <3>2, <4>1, <4>2 DEF Side, RefundSide, Refunding
    <3> QED
      BY <3>1, <3>2
  <2> QED
    BY <2>6, <2>7, <2>8 DEF Side
<1>7. TaskOpen' /\ HandRefunds'
  BY <1>2, <1>3, GameKeeps
<1>8. HeldOnce'
  BY <1>2 DEF SettleInv, Others, HeldOnce
<1> QED
  BY <1>3, <1>6, <1>7, <1>8 DEF Others

LEMMA CancelCommitSides ==
  ASSUME SettleInv, NEW c \in Bets, CancelCommit(c)
  PROVE  (Sides /\ Others)'
<1>1. /\ UNCHANGED <<payouts, wallet, flight, timeouts, last, task, hand, byHand,
                     open, req, queue, answers, drops, unheard, dropped>>
      /\ cancel[c] = "refunded"
      /\ cancel' = [cancel EXCEPT ![c] = "over"]
      /\ \/ row' = [row EXCEPT ![c].status = "CANCEL"] /\ UNCHANGED lost
         \/ lost' = lost \cup {c} /\ UNCHANGED row
  BY DEF CancelCommit
<1>2. row \in [Bets -> BetRow] /\ cancel \in [Bets -> CancelAt]
  BY DEF SettleInv, PaidInv, PayInv, PayTypeOK, CoinInv, CoinTypeOK
<1>3. /\ \A b \in Bets \ {c} : row'[b] = row[b] /\ cancel'[b] = cancel[b]
      /\ cancel'[c] = "over" /\ lost \subseteq lost'
      /\ \/ row'[c].status = "CANCEL"
         \/ c \in lost' /\ row'[c] = row[c]
  <2>1. row[c] \in BetRow
    BY <1>2
  <2>2. CASE lost' = lost \cup {c} /\ UNCHANGED row
    BY <1>1, <1>2, <2>2
  <2>3. CASE row' = [row EXCEPT ![c].status = "CANCEL"] /\ UNCHANGED lost
    <3> DEFINE new == [row[c] EXCEPT !.status = "CANCEL"]
    <3>1. new.status = "CANCEL"
      BY <2>1, RowType DEF Status
    <3>2. row' = [row EXCEPT ![c] = new]
      BY <2>3
    <3> HIDE DEF new
    <3> QED
      BY <1>1, <1>2, <2>3, <3>1, <3>2
  <2> QED
    BY <1>1, <2>2, <2>3
<1>4. ASSUME (Clean(c))'
      PROVE  (Side(c))'
  <2>1. Side(c) /\ row'[c].status = "CANCEL"
    BY <1>1, <1>3, <1>4 DEF SettleInv, Sides, Clean
  <2>2. row[c].status = "BET_DONE" /\ req[c] = "over"
    BY <1>1, <2>1 DEF Side, RefundSide, RequestSide
  <2>3. RequestSide(c)'
    BY <1>1, <2>1, <2>2 DEF RequestSide, Paying
  <2>4. RefundSide(c)'
    BY <1>1, <1>3, <2>1, <2>2 DEF RefundSide, Side, Refunding, RowOf, Named, Asked
  <2>5. PaySide(c)'
    BY <1>1, <2>1, <2>2 DEF PaySide, Side, Paying, RowOf, Named, Asked, Held, Waits, Pays
  <2> QED
    BY <2>3, <2>4, <2>5 DEF Side
<1>5. row[c].status # "NONE" => row'[c].status # "NONE"
  BY <1>3
<1> QED
  BY <1>1, <1>3, <1>4, <1>5, OneBetSides

(***************************************************************************)
(* The coin game: the draw and the payouts.                                *)
(***************************************************************************)

LEMMA DrawSides ==
  ASSUME SettleInv, Draw
  PROVE  (Sides /\ Others)'
<1> DEFINE playing == {b \in Bets : row[b].status = "BET_DONE"}
<1>1. /\ open /\ open' = FALSE
      /\ \A b \in Bets : ~Requesting(b)
      /\ UNCHANGED <<payouts, wallet, flight, timeouts, last, task, hand, byHand, req,
                     cancel, answers, drops, unheard, lost, dropped>>
  BY DEF Draw
<1>2. PICK won \in [playing -> Amount] :
        /\ row' = [b \in Bets |->
                     IF b \notin playing THEN row[b]
                     ELSE [status |-> IF won[b] > 0 THEN "PAY_ING" ELSE "BOMB",
                           amount |-> won[b]]]
        /\ queue' = Groups({b \in playing : won[b] > 0})
  BY DEF Draw
<1> DEFINE W == {b \in playing : won[b] > 0}
<1>3. answers = {} /\ queue = {}
  BY <1>1 DEF SettleInv, Others, HeldOnce
<1>4. /\ \A b \in Bets \ playing : row'[b] = row[b]
      /\ \A b \in W : row'[b].status = "PAY_ING"
      /\ \A b \in playing \ W : row'[b].status = "BOMB"
  BY <1>2
<1>5. \A g \in queue' : g \subseteq W
  <2> HIDE DEF W
  <2>1. \A g \in Groups(W) : g \subseteq W
    BY DEF Groups
  <2> QED
    BY <1>2, <2>1 DEF W
<1>6. \A g, k \in queue' : g # k => g \cap k = {}
  <2> HIDE DEF W
  <2>1. \A g, k \in Groups(W) : g # k => g \cap k = {}
    BY DEF Groups
  <2> QED
    BY <1>2, <2>1 DEF W
<1>7. Sides'
  <2> SUFFICES ASSUME NEW b \in Bets, Clean(b)'
               PROVE  Side(b)'
    BY DEF Sides
  <2>1. Side(b)
    BY <1>1 DEF SettleInv, Sides, Clean
  <2>2. /\ \A o : Asked(b, o)' = Asked(b, o)
        /\ \A i \in TimeoutId : \A o : RowOf(i, b, o)' = RowOf(i, b, o)
        /\ \A h \in Hands : Pays(h, b)' = Pays(h, b)
        /\ Held(b)' = Waits(b)' /\ (Waits(b)' => b \in W)
    BY <1>1, <1>3, <1>5 DEF Held, Waits, Asked, RowOf, Named, Pays
  <2>3. CASE b \in playing
    <3>1. row[b].status = "BET_DONE" /\ row'[b].status \in {"PAY_ING", "BOMB"}
      BY <1>4, <2>3
    <3>2. RequestSide(b)'
      BY <1>1, <2>1, <3>1, Stays DEF Side, RequestSide, Paying
    <3>3. cancel[b] \notin {"call", "refunded"}
      BY <1>1 DEF Requesting
    <3>4. RefundSide(b)'
      BY <1>1, <2>1, <2>2, <3>1, <3>3 DEF Side, RefundSide, Refunding
    <3>5. PaySide(b)'
      BY <1>4, <2>1, <2>2, <3>1 DEF Side, PaySide, Paying
    <3> QED
      BY <3>2, <3>4, <3>5 DEF Side
  <2>4. CASE b \notin playing
    <3>1. row'[b] = row[b] /\ ~Held(b)' /\ ~Waits(b)'
      BY <1>4, <2>2, <2>4
    <3>2. \A i \in TimeoutId : RowOf(i, b, "WD") => row[b].status \in Paying
      BY <2>1 DEF Side, PaySide
    <3> QED
      BY <1>1, <2>1, <2>2, <3>1, <3>2, SideKept
  <2> QED
    BY <2>3, <2>4
<1>8. HeldOnce'
  BY <1>1, <1>3, <1>6 DEF HeldOnce
<1>9. \A b \in Bets : row[b].status # "NONE" => row'[b].status # "NONE"
  BY <1>4
<1>10. TaskOpen' /\ HandRefunds'
  BY <1>1, <1>9, GameKeeps
<1>11. Returned'
  BY <1>1, Stays DEF SettleInv, Others, Returned
<1> QED
  BY <1>7, <1>8, <1>10, <1>11 DEF Others

\* A group leaves the queue, and its answer comes in: the group is still held, and
\* every request and row that is new is a payout of a bet of the group.
LEMMA AnswerSides ==
  ASSUME SettleInv, NEW g \in queue, queue' = queue \ {g},
         NEW said, NEW success,
         answers' = answers \cup {[group |-> g, told |-> said, success |-> success]},
         UNCHANGED <<row, task, hand, byHand, open, req, cancel, lost>>,
         wallet \subseteq wallet',
         \A m \in wallet' \cup flight' :
           m \in wallet \cup flight \/ (m.op = "WD" /\ m.bet \in g),
         \A m \in wallet' : m \in wallet \/ m.op = "WD",
         \A i \in TimeoutId : Named(i) => timeouts'[i] = timeouts[i],
         \A i \in TimeoutId : Named(i)' => \/ Named(i)
                                           \/ /\ timeouts'[i].bet \in g
                                              /\ timeouts'[i].op = "WD"
                                              /\ timeouts'[i].state = "young"
  PROVE  (Sides /\ Others)'
<1> DEFINE new == [group |-> g, told |-> said, success |-> success]
<1>1. new.group = g /\ answers' = answers \cup {new}
  OBVIOUS
<1> HIDE DEF new
<1>2. \A b : Held(b)' = Held(b)
  BY <1>1 DEF Held, Waits
<1>3. \A b : Waits(b)' => Waits(b) /\ b \notin g
  BY DEF Waits, SettleInv, Others, HeldOnce
<1>4. Sides'
  <2> SUFFICES ASSUME NEW b \in Bets, Clean(b)'
               PROVE  Side(b)'
    BY DEF Sides
  <2>1. Side(b)
    BY DEF SettleInv, Sides, Clean
  <2>2. b \in g => row[b].status = "PAY_ING"
    BY <2>1 DEF Side, PaySide, Held, Waits
  <2>3. /\ Asked(b, "REFUND")' => Asked(b, "REFUND")
        /\ Asked(b, "WD")' => Asked(b, "WD") \/ b \in g
    BY DEF Asked
  <2>4. \A i \in TimeoutId : RowOf(i, b, "BET")' => RowOf(i, b, "BET")
    BY DEF RowOf
  <2>5. ASSUME NEW i \in TimeoutId, RowOf(i, b, "WD")'
        PROVE  /\ row[b].status \in Paying
               /\ ~Waits(b)'
               /\ timeouts'[i].state # "young" => ~Held(b)'
    <3>1. CASE Named(i)
      BY <1>2, <1>3, <2>1, <2>5, <3>1 DEF RowOf, Side, PaySide
    <3>2. CASE ~Named(i)
      BY <1>3, <2>2, <2>5, <3>2 DEF RowOf, Paying
    <3> QED
      BY <3>1, <3>2
  <2>6. \A h \in Hands : Pays(h, b)' = Pays(h, b)
    BY DEF Pays
  <2>7. b \in g => row[b].status \in Paying
    BY <2>2 DEF Paying
  <2> QED
    BY <1>2, <2>1, <2>3, <2>4, <2>5, <2>6, <2>7, SideKept
<1>5. HeldOnce'
  BY <1>1 DEF SettleInv, Others, HeldOnce
<1>6. TaskOpen' /\ HandRefunds'
  BY GameKeeps
<1>7. Returned'
  <2>1. \A m \in wallet' : m.op = "REFUND" => m \in wallet
    OBVIOUS
  <2> QED
    BY <2>1, Stays DEF SettleInv, Others, Returned
<1> QED
  BY <1>4, <1>5, <1>6, <1>7 DEF Others

LEMMA PayCallSides ==
  ASSUME SettleInv, NEW g \in queue, PayCall(g)
  PROVE  (Sides /\ Others)'
<1>1. /\ queue' = queue \ {g}
      /\ UNCHANGED <<row, payouts, task, hand, byHand, open, req, cancel, drops,
                     unheard, lost, dropped>>
  BY DEF PayCall
<1>2. PICK b \in g, ok \in BOOLEAN :
        /\ Call(b, "WD", row[b].amount, ok)
        /\ answers' = answers \cup {[group |-> g,
                                     told |-> [c \in g |-> IF ok THEN "ok" ELSE "no"],
                                     success |-> ok]}
  BY DEF PayCall
<1>3. b \in Bets /\ row[b].amount \in Amount /\ "WD" \in Op
  BY DEF SettleInv, PaidInv, PayInv, PayTypeOK, CoinInv, CoinTypeOK, BetRow, Op
<1> DEFINE m == [bet |-> b, op |-> "WD", amount |-> row[b].amount]
<1>4. /\ wallet \subseteq wallet'
      /\ wallet' \subseteq wallet \cup {m} /\ flight' \subseteq flight \cup {m}
      /\ \A i \in TimeoutId : Named(i) => timeouts'[i] = timeouts[i]
      /\ \A i \in TimeoutId : Named(i)' => \/ Named(i)
                                           \/ /\ timeouts'[i].bet = b
                                              /\ timeouts'[i].op = "WD"
                                              /\ timeouts'[i].state = "young"
  BY <1>2, <1>3, CallAdds DEF SettleInv, PaidInv, Others
<1>5. m.bet = b /\ m.op = "WD"
  OBVIOUS
<1> HIDE DEF m
<1>6. /\ \A n \in wallet' \cup flight' :
           n \in wallet \cup flight \/ (n.op = "WD" /\ n.bet \in g)
      /\ \A n \in wallet' : n \in wallet \/ n.op = "WD"
  BY <1>4, <1>5
<1>7. \A i \in TimeoutId : Named(i)' => \/ Named(i)
                                        \/ /\ timeouts'[i].bet \in g
                                           /\ timeouts'[i].op = "WD"
                                           /\ timeouts'[i].state = "young"
  BY <1>4
<1> DEFINE said == [c \in g |-> IF ok THEN "ok" ELSE "no"]
<1>8. answers' = answers \cup {[group |-> g, told |-> said, success |-> ok]}
  BY <1>2
<1> HIDE DEF said
<1> QED
  BY <1>1, <1>4, <1>6, <1>7, <1>8, AnswerSides

LEMMA BatchAnsweredSides ==
  ASSUME SettleInv, NEW g \in queue, BatchCall(g), BatchAnswered(g)
  PROVE  (Sides /\ Others)'
<1>1. /\ queue' = queue \ {g}
      /\ UNCHANGED <<row, payouts, task, hand, byHand, open, req, cancel, drops,
                     unheard, lost, dropped, flight, timeouts, last>>
  BY DEF BatchCall, BatchAnswered
<1>2. PICK said \in [g -> Told] :
        /\ \E more \in SUBSET (g \ {b \in g : said[b] = "ok"}) :
             wallet' = Book({b \in g : said[b] = "ok"} \cup more)
        /\ answers' = answers \cup {[group |-> g, told |-> said, success |-> TRUE]}
  BY DEF BatchAnswered
<1>3. \E S \in SUBSET g : wallet' = Book(S)
  BY <1>2
<1>4. /\ wallet \subseteq wallet'
      /\ \A m \in wallet' : m \in wallet \/ (m.op = "WD" /\ m.bet \in g)
  BY <1>3 DEF Book, Payouts
<1>5. \A i \in TimeoutId : Named(i)' = Named(i)
  BY <1>1 DEF Named
<1> QED
  BY <1>1, <1>2, <1>4, <1>5, AnswerSides

\* A batch that fails inserts rows of its payouts, or none.
LEMMA BatchRows ==
  ASSUME SettleInv, NEW g \in queue, BatchFailed(g)
  PROVE  \A i \in TimeoutId :
           \/ timeouts'[i] = timeouts[i]
           \/ /\ ~Named(i)
              /\ timeouts'[i].bet \in g
              /\ timeouts'[i].op = "WD"
              /\ timeouts'[i].state = "young"
<1>1. CASE UNCHANGED <<timeouts, last>>
  BY <1>1
<1>2. CASE ~UNCHANGED <<timeouts, last>>
  <2> DEFINE n == Cardinality(g)
  <2>1. PICK order \in [last + 1 .. last + n -> g] :
          timeouts' = [i \in TimeoutId |->
            IF i \in DOMAIN order
            THEN [bet |-> order[i], op |-> "WD", count |-> 0, state |-> "young"]
            ELSE timeouts[i]]
    BY <1>2 DEF BatchFailed
  <2>2. n \in Nat
    <3>1. g \in SUBSET Bets
      BY DEF SettleInv, PaidInv, CoinInv, CoinTypeOK
    <3> QED
      BY <3>1, FS_Subset, FS_CardinalityType
  <2> HIDE DEF n
  <2> SUFFICES ASSUME NEW i \in TimeoutId
               PROVE  \/ timeouts'[i] = timeouts[i]
                      \/ /\ ~Named(i)
                         /\ timeouts'[i].bet \in g
                         /\ timeouts'[i].op = "WD"
                         /\ timeouts'[i].state = "young"
    OBVIOUS
  <2>3. CASE i \in last + 1 .. last + n
    <3>1. timeouts'[i]
            = [bet |-> order[i], op |-> "WD", count |-> 0, state |-> "young"]
      BY <2>1, <2>3
    <3>2. order[i] \in g
      BY <2>1, <2>3
    <3>3. ~Named(i)
      BY <2>2, <2>3 DEF SettleInv, PaidInv, PayInv, RowsNamed, PayTypeOK, TimeoutId
    <3> QED
      BY <3>1, <3>2, <3>3
  <2>4. CASE i \notin last + 1 .. last + n
    BY <2>1, <2>4
  <2> QED
    BY <2>3, <2>4
<1> QED
  BY <1>1, <1>2

LEMMA BatchFailedSides ==
  ASSUME SettleInv, NEW g \in queue, BatchCall(g), BatchFailed(g)
  PROVE  (Sides /\ Others)'
<1>1. /\ queue' = queue \ {g}
      /\ UNCHANGED <<row, payouts, task, hand, byHand, open, req, cancel, drops,
                     unheard, lost, dropped>>
      /\ answers' = answers \cup {[group |-> g, told |-> [b \in g |-> "no"],
                                   success |-> FALSE]}
  BY DEF BatchCall, BatchFailed
<1>2. /\ wallet \subseteq wallet'
      /\ \A m \in wallet' \cup flight' :
           m \in wallet \cup flight \/ (m.op = "WD" /\ m.bet \in g)
      /\ \A m \in wallet' : m \in wallet \/ m.op = "WD"
  <2>1. CASE (\E done \in SUBSET g : wallet' = Book(done)) /\ UNCHANGED flight
    BY <2>1 DEF Book, Payouts
  <2>2. CASE flight' = flight \cup Payouts(g) /\ UNCHANGED wallet
    BY <2>2 DEF Payouts
  <2> QED
    BY <2>1, <2>2 DEF BatchFailed
<1>3. \A i \in TimeoutId :
        \/ timeouts'[i] = timeouts[i]
        \/ /\ ~Named(i)
           /\ timeouts'[i].bet \in g
           /\ timeouts'[i].op = "WD"
           /\ timeouts'[i].state = "young"
  BY BatchRows
<1>4. /\ \A i \in TimeoutId : Named(i) => timeouts'[i] = timeouts[i]
      /\ \A i \in TimeoutId : Named(i)' => \/ Named(i)
                                           \/ /\ timeouts'[i].bet \in g
                                              /\ timeouts'[i].op = "WD"
                                              /\ timeouts'[i].state = "young"
  BY <1>3 DEF Named
<1> DEFINE said == [b \in g |-> "no"]
<1>5. answers' = answers \cup {[group |-> g, told |-> said, success |-> FALSE]}
  BY <1>1
<1> HIDE DEF said
<1> QED
  BY <1>1, <1>2, <1>4, <1>5, AnswerSides

\* Payout tasks end: what is held shrinks, and nothing else but the rows of the bets
\* that are no longer held changes.
LEMMA LetGo ==
  ASSUME SettleInv, queue' \subseteq queue, answers' \subseteq answers,
         UNCHANGED <<wallet, flight, timeouts, task, hand, byHand, open, req, cancel, lost>>,
         \A b \in Bets : \/ row'[b] = row[b]
                         \/ /\ Held(b) /\ ~Held(b)'
                            /\ row'[b].status \in {"WT_DONE", "WT_FAILED"}
  PROVE  (Sides /\ Others)'
<1>1. \A b : (Held(b)' => Held(b)) /\ (Waits(b)' => Waits(b))
  BY DEF Held, Waits
<1>2. Sides'
  <2> SUFFICES ASSUME NEW b \in Bets, Clean(b)'
               PROVE  Side(b)'
    BY DEF Sides
  <2>1. Side(b)
    BY DEF SettleInv, Sides, Clean
  <2>2. /\ \A o : Asked(b, o)' = Asked(b, o)
        /\ \A i \in TimeoutId : \A o : RowOf(i, b, o)' = RowOf(i, b, o)
        /\ \A h \in Hands : Pays(h, b)' = Pays(h, b)
    BY DEF Asked, RowOf, Named, Pays
  <2>3. CASE row'[b] = row[b]
    <3>1. ASSUME NEW i \in TimeoutId, RowOf(i, b, "WD")'
          PROVE  /\ row[b].status \in Paying
                 /\ ~Waits(b)'
                 /\ timeouts'[i].state # "young" => ~Held(b)'
      BY <1>1, <2>1, <2>2, <3>1 DEF Side, PaySide
    <3> QED
      BY <1>1, <2>1, <2>2, <2>3, <3>1, SideKept
  <2>4. CASE /\ Held(b) /\ ~Held(b)'
             /\ row'[b].status \in {"WT_DONE", "WT_FAILED"}
    <3>1. row[b].status \in Paying
      BY <2>1, <2>4 DEF Side, PaySide, Paying
    <3> QED
      BY <2>1, <2>2, <2>4, <3>1, SidePaid
  <2> QED
    BY <2>3, <2>4
<1>3. HeldOnce'
  BY DEF SettleInv, Others, HeldOnce
<1>4. TaskOpen' /\ HandRefunds'
  <2>1. \A b \in Bets : row[b].status # "NONE" => row'[b].status # "NONE"
    OBVIOUS
  <2> QED
    BY <2>1, GameKeeps
<1>5. Returned'
  BY Stays DEF SettleInv, Others, Returned
<1> QED
  BY <1>2, <1>3, <1>4, <1>5 DEF Others

LEMMA PayCommitSides ==
  ASSUME SettleInv, NEW a \in answers, PayCommit(a)
  PROVE  (Sides /\ Others)'
<1>1. /\ UNCHANGED <<wallet, flight, timeouts, last, task, hand, byHand, open, req,
                     cancel, queue, drops, unheard, lost>>
      /\ answers' = answers \ {a}
  BY DEF PayCommit
<1>2. /\ row \in [Bets -> BetRow]
      /\ a.group \subseteq Bets
  BY DEF SettleInv, PaidInv, PayInv, PayTypeOK, CoinInv, CoinTypeOK
<1>3. \A b \in a.group : Held(b) /\ ~Held(b)'
  BY <1>1 DEF Held, Waits, SettleInv, Others, HeldOnce
<1>4. \A b \in Bets :
        \/ row'[b] = row[b]
        \/ b \in a.group /\ row'[b] = [row[b] EXCEPT !.status = "WT_DONE"]
        \/ b \in a.group /\ row'[b] = [row[b] EXCEPT !.status = "WT_FAILED"]
  BY <1>2 DEF PayCommit
<1>5. \A b \in Bets : \/ row'[b] = row[b]
                      \/ /\ Held(b) /\ ~Held(b)'
                         /\ row'[b].status \in {"WT_DONE", "WT_FAILED"}
  <2> SUFFICES ASSUME NEW b \in Bets
               PROVE  \/ row'[b] = row[b]
                      \/ /\ Held(b) /\ ~Held(b)'
                         /\ row'[b].status \in {"WT_DONE", "WT_FAILED"}
    OBVIOUS
  <2>1. row[b] \in BetRow /\ "WT_FAILED" \in Status /\ "WT_DONE" \in Status
    BY <1>2 DEF Status
  <2>2. /\ [row[b] EXCEPT !.status = "WT_FAILED"].status = "WT_FAILED"
        /\ [row[b] EXCEPT !.status = "WT_DONE"].status = "WT_DONE"
    BY <2>1, RowType
  <2>3. CASE row'[b] = row[b]
    BY <2>3
  <2>4. CASE b \in a.group /\ row'[b] = [row[b] EXCEPT !.status = "WT_DONE"]
    BY <1>3, <2>2, <2>4
  <2>5. CASE b \in a.group /\ row'[b] = [row[b] EXCEPT !.status = "WT_FAILED"]
    BY <1>3, <2>2, <2>5
  <2> QED
    BY <1>4, <2>3, <2>4, <2>5
<1> QED
  BY <1>1, <1>5, LetGo

LEMMA DropTaskSides ==
  ASSUME SettleInv, DropTask
  PROVE  (Sides /\ Others)'
<1>1. /\ UNCHANGED <<row, wallet, flight, timeouts, task, hand, byHand, open, req, cancel,
                     lost>>
      /\ queue' \subseteq queue /\ answers' \subseteq answers
  BY DEF DropTask, payVars
<1> QED
  BY <1>1, LetGo

(***************************************************************************)
(* A stake is returned or paid out, not both.                              *)
(***************************************************************************)

LEMMA InitSettles ==
  Init => SettleInv
<1> SUFFICES ASSUME Init
             PROVE  SettleInv
  OBVIOUS
<1>1. PaidInv
  BY InitHolds
<1> USE DEF Init, PayInit
<1>2. Sides
  <2> SUFFICES ASSUME NEW b \in Bets
               PROVE  Side(b)
    BY DEF Sides
  <2>1. /\ row[b].status = "NONE" /\ req[b] = "idle" /\ cancel[b] = "idle"
        /\ \A o : ~Asked(b, o)
        /\ \A i \in TimeoutId : \A o : ~RowOf(i, b, o)
        /\ ~Held(b)
        /\ \A h \in Hands : ~Pays(h, b)
    BY DEF NoRow, NoTimeout, NoHand, Asked, RowOf, Named, Held, Waits, Pays
  <2>2. RequestSide(b)
    BY <2>1 DEF RequestSide, Paying
  <2>3. RefundSide(b)
    BY <2>1 DEF RefundSide
  <2>4. PaySide(b)
    BY <2>1 DEF PaySide
  <2> QED
    BY <2>2, <2>3, <2>4 DEF Side
<1>3. Others
  BY DEF Others, TaskOpen, NoTask, HeldOnce, Returned, HandRefunds, NoHand
<1> QED
  BY <1>1, <1>2, <1>3 DEF SettleInv

LEMMA SettleInvKept ==
  SettleInv /\ [Next]_vars => SettleInv'
<1> SUFFICES ASSUME SettleInv, [Next]_vars
             PROVE  SettleInv'
  OBVIOUS
<1>1. PaidInv'
  BY PaidInvKept DEF SettleInv
<1>2. (Sides /\ Others)'
  <2>1. CASE PayNext /\ UNCHANGED coinVars
    <3>1. CASE \E m \in flight : MerchantLate(m)
      BY <2>1, <3>1, LateSides
    <3>2. CASE TaskStep \/ TaskThrows \/ TaskDies
      BY <2>1, <3>2, TaskMovesSides, TaskCallSides, TaskWriteSides, TaskMarkSides
         DEF TaskStep
    <3>3. CASE \E h \in Hands : ManualStep(h)
      BY <2>1, <3>3, ShowPageSides, OrderGoesOn, ManualCallSides DEF ManualStep
    <3> QED
      BY <2>1, <3>1, <3>2, <3>3 DEF PayNext
  <2>2. CASE (\E h \in Hands : ManualWrite(h)) /\ UNCHANGED coinVars
    BY <2>2, ManualWriteSides
  <2>3. CASE (\E i \in TimeoutId : AgeAfterRequest(i)) /\ UNCHANGED coinVars
    BY <2>3, AgeSides
  <2>4. CASE \E b \in Bets : \/ BetCall(b) \/ BetCommit(b)
                             \/ CancelLoad(b) \/ CancelCall(b) \/ CancelCommit(b)
    BY <2>4, BetCallSides, BetCommitSides, CancelLoadSides, CancelCallSides,
       CancelCommitSides
  <2>5. CASE Draw
    BY <2>5, DrawSides
  <2>6. CASE \E g \in queue : PayCall(g) \/ BatchCall(g)
    <3>1. ASSUME NEW g \in queue, BatchCall(g)
          PROVE  (Sides /\ Others)'
      BY <3>1, BatchAnsweredSides, BatchFailedSides DEF BatchCall
    <3> QED
      BY <2>6, <3>1, PayCallSides
  <2>7. CASE \E a \in answers : PayCommit(a)
    BY <2>7, PayCommitSides
  <2>8. CASE DropTask
    BY <2>8, DropTaskSides
  <2>9. CASE UNCHANGED vars
    <3>1. UNCHANGED <<row, wallet, flight, timeouts, task, hand, byHand, open, req, cancel,
                      queue, answers, lost>>
      BY <2>9 DEF vars, payVars, coinVars
    <3> QED
      BY <3>1, LetGo
  <2> QED
    BY <2>1, <2>2, <2>3, <2>4, <2>5, <2>6, <2>7, <2>8, <2>9 DEF Next
<1> QED
  BY <1>1, <1>2 DEF SettleInv

LEMMA SettleInvAlways ==
  Spec => []SettleInv
<1> QED
  BY InitSettles, SettleInvKept, PTL DEF Spec

LEMMA NotBoth ==
  ASSUME SettleInv
  PROVE  RefundedOrPaid
<1> SUFFICES ASSUME NEW b \in Bets, Applied(b, "REFUND"), Applied(b, "WD"), Clean(b)
             PROVE  FALSE
  BY DEF RefundedOrPaid, Clean
<1>1. Side(b) /\ Asked(b, "REFUND") /\ Asked(b, "WD")
  BY DEF SettleInv, Sides, Applied, Asked
<1> QED
  BY <1>1 DEF Side, RefundSide, PaySide, Paying, Refunding

\* Whatever calls fail, time out, arrive late or are repeated by the timeout task, the
\* merchant never both returns a stake and pays the bet; the exceptions are a refund
\* ordered by hand and a cancel's refund the service did not hear of or record.
THEOREM RefundedOrPaidAlways ==
  Spec => []RefundedOrPaid
<1>1. SettleInv => RefundedOrPaid
  BY NotBoth
<1> QED
  BY <1>1, SettleInvAlways, PTL

(***************************************************************************)
(* CoinPayment implements Settlement.                                      *)
(***************************************************************************)

\* What a step may do to the merchant's book and to the table of bets.
Takes ==
  /\ UNCHANGED row /\ wallet \subseteq wallet'
  /\ \E c \in Bets : \A m \in wallet' : m \in wallet \/ (m.bet = c /\ m.op = "BET")
Gives ==
  /\ UNCHANGED row /\ wallet \subseteq wallet'
  /\ \A m \in wallet' : m \in wallet \/ m.op # "BET"
Tells ==
  /\ UNCHANGED wallet
  /\ \A b \in Bets : Clean(b) => \/ row'[b].status = row[b].status
                                 \/ row[b].status \notin {"CANCEL", "REFUND", "WT_DONE"}

LEMMA LostGrows ==
  ASSUME [Next]_vars
  PROVE  lost \subseteq lost' /\ byHand \subseteq byHand'
<1>1. CASE PayNext /\ UNCHANGED coinVars
  BY <1>1 DEF PayNext, coinVars, MerchantLate, TaskStep, TaskStart, TaskNext, TaskCall,
              TaskWrite, TaskMark, TaskThrows, TaskDies, ManualStep, ShowPage, ManualLoad,
              ManualCall, ManualRecord, ManualDies
<1>2. CASE (\E h \in Hands : ManualWrite(h)) /\ UNCHANGED coinVars
  BY <1>2 DEF ManualWrite, coinVars
<1>3. CASE (\E i \in TimeoutId : AgeAfterRequest(i)) /\ UNCHANGED coinVars
  BY <1>3 DEF AgeAfterRequest, Age, coinVars
<1>4. CASE \E b \in Bets : \/ BetCall(b) \/ BetCommit(b)
                           \/ CancelLoad(b) \/ CancelCall(b) \/ CancelCommit(b)
  BY <1>4 DEF BetCall, BetCommit, CancelLoad, CancelCall, CancelCommit, payVars
<1>5. CASE Draw \/ DropTask \/ UNCHANGED vars
  BY <1>5 DEF Draw, DropTask, vars, payVars, coinVars
<1>6. CASE \/ \E g \in queue : PayCall(g) \/ BatchCall(g)
           \/ \E a \in answers : PayCommit(a)
  BY <1>6 DEF PayCall, BatchCall, PayCommit
<1> QED
  BY <1>1, <1>2, <1>3, <1>4, <1>5, <1>6 DEF Next

\* A call takes a stake or gives money.
LEMMA CallKind ==
  ASSUME SettleInv, UNCHANGED row,
         NEW c \in Bets, NEW op \in Op, NEW amount \in Amount, NEW ok \in BOOLEAN,
         Call(c, op, amount, ok)
  PROVE  Takes \/ Gives
<1> DEFINE m == [bet |-> c, op |-> op, amount |-> amount]
<1>1. wallet \subseteq wallet' /\ wallet' \subseteq wallet \cup {m}
  BY CallAdds DEF SettleInv, PaidInv, Others
<1>2. m.bet = c /\ m.op = op
  OBVIOUS
<1> HIDE DEF m
<1> QED
  BY <1>1, <1>2 DEF Takes, Gives

LEMMA PayKind ==
  ASSUME SettleInv, PayNext
  PROVE  Takes \/ Gives \/ Tells
<1>1. CASE \E m \in flight : MerchantLate(m)
  <2>1. PICK m \in flight : MerchantLate(m)
    BY <1>1
  <2>2. m \in Request
    BY DEF SettleInv, PaidInv, PayInv, PayTypeOK
  <2>3. m.bet \in Bets
    BY <2>2 DEF Request
  <2>4. wallet \subseteq wallet' /\ wallet' \subseteq wallet \cup {m} /\ UNCHANGED row
    BY <2>1 DEF MerchantLate, CarryOut
  <2> QED
    BY <2>3, <2>4 DEF Takes, Gives
<1>2. CASE TaskStart \/ TaskNext \/ TaskMark \/ TaskThrows \/ TaskDies
  BY <1>2 DEF TaskStart, TaskNext, TaskMark, TaskThrows, TaskDies, Gives
<1>3. CASE TaskCall
  <2> DEFINE r == timeouts[task.cur]
             amount == IF r.op = "BET" THEN Stake ELSE task.copy.amount
  <2>1. PICK ok \in BOOLEAN : Call(r.bet, Asks(r), amount, ok)
    BY <1>3 DEF TaskCall, Asks
  <2>2. task.cur \in TimeoutId /\ Named(task.cur)
    BY <1>3 DEF TaskCall, SettleInv, PaidInv, PayInv, TaskHolds
  <2>3. r.bet \in Bets /\ Asks(r) \in Op
    BY <2>2 DEF SettleInv, PaidInv, PayInv, RowsNamed, Asks, Op
  <2>4. amount \in Amount
    <3>1. Stake \in Amount /\ task.copy.amount \in Amount
      BY DEF Amount, BetRow, SettleInv, PaidInv, PayInv, PayTypeOK
    <3> QED
      BY <3>1
  <2>5. UNCHANGED row
    BY <1>3 DEF TaskCall
  <2>6. PICK c \in Bets, op \in Op : Call(c, op, amount, ok)
    BY <2>1, <2>3
  <2> HIDE DEF amount
  <2> QED
    BY <2>4, <2>5, <2>6, CallKind
<1>4. CASE TaskWrite
  <2>1. PICK c \in Bets, s \in {"CANCEL", "WT_DONE"} : Ends(c, s)
    BY <1>4, TaskWriteEnds
  <2>2. UNCHANGED wallet
    BY <1>4 DEF TaskWrite
  <2> QED
    BY <2>1, <2>2 DEF Ends, Tells, Refunding, Paying
<1>5. CASE \E h \in Hands : ManualStep(h)
  <2>1. PICK h \in Hands : ManualStep(h)
    BY <1>5
  <2>2. CASE ShowPage(h) \/ ManualLoad(h) \/ ManualRecord(h) \/ ManualDies(h)
    BY <2>2 DEF ShowPage, ManualLoad, ManualRecord, ManualDies, Gives
  <2>3. CASE ManualCall(h)
    <3> DEFINE o == hand[h]
               amount == IF o.op = "WD" THEN o.copy.amount ELSE Stake
    <3>1. PICK ok \in BOOLEAN : Call(o.bet, o.op, amount, ok)
      BY <2>3 DEF ManualCall
    <3>2. hand \in [Hands -> HandRow] /\ o.bet \in Bets /\ UNCHANGED row
      BY <2>3 DEF ManualCall, SettleInv, PaidInv, PayInv, PayTypeOK, HandHolds, HandRow
    <3>3. o.op \in Op /\ amount \in Amount
      BY <3>2 DEF HandRow, BetRow, Amount, Op
    <3>4. PICK c \in Bets, op \in Op : Call(c, op, amount, ok)
      BY <3>1, <3>2, <3>3
    <3> HIDE DEF amount
    <3> QED
      BY <3>2, <3>3, <3>4, CallKind
  <2> QED
    BY <2>1, <2>2, <2>3 DEF ManualStep
<1> QED
  BY <1>1, <1>2, <1>3, <1>4, <1>5 DEF PayNext, TaskStep

LEMMA StepKind ==
  ASSUME SettleInv, [Next]_vars
  PROVE  Takes \/ Gives \/ Tells
<1>1. CASE PayNext
  BY <1>1, PayKind
<1>2. CASE \E h \in Hands : ManualWrite(h)
  <2>1. PICK h \in Hands : ManualWrite(h)
    BY <1>2
  <2>2. PICK c \in Bets, s \in {"REFUND", "WT_DONE"} : Ends(c, s)
    BY <2>1, ManualWriteEnds
  <2>3. UNCHANGED wallet
    BY <2>1 DEF ManualWrite
  <2> QED
    BY <2>2, <2>3 DEF Ends, Tells, Paying
<1>3. CASE \E i \in TimeoutId : AgeAfterRequest(i)
  BY <1>3 DEF AgeAfterRequest, Age, Gives
<1>4. CASE \E b \in Bets : BetCall(b) \/ CancelCall(b)
  <2>1. Stake \in Amount /\ "BET" \in Op /\ "REFUND" \in Op
    BY DEF Amount, Op
  <2> QED
    BY <1>4, <2>1, CallKind DEF BetCall, CancelCall
<1>5. CASE \E b \in Bets : BetCommit(b)
  <2>1. PICK c \in Bets : BetCommit(c)
    BY <1>5
  <2>2. /\ UNCHANGED wallet /\ req[c] # "over"
        /\ \A b \in Bets \ {c} : row'[b] = row[b]
    BY <2>1 DEF BetCommit, SettleInv, PaidInv, PayInv, PayTypeOK
  <2>3. Clean(c) => row[c].status = "NONE"
    BY <2>2 DEF SettleInv, Sides, Side, RequestSide
  <2> QED
    BY <2>2, <2>3 DEF Tells
<1>6. CASE \E b \in Bets : CancelCommit(b)
  <2>1. PICK c \in Bets : CancelCommit(c)
    BY <1>6
  <2>2. /\ UNCHANGED wallet /\ cancel[c] = "refunded"
        /\ \A b \in Bets \ {c} : row'[b] = row[b]
    BY <2>1 DEF CancelCommit, SettleInv, PaidInv, PayInv, PayTypeOK
  <2>3. Clean(c) => row[c].status = "BET_DONE"
    BY <2>2 DEF SettleInv, Sides, Side, RefundSide
  <2> QED
    BY <2>2, <2>3 DEF Tells
<1>7. CASE (\E b \in Bets : CancelLoad(b)) \/ DropTask \/ UNCHANGED vars
  BY <1>7 DEF CancelLoad, DropTask, vars, payVars, Gives
<1>8. CASE Draw
  <2>1. \A b \in Bets : row'[b] = row[b] \/ row[b].status = "BET_DONE"
    BY <1>8 DEF Draw
  <2>2. UNCHANGED wallet
    BY <1>8 DEF Draw
  <2> QED
    BY <2>1, <2>2 DEF Tells
<1>9. CASE \E g \in queue : PayCall(g)
  <2>1. PICK g \in queue : PayCall(g)
    BY <1>9
  <2>2. PICK b \in g, ok \in BOOLEAN : Call(b, "WD", row[b].amount, ok)
    BY <2>1 DEF PayCall
  <2>3. b \in Bets /\ row[b].amount \in Amount /\ "WD" \in Op /\ UNCHANGED row
    BY <2>1 DEF PayCall, SettleInv, PaidInv, PayInv, PayTypeOK, CoinInv, CoinTypeOK, BetRow,
                Op
  <2> QED
    BY <2>2, <2>3, CallKind
<1>10. CASE \E g \in queue : BatchCall(g)
  <2>1. PICK g \in queue : BatchCall(g)
    BY <1>10
  <2>2. UNCHANGED row /\ (UNCHANGED wallet \/ \E S \in SUBSET g : wallet' = Book(S))
    <3>1. CASE BatchAnswered(g)
      <4>1. PICK said \in [g -> Told] :
              \E more \in SUBSET (g \ {b \in g : said[b] = "ok"}) :
                wallet' = Book({b \in g : said[b] = "ok"} \cup more)
        BY <3>1 DEF BatchAnswered
      <4> QED
        BY <2>1, <4>1 DEF BatchCall
    <3>2. CASE BatchFailed(g)
      BY <2>1, <3>2 DEF BatchCall, BatchFailed
    <3> QED
      BY <2>1, <3>1, <3>2 DEF BatchCall
  <2> QED
    BY <2>2 DEF Gives, Book, Payouts
<1>11. CASE \E a \in answers : PayCommit(a)
  <2>1. PICK a \in answers : PayCommit(a)
    BY <1>11
  <2>2. UNCHANGED wallet /\ \A b \in Bets : row'[b] = row[b] \/ b \in a.group
    BY <2>1 DEF PayCommit
  <2>3. \A b \in a.group : Held(b)
    BY DEF Held
  <2>4. \A b \in Bets : Clean(b) /\ Held(b) => row[b].status = "PAY_ING"
    BY DEF SettleInv, Sides, Side, PaySide
  <2> QED
    BY <2>2, <2>3, <2>4 DEF Tells
<1> QED
  BY <1>1, <1>2, <1>3, <1>4, <1>5, <1>6, <1>7, <1>8, <1>9, <1>10, <1>11 DEF Next

\* The merchant pays only a bet whose stake it took.
LEMMA StakeFirst ==
  ASSUME SettleInv, byHand \cup lost = {}, NEW b \in Bets
  PROVE  /\ Applied(b, "REFUND") => Applied(b, "BET") /\ ~Applied(b, "WD")
         /\ Applied(b, "WD") => Applied(b, "BET")
<1>1. Side(b)
  BY DEF SettleInv, Sides, Clean
<1>2. Applied(b, "WD") => Applied(b, "BET")
  BY <1>1 DEF Side, PaySide, RequestSide, Applied, Asked
<1>3. Applied(b, "REFUND") => Applied(b, "BET")
  BY DEF SettleInv, Others, Returned, Applied
<1>4. ~(Applied(b, "REFUND") /\ Applied(b, "WD"))
  BY NotBoth DEF RefundedOrPaid
<1> QED
  BY <1>2, <1>3, <1>4

LEMMA TakesStep ==
  ASSUME SettleInv, byHand \cup lost = {}, Takes
  PROVE  [Settles!Next]_<<money, told>>
<1>1. PICK c \in Bets : \A m \in wallet' : m \in wallet \/ (m.bet = c /\ m.op = "BET")
  BY DEF Takes
<1>2. told' = told
  BY DEF Takes, told
<1>3. \A b, o : Applied(b, o)' = Applied(b, o) \/ (b = c /\ o = "BET")
  BY <1>1 DEF Takes, Applied
<1>4. CASE Applied(c, "BET") \/ ~Applied(c, "BET")'
  <2>1. \A b, o : Applied(b, o)' = Applied(b, o)
    <3>1. Applied(c, "BET")' = Applied(c, "BET")
      <4>1. Applied(c, "BET") => Applied(c, "BET")'
        BY Stays DEF Takes
      <4>2. Applied(c, "BET")' \in BOOLEAN /\ Applied(c, "BET") \in BOOLEAN
        BY DEF Applied
      <4> QED
        BY <1>4, <4>1, <4>2
    <3> QED
      BY <1>3, <3>1
  <2>2. money' = money
    BY <2>1 DEF money
  <2> QED
    BY <1>2, <2>2
<1>5. CASE ~Applied(c, "BET") /\ Applied(c, "BET")'
  <2>1. ~Applied(c, "REFUND") /\ ~Applied(c, "WD")
    BY <1>5, StakeFirst
  <2>2. money[c] = "free"
    BY <1>5, <2>1 DEF money
  <2>3. \A b \in Bets : /\ Applied(b, "REFUND")' = Applied(b, "REFUND")
                        /\ Applied(b, "WD")' = Applied(b, "WD")
                        /\ b # c => Applied(b, "BET")' = Applied(b, "BET")
    BY <1>3
  <2>4. money' = [money EXCEPT ![c] = "taken"]
    BY <1>5, <2>1, <2>3 DEF money
  <2> QED
    BY <1>2, <2>2, <2>4 DEF Settles!Next, Settles!Take
<1> QED
  BY <1>4, <1>5

LEMMA GivesStep ==
  ASSUME SettleInv, SettleInv', (byHand \cup lost = {})', Gives
  PROVE  [Settles!Next]_<<money, told>>
<1> DEFINE S == {b \in Bets : money'[b] # money[b]}
           news == [b \in S |-> money'[b]]
<1>1. told' = told
  BY DEF Gives, told
<1>2. \A b \in Bets : /\ Applied(b, "BET")' = Applied(b, "BET")
                      /\ Applied(b, "REFUND") => Applied(b, "REFUND")'
                      /\ Applied(b, "WD") => Applied(b, "WD")'
  BY Stays DEF Gives, Applied
<1>3. \A b \in Bets : /\ Applied(b, "REFUND")' => Applied(b, "BET")' /\ ~Applied(b, "WD")'
                      /\ Applied(b, "WD")' => Applied(b, "BET")'
  <2> SUFFICES ASSUME NEW b \in Bets
               PROVE  /\ Applied(b, "REFUND")' => Applied(b, "BET")' /\ ~Applied(b, "WD")'
                      /\ Applied(b, "WD")' => Applied(b, "BET")'
    OBVIOUS
  <2>1. Side(b)'
    BY DEF SettleInv, Sides, Clean
  <2>2. Applied(b, "WD")' => Applied(b, "BET")'
    BY <2>1 DEF Side, PaySide, RequestSide, Applied, Asked
  <2>3. Applied(b, "REFUND")' => Applied(b, "BET")'
    BY DEF SettleInv, Others, Returned, Applied
  <2>4. ~(Applied(b, "REFUND")' /\ Applied(b, "WD")')
    BY <2>1 DEF Side, RefundSide, PaySide, Paying, Refunding, Applied, Asked
  <2> QED
    BY <2>2, <2>3, <2>4
<1>4. \A b \in Bets : /\ money[b] = IF Applied(b, "REFUND") THEN "returned"
                                    ELSE IF Applied(b, "WD") THEN "won"
                                    ELSE IF Applied(b, "BET") THEN "taken"
                                    ELSE "free"
                      /\ money'[b] = IF Applied(b, "REFUND")' THEN "returned"
                                     ELSE IF Applied(b, "WD")' THEN "won"
                                     ELSE IF Applied(b, "BET")' THEN "taken"
                                     ELSE "free"
  BY DEF money
<1>5. \A b \in S : money[b] = "taken" /\ money'[b] \in {"returned", "won"}
  BY <1>2, <1>3, <1>4
<1>6. \A b \in S : told[b] = "nothing"
  <2> SUFFICES ASSUME NEW b \in S
               PROVE  told[b] = "nothing"
    OBVIOUS
  <2>1. ~Applied(b, "REFUND") /\ ~Applied(b, "WD")
    BY <1>4, <1>5
  <2>2. row[b].status \notin {"CANCEL", "REFUND", "WT_DONE"}
    BY <2>1 DEF SettleInv, PaidInv, PayInv, DoneMeansPaid
  <2> QED
    BY <2>2 DEF told
<1>7. money' = [b \in Bets |-> IF b \in S THEN news[b] ELSE money[b]]
  <2>1. money' = [b \in Bets |-> money'[b]]
    BY DEF money
  <2>2. \A b \in Bets : money'[b] = IF b \in S THEN news[b] ELSE money[b]
    OBVIOUS
  <2> HIDE DEF S, news
  <2> QED
    BY <2>1, <2>2
<1>8. news \in [S -> {"returned", "won"}] /\ S \in SUBSET Bets
  BY <1>5
<1> HIDE DEF S, news
<1>9. Settles!Settle(S)
  BY <1>1, <1>5, <1>6, <1>7, <1>8 DEF Settles!Settle
<1> QED
  BY <1>8, <1>9 DEF Settles!Next

LEMMA TellsStep ==
  ASSUME SettleInv, SettleInv', byHand \cup lost = {}, (byHand \cup lost = {})', Tells
  PROVE  [Settles!Next]_<<money, told>>
<1> DEFINE S == {b \in Bets : told'[b] # told[b]}
<1>1. \A b, o : Applied(b, o)' = Applied(b, o)
  BY DEF Tells, Applied
<1>2. money' = money
  BY <1>1 DEF money
<1>3. \A b \in Bets : told'[b] = IF row'[b].status \in {"CANCEL", "REFUND"} THEN "returned"
                                 ELSE IF row'[b].status = "WT_DONE" THEN "won"
                                 ELSE "nothing"
  BY DEF told
<1>4. \A b \in Bets : told[b] = IF row[b].status \in {"CANCEL", "REFUND"} THEN "returned"
                                ELSE IF row[b].status = "WT_DONE" THEN "won"
                                ELSE "nothing"
  BY DEF told
<1>5. \A b \in S : told[b] = "nothing" /\ told'[b] \in {"returned", "won"}
  BY <1>3, <1>4 DEF Tells, Clean
<1>6. \A b \in Bets : /\ row'[b].status = "WT_DONE" => Applied(b, "WD")'
                      /\ row'[b].status \in {"CANCEL", "REFUND"} => Applied(b, "REFUND")'
  BY DEF SettleInv, PaidInv, PayInv, DoneMeansPaid
<1>7. \A b \in Bets : Applied(b, "REFUND") => ~Applied(b, "WD")
  BY StakeFirst
<1>8. \A b \in S : money[b] = told'[b]
  <2> SUFFICES ASSUME NEW b \in S
               PROVE  money[b] = told'[b]
    OBVIOUS
  <2>1. CASE row'[b].status \in {"CANCEL", "REFUND"}
    BY <1>1, <1>3, <1>6, <2>1 DEF money
  <2>2. CASE row'[b].status = "WT_DONE"
    BY <1>1, <1>3, <1>6, <1>7, <2>2 DEF money
  <2> QED
    BY <1>3, <1>5, <2>1, <2>2
<1>9. told' = [b \in Bets |-> IF b \in S THEN money[b] ELSE told[b]]
  <2>1. told' = [b \in Bets |-> told'[b]]
    BY DEF told
  <2>2. \A b \in Bets : told'[b] = IF b \in S THEN money[b] ELSE told[b]
    BY <1>8
  <2> HIDE DEF S
  <2> QED
    BY <2>1, <2>2
<1>10. S \in SUBSET Bets
  OBVIOUS
<1> HIDE DEF S
<1>11. \A b \in S : money[b] \in {"returned", "won"}
  BY <1>5, <1>8
<1>12. Settles!Tell(S)
  BY <1>2, <1>5, <1>9, <1>11 DEF Settles!Tell
<1> QED
  BY <1>10, <1>12 DEF Settles!Next

LEMMA InitImplements ==
  Init => Settles!Init
<1> SUFFICES ASSUME Init
             PROVE  Settles!Init
  OBVIOUS
<1>1. \A b \in Bets : \A o : ~Applied(b, o)
  BY DEF Init, PayInit, Applied
<1>2. \A b \in Bets : row[b].status = "NONE"
  BY DEF Init, PayInit, NoRow
<1> QED
  BY <1>1, <1>2 DEF Settles!Init, money, told

LEMMA StepImplements ==
  SettleInv /\ SettleInv' /\ [Next]_vars
    => [lost' \cup byHand' = {} => [Settles!Next]_<<money, told>>]_vars
<1> SUFFICES ASSUME SettleInv, SettleInv', [Next]_vars, (byHand \cup lost = {})'
             PROVE  [Settles!Next]_<<money, told>>
  OBVIOUS
<1>1. byHand \cup lost = {}
  BY LostGrows
<1> QED
  BY <1>1, StepKind, TakesStep, GivesStep, TellsStep

\* Of each bet whose refunds the service kept sight of, the merchant first takes the
\* stake and then returns it or pays it out, once, and the tables say so only
\* afterwards and never take it back.
THEOREM ImplementsSettlement ==
  Spec => KeepsSettlement
<1> QED
  BY InitImplements, StepImplements, SettleInvAlways, PTL DEF Spec, KeepsSettlement
=============================================================================
