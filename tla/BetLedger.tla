----------------------------- MODULE BetLedger -----------------------------
(***************************************************************************)
(* What the coin game promises about bets, whatever runs underneath: every *)
(* round is drawn at most once; the draw settles, in one step, all bets in *)
(* play in the round; nothing is placed in a drawn round, nothing settled  *)
(* is taken back, and only winners are paid out, once each.                *)
(***************************************************************************)
CONSTANTS
  Bets,    \* bets
  Rounds   \* rounds (periods)

VARIABLES
  status,  \* status[b]: the status of bet b
  round,   \* round[b]: the round b was placed in
  drawn    \* the rounds that are drawn

ledger == <<status, round, drawn>>

Init ==
  /\ status = [b \in Bets |-> "NONE"]
  /\ round \in [Bets -> {0}]
  /\ drawn = {}

InPlay(r) == {b \in Bets : status[b] = "BET_DONE" /\ round[b] = r}

\* A stake is taken, or not, for a round that is still open.
Place(b, r) ==
  /\ status[b] = "NONE"
  /\ r \notin drawn
  /\ \E s \in {"BET_DONE", "BET_FAILED"} : status' = [status EXCEPT ![b] = s]
  /\ round' = [round EXCEPT ![b] = r]
  /\ UNCHANGED drawn

\* A bet in play is taken back before its draw.
Cancel(b) ==
  /\ status[b] = "BET_DONE"
  /\ status' = [status EXCEPT ![b] = "CANCEL"]
  /\ UNCHANGED <<round, drawn>>

\* The draw of a round makes some of the bets in play win and all others lose.
Draw(r) ==
  /\ r \notin drawn
  /\ drawn' = drawn \cup {r}
  /\ \E won \in SUBSET InPlay(r) :
       status' = [b \in Bets |-> IF b \in won THEN "PAY_ING"
                                 ELSE IF b \in InPlay(r) THEN "BOMB"
                                 ELSE status[b]]
  /\ UNCHANGED round

\* Payouts of some winners come to an end.
Payout(S) ==
  /\ \A b \in S : status[b] = "PAY_ING"
  /\ \E s \in [S -> {"WT_DONE", "WT_FAILED"}] :
       status' = [b \in Bets |-> IF b \in S THEN s[b] ELSE status[b]]
  /\ UNCHANGED <<round, drawn>>

Next ==
  \/ \E b \in Bets : Cancel(b) \/ \E r \in Rounds : Place(b, r)
  \/ \E r \in Rounds : Draw(r)
  \/ \E S \in SUBSET Bets : Payout(S)

Spec == Init /\ [][Next]_ledger
=============================================================================
