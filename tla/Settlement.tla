----------------------------- MODULE Settlement -----------------------------
(***************************************************************************)
(* What the payment side promises about each bet.  The merchant takes a    *)
(* stake and then gives it back or pays winnings for it, not both; and the *)
(* service says of a bet only what has happened: that its stake was        *)
(* returned, that it was paid, or neither.                                 *)
(***************************************************************************)
CONSTANT Bets

VARIABLES
  money,  \* money[b]: where the stake of b is
  told    \* told[b]: what the service's tables say of it

Init ==
  /\ money = [b \in Bets |-> "free"]
  /\ told = [b \in Bets |-> "nothing"]

\* The merchant takes a stake.
Take(b) ==
  /\ money[b] = "free"
  /\ money' = [money EXCEPT ![b] = "taken"]
  /\ UNCHANGED told

\* It returns some stakes and pays out others.
Settle(S) ==
  /\ \A b \in S : money[b] = "taken" /\ told[b] = "nothing"
  /\ \E m \in [S -> {"returned", "won"}] :
       money' = [b \in Bets |-> IF b \in S THEN m[b] ELSE money[b]]
  /\ UNCHANGED told

\* The service learns of it.
Tell(S) ==
  /\ \A b \in S : told[b] = "nothing" /\ money[b] \in {"returned", "won"}
  /\ told' = [b \in Bets |-> IF b \in S THEN money[b] ELSE told[b]]
  /\ UNCHANGED money

Next ==
  \/ \E b \in Bets : Take(b)
  \/ \E S \in SUBSET Bets : Settle(S) \/ Tell(S)

Spec == Init /\ [][Next]_<<money, told>>
=============================================================================
