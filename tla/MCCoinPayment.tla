--------------------------- MODULE MCCoinPayment ---------------------------
(***************************************************************************)
(* Constants for model-checking CoinPayment.                               *)
(***************************************************************************)
EXTENDS CoinPayment, TLC

CONSTANTS b1, b2, h1, h2

OneBet == {b1}
TwoBets == {b1, b2}
BetSymmetry == Permutations(TwoBets)
=============================================================================
