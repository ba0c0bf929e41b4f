---------------------------- MODULE MCMinesGame ----------------------------
(***************************************************************************)
(* Constants for model-checking MinesGame.                                 *)
(***************************************************************************)
EXTENDS MinesGame, TLC

CONSTANTS b1, b2, s1, s2, h1

OneBet == {b1}
TwoBets == {b1, b2}
OneThread == {s1}
TwoThreads == {s1, s2}
ThreadSymmetry == Permutations(TwoThreads)

\* Two diamonds double the stake; where a game has one field, it does.
Doubling == <<1, 2>>
Flat == <<2>>
=============================================================================
