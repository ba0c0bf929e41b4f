----------------------------- MODULE MCCoinGame -----------------------------
(***************************************************************************)
(* Constants for model-checking CoinGame.                                  *)
(***************************************************************************)
EXTENDS CoinGame, TLC

CONSTANTS b1, b2, c1, u1, w1, w2

OneBet == {b1}
TwoBets == {b1, b2}
BothOptions == {"up", "down"}
OneOption == {"up"}
PicksOne == b1 :> "up"
PicksSame == b1 :> "up" @@ b2 :> "up"

NoCancel == {}
OneCancel == {c1}
NoTarget == [c \in {} |-> b1]
CancelFirst == c1 :> b1
UsersOne == b1 :> u1
UsersTwo == b1 :> u1 @@ b2 :> u1
UsersCancel == b1 :> u1 @@ c1 :> u1
UsersAll == b1 :> u1 @@ b2 :> u1 @@ c1 :> u1

OneWorker == {w1}
TwoWorkers == {w1, w2}
WorkerSymmetry == Permutations(TwoWorkers)
=============================================================================
