------------------------------- MODULE MCFeed -------------------------------
(***************************************************************************)
(* Constants for model-checking Feed.                                      *)
(***************************************************************************)
EXTENDS Feed

CONSTANTS n1, n2, d1, d2, p1, p2

TwoNodes == {n1, n2}
OneDraw == {d1}
TwoDraws == {d1, d2}
TwoPrices == {p1, p2}
=============================================================================
