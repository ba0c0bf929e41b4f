---------------------------- MODULE MCWsSession ----------------------------
(***************************************************************************)
(* Constants for model-checking WsSession.                                 *)
(***************************************************************************)
EXTENDS WsSession

CONSTANTS c1, c2, p1, p2, s1, s2

TwoConns == {c1, c2}
TwoPages == {p1, p2}
TwoSids == {s1, s2}
=============================================================================
