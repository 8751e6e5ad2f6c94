----------------------------- MODULE MCSession -----------------------------
(***************************************************************************)
(* Two calls in flight and two pairs of some use.                          *)
(***************************************************************************)
EXTENDS Session

CONSTANTS c1, c2, p1, p2

MCCalls == {c1, c2}
MCPairs == {p1, p2}
=============================================================================
