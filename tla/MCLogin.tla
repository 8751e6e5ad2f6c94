------------------------------ MODULE MCLogin ------------------------------
(***************************************************************************)
(* Two calls in flight on one account; two failures in three ticks lock.   *)
(***************************************************************************)
EXTENDS Login, TLC

CONSTANTS h1, h2

MCHandlers == {h1, h2}
Symmetry == Permutations(MCHandlers)
=============================================================================
