---------------------------- MODULE MCStorefront ----------------------------
(***************************************************************************)
(* Two lines of up to two units, three units in all, and two calls in      *)
(* flight.                                                                 *)
(***************************************************************************)
EXTENDS Storefront, TLC

CONSTANTS i1, i2, s1, s2

MCItems == {i1, i2}
MCCarts == {q \in [MCItems -> 0..2] : q[i1] + q[i2] <= 3}
MCSlots == {s1, s2}
Symmetry == Permutations(MCItems) \cup Permutations(MCSlots)
=============================================================================
