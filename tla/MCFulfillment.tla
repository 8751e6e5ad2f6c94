--------------------------- MODULE MCFulfillment ---------------------------
(***************************************************************************)
(* Small instances of Fulfillment: a sub-order of one unit each of two     *)
(* products, which two requests may cancel at once; and the same with a    *)
(* second sub-order, of one unit of one of the products.                   *)
(***************************************************************************)
EXTENDS Fulfillment, TLC

CONSTANTS s1, s2, p1, p2, w1, w2

OneSubOrder == {s1}
TwoSubOrders == {s1, s2}
TwoProducts == {p1, p2}
TwoRequests == {w1, w2}
OneUnitEach == [s \in OneSubOrder |-> [p \in TwoProducts |-> 1]]
OneShared == [s \in TwoSubOrders |-> [p \in TwoProducts |-> IF <<s, p>> = <<s2, p1>> THEN 0 ELSE 1]]
EitherRequest == Permutations(TwoRequests)
=============================================================================
