----------------------------- MODULE MCCheckout -----------------------------
(***************************************************************************)
(* A small instance of Checkout.  Ids are interchangeable.                 *)
(***************************************************************************)
EXTENDS Checkout, TLC

Symmetry ==
    Permutations(Items) \cup Permutations(Orders)
        \cup Permutations(Reservations) \cup Permutations(Workers)
=============================================================================
