----------------------------- MODULE MCPayment -----------------------------
(***************************************************************************)
(* A small instance of Payment.                                            *)
(***************************************************************************)
EXTENDS Payment

=============================================================================
