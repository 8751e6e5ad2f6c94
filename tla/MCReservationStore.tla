------------------------ MODULE MCReservationStore ------------------------
(***************************************************************************)
(* A small instance of ReservationStore.                                   *)
(***************************************************************************)
EXTENDS ReservationStore

=============================================================================
