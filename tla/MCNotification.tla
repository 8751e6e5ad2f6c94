--------------------------- MODULE MCNotification ---------------------------
(***************************************************************************)
(* Two replicas, two entries, of two events or of one that comes twice, a  *)
(* channel that cannot fail and one that can, one retry.                   *)
(***************************************************************************)
EXTENDS Notification

CONSTANTS e1, e2, w1, w2

MCEvents == {e1, e2}
MCWorkers == {w1, w2}
=============================================================================
