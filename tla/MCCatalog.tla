----------------------------- MODULE MCCatalog -----------------------------
(***************************************************************************)
(* Two requests at a time and three in all, two replicas of search, three  *)
(* reviews by two retailers.                                               *)
(***************************************************************************)
EXTENDS Catalog

CONSTANTS w1, w2, c1, c2, t1, t2, v1, v2, v3

MCWorkers == {w1, w2}
MCConsumers == {c1, c2}
MCTexts == {t1, t2}
MCReviews == {v1, v2, v3}
MCAuthor == [v \in MCReviews |-> IF v = v3 THEN 2 ELSE 1]
=============================================================================
