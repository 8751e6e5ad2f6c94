---------------------------- MODULE HoldLedger ----------------------------
(***************************************************************************)
(* What the reservation store promises its callers, without clocks,        *)
(* counters or Redis keys: a ledger of the stock of each product and of    *)
(* the holds granted against it.  A hold is granted, and a sale without a  *)
(* hold is made, only when the units nobody holds cover it; a sale with a  *)
(* hold uses the hold up.  Holds may lapse at any time, also in the same   *)
(* step as another operation.  ReservationStore implements this module.    *)
(***************************************************************************)
EXTENDS Integers, FiniteSets

CONSTANTS
    Products,       \* product ids
    Reservations,   \* reservation ids
    Quantities,     \* the sizes a hold can have
    StockLevels     \* the values the stock of a product is set to

VARIABLES
    stock,          \* stock[p]: units of p that exist and are not sold
    holds           \* holds[p]: the pairs <<reservation, quantity>> holding p

vars == <<stock, holds>>

(***************************************************************************)
(* Every hold h is a set of h[2] units.  Counting units instead of adding  *)
(* quantities keeps the total a cardinality.                               *)
(***************************************************************************)
Units(H) == UNION {{h} \X (1..h[2]) : h \in H}

UnitsOf(H) == Cardinality(Units(H))

Unheld(r) == \A p \in Products : \A h \in holds[p] : h[1] # r

Init ==
    /\ stock = [p \in Products |-> 0]
    /\ holds = [p \in Products |-> {}]

Grant(p, r, q, kept) ==
    /\ Unheld(r)
    /\ q <= stock[p] - UnitsOf(kept)
    /\ holds' = [holds EXCEPT ![p] = kept \cup {<<r, q>>}]
    /\ UNCHANGED stock

Drop(p, kept) ==
    /\ holds' = [holds EXCEPT ![p] = kept]
    /\ UNCHANGED stock

SellHeld(p, r, q, kept) ==
    /\ <<r, q>> \in kept
    /\ stock' = [stock EXCEPT ![p] = @ - q]
    /\ holds' = [holds EXCEPT ![p] = kept \ {<<r, q>>}]

SellFree(p, q, kept) ==
    /\ q <= stock[p] - UnitsOf(kept)
    /\ stock' = [stock EXCEPT ![p] = @ - q]
    /\ holds' = [holds EXCEPT ![p] = kept]

SetStock(p, n) ==
    /\ stock' = [stock EXCEPT ![p] = n]
    /\ UNCHANGED holds

Next ==
    \E p \in Products :
        \/ \E n \in StockLevels : SetStock(p, n)
        \/ \E kept \in SUBSET holds[p] :
            \/ Drop(p, kept)
            \/ \E q \in Quantities :
                \/ SellFree(p, q, kept)
                \/ \E r \in Reservations :
                    Grant(p, r, q, kept) \/ SellHeld(p, r, q, kept)

Spec == Init /\ [][Next]_vars
=============================================================================
