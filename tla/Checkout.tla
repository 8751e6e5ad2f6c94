------------------------------ MODULE Checkout ------------------------------
(***************************************************************************)
(* Carts and checkout of the inventory service: requests that run          *)
(* concurrently, each in a PostgreSQL transaction of its own, and call the *)
(* reservation store on the way.  (services/inventory, cart and order)     *)
(*                                                                         *)
(* Transactions run at READ COMMITTED and no entity has a version, so a    *)
(* request acts on rows as it read them, and its writes come at its        *)
(* commit.  An UPDATE or DELETE of a row that is gone by then fails the    *)
(* request.  What it did in Redis stays done when it fails.                *)
(*                                                                         *)
(* The reservation store is taken as its abstract ledger (HoldLedger,      *)
(* which ReservationStore implements).  A hold that has lapsed is one the  *)
(* ledger has dropped.                                                     *)
(***************************************************************************)
EXTENDS Integers, FiniteSets

CONSTANTS
    Retailers,      \* retailers with a cart
    Products,       \* product ids
    Items,          \* ids of cart items
    Orders,         \* ids of orders
    Reservations,   \* reservation ids
    Quantities,     \* quantities a retailer asks for, all of them >= the MOQ
    StockLevels,    \* values of the stock mirror
    Workers,        \* requests that run at one time
    NoRow,          \* row[i] where there is no cart_item row i
    NoCall          \* calls[w] while w runs nothing

ASSUME QuantitiesAssumption == Quantities \subseteq Nat \ {0}
ASSUME StockLevelsAssumption == StockLevels \subseteq Nat

Rows == [owner : Retailers, product : Products, qty : Quantities, resv : Reservations]

ASSUME NoRowAssumption == NoRow \notin Rows

Row(u, p, q, r) == [owner |-> u, product |-> p, qty |-> q, resv |-> r]

(***************************************************************************)
(* The rows of cart as findByRetailerId counts them: none, one, several.   *)
(***************************************************************************)
None == 0
One == 1
Several == 2

VARIABLES
    stock,      \* the ledger: stock of each product
    holds,      \* the ledger: the pairs <<reservation, quantity>> holding it
    carts,      \* carts[u]: rows of cart for retailer u
    row,        \* row[i]: the cart_item row i
    orders,     \* orders[o]: the lines of order o, pairs <<item, row>>
    calls,      \* calls[w]: where request w is, and what it keeps in memory
    leaked      \* history: holds that no row and no request refers to any more

ledger == <<stock, holds>>
tables == <<carts, row, orders>>
vars == <<ledger, tables, calls, leaked>>

Ledger == INSTANCE HoldLedger

Held(r) == \E p \in Products, q \in Quantities : <<r, q>> \in holds[p]

(***************************************************************************)
(* What a request keeps in memory: addItem the new row and how many carts  *)
(* it found; changeQuantity and removeItem the row they read; checkout the *)
(* lines it read and those it has not checked yet, then the rows to delete.*)
(***************************************************************************)
Adding(s, new, n) == [at |-> s, new |-> new, found |-> n]
Changing(s, i, old, new) == [at |-> s, item |-> i, old |-> old, new |-> new]
Removing(s, i, old) == [at |-> s, item |-> i, old |-> old]
Ordering(s, u, lines, items) == [at |-> s, owner |-> u, lines |-> lines, items |-> items]

AddSteps == {"find cart", "insert"}
ChangeSteps == {"release old", "reserve new", "restore old", "update"}
RemoveSteps == {"release", "delete"}
OrderSteps == {"check", "commit"}

(***************************************************************************)
(* A line of an order or of a checkout: an item, and the row as it was.    *)
(***************************************************************************)
Lines == Items \X Rows

Calls ==
    [at : {"find cart", "insert"}, new : Rows, found : {None, One}]
    \cup [at : ChangeSteps, item : Items, old : Rows, new : Rows]
    \cup [at : RemoveSteps, item : Items, old : Rows]
    \cup [at : OrderSteps, owner : Retailers, lines : SUBSET Lines, items : SUBSET Items]

ASSUME NoCallAssumption == NoCall \notin Calls

At(w, s) == calls[w] # NoCall /\ calls[w].at = s
Goes(w, c) == calls' = [calls EXCEPT ![w] = c]
Ends(w) == Goes(w, NoCall)

LinesOf(u) == {i \in Items : row[i] # NoRow /\ row[i].owner = u}

(***************************************************************************)
(* Ids are random UUIDs.                                                   *)
(***************************************************************************)
Ordered(i) == \E o \in Orders : \E l \in orders[o] : l[1] = i
OrderedResv(r) == \E o \in Orders : \E l \in orders[o] : l[2].resv = r

InFlight(w, r) ==
    /\ calls[w] # NoCall
    /\ \/ calls[w].at \in AddSteps \cup ChangeSteps /\ calls[w].new.resv = r
       \/ calls[w].at \in ChangeSteps \cup RemoveSteps /\ calls[w].old.resv = r
       \/ calls[w].at \in OrderSteps /\ \E l \in calls[w].lines : l[2].resv = r

FreshItem(i) ==
    /\ row[i] = NoRow /\ ~Ordered(i)
    /\ \A w \in Workers :
        /\ calls[w] # NoCall
        /\ calls[w].at \in ChangeSteps \cup RemoveSteps
        => calls[w].item # i
    /\ \A w \in Workers :
        calls[w] # NoCall /\ calls[w].at \in OrderSteps
            => i \notin calls[w].items /\ \A l \in calls[w].lines : l[1] # i

FreshResv(r) ==
    /\ ~Held(r) /\ ~OrderedResv(r) /\ r \notin leaked
    /\ \A i \in Items : row[i] # NoRow => row[i].resv # r
    /\ \A w \in Workers : ~InFlight(w, r)

(***************************************************************************)
(* The calls of ReservationService, one script each.                       *)
(***************************************************************************)
Reserve(p, r, q) == FreshResv(r) /\ Ledger!Grant(p, r, q, holds[p])

Refused(p, q) == q > stock[p] - Ledger!UnitsOf(holds[p])

Release(p, r) == Ledger!Drop(p, {h \in holds[p] : h[1] # r})

Init ==
    /\ stock \in [Products -> StockLevels]
    /\ holds = [p \in Products |-> {}]
    /\ carts = [u \in Retailers |-> None]
    /\ row = [i \in Items |-> NoRow]
    /\ orders = [o \in Orders |-> {}]
    /\ calls = [w \in Workers |-> NoCall]
    /\ leaked = {}

-----------------------------------------------------------------------------
(***************************************************************************)
(* addItem: reserve; find the cart, which fails once there are several;    *)
(* insert the item, and the cart if none was found.  Nothing in the schema *)
(* keeps a retailer from having several.                                   *)
(***************************************************************************)
AddItem(w, u, p, q, r) ==
    /\ calls[w] = NoCall
    /\ Reserve(p, r, q)
    /\ Goes(w, Adding("find cart", Row(u, p, q, r), None))
    /\ UNCHANGED <<tables, leaked>>

FindCart(w) ==
    /\ At(w, "find cart")
    /\ carts[calls[w].new.owner] # Several
    /\ Goes(w, Adding("insert", calls[w].new, carts[calls[w].new.owner]))
    /\ UNCHANGED <<ledger, tables, leaked>>

FindSeveralCarts(w) ==
    /\ At(w, "find cart")
    /\ carts[calls[w].new.owner] = Several
    /\ leaked' = leaked \cup {calls[w].new.resv}
    /\ Ends(w)
    /\ UNCHANGED <<ledger, tables>>

\* Broken variant of InsertItem: the insert is sent again after its commit.
InsertAgain(w, i) ==
    /\ At(w, "insert")
    /\ FreshItem(i)
    /\ row' = [row EXCEPT ![i] = calls[w].new]
    /\ carts' = [carts EXCEPT ![calls[w].new.owner] = One]
    /\ UNCHANGED <<ledger, orders, calls, leaked>>

InsertItem(w, i) ==
    LET u == calls[w].new.owner IN
    /\ At(w, "insert")
    /\ FreshItem(i)
    /\ row' = [row EXCEPT ![i] = calls[w].new]
    /\ carts' = IF calls[w].found = None
                THEN [carts EXCEPT ![u] = IF @ = None THEN One ELSE Several]
                ELSE carts
    /\ Ends(w)
    /\ UNCHANGED <<ledger, orders, leaked>>

(***************************************************************************)
(* changeQuantity: read the row, release its hold, reserve the new         *)
(* quantity, update the row.                                               *)
(***************************************************************************)
ChangeQuantity(w, i, q) ==
    /\ calls[w] = NoCall
    /\ row[i] # NoRow
    /\ Goes(w, Changing("release old", i, row[i],
                        Row(row[i].owner, row[i].product, q, row[i].resv)))
    /\ UNCHANGED <<ledger, tables, leaked>>

ReleaseOld(w) ==
    LET c == calls[w] IN
    /\ At(w, "release old")
    /\ Release(c.old.product, c.old.resv)
    /\ Goes(w, Changing("reserve new", c.item, c.old, c.new))
    /\ UNCHANGED <<tables, leaked>>

\* Broken variant of ReserveNew: the quantity of the row is reserved.
ReserveOldQuantity(w, r) ==
    LET c == calls[w]
        n == c.new
    IN  /\ At(w, "reserve new")
        /\ Reserve(n.product, r, c.old.qty)
        /\ Goes(w, Changing("update", c.item, c.old, Row(n.owner, n.product, n.qty, r)))
        /\ UNCHANGED <<tables, leaked>>

ReserveNew(w, r) ==
    LET c == calls[w]
        n == c.new
    IN  /\ At(w, "reserve new")
        /\ Reserve(n.product, r, n.qty)
        /\ Goes(w, Changing("update", c.item, c.old, Row(n.owner, n.product, n.qty, r)))
        /\ UNCHANGED <<tables, leaked>>

RefuseNew(w) ==
    LET c == calls[w] IN
    /\ At(w, "reserve new")
    /\ Refused(c.new.product, c.new.qty)
    /\ Goes(w, Changing("restore old", c.item, c.old, c.new))
    /\ UNCHANGED <<ledger, tables, leaked>>

(***************************************************************************)
(* The old quantity is reserved again, under a new id, or refused as well. *)
(* The exception that reports the refusal rolls the transaction back, and  *)
(* with it the new id in the row.                                          *)
(***************************************************************************)
RestoreOld(w, r) ==
    /\ At(w, "restore old")
    /\ Reserve(calls[w].old.product, r, calls[w].old.qty)
    /\ leaked' = leaked \cup {r}
    /\ Ends(w)
    /\ UNCHANGED tables

\* Broken variant of RefuseOld: without the rollback the row loses its id.
RefuseOldForGood(w) ==
    LET c == calls[w] IN
    /\ At(w, "restore old")
    /\ Refused(c.old.product, c.old.qty)
    /\ row' = [row EXCEPT ![c.item] = Row(c.old.owner, c.old.product, c.old.qty, NoRow)]
    /\ Ends(w)
    /\ UNCHANGED <<ledger, carts, orders, leaked>>

RefuseOld(w) ==
    /\ At(w, "restore old")
    /\ Refused(calls[w].old.product, calls[w].old.qty)
    /\ Ends(w)
    /\ UNCHANGED <<ledger, tables, leaked>>

(***************************************************************************)
(* The row is overwritten whatever it says by now; gone, it fails the      *)
(* request.                                                                *)
(***************************************************************************)
UpdateItem(w) ==
    LET c == calls[w] IN
    /\ At(w, "update")
    /\ row[c.item] # NoRow
    /\ row' = [row EXCEPT ![c.item] = c.new]
    /\ leaked' = leaked \cup ({row[c.item].resv} \ {c.old.resv})
    /\ Ends(w)
    /\ UNCHANGED <<ledger, carts, orders>>

UpdateGoneItem(w) ==
    /\ At(w, "update")
    /\ row[calls[w].item] = NoRow
    /\ leaked' = leaked \cup {calls[w].new.resv}
    /\ Ends(w)
    /\ UNCHANGED <<ledger, tables>>

(***************************************************************************)
(* removeItem: read the row, release its hold, delete the row.             *)
(***************************************************************************)
RemoveItem(w, i) ==
    /\ calls[w] = NoCall
    /\ row[i] # NoRow
    /\ Goes(w, Removing("release", i, row[i]))
    /\ UNCHANGED <<ledger, tables, leaked>>

\* Broken variant of ReleaseRemoved: the hold is left to its expiry.
KeepRemoved(w) ==
    /\ At(w, "release")
    /\ Goes(w, Removing("delete", calls[w].item, calls[w].old))
    /\ UNCHANGED <<ledger, tables, leaked>>

ReleaseRemoved(w) ==
    LET c == calls[w] IN
    /\ At(w, "release")
    /\ Release(c.old.product, c.old.resv)
    /\ Goes(w, Removing("delete", c.item, c.old))
    /\ UNCHANGED <<tables, leaked>>

DeleteItem(w) ==
    LET c == calls[w] IN
    /\ At(w, "delete")
    /\ row[c.item] # NoRow
    /\ row' = [row EXCEPT ![c.item] = NoRow]
    /\ leaked' = leaked \cup ({row[c.item].resv} \ {c.old.resv})
    /\ Ends(w)
    /\ UNCHANGED <<ledger, carts, orders>>

DeleteGoneItem(w) ==
    /\ At(w, "delete")
    /\ row[calls[w].item] = NoRow
    /\ Ends(w)
    /\ UNCHANGED <<ledger, tables, leaked>>

(***************************************************************************)
(* checkout: read the lines of the one cart; ask the store for every line  *)
(* whether its hold is active, and stop if one is not; write the order and *)
(* delete the rows of the cart.  deleteByCartId reads the rows anew and    *)
(* deletes them one by one at the commit; once there are several carts,    *)
(* lines that were not read may be in another one and are kept.            *)
(***************************************************************************)
ReadCart(w, u) ==
    /\ calls[w] = NoCall
    /\ carts[u] = One
    /\ LinesOf(u) # {}
    /\ Goes(w, Ordering("check", u, {<<i, row[i]>> : i \in LinesOf(u)}, LinesOf(u)))
    /\ UNCHANGED <<ledger, tables, leaked>>

CheckLine(w) ==
    LET c == calls[w] IN
    /\ At(w, "check")
    /\ \E l \in c.lines :
        /\ l[1] \in c.items
        /\ Held(l[2].resv)
        /\ Goes(w, Ordering("check", c.owner, c.lines, c.items \ {l[1]}))
    /\ UNCHANGED <<ledger, tables, leaked>>

HaltCheckout(w) ==
    /\ At(w, "check")
    /\ \E l \in calls[w].lines : l[1] \in calls[w].items /\ ~Held(l[2].resv)
    /\ Ends(w)
    /\ UNCHANGED <<ledger, tables, leaked>>

PlanDeletes(w) ==
    LET c == calls[w] IN
    /\ At(w, "check")
    /\ c.items = {}
    /\ \E kept \in SUBSET {i \in LinesOf(c.owner) : \A l \in c.lines : l[1] # i} :
        /\ carts[c.owner] # Several => kept = {}
        /\ Goes(w, Ordering("commit", c.owner, c.lines, LinesOf(c.owner) \ kept))
    /\ UNCHANGED <<ledger, tables, leaked>>

\* Broken variant of CommitOrder: rows changed since they were read are kept.
CommitUnchanged(w, o) ==
    LET c == calls[w] IN
    /\ At(w, "commit")
    /\ orders[o] = {}
    /\ \A i \in c.items : row[i] # NoRow
    /\ orders' = [orders EXCEPT ![o] = c.lines]
    /\ row' = [i \in Items |-> IF <<i, row[i]>> \in c.lines THEN NoRow ELSE row[i]]
    /\ Ends(w)
    /\ UNCHANGED <<ledger, carts, leaked>>

CommitOrder(w, o) ==
    LET c == calls[w] IN
    /\ At(w, "commit")
    /\ orders[o] = {}
    /\ \A i \in c.items : row[i] # NoRow
    /\ orders' = [orders EXCEPT ![o] = c.lines]
    /\ row' = [i \in Items |-> IF i \in c.items THEN NoRow ELSE row[i]]
    /\ leaked' = leaked \cup ({row[i].resv : i \in c.items} \ {l[2].resv : l \in c.lines})
    /\ Ends(w)
    /\ UNCHANGED <<ledger, carts>>

CommitFails(w) ==
    /\ At(w, "commit")
    /\ \E i \in calls[w].items : row[i] = NoRow
    /\ Ends(w)
    /\ UNCHANGED <<ledger, tables, leaked>>

(***************************************************************************)
(* A request fails anywhere: PostgreSQL or Redis cannot be reached, or the *)
(* process dies.                                                           *)
(***************************************************************************)
Fails(w) ==
    /\ calls[w] # NoCall
    /\ leaked' = IF calls[w].at \in AddSteps \cup {"update"}
                 THEN leaked \cup {calls[w].new.resv}
                 ELSE leaked
    /\ Ends(w)
    /\ UNCHANGED <<ledger, tables>>

(***************************************************************************)
(* External: a hold lapses.                                                *)
(***************************************************************************)
Lapse(p, h) ==
    /\ h \in holds[p]
    /\ Ledger!Drop(p, holds[p] \ {h})
    /\ leaked' = leaked \ {h[1]}
    /\ UNCHANGED <<tables, calls>>

Begin(w) ==
    \/ \E u \in Retailers, p \in Products, q \in Quantities, r \in Reservations :
          AddItem(w, u, p, q, r)
    \/ \E i \in Items, q \in Quantities : ChangeQuantity(w, i, q)
    \/ \E i \in Items : RemoveItem(w, i)
    \/ \E u \in Retailers : ReadCart(w, u)

Continue(w) ==
    \/ FindCart(w) \/ FindSeveralCarts(w)
    \/ \E i \in Items : InsertItem(w, i)
    \/ ReleaseOld(w) \/ RefuseNew(w) \/ RefuseOld(w) \/ UpdateItem(w) \/ UpdateGoneItem(w)
    \/ \E r \in Reservations : ReserveNew(w, r) \/ RestoreOld(w, r)
    \/ ReleaseRemoved(w) \/ DeleteItem(w) \/ DeleteGoneItem(w)
    \/ CheckLine(w) \/ HaltCheckout(w) \/ PlanDeletes(w) \/ CommitFails(w)
    \/ \E o \in Orders : CommitOrder(w, o)

Next ==
    \/ \E w \in Workers : Begin(w) \/ Continue(w) \/ Fails(w)
    \/ \E p \in Products : \E h \in holds[p] : Lapse(p, h)

Spec == Init /\ [][Next]_vars

-----------------------------------------------------------------------------
(***************************************************************************)
(* Rows, orders and requests hold values of the kinds the code writes.     *)
(***************************************************************************)
TypeOK ==
    /\ stock \in [Products -> Nat]
    /\ holds \in [Products -> SUBSET (Reservations \X Quantities)]
    /\ carts \in [Retailers -> {None, One, Several}]
    /\ row \in [Items -> Rows \cup {NoRow}]
    /\ orders \in [Orders -> SUBSET Lines]
    /\ calls \in [Workers -> Calls \cup {NoCall}]
    /\ leaked \subseteq Reservations

(***************************************************************************)
(* Lines that stand for a retailer's wish: cart items, ordered lines, and  *)
(* the lines a checkout has read.                                          *)
(***************************************************************************)
Claims ==
    {<<i, row[i]>> : i \in {j \in Items : row[j] # NoRow}}
    \cup (UNION {orders[o] : o \in Orders})
    \cup (UNION {calls[w].lines : w \in {v \in Workers : At(v, "check") \/ At(v, "commit")}})

(***************************************************************************)
(* No hold backs two items, whatever requests for them overlap: stock held *)
(* once is never promised twice to different lines.                        *)
(***************************************************************************)
NoSharedHold ==
    \A l, m \in Claims : l[2].resv = m[2].resv => l[1] = m[1]

(***************************************************************************)
(* A hold that backs a line has the product and the quantity of that line, *)
(* through any sequence of quantity changes, refusals and failures.        *)
(***************************************************************************)
HoldsFitLines ==
    \A l \in Claims : \A p \in Products : \A h \in holds[p] :
        h[1] = l[2].resv => p = l[2].product /\ h[2] = l[2].qty

(***************************************************************************)
(* No hold gets out of sight silently: each one is known to a cart item,   *)
(* an ordered line or a request under way, unless a request failed with    *)
(* it, a refused change reserved it, or an overlapping request overwrote   *)
(* or deleted the row that knew it.                                        *)
(***************************************************************************)
HoldsAreOwned ==
    \A p \in Products : \A h \in holds[p] :
        \/ h[1] \in leaked
        \/ \E l \in Claims : l[2].resv = h[1]
        \/ \E w \in Workers : InFlight(w, h[1])

(***************************************************************************)
(* What has been ordered is no longer in a cart, also when the row was     *)
(* changed while the checkout ran.                                         *)
(***************************************************************************)
OrderedLinesLeaveCart ==
    \A o \in Orders : \A l \in orders[o] : row[l[1]] = NoRow

(***************************************************************************)
(* Whatever requests overlap and wherever they fail, what a line says it   *)
(* holds is what the store holds for it, and for it alone.                 *)
(***************************************************************************)
HoldsAreSound ==
    /\ TypeOK
    /\ NoSharedHold
    /\ HoldsFitLines

(***************************************************************************)
(* CartService.java:96-98: if the new quantity cannot be reserved, the     *)
(* original hold is restored and cart and reservation stay consistent.     *)
(***************************************************************************)
RefusedChangeKeepsHold ==
    [][\A w \in Workers, r \in Reservations :
            RestoreOld(w, r) /\ row[calls[w].item] # NoRow
                => row'[calls[w].item].resv = r]_vars

(***************************************************************************)
(* CheckoutService.java:147: the cart's lines, which are deleted here,     *)
(* have become an order.                                                   *)
(***************************************************************************)
DeletedLinesAreOrdered ==
    [][\A w \in Workers, o \in Orders : CommitOrder(w, o) =>
            \A i \in calls[w].items : \E l \in calls[w].lines : l[1] = i]_vars

(***************************************************************************)
(* CheckoutService.java:18-23: the cart is split into one sub-order per    *)
(* supplier under a single parent order.                                   *)
(***************************************************************************)
OneOrderPerLine ==
    \A o1, o2 \in Orders : \A l \in orders[o1], m \in orders[o2] :
        l[1] = m[1] => o1 = o2
=============================================================================
