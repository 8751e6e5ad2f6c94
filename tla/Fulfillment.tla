---------------------------- MODULE Fulfillment ----------------------------
(***************************************************************************)
(* Sub-orders on their way from payment to delivery or cancellation, and   *)
(* the stock of the products they are made of.  (services/inventory,       *)
(* fulfillment; StockService)                                              *)
(*                                                                         *)
(* Every request is a PostgreSQL transaction at READ COMMITTED: it reads a *)
(* sub-order without a lock, decides, and writes the whole row at its      *)
(* commit.  Product rows are read FOR UPDATE where stock is changed, and   *)
(* the lock lasts to the end of the transaction; the mirror in Redis is    *)
(* set before it.  Other transactions on a product (publish, update,       *)
(* review) read it without a lock and write all of its columns back.       *)
(***************************************************************************)
EXTENDS Integers, Sequences, FiniteSets

CONSTANTS
    SubOrders,      \* sub-orders, one supplier's part of an order each
    Products,       \* product ids
    Lines,          \* Lines[s][p]: units of p in the order lines of s
    StockLevels,    \* values suppliers set the stock to
    Workers,        \* requests that run at one time
    Nobody,         \* lock[p] while the row of p is not locked
    NoSubOrder,     \* the sub-order of a request that has none
    NoCall          \* calls[w] while w runs nothing

ASSUME LinesAssumption == Lines \in [SubOrders -> [Products -> Nat]]
ASSUME StockLevelsAssumption == StockLevels \subseteq Nat
ASSUME NamesAssumption == Nobody \notin Workers /\ NoSubOrder \notin SubOrders
ASSUME ProductsAssumption == IsFiniteSet(Products)

Statuses == {"PENDING", "CONFIRMED", "PACKED", "SHIPPED", "DELIVERED", "CANCELLED"}

(***************************************************************************)
(* The edges FulfillmentStateMachine validates against.                    *)
(***************************************************************************)
Allowed ==
    {<<"PENDING", "CANCELLED">>, <<"CONFIRMED", "PACKED">>, <<"CONFIRMED", "CANCELLED">>,
     <<"PACKED", "SHIPPED">>, <<"SHIPPED", "DELIVERED">>}

VARIABLES
    status,         \* sub_order.status
    timeline,       \* timeline[s]: statuses with a status_history row
    available,      \* product.available_stock
    lock,           \* lock[p]: the request holding the row lock of product p
    mirror,         \* product:{id}:stock in Redis
    calls,          \* calls[w]: the transaction request w runs
    expected,       \* history: the stock suppliers have set, less the units of
                    \*          the sub-orders sold since, going by their statuses
    astray,         \* history: products whose stock no longer adds up, until
                    \*          the supplier sets it again
    unmirrored      \* history: products whose mirror was last set by a request
                    \*          that was rolled back, or whose row was since
                    \*          written back by a request that had not locked it

tables == <<status, timeline, available>>
history == <<expected, astray, unmirrored>>
vars == <<tables, lock, mirror, calls, history>>

(***************************************************************************)
(* A transaction: the sub-order with the status read and the one to write, *)
(* the product rows still to be locked, in the order of the lines, and the *)
(* stock it is going to write, as pairs <<product, stock>>.                *)
(***************************************************************************)
Transaction(s, from, to, todo, writes) ==
    [sub |-> s, from |-> from, to |-> to, todo |-> todo, writes |-> writes]

Calls ==
    [sub : SubOrders \cup {NoSubOrder}, from : Statuses, to : Statuses,
     todo : Seq(Products), writes : SUBSET (Products \X Nat)]

ASSUME NoCallAssumption == NoCall \notin Calls

Runs(w) == calls[w] # NoCall
Goes(w, c) == calls' = [calls EXCEPT ![w] = c]

ProductsOf(s) == {p \in Products : Lines[s][p] > 0}

(***************************************************************************)
(* The units of p that s has taken from the stock when its status is st: a *)
(* PENDING sub-order has them reserved only, a CANCELLED one has given     *)
(* them back.                                                              *)
(***************************************************************************)
Sold == {"CONFIRMED", "PACKED", "SHIPPED", "DELIVERED"}

Taken(st, s, p) == IF st \in Sold THEN Lines[s][p] ELSE 0

(***************************************************************************)
(* findBySubOrderId returns the lines, all of them, in any order.          *)
(***************************************************************************)
InAnyOrder(S) ==
    {f \in [1 .. Cardinality(S) -> S] : \A p \in S : \E i \in DOMAIN f : f[i] = p}

Init ==
    /\ status = [s \in SubOrders |-> "PENDING"]
    /\ timeline = [s \in SubOrders |-> {"PENDING"}]
    /\ available \in [Products -> StockLevels]
    /\ lock = [p \in Products |-> Nobody]
    /\ mirror = available
    /\ calls = [w \in Workers |-> NoCall]
    /\ expected = available
    /\ astray = {}
    /\ unmirrored = {}

(***************************************************************************)
(* External: a payment is confirmed.  Nothing in src does it yet; the docs *)
(* of convert.lua and the statuses say what it amounts to: reservations    *)
(* become decrements of the stock and of its mirror.                       *)
(***************************************************************************)
Confirm(s) ==
    /\ status[s] = "PENDING"
    /\ \A p \in ProductsOf(s) : lock[p] = Nobody /\ available[p] >= Lines[s][p]
    /\ status' = [status EXCEPT ![s] = "CONFIRMED"]
    /\ timeline' = [timeline EXCEPT ![s] = @ \cup {"CONFIRMED"}]
    /\ available' = [p \in Products |-> available[p] - Lines[s][p]]
    /\ mirror' = [p \in Products |-> mirror[p] - Lines[s][p]]
    /\ expected' = [p \in Products |-> expected[p] - Lines[s][p]]
    /\ UNCHANGED <<lock, calls, astray, unmirrored>>

\* Broken variant of Advance: the status is not looked at.
AdvanceAnyway(w, s, to) ==
    /\ ~Runs(w)
    /\ Goes(w, Transaction(s, status[s], to, <<>>, {}))
    /\ UNCHANGED <<tables, lock, mirror, history>>

(***************************************************************************)
(* pack, ship and deliver, by the supplier: read the sub-order, validate.  *)
(* An invalid transition is refused.                                       *)
(***************************************************************************)
Advance(w, s, to) ==
    /\ ~Runs(w)
    /\ <<status[s], to>> \in Allowed
    /\ Goes(w, Transaction(s, status[s], to, <<>>, {}))
    /\ UNCHANGED <<tables, lock, mirror, history>>

(***************************************************************************)
(* cancel, by the retailer or the supplier: units of a CONFIRMED sub-order *)
(* are added back line by line; for a PENDING one the holds are released,  *)
(* which is the reservation store's business and changes nothing here.     *)
(***************************************************************************)
Cancel(w, s) ==
    /\ ~Runs(w)
    /\ <<status[s], "CANCELLED">> \in Allowed
    /\ \E todo \in InAnyOrder(IF status[s] = "CONFIRMED" THEN ProductsOf(s) ELSE {}) :
        Goes(w, Transaction(s, status[s], "CANCELLED", todo, {}))
    /\ UNCHANGED <<tables, lock, mirror, history>>

\* Broken variant of RestoreLine: the row is read without a lock.
RestoreUnlocked(w) ==
    LET c == calls[w]
        p == Head(c.todo)
        n == available[p] + Lines[c.sub][p]
    IN  /\ Runs(w) /\ c.todo # <<>>
        /\ mirror' = [mirror EXCEPT ![p] = n]
        /\ Goes(w, Transaction(c.sub, c.from, c.to, Tail(c.todo), c.writes \cup {<<p, n>>}))
        /\ UNCHANGED <<tables, lock, history>>

\* Broken variant of RestoreLine: it waits for the status it has read.
RestoreIfUnchanged(w) ==
    LET c == calls[w]
        p == Head(c.todo)
        n == available[p] + Lines[c.sub][p]
    IN  /\ Runs(w) /\ c.todo # <<>>
        /\ status[c.sub] = c.from
        /\ lock[p] = Nobody
        /\ lock' = [lock EXCEPT ![p] = w]
        /\ mirror' = [mirror EXCEPT ![p] = n]
        /\ Goes(w, Transaction(c.sub, c.from, c.to, Tail(c.todo), c.writes \cup {<<p, n>>}))
        /\ UNCHANGED <<tables, history>>

(***************************************************************************)
(* restoreStock, one line: lock the product row, add the units, set the    *)
(* mirror.  Lines of one product are taken together.                       *)
(***************************************************************************)
RestoreLine(w) ==
    LET c == calls[w]
        p == Head(c.todo)
        n == available[p] + Lines[c.sub][p]
    IN  /\ Runs(w) /\ c.todo # <<>>
        /\ lock[p] = Nobody
        /\ lock' = [lock EXCEPT ![p] = w]
        /\ mirror' = [mirror EXCEPT ![p] = n]
        /\ Goes(w, Transaction(c.sub, c.from, c.to, Tail(c.todo), c.writes \cup {<<p, n>>}))
        /\ UNCHANGED <<tables, history>>

\* Broken variant of SetStock: negative values are not rejected.
SetAnyStock(w, p, n) ==
    /\ ~Runs(w)
    /\ lock[p] = Nobody
    /\ \E m \in {n, -n} :
        /\ mirror' = [mirror EXCEPT ![p] = m]
        /\ Goes(w, Transaction(NoSubOrder, "PENDING", "PENDING", <<>>, {<<p, m>>}))
    /\ lock' = [lock EXCEPT ![p] = w]
    /\ UNCHANGED <<tables, history>>

(***************************************************************************)
(* setStock refuses a negative value, locks the row, sets the mirror and   *)
(* commits.                                                                *)
(***************************************************************************)
SetStock(w, p, n) ==
    /\ ~Runs(w)
    /\ lock[p] = Nobody
    /\ lock' = [lock EXCEPT ![p] = w]
    /\ mirror' = [mirror EXCEPT ![p] = n]
    /\ Goes(w, Transaction(NoSubOrder, "PENDING", "PENDING", <<>>, {<<p, n>>}))
    /\ UNCHANGED <<tables, history>>

(***************************************************************************)
(* publish, update, unpublish, removeProduct and recalculateAverage: the   *)
(* row is read without a lock, its stock written back with the rest.       *)
(***************************************************************************)
EditProduct(w, p) ==
    /\ ~Runs(w)
    /\ Goes(w, Transaction(NoSubOrder, "PENDING", "PENDING", <<>>, {<<p, available[p]>>}))
    /\ UNCHANGED <<tables, lock, mirror, history>>

(***************************************************************************)
(* What a committed transaction leaves: the stock it wrote, its status and *)
(* a history row.  A row it has not locked yet must be free.               *)
(***************************************************************************)
Written(w, p) == {m[2] : m \in {x \in calls[w].writes : x[1] = p}}

StockAfter(w, p) ==
    IF Written(w, p) = {} THEN available[p] ELSE CHOOSE n \in Written(w, p) : TRUE

Locks(w, p) == lock[p] = w

(***************************************************************************)
(* The sub-order w has read as sold is sold no more, or the other way      *)
(* round: another request on the same sub-order, or its payment, came in   *)
(* between, and the stock w goes by is not the one of the status it        *)
(* overwrites.                                                             *)
(***************************************************************************)
Misled(w) ==
    LET s == calls[w].sub
    IN  s # NoSubOrder /\ ((calls[w].from \in Sold) # (status[s] \in Sold))

Commit(w) ==
    LET s == calls[w].sub
        to == calls[w].to
    IN  /\ Runs(w) /\ calls[w].todo = <<>>
        /\ \A p \in Products : Written(w, p) # {} => lock[p] \in {w, Nobody}
        /\ status' = [t \in SubOrders |-> IF t = s THEN to ELSE status[t]]
        /\ timeline' = [t \in SubOrders |->
                            IF t = s THEN timeline[t] \cup {to} ELSE timeline[t]]
        /\ available' = [p \in Products |-> StockAfter(w, p)]
        /\ lock' = [p \in Products |-> IF Locks(w, p) THEN Nobody ELSE lock[p]]
        /\ expected' = [p \in Products |->
                            IF s # NoSubOrder
                            THEN expected[p] + Taken(status[s], s, p) - Taken(to, s, p)
                            ELSE IF Locks(w, p) THEN StockAfter(w, p) ELSE expected[p]]
        /\ astray' = {p \in Products :
                        \/ p \in astray /\ ~(s = NoSubOrder /\ Locks(w, p))
                        \/ Misled(w) /\ p \in ProductsOf(s)
                        \/ s = NoSubOrder /\ ~Locks(w, p) /\ StockAfter(w, p) # available[p]}
        /\ unmirrored' = {p \in Products : ~Locks(w, p) /\
                                (p \in unmirrored \/ StockAfter(w, p) # available[p])}
        /\ Goes(w, NoCall)
        /\ UNCHANGED mirror

(***************************************************************************)
(* Rollback: the process dies, Redis fails, PostgreSQL breaks a deadlock.  *)
(* The mirror keeps what has been written to it.                           *)
(***************************************************************************)
Rollback(w) ==
    /\ lock' = [p \in Products |-> IF Locks(w, p) THEN Nobody ELSE lock[p]]
    /\ unmirrored' = unmirrored \cup {p \in Products : Locks(w, p)}
    /\ Goes(w, NoCall)
    /\ UNCHANGED <<tables, mirror, expected, astray>>

Fails(w) == Runs(w) /\ Rollback(w)

WaitsFor(w, v) == Runs(w) /\ calls[w].todo # <<>> /\ Locks(v, Head(calls[w].todo))

Deadlocked(W) == W # {} /\ \A w \in W : \E v \in W : WaitsFor(w, v)

BreakDeadlock ==
    \E W \in SUBSET Workers : Deadlocked(W) /\ \E w \in W : Rollback(w)

Begin(w) ==
    \/ \E s \in SubOrders, to \in {"PACKED", "SHIPPED", "DELIVERED"} : Advance(w, s, to)
    \/ \E s \in SubOrders : Cancel(w, s)
    \/ \E p \in Products, n \in StockLevels : SetStock(w, p, n)
    \/ \E p \in Products : EditProduct(w, p)

Continue(w) == RestoreLine(w) \/ Commit(w)

Next ==
    \/ \E s \in SubOrders : Confirm(s)
    \/ \E w \in Workers : Begin(w) \/ Continue(w) \/ Fails(w)
    \/ BreakDeadlock

(***************************************************************************)
(* Requests go on.  Those that wait for a row lock queue up in PostgreSQL, *)
(* so none is passed over for ever, and its deadlock detector runs.        *)
(***************************************************************************)
Fairness ==
    /\ \A w \in Workers : SF_vars(Continue(w))
    /\ WF_vars(BreakDeadlock)

Spec == Init /\ [][Next]_vars
FairSpec == Spec /\ Fairness

-----------------------------------------------------------------------------
(***************************************************************************)
(* Rows, locks and transactions are of the kinds the code has.             *)
(***************************************************************************)
TypeOK ==
    /\ status \in [SubOrders -> Statuses]
    /\ timeline \in [SubOrders -> SUBSET Statuses]
    /\ available \in [Products -> Nat] /\ expected \in [Products -> Int]
    /\ mirror \in [Products -> Int]
    /\ lock \in [Products -> Workers \cup {Nobody}]
    /\ calls \in [Workers -> Calls \cup {NoCall}]
    /\ astray \subseteq Products
    /\ unmirrored \subseteq Products

(***************************************************************************)
(* The stock of a product is what its supplier has set, less the units of  *)
(* the sub-orders that are CONFIRMED or further, in whatever order the     *)
(* cancellations, stock changes and confirmations that overlap take its    *)
(* lock.  Two kinds of request put it astray until the supplier sets it    *)
(* again: one that writes back a row it had not locked, and one that       *)
(* overlaps with a request or a payment on the same sub-order: a second    *)
(* cancellation restores the units a second time, a pack behind a          *)
(* cancellation sells what was restored.                                   *)
(***************************************************************************)
StockAddsUp == \A p \in Products \ astray : available[p] = expected[p]

(***************************************************************************)
(* Between transactions the mirror, from which reservations are granted,   *)
(* is the stock in PostgreSQL (StockService.java:64), except after a       *)
(* rollback or a row written back.                                         *)
(***************************************************************************)
MirrorMatchesStock ==
    \A p \in Products :
        lock[p] = Nobody /\ p \notin unmirrored => mirror[p] = available[p]

(***************************************************************************)
(* However requests overlap, no sub-order ever reaches a status without    *)
(* having been in one that leads to it: nothing unpaid is packed, nothing  *)
(* unpacked shipped.                                                       *)
(***************************************************************************)
EveryStatusIsEarned ==
    \A s \in SubOrders : \A to \in timeline[s] \ {"PENDING", "CONFIRMED"} :
        \E from \in timeline[s] : <<from, to>> \in Allowed

(***************************************************************************)
(* Every request ends, whichever row locks it has to wait for and in       *)
(* whatever order they are taken.                                          *)
(***************************************************************************)
RequestsEnd == \A w \in Workers : Runs(w) ~> ~Runs(w)

(***************************************************************************)
(* Requests on different sub-orders, and changes of the stock, neither     *)
(* lose nor double a unit, however they overlap on one product, and the    *)
(* mirror the reservations are granted from follows.  Requests that        *)
(* overlap on one sub-order may: see StockAddsUp and CancelRestoresUnits.  *)
(***************************************************************************)
StockIsSound ==
    /\ TypeOK
    /\ StockAddsUp
    /\ MirrorMatchesStock

(***************************************************************************)
(* FulfillmentStateMachine.java:13-15: any transition but these is         *)
(* rejected and leaves the status unchanged.                               *)
(***************************************************************************)
StatusFollowsGraph ==
    [][\A s \in SubOrders : status'[s] # status[s] =>
            <<status[s], status'[s]>> \in Allowed \cup {<<"PENDING", "CONFIRMED">>}]_vars

(***************************************************************************)
(* CancellationStock.java:18-19: a cancellation raises the quantity that   *)
(* can be sold by exactly the units it cancels.  What the sub-order had    *)
(* taken from the stock is put back, once.                                 *)
(***************************************************************************)
CancelRestoresUnits ==
    [][\A w \in Workers, p \in Products :
            Commit(w) /\ calls[w].to = "CANCELLED" =>
                available'[p] = available[p] + Taken(status[calls[w].sub], calls[w].sub, p)]_vars
=============================================================================
