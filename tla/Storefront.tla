----------------------------- MODULE Storefront -----------------------------
(***************************************************************************)
(* The cart, the checkout and the product pages in the browser of one      *)
(* retailer, in front of a gateway that may lose a request, lose its       *)
(* answer, or answer for a service that acts later.                        *)
(* (frontend/src: CartView, CartSupplierGroup, CheckoutView, AddToCart)    *)
(*                                                                         *)
(* The server is what the pages can tell of it: the quantities in the cart *)
(* and one order; whether it grants a change is open.  Calls are numbered  *)
(* by slots.  React Query keeps one copy of the cart while the site is     *)
(* loaded.  A page that was left is gone with its state, but what it had   *)
(* called for goes on; a page that is unloaded, by a reload, a closed tab  *)
(* or the provider's page, takes every call with it.  Prices, suppliers    *)
(* and toasts are left out.                                                *)
(***************************************************************************)
EXTENDS Routes

CONSTANTS
    Items,          \* lines of the cart
    Slots,          \* bound: calls in flight at one time
    NoItem,         \* no line is pending
    MaxQty,         \* bound: quantity of a line
    Carts           \* the carts that stock and minimum quantities allow

ASSUME MaxQtyAssumption == MaxQty \in Nat \ {0}
ASSUME CartsAssumption == Carts \subseteq [Items -> 0..MaxQty]
ASSUME NoItemAssumption == NoItem \notin Items

VARIABLES
    qty,            \* the server's cart: quantity of a line, 0 without one
    order,          \* the order: "none", "unpaid", "initiated"
    page,           \* "cart", "checkout", or "other": another page, or none
    copied,         \* React Query holds a copy of the cart
    cache,          \* that copy
    outdated,       \* the copy is invalidated, or older than staleTime
    fetch,          \* its refetch: "idle", "asked", "read"
    snap,           \* the cart the refetch read
    pending,        \* pendingItemId
    review,         \* initialCart of the checkout page has lines
    submitting,     \* submitting of the checkout page
    adding,         \* adding of a product's page
    op, item, want, \* op[s], item[s], want[s]: the call in slot s
    phase,          \* phase[s]: "free", "sent", "done", "late"
    mine,           \* slots whose caller is still mounted
    drift,          \* history: the cart changed and nothing tells the page
    failed          \* history: a call of pay failed or was cut off by an
                    \* unload, and no payment is initiated

server == <<qty, order>>
query == <<copied, cache, outdated, fetch, snap>>
pages == <<page, pending, review, submitting, adding>>
slots == <<op, item, want, phase, mine>>
history == <<drift, failed>>
storefrontVars == <<server, query, pages, slots, history>>

Qtys == 0..MaxQty
Empty == [i \in Items |-> 0]
CartOps == {"change", "remove", "renew"}
PayOps == {"checkout", "initiate"}
Ops == CartOps \cup PayOps \cup {"add"}
Free == {s \in Slots : phase[s] = "free"}

StorefrontInit ==
    /\ qty \in Carts
    /\ order = "none"
    /\ page = "other"
    /\ copied = FALSE
    /\ cache = Empty
    /\ outdated = FALSE
    /\ fetch = "idle"
    /\ snap = Empty
    /\ pending = NoItem
    /\ review = FALSE
    /\ submitting = FALSE
    /\ adding = FALSE
    /\ op = [s \in Slots |-> "change"]
    /\ item = [s \in Slots |-> NoItem]
    /\ want = [s \in Slots |-> 0]
    /\ phase = [s \in Slots |-> "free"]
    /\ mine = {}
    /\ drift = FALSE
    /\ failed = FALSE

(***************************************************************************)
(* A call leaves the browser.  The gateway of Routes serves it or not.     *)
(***************************************************************************)
CallOf(o) ==
    CASE o = "change" -> Call("RETAILER", "PUT", <<"cart", "items", "i">>, "object")
      [] o = "remove" -> Call("RETAILER", "DELETE", <<"cart", "items", "i">>, "none")
      [] o = "renew" -> Call("RETAILER", "POST", <<"cart", "reservations", "i", "renew">>, "none")
      [] o = "checkout" -> Call("RETAILER", "POST", <<"checkout">>, "object")
      [] o = "initiate" -> Call("RETAILER", "POST", <<"payments", "initiate">>, "object")
      [] o = "add" -> Call("RETAILER", "POST", <<"cart", "items">>, "object")

Served == {o \in Ops : Decision(CallOf(o)) = 0}

Send(o, i, n) ==
    /\ \E s \in Free :
        /\ op' = [op EXCEPT ![s] = o]
        /\ item' = [item EXCEPT ![s] = i]
        /\ want' = [want EXCEPT ![s] = n]
        /\ phase' = [phase EXCEPT ![s] = "sent"]
        /\ mine' = mine \cup {s}

Frees(s, to) ==
    /\ phase' = [phase EXCEPT ![s] = to]
    /\ item' = IF to = "free" THEN [item EXCEPT ![s] = NoItem] ELSE item
    /\ want' = IF to = "free" THEN [want EXCEPT ![s] = 0] ELSE want
    /\ op' = IF to = "free" THEN [op EXCEPT ![s] = "change"] ELSE op

Ends(s, to) == Frees(s, to) /\ mine' = mine \ {s}

(***************************************************************************)
(* The controls of a line: its stepper, from the quantity it shows and not *)
(* below 1, removal and renewal.  Those of the pending line are disabled.  *)
(***************************************************************************)
Enabled(i) == page = "cart" /\ cache[i] > 0 /\ pending # i

Press(o, i, n) ==
    /\ Send(o, i, n)
    /\ pending' = i
    /\ UNCHANGED <<server, query, page, review, submitting, adding, history>>

\* Broken variant of Step: minus is offered at 1 as well.
StepBelow(i, n) ==
    /\ Enabled(i)
    /\ n \in {cache[i] - 1, cache[i] + 1}
    /\ Press("change", i, n)

Step(i, n) ==
    /\ Enabled(i)
    /\ n \in {cache[i] - 1, cache[i] + 1} \cap 1..MaxQty
    /\ Press("change", i, n)

Remove(i) == Enabled(i) /\ Press("remove", i, 0)

Renew(i) == Enabled(i) /\ Press("renew", i, 0)

(***************************************************************************)
(* pay goes on with initiate when the order is there; add goes on to the   *)
(* cart page.                                                              *)
(***************************************************************************)
Pay ==
    /\ page = "checkout"
    /\ review
    /\ ~submitting
    /\ Send("checkout", NoItem, 0)
    /\ submitting' = TRUE
    /\ UNCHANGED <<server, query, page, pending, review, adding, history>>

Add ==
    /\ page = "other"
    /\ ~adding
    /\ Send("add", NoItem, 0)
    /\ adding' = TRUE
    /\ UNCHANGED <<server, query, page, pending, review, submitting, history>>

(***************************************************************************)
(* The service executes a call, which somebody may not wait for any more.  *)
(* A change needs its line, a checkout a cart; either may be refused, for  *)
(* its stock, its minimum quantity or a lapsed hold.  An addition is a new *)
(* line, which nothing names yet.                                          *)
(***************************************************************************)
Fresh(i) ==
    /\ qty[i] = 0 /\ cache[i] = 0 /\ snap[i] = 0
    /\ \A r \in Slots : item[r] # i

Grant(s) ==
    \/ /\ op[s] \in {"change", "remove"}
       /\ qty[item[s]] > 0
       /\ qty' = [qty EXCEPT ![item[s]] = want[s]]
       /\ op[s] = "change" => qty' \in Carts
       /\ UNCHANGED order
    \/ /\ op[s] = "renew"
       /\ qty[item[s]] > 0
       /\ UNCHANGED server
    \/ /\ op[s] = "checkout"
       /\ qty # Empty
       /\ order = "none"
       /\ qty' = Empty
       /\ order' = "unpaid"
    \/ /\ op[s] = "initiate"
       /\ order' = "initiated"
       /\ UNCHANGED qty
    \/ /\ op[s] = "add"
       /\ \E i \in Items, n \in 1..MaxQty :
            Fresh(i) /\ qty' = [qty EXCEPT ![i] = n]
       /\ qty' \in Carts
       /\ UNCHANGED order

Serve(s) ==
    /\ phase[s] \in {"sent", "late"}
    /\ op[s] \in Served
    /\ Grant(s)
    /\ IF phase[s] = "late"
       THEN Ends(s, "free") /\ drift' = (drift \/ (copied /\ qty' # qty))
       ELSE /\ phase' = [phase EXCEPT ![s] = "done"]
            /\ drift' = (drift \/ (copied /\ op[s] \in {"checkout", "add"}))
            /\ want' = [want EXCEPT ![s] = 0]
            /\ UNCHANGED <<op, item, mine>>
    /\ failed' = (failed /\ order' # "initiated")
    /\ UNCHANGED <<query, pages>>

Lapse(s) ==
    /\ phase[s] = "late"
    /\ Ends(s, "free")
    /\ UNCHANGED <<server, query, pages, history>>

(***************************************************************************)
(* How a call ends for its page: with its answer, or with an error: a      *)
(* refusal, or a 502 or a 504, after which the service may have acted or   *)
(* still act, though a late renewal shows nowhere here.  A refused call is *)
(* one that lapses.                                                        *)
(***************************************************************************)
Outcome(s) ==
    CASE phase[s] = "done" -> {"ok", "error"}
      [] phase[s] = "sent" -> {"error"}
      [] OTHER -> {}

Rest(s) == IF phase[s] = "sent" /\ op[s] \in Served /\ op[s] # "renew" THEN "late" ELSE "free"

(***************************************************************************)
(* invalidateQueries: a mounted query is fetched anew, and what an earlier *)
(* fetch brings is not used; an unmounted one is fetched when it comes     *)
(* back.                                                                   *)
(***************************************************************************)
Invalidate ==
    /\ outdated' = TRUE
    /\ IF page = "cart"
       THEN fetch' = "asked"
       ELSE UNCHANGED fetch
    /\ UNCHANGED <<copied, cache, snap>>

\* Broken variant of Settle: only success invalidates.
SettleOnSuccess(s) ==
    /\ op[s] \in CartOps
    /\ \E o \in Outcome(s) :
        IF o = "ok" THEN Invalidate ELSE UNCHANGED query
    /\ pending' = IF s \in mine THEN NoItem ELSE pending
    /\ Ends(s, Rest(s))
    /\ UNCHANGED <<server, page, review, submitting, adding, history>>

\* Broken variant of Settle: pendingItemId is reset on success only.
SettleKeepsPending(s) ==
    /\ op[s] \in CartOps
    /\ \E o \in Outcome(s) :
        pending' = IF s \in mine /\ o = "ok" THEN NoItem ELSE pending
    /\ Invalidate
    /\ Ends(s, Rest(s))
    /\ UNCHANGED <<server, page, review, submitting, adding, history>>

(***************************************************************************)
(* onSettled of the three mutations of the cart page.  Behind a page that  *)
(* was left, a fetch that read the cart before brings its copy after the   *)
(* invalidation, and the copy counts as fresh.                             *)
(***************************************************************************)
Settle(s) ==
    /\ op[s] \in CartOps
    /\ Outcome(s) # {}
    /\ Invalidate
    /\ pending' = IF s \in mine THEN NoItem ELSE pending
    /\ drift' = (drift \/ (page # "cart" /\ fetch = "read"))
    /\ Ends(s, Rest(s))
    /\ UNCHANGED <<server, page, review, submitting, adding, failed>>

\* Broken variant of Initiate: a page that was left goes no further.
InitiateIfMounted(s) ==
    /\ op[s] = "checkout"
    /\ "ok" \in Outcome(s)
    /\ IF s \in mine
       THEN /\ op' = [op EXCEPT ![s] = "initiate"]
            /\ phase' = [phase EXCEPT ![s] = "sent"]
            /\ UNCHANGED <<item, want, mine>>
       ELSE Ends(s, "free")
    /\ UNCHANGED <<server, query, pages, history>>

(***************************************************************************)
(* pay after its first and its second await, and its catch.                *)
(***************************************************************************)
Initiate(s) ==
    /\ op[s] = "checkout"
    /\ "ok" \in Outcome(s)
    /\ op' = [op EXCEPT ![s] = "initiate"]
    /\ phase' = [phase EXCEPT ![s] = "sent"]
    /\ UNCHANGED <<server, query, pages, item, want, mine, history>>

\* A page of the site opens, and the one before is gone.  The checkout page
\* shows lines or none: its cart may be read, not be read, or be an old one.
Visit(p) ==
    /\ page' = p
    /\ pending' = NoItem
    /\ submitting' = FALSE
    /\ adding' = FALSE
    /\ review' \in IF p = "checkout" THEN BOOLEAN ELSE {FALSE}

Redirect(s) ==
    /\ op[s] = "initiate"
    /\ "ok" \in Outcome(s)
    /\ Visit("other")
    /\ Frees(s, "free")
    /\ mine' = {}
    /\ UNCHANGED <<server, query, history>>

PayFails(s) ==
    /\ op[s] \in PayOps
    /\ "error" \in Outcome(s)
    /\ submitting' = IF s \in mine THEN FALSE ELSE submitting
    /\ failed' = (order # "initiated")
    /\ Ends(s, Rest(s))
    /\ UNCHANGED <<server, query, page, pending, review, adding, drift>>

(***************************************************************************)
(* The site is unloaded: by the provider's page, or at any time.  What the *)
(* services have received they may still execute.                          *)
(***************************************************************************)
Unloaded ==
    LET over == {r \in Slots : phase[r] \notin {"sent", "late"} \/ op[r] = "renew"} IN
    /\ Visit("other")
    /\ copied' = FALSE
    /\ cache' = Empty
    /\ outdated' = FALSE
    /\ fetch' = "idle"
    /\ snap' = Empty
    /\ mine' = {}
    /\ phase' = [r \in Slots |-> IF r \in over THEN "free" ELSE "late"]
    /\ op' = [r \in Slots |-> IF r \in over THEN "change" ELSE op[r]]
    /\ item' = [r \in Slots |-> IF r \in over THEN NoItem ELSE item[r]]
    /\ want' = [r \in Slots |-> IF r \in over THEN 0 ELSE want[r]]
    /\ drift' = FALSE
    /\ UNCHANGED server

Leave(s) ==
    /\ op[s] = "initiate"
    /\ "ok" \in Outcome(s)
    /\ Unloaded
    /\ UNCHANGED failed

Unload ==
    /\ Unloaded
    /\ failed' = (failed \/
                    /\ order # "initiated"
                    /\ \E s \in Slots : op[s] \in PayOps /\ phase[s] \in {"sent", "done"})

(***************************************************************************)
(* GET /cart: read by the service, taken over by the page; or tried again, *)
(* how often is not counted, and given up.                                 *)
(***************************************************************************)
Read ==
    /\ fetch = "asked"
    /\ fetch' = "read"
    /\ snap' = qty
    /\ drift' = FALSE
    /\ UNCHANGED <<server, copied, cache, outdated, pages, slots, failed>>

Take ==
    /\ fetch = "read"
    /\ fetch' = "idle"
    /\ cache' = snap
    /\ outdated' = FALSE
    /\ snap' = Empty
    /\ UNCHANGED <<server, copied, pages, slots, history>>

ReadFails ==
    /\ fetch # "idle"
    /\ fetch' \in IF page = "cart" THEN {"asked", "idle"} ELSE {"idle"}
    /\ snap' = Empty
    /\ drift' = TRUE
    /\ UNCHANGED <<server, copied, cache, outdated, pages, slots, failed>>

(***************************************************************************)
(* The copy is stale after staleTime, and dropped after gcTime without a   *)
(* cart page, by when the calls of that page have ended.                   *)
(***************************************************************************)
Ages ==
    /\ copied
    /\ ~outdated
    /\ outdated' = TRUE
    /\ UNCHANGED <<server, copied, cache, fetch, snap, pages, slots, history>>

Collect ==
    /\ copied
    /\ page # "cart"
    /\ fetch = "idle"
    /\ \A s \in Slots : op[s] \in CartOps => phase[s] \in {"free", "late"}
    /\ copied' = FALSE
    /\ cache' = Empty
    /\ outdated' = FALSE
    /\ drift' = FALSE
    /\ UNCHANGED <<server, fetch, snap, pages, slots, failed>>

(***************************************************************************)
(* The page that opens: the cart page shows the copy, which is fetched if  *)
(* it is stale, and only without a copy the cart it is rendered with (none *)
(* if that cannot be read).                                                *)
(***************************************************************************)
OpenCheckout ==
    /\ page # "checkout"
    /\ Visit("checkout")
    /\ mine' = {}
    /\ UNCHANGED <<server, query, op, item, want, phase, history>>

OpenOther ==
    /\ page # "other" \/ adding
    /\ Visit("other")
    /\ mine' = {}
    /\ UNCHANGED <<server, query, op, item, want, phase, history>>

Mount ==
    IF copied
    THEN /\ fetch' = IF outdated /\ fetch = "idle" THEN "asked" ELSE fetch
         /\ UNCHANGED <<copied, cache, outdated, drift>>
    ELSE /\ cache' \in {qty, Empty}
         /\ copied' = TRUE
         /\ outdated' = FALSE
         /\ drift' = (cache' # qty)
         /\ UNCHANGED fetch

OpenCart ==
    /\ page # "cart"
    /\ Visit("cart")
    /\ Mount
    /\ mine' = {}
    /\ UNCHANGED <<server, snap, op, item, want, phase, failed>>

(***************************************************************************)
(* add after its await, and its catch: the cart page opens wherever the    *)
(* retailer is by now, and nothing outdates the copy it shows.             *)
(***************************************************************************)
Added(s) ==
    /\ op[s] = "add"
    /\ "ok" \in Outcome(s)
    /\ Frees(s, "free")
    /\ IF page = "cart"
       THEN UNCHANGED <<query, pages, drift, mine>>
       ELSE Visit("cart") /\ Mount /\ mine' = {} /\ UNCHANGED snap
    /\ UNCHANGED <<server, failed>>

AddFails(s) ==
    /\ op[s] = "add"
    /\ "error" \in Outcome(s)
    /\ adding' = IF s \in mine THEN FALSE ELSE adding
    /\ Ends(s, Rest(s))
    /\ UNCHANGED <<server, query, page, pending, review, submitting, history>>

Presses == \E i \in Items : Remove(i) \/ Renew(i) \/ \E n \in Qtys \cup {MaxQty + 1} : Step(i, n)

Returns(s) ==
    \/ Settle(s) \/ Initiate(s) \/ Redirect(s) \/ Leave(s) \/ PayFails(s)
    \/ Added(s) \/ AddFails(s)

StorefrontNext ==
    \/ Presses \/ Pay \/ Add
    \/ OpenCheckout \/ OpenCart \/ OpenOther \/ Unload
    \/ Ages \/ Collect \/ Read \/ Take \/ ReadFails
    \/ \E s \in Slots : Serve(s) \/ Lapse(s) \/ Returns(s)

StorefrontSpec == StorefrontInit /\ [][StorefrontNext]_storefrontVars

-----------------------------------------------------------------------------

StorefrontTypeOK ==
    /\ qty \in [Items -> Qtys]
    /\ order \in {"none", "unpaid", "initiated"}
    /\ page \in {"cart", "checkout", "other"}
    /\ copied \in BOOLEAN
    /\ cache \in [Items -> Qtys]
    /\ outdated \in BOOLEAN
    /\ fetch \in {"idle", "asked", "read"}
    /\ snap \in [Items -> Qtys]
    /\ pending \in Items \cup {NoItem}
    /\ review \in BOOLEAN
    /\ submitting \in BOOLEAN
    /\ adding \in BOOLEAN
    /\ op \in [Slots -> Ops]
    /\ item \in [Slots -> Items \cup {NoItem}]
    /\ want \in [Slots -> Qtys]
    /\ \A s \in Slots : phase[s] \in {"sent", "late"} /\ op[s] = "change" => want[s] > 0
    /\ phase \in [Slots -> {"free", "sent", "done", "late"}]
    /\ mine \subseteq Slots
    /\ drift \in BOOLEAN
    /\ failed \in BOOLEAN

(***************************************************************************)
(* "invalidating the cache after each so totals and countdowns stay        *)
(* consistent" (CartView.tsx): when the cart page is at rest, it shows the *)
(* server's cart, whichever of its changes were lost or answered out of    *)
(* order.  What may be in the way, until the copy is stale or a refetch    *)
(* reads the cart, is no change of this page that was answered: an         *)
(* execution after the 504, a checkout or an addition, which invalidate    *)
(* nothing, a cart that could not be read, and a fetch that was under way  *)
(* behind the page when a change settled.                                  *)
(***************************************************************************)
AtRest ==
    /\ page = "cart"
    /\ fetch = "idle"
    /\ \A s \in Slots : phase[s] \in {"free", "late"} \/ op[s] \notin CartOps

ViewIsCurrent == AtRest /\ ~drift /\ ~outdated => cache = qty

(***************************************************************************)
(* An order nobody pays for: no page offers to pay an order that exists.   *)
(* It comes to be only if a call of pay failed, or the site was unloaded   *)
(* during one: a page that is merely left goes on to pay its order.        *)
(***************************************************************************)
StrandedByFailure ==
    order = "unpaid" /\ ~failed =>
        \E s \in Slots :
            \/ op[s] = "checkout" /\ phase[s] = "done"
            \/ op[s] = "initiate" /\ phase[s] = "sent"

(***************************************************************************)
(* A control is disabled only while a call of its page is under way, which *)
(* the gateway ends, so that it comes back: also when calls for two lines  *)
(* overlap, which share pendingItemId, and when pages are left and opened. *)
(***************************************************************************)
Awaited(s) == s \in mine /\ phase[s] \in {"sent", "done"}

ControlsComeBack ==
    /\ pending # NoItem => \E s \in Slots : Awaited(s) /\ op[s] \in CartOps /\ item[s] = pending
    /\ submitting => \E s \in Slots : Awaited(s) /\ op[s] \in PayOps
    /\ adding => \E s \in Slots : Awaited(s) /\ op[s] = "add"

(***************************************************************************)
(* The values are those of the code, and no control is left disabled.      *)
(***************************************************************************)
ControlsAreSound ==
    /\ StorefrontTypeOK
    /\ ControlsComeBack
=============================================================================
