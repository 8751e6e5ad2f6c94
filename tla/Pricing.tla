------------------------------ MODULE Pricing ------------------------------
(***************************************************************************)
(* The pricing tiers of a product: the requests that add them, the price   *)
(* they give a quantity, and the supplier's editor, which has rules of its *)
(* own.  (services/inventory, pricing; frontend/src: TierEditor, AddToCart,*)
(* lib/pricing)                                                            *)
(*                                                                         *)
(* Prices are in paisa.  The editor computes with binary fractions, where  *)
(* a price of two decimals times one hundred need not be whole (1.1 * 100  *)
(* is 110.00000000000001): InexactPrices are those.  A draft that is not a *)
(* number, or has more decimals than the field takes, stands with those    *)
(* that are out of range.  Stored tiers are never changed nor deleted.     *)
(***************************************************************************)
EXTENDS Integers, Sequences, SequencesExt

CONSTANTS
    Workers,        \* requests that run at one time
    QTY_MAX,        \* greatest quantity of a tier
    PRICE_MAX,      \* greatest price of a tier
    InexactPrices,  \* prices the editor takes for ones of three decimals
    BasePrice,      \* the price without a tier
    Requests,       \* tiers that clients of the endpoint ask for
    DraftQtys,      \* quantities typed into the editor
    DraftPrices,    \* prices typed into the editor
    Blank,          \* a field with nothing in it
    MaxRows,        \* bound: rows of the editor
    Nobody          \* lock while the row of the product is not locked

Tier(min, max, price) == [minQty |-> min, maxQty |-> max, unitPrice |-> price]

\* What TierRequest makes of a body without its three fields.
NoFields == Tier(0, 0, 0)

Asked == Requests \cup {NoFields}

ASSUME QTY_MAXAssumption == QTY_MAX \in Nat \ {0}
ASSUME PRICE_MAXAssumption == PRICE_MAX \in Nat \ {0}
ASSUME BasePriceAssumption == BasePrice \in Nat \ {0}
ASSUME RequestsAssumption ==
    \A t \in Requests : t = Tier(t.minQty, t.maxQty, t.unitPrice)
                        /\ t.minQty \in Int /\ t.maxQty \in Int /\ t.unitPrice \in Int
ASSUME DraftsAssumption == DraftQtys \subseteq Int /\ DraftPrices \subseteq Int
ASSUME NobodyAssumption == Nobody \notin Workers
ASSUME MaxRowsAssumption == MaxRows \in Nat \ {0}

VARIABLES
    stored,         \* the tiers of the product
    lock,           \* the request that has its row locked
    running,        \* the requests under way
    asked,          \* asked[w]: the tier request w brings
    existing,       \* existing[w]: the tiers it has read
    rows,           \* the drafts of the editor
    saving          \* the request the editor waits for

tables == <<stored, lock>>
requests == <<running, asked, existing>>
editor == <<rows, saving>>
vars == <<tables, requests, editor>>

Quantities == 1..QTY_MAX
Draft == [minQty : DraftQtys \cup {Blank}, maxQty : DraftQtys \cup {Blank},
          unitPrice : DraftPrices \cup {Blank}]
BlankDraft == Tier(Blank, Blank, Blank)

Init ==
    /\ stored = {}
    /\ lock = Nobody
    /\ running = {}
    /\ asked = [w \in Workers |-> NoFields]
    /\ existing = [w \in Workers |-> {}]
    /\ rows = <<BlankDraft>>
    /\ saving = Nobody

-----------------------------------------------------------------------------
(***************************************************************************)
(* The server's rules: a tier by itself, and against the ones there are.   *)
(***************************************************************************)
contains(t, q) == t.minQty <= q /\ q <= t.maxQty

\* Broken variant of overlaps: ranges may share a bound.
overlapsInside(t, u) == t.minQty < u.maxQty /\ u.minQty < t.maxQty

overlaps(t, u) == t.minQty <= u.maxQty /\ u.minQty <= t.maxQty

\* Broken variant of validateFields: the lower bound of the price is left out.
validateFieldsLoose(t) ==
    /\ {t.minQty, t.maxQty} \subseteq Quantities
    /\ t.minQty <= t.maxQty
    /\ t.unitPrice <= PRICE_MAX

validateFields(t) ==
    /\ {t.minQty, t.maxQty} \subseteq Quantities
    /\ t.minQty <= t.maxQty
    /\ t.unitPrice \in 1..PRICE_MAX

validateAgainstExisting(t, tiers) ==
    /\ validateFields(t)
    /\ \A u \in tiers : ~overlaps(t, u)

(***************************************************************************)
(* PriceResolver goes through the tiers by minimum quantity and takes the  *)
(* first that contains q; the page takes the first in the order its tiers  *)
(* came in, which is any.                                                  *)
(***************************************************************************)
Matching(tiers, q) == {t \in tiers : contains(t, q)}

Quote(tiers, q) ==
    IF Matching(tiers, q) = {}
    THEN BasePrice
    ELSE LET first == CHOOSE t \in Matching(tiers, q) :
                        \A u \in Matching(tiers, q) : t.minQty <= u.minQty
         IN first.unitPrice

resolveUnitPrice(tiers, q) ==
    IF Matching(tiers, q) = {}
    THEN {BasePrice}
    ELSE {t.unitPrice : t \in Matching(tiers, q)}

(***************************************************************************)
(* addTier: one transaction, from the lock on the product row to the       *)
(* insert, or to an error that leaves the tiers as they are.               *)
(***************************************************************************)
Begins(w, t) ==
    /\ w \notin running
    /\ running' = running \cup {w}
    /\ asked' = [asked EXCEPT ![w] = t]
    /\ existing' = [existing EXCEPT ![w] = stored]

Ends(w) ==
    /\ w \in running
    /\ running' = running \ {w}
    /\ lock' = IF lock = w THEN Nobody ELSE lock
    /\ asked' = [asked EXCEPT ![w] = NoFields]
    /\ existing' = [existing EXCEPT ![w] = {}]

\* Broken variant of FindByIdForUpdate: the row is read without its lock.
FindById(w, t) ==
    /\ Begins(w, t)
    /\ UNCHANGED tables

FindByIdForUpdate(w, t) ==
    /\ lock = Nobody
    /\ lock' = w
    /\ Begins(w, t)
    /\ UNCHANGED stored

Accepted(w) == validateAgainstExisting(asked[w], existing[w])

AddTier(w) ==
    /\ Accepted(w)
    /\ stored' = stored \cup {asked[w]}
    /\ Ends(w)

Refuse(w) ==
    /\ ~Accepted(w)
    /\ Ends(w)
    /\ UNCHANGED stored

Rollback(w) ==
    /\ Ends(w)
    /\ UNCHANGED stored

Submit(w, t) ==
    /\ FindByIdForUpdate(w, t)
    /\ UNCHANGED editor

-----------------------------------------------------------------------------
(***************************************************************************)
(* The editor's rules.  A draft with an empty field is passed over; one    *)
(* with an issue of its own is compared with no other.                     *)
(***************************************************************************)
Complete(d) == Blank \notin {d.minQty, d.maxQty, d.unitPrice}

\* Broken variant of rangesOverlap: ranges may share a bound.
rangesTouch(aMin, aMax, bMin, bMax) == aMin < bMax /\ bMin < aMax

rangesOverlap(aMin, aMax, bMin, bMax) == aMin <= bMax /\ bMin <= aMax

OwnIssues(d) ==
    {k \in {"quantity", "range", "price"} :
        \/ k = "quantity" /\ (d.minQty < 1 \/ d.maxQty > QTY_MAX)
        \/ k = "range" /\ d.minQty > d.maxQty
        \/ k = "price" /\ (d.unitPrice \notin 1..PRICE_MAX \/ d.unitPrice \in InexactPrices)}

\* The drafts to compare, and those that overlap with an earlier one.
Valid(ds) == {i \in DOMAIN ds : Complete(ds[i]) /\ OwnIssues(ds[i]) = {}}

Clashing(ds) ==
    {j \in Valid(ds) :
        \E i \in Valid(ds) : /\ i < j
                             /\ rangesOverlap(ds[i].minQty, ds[i].maxQty,
                                              ds[j].minQty, ds[j].maxQty)}

validateTiers(ds) ==
    (UNION {{[kind |-> k, index |-> i] : k \in OwnIssues(ds[i])} :
                i \in {j \in DOMAIN ds : Complete(ds[j])}})
    \cup {[kind |-> "overlap", index |-> j] : j \in Clashing(ds)}

(***************************************************************************)
(* The supplier types, adds and removes rows, whether or not a save is on  *)
(* its way.                                                                *)
(***************************************************************************)
Edits(ds) ==
    /\ rows' = ds
    /\ UNCHANGED <<tables, requests, saving>>

update(i) ==
    \/ \E q \in DraftQtys \cup {Blank} :
        Edits([rows EXCEPT ![i].minQty = q]) \/ Edits([rows EXCEPT ![i].maxQty = q])
    \/ \E p \in DraftPrices \cup {Blank} :
        Edits([rows EXCEPT ![i].unitPrice = p])

addRow == Len(rows) < MaxRows /\ Edits(Append(rows, BlankDraft))

removeRow(i) == Edits(RemoveAt(rows, i))

(***************************************************************************)
(* save: one request for all the complete drafts, {tiers: [...]}; its      *)
(* handler reads minQty, maxQty and unitPrice at the top of the body and   *)
(* finds none.                                                             *)
(***************************************************************************)
save(w) ==
    /\ validateTiers(rows) = {}
    /\ saving = Nobody
    /\ FindByIdForUpdate(w, NoFields)
    /\ saving' = w
    /\ UNCHANGED rows

Answered(w) ==
    /\ saving' = IF saving = w THEN Nobody ELSE saving
    /\ UNCHANGED rows

Next ==
    \/ \E w \in Workers, t \in Requests : Submit(w, t)
    \/ \E w \in Workers : AddTier(w) /\ Answered(w)
    \/ \E w \in Workers : Refuse(w) /\ Answered(w)
    \/ \E w \in Workers : Rollback(w) /\ Answered(w)
    \/ \E i \in DOMAIN rows : update(i) \/ removeRow(i)
    \/ addRow
    \/ \E w \in Workers : save(w)

Spec == Init /\ [][Next]_vars

-----------------------------------------------------------------------------
(***************************************************************************)
(* Tiers, requests and drafts have the values the code gives them, and     *)
(* what is stored has passed validation.                                   *)
(***************************************************************************)
TypeOK ==
    /\ stored \subseteq Requests
    /\ \A t \in stored : {t.minQty, t.maxQty} \subseteq Quantities /\ t.unitPrice \in 1..PRICE_MAX
    /\ lock \in Workers \cup {Nobody}
    /\ running \subseteq Workers
    /\ asked \in [Workers -> Asked]
    /\ existing \in [Workers -> SUBSET Requests]
    /\ rows \in Seq(Draft) /\ Len(rows) <= MaxRows
    /\ saving \in Workers \cup {Nobody}

(***************************************************************************)
(* A page previews the server's price, and goes on doing so: whatever      *)
(* order its tiers came in, the price it finds in a tier is the server's   *)
(* quote after any later step of any request, those included that add      *)
(* tiers at the same time.                                                 *)
(***************************************************************************)
PreviewHolds ==
    [][\A q \in Quantities :
        Matching(stored, q) # {} =>
            \A p \in resolveUnitPrice(stored, q) : p = Quote(stored', q)]_vars

(***************************************************************************)
(* The editor is not laxer than the server, though its rules are others:   *)
(* drafts without an issue would all be accepted by a product without      *)
(* tiers, in any order, if they were sent one by one, as the endpoint      *)
(* takes them.                                                             *)
(***************************************************************************)
NoIssueNoRefusal ==
    validateTiers(rows) = {} =>
        LET sent == {i \in DOMAIN rows : Complete(rows[i])}
        IN \A i \in sent : validateAgainstExisting(rows[i], {rows[j] : j \in sent \ {i}})

(***************************************************************************)
(* TierEditor.tsx:17-18: "Submission is blocked while issues exist; the    *)
(* server remains authoritative and its rejection is surfaced via toast."  *)
(* So a save without issues, of a product nobody else prices, succeeds.    *)
(* It never does: see save.                                                *)
(***************************************************************************)
CleanSaveIsAccepted ==
    \A w \in running :
        saving = w /\ existing[w] = {} /\ (\A i \in DOMAIN rows : Complete(rows[i]))
            => Accepted(w)
=============================================================================
