--------------------------- MODULE CatalogProofs ---------------------------
(***************************************************************************)
(* Proofs about the catalogue. Pricing: for any number of requests at a    *)
(* time, any requests and drafts, and any limits, stored tiers never       *)
(* share a quantity, so that a page's preview of a price holds, and        *)
(* drafts without an issue are drafts the server accepts. Catalog: for     *)
(* any number of transactions and reviews, and any size of a batch, a      *)
(* product's rating is the average of its visible reviews, and the index,  *)
(* once all events are handled, is what search should offer, but for the   *)
(* races and losses the model names.                                       *)
(***************************************************************************)
EXTENDS Pricing, Catalog, SequenceTheorems, WellFoundedInduction, NaturalsInduction, TLAPS

-----------------------------------------------------------------------------
(***************************************************************************)
(* Pricing.  Requests under the lock of the product, and the rules of the  *)
(* server against those of the pages.                                      *)
(***************************************************************************)
USE NobodyAssumption, QTY_MAXAssumption, PRICE_MAXAssumption

(***************************************************************************)
(* The tables.  While a request runs it has the lock, so that what it has  *)
(* read is what is stored.                                                 *)
(***************************************************************************)
StoredAreValid == \A t \in stored : validateFields(t)

StoredAreDisjoint == \A t, u \in stored : t # u => ~overlaps(t, u)

RunningHasLock ==
    \A w \in running : /\ lock = w
                       /\ existing[w] = stored

TableTypes ==
    /\ stored \subseteq Requests
    /\ lock \in Workers \cup {Nobody}
    /\ running \subseteq Workers
    /\ asked \in [Workers -> Asked]
    /\ existing \in [Workers -> SUBSET Requests]

EditorTypes ==
    /\ rows \in Seq(Draft) /\ Len(rows) <= MaxRows
    /\ saving \in Workers \cup {Nobody}

TInv == TableTypes /\ StoredAreValid /\ StoredAreDisjoint /\ RunningHasLock

-----------------------------------------------------------------------------
(***************************************************************************)
(* A request that begins finds the lock free, hence no other one running.  *)
(***************************************************************************)
LEMMA BeginKeepsTables ==
  ASSUME TInv, NEW w \in Workers, NEW t \in Asked, FindByIdForUpdate(w, t)
  PROVE  TInv'
<1> USE DEF FindByIdForUpdate, Begins, TInv
<1>1. running = {}
  BY DEF TableTypes, RunningHasLock
<1>2. TableTypes'
  BY DEF TableTypes
<1>3. RunningHasLock'
  BY <1>1 DEF TableTypes, RunningHasLock
<1>4. QED
  BY <1>2, <1>3 DEF StoredAreValid, StoredAreDisjoint

(***************************************************************************)
(* A request that ends without storing its tier.                           *)
(***************************************************************************)
LEMMA EndKeepsTables ==
  ASSUME TInv, NEW w \in Workers, Ends(w), UNCHANGED stored
  PROVE  TInv'
<1> USE DEF Ends, TInv
<1>1. TableTypes'
  BY DEF TableTypes, Asked
<1>2. running' = {}
  BY DEF RunningHasLock
<1>3. QED
  BY <1>1, <1>2 DEF StoredAreValid, StoredAreDisjoint, RunningHasLock

(***************************************************************************)
(* A request that stores its tier compared it with all that are stored.    *)
(***************************************************************************)
LEMMA AddKeepsTables ==
  ASSUME TInv, NEW w \in Workers, AddTier(w)
  PROVE  TInv'
<1> USE DEF AddTier, Ends, TInv
<1>1. /\ validateFields(asked[w])
      /\ \A u \in stored : ~overlaps(asked[w], u)
  BY DEF Accepted, validateAgainstExisting, RunningHasLock
<1>2. asked[w] \in Requests
  <2>1. asked[w] # NoFields
    BY <1>1 DEF validateFields, NoFields, Tier, Quantities
  <2>2. QED
    BY <2>1 DEF TableTypes, Asked
<1>3. TableTypes'
  BY <1>2 DEF TableTypes, Asked
<1>4. StoredAreValid'
  BY <1>1 DEF StoredAreValid
<1>5. StoredAreDisjoint'
  <2>1. \A u \in stored : ~overlaps(u, asked[w])
    BY <1>1 DEF overlaps
  <2>2. QED
    BY <1>1, <2>1 DEF StoredAreDisjoint
<1>6. running' = {}
  BY DEF RunningHasLock
<1>7. QED
  BY <1>3, <1>4, <1>5, <1>6 DEF RunningHasLock

LEMMA NextKeepsTables == TInv /\ [Next]_vars => TInv'
<1> SUFFICES ASSUME TInv, [Next]_vars PROVE TInv'
  OBVIOUS
<1>1. CASE \E w \in Workers, t \in Requests : Submit(w, t)
  BY <1>1, BeginKeepsTables DEF Submit, Asked
<1>2. CASE \E w \in Workers : AddTier(w)
  BY <1>2, AddKeepsTables
<1>3. CASE \E w \in Workers : Refuse(w) \/ Rollback(w)
  BY <1>3, EndKeepsTables DEF Refuse, Rollback
<1>4. CASE \E w \in Workers : save(w)
  BY <1>4, BeginKeepsTables DEF save, Asked
<1>5. CASE UNCHANGED <<tables, requests>>
  BY <1>5 DEF tables, requests, TInv, TableTypes, StoredAreValid, StoredAreDisjoint,
     RunningHasLock
<1>6. QED
  BY <1>1, <1>2, <1>3, <1>4, <1>5
     DEF Next, vars, update, addRow, removeRow, Edits

LEMMA InitTables == Init => TInv
  BY DEF Init, TInv, TableTypes, StoredAreValid, StoredAreDisjoint, RunningHasLock, Asked

(***************************************************************************)
(* The inductive invariant of the tables.                                  *)
(***************************************************************************)
THEOREM TablesInvariant == Spec => []TInv
  BY InitTables, NextKeepsTables, PTL DEF Spec

-----------------------------------------------------------------------------
(***************************************************************************)
(* The editor: every edit leaves a list of drafts.                         *)
(***************************************************************************)
LEMMA BlankIsDraft == BlankDraft \in Draft
  BY DEF BlankDraft, Tier, Draft

LEMMA UpdateKeepsDrafts ==
  ASSUME EditorTypes, NEW i \in DOMAIN rows, update(i)
  PROVE  rows' \in Seq(Draft) /\ Len(rows') = Len(rows)
<1>1. rows[i] \in Draft /\ i \in 1..Len(rows)
  BY DEF EditorTypes
<1>2. ASSUME NEW q \in DraftQtys \cup {Blank}
      PROVE  /\ [rows[i] EXCEPT !.minQty = q] \in Draft
             /\ [rows[i] EXCEPT !.maxQty = q] \in Draft
  BY <1>1, <1>2 DEF Draft
<1>3. ASSUME NEW p \in DraftPrices \cup {Blank}
      PROVE  [rows[i] EXCEPT !.unitPrice = p] \in Draft
  BY <1>1, <1>3 DEF Draft
<1>4. PICK d \in Draft : rows' = [rows EXCEPT ![i] = d]
  BY <1>2, <1>3 DEF update, Edits
<1>5. QED
  BY <1>1, <1>4 DEF EditorTypes

LEMMA RemoveKeepsDrafts ==
  ASSUME EditorTypes, NEW i \in DOMAIN rows, removeRow(i)
  PROVE  rows' \in Seq(Draft) /\ Len(rows') = Len(rows) - 1
<1>1. i \in 1..Len(rows) /\ Len(rows) \in Nat /\ rows \in Seq(Draft)
  BY DEF EditorTypes
<1>2. /\ SubSeq(rows, 1, i - 1) \in Seq(Draft)
      /\ Len(SubSeq(rows, 1, i - 1)) = i - 1
  BY <1>1, SubSeqProperties
<1>3. /\ SubSeq(rows, i + 1, Len(rows)) \in Seq(Draft)
      /\ Len(SubSeq(rows, i + 1, Len(rows))) = Len(rows) - i
  BY <1>1, SubSeqProperties
<1>4. ASSUME NEW front \in Seq(Draft), NEW back \in Seq(Draft),
             Len(front) = i - 1, Len(back) = Len(rows) - i
      PROVE  front \o back \in Seq(Draft) /\ Len(front \o back) = Len(rows) - 1
  <2>1. front \o back \in Seq(Draft) /\ Len(front \o back) = Len(front) + Len(back)
    BY ConcatProperties
  <2>2. QED
    BY <1>1, <1>4, <2>1
<1>5. rows' = SubSeq(rows, 1, i - 1) \o SubSeq(rows, i + 1, Len(rows))
  BY DEF removeRow, Edits, RemoveAt
<1>6. QED
  BY <1>2, <1>3, <1>4, <1>5

LEMMA NextKeepsEditor == EditorTypes /\ [Next]_vars => EditorTypes'
<1> SUFFICES ASSUME EditorTypes, [Next]_vars PROVE EditorTypes'
  OBVIOUS
<1>1. CASE \E i \in DOMAIN rows : update(i)
  BY <1>1, UpdateKeepsDrafts DEF EditorTypes, update, Edits
<1>2. CASE \E i \in DOMAIN rows : removeRow(i)
  <2>1. PICK i \in DOMAIN rows : removeRow(i)
    BY <1>2
  <2>2. Len(rows) \in Nat /\ MaxRows >= Len(rows)
    BY DEF EditorTypes
  <2>3. QED
    BY <2>1, <2>2, RemoveKeepsDrafts, MaxRowsAssumption DEF EditorTypes, removeRow, Edits
<1>3. CASE addRow
  BY <1>3, BlankIsDraft, MaxRowsAssumption DEF EditorTypes, addRow, Edits
<1>4. CASE \E w \in Workers : save(w) \/ Answered(w)
  BY <1>4 DEF save, Answered, EditorTypes
<1>5. CASE UNCHANGED editor
  BY <1>5 DEF editor, EditorTypes
<1>6. QED
  BY <1>1, <1>2, <1>3, <1>4, <1>5 DEF Next, vars, Submit

LEMMA InitEditor == Init => EditorTypes
  BY BlankIsDraft, MaxRowsAssumption DEF Init, EditorTypes

(***************************************************************************)
(* Tiers, requests and drafts have the values the code gives them.         *)
(***************************************************************************)
THEOREM TypeCorrect == Spec => []TypeOK
<1>1. TInv /\ EditorTypes => TypeOK
  BY DEF TInv, TableTypes, EditorTypes, StoredAreValid, validateFields, TypeOK
<1>2. QED
  BY <1>1, TablesInvariant, InitEditor, NextKeepsEditor, PTL DEF Spec

-----------------------------------------------------------------------------
(***************************************************************************)
(* Disjoint tiers have one price for a quantity: the server, which takes   *)
(* the first by its minimum, and a page, which takes any, agree.           *)
(***************************************************************************)
LEMMA OneMatch ==
  ASSUME NEW S, NEW q \in Int, NEW t \in S, contains(t, q),
         \A u \in S : {u.minQty, u.maxQty} \subseteq Int,
         \A u, v \in S : u # v => ~overlaps(u, v)
  PROVE  Matching(S, q) = {t} /\ Quote(S, q) = t.unitPrice
<1>1. Matching(S, q) = {t}
  <2>1. ASSUME NEW u \in S, contains(u, q) PROVE u = t
    BY <2>1 DEF contains, overlaps
  <2>2. QED
    BY <2>1 DEF Matching
<1>2. (CHOOSE f \in {t} : \A u \in {t} : f.minQty <= u.minQty) = t
  OBVIOUS
<1>3. QED
  BY <1>1, <1>2 DEF Quote

(***************************************************************************)
(* The price a page previews from a tier stays the server's quote, over    *)
(* every step of every request.                                            *)
(***************************************************************************)
THEOREM PreviewIsKept == Spec => PreviewHolds
<1> DEFINE Holds == \A q \in Quantities :
                      Matching(stored, q) # {} =>
                        \A p \in resolveUnitPrice(stored, q) : p = Quote(stored', q)
<1>1. TInv /\ [Next]_vars => stored \subseteq stored'
  BY DEF Next, vars, tables, Submit, FindByIdForUpdate, AddTier, Refuse, Rollback, update,
     addRow, removeRow, Edits, save
<1>2. TInv => /\ \A u \in stored : {u.minQty, u.maxQty} \subseteq Int
              /\ \A u, v \in stored : u # v => ~overlaps(u, v)
  BY DEF TInv, StoredAreValid, StoredAreDisjoint, validateFields, Quantities
<1>3. TInv' => /\ \A u \in stored' : {u.minQty, u.maxQty} \subseteq Int
               /\ \A u, v \in stored' : u # v => ~overlaps(u, v)
  BY DEF TInv, StoredAreValid, StoredAreDisjoint, validateFields, Quantities
<1>4. TInv /\ TInv' /\ [Next]_vars => Holds
  <2> SUFFICES ASSUME TInv, TInv', [Next]_vars,
                      NEW q \in Quantities, Matching(stored, q) # {},
                      NEW p \in resolveUnitPrice(stored, q)
               PROVE  p = Quote(stored', q)
    OBVIOUS
  <2>1. PICK t \in stored : contains(t, q)
    BY DEF Matching
  <2>2. q \in Int
    BY DEF Quantities
  <2>3. Matching(stored, q) = {t}
    BY <1>2, <2>1, <2>2, OneMatch
  <2>4. p = t.unitPrice
    BY <2>3 DEF resolveUnitPrice
  <2>5. Quote(stored', q) = t.unitPrice
    BY <1>1, <1>3, <2>1, <2>2, OneMatch
  <2>6. QED
    BY <2>4, <2>5
<1>5. Spec => [][Holds]_vars
  <2>1. TInv /\ TInv' /\ [Next]_vars => [Holds]_vars
    BY <1>4
  <2>2. QED
    BY <2>1, TablesInvariant, PTL DEF Spec
<1>6. QED
  BY <1>5 DEF PreviewHolds

-----------------------------------------------------------------------------
(***************************************************************************)
(* A draft without an empty field has whole quantities.                    *)
(***************************************************************************)
LEMMA CompleteHasNumbers ==
  ASSUME NEW d \in Draft, Complete(d)
  PROVE  d.minQty \in Int /\ d.maxQty \in Int
  BY DraftsAssumption DEF Draft, Complete

(***************************************************************************)
(* Drafts without an issue pass the server's rules, each against all the   *)
(* others, whatever the limits and the prices that are not exact.          *)
(***************************************************************************)
THEOREM EditorIsStrict == Spec => []NoIssueNoRefusal
<1>1. EditorTypes => NoIssueNoRefusal
  <2> DEFINE sent == {i \in DOMAIN rows : Complete(rows[i])}
  <2> SUFFICES ASSUME EditorTypes, validateTiers(rows) = {}, NEW i \in sent
               PROVE  validateAgainstExisting(rows[i], {rows[j] : j \in sent \ {i}})
    BY DEF NoIssueNoRefusal
  <2>1. ASSUME NEW j \in sent
        PROVE  rows[j].minQty \in Int /\ rows[j].maxQty \in Int
    BY CompleteHasNumbers DEF EditorTypes
  <2>2. ASSUME NEW j \in sent PROVE OwnIssues(rows[j]) = {}
    <3>1. ASSUME NEW k \in OwnIssues(rows[j]) PROVE FALSE
      <4> DEFINE Issues(l) == {[kind |-> c, index |-> l] : c \in OwnIssues(rows[l])}
      <4>1. [kind |-> k, index |-> j] \in Issues(j)
        OBVIOUS
      <4>2. Issues(j) \in {Issues(l) : l \in {n \in DOMAIN rows : Complete(rows[n])}}
        OBVIOUS
      <4>3. QED
        BY <4>1, <4>2 DEF validateTiers
    <3>2. QED
      BY <3>1
  <2>3. \A j \in sent : validateFields(rows[j])
    BY <2>1, <2>2 DEF OwnIssues, validateFields, Quantities
  <2>4. ASSUME NEW j \in sent, NEW k \in sent, j < k
        PROVE  ~rangesOverlap(rows[j].minQty, rows[j].maxQty, rows[k].minQty, rows[k].maxQty)
    <3>1. ASSUME NEW c \in Clashing(rows) PROVE FALSE
      <4> DEFINE Overlaps == {[kind |-> "overlap", index |-> n] : n \in Clashing(rows)}
      <4>1. Overlaps \subseteq validateTiers(rows)
        BY DEF validateTiers
      <4>2. [kind |-> "overlap", index |-> c] \in Overlaps
        BY <3>1
      <4>3. QED
        BY <4>1, <4>2
    <3>2. j \in Valid(rows) /\ k \in Valid(rows)
      BY <2>2 DEF Valid
    <3>3. QED
      BY <2>4, <3>1, <3>2 DEF Clashing
  <2>5. ASSUME NEW j \in sent \ {i} PROVE ~overlaps(rows[i], rows[j])
    <3>1. i \in Int /\ j \in Int /\ i # j
      BY DEF EditorTypes
    <3>2. CASE i < j
      BY <2>4, <2>5, <3>2 DEF rangesOverlap, overlaps
    <3>3. CASE j < i
      BY <2>1, <2>4, <2>5, <3>3 DEF rangesOverlap, overlaps
    <3>4. QED
      BY <3>1, <3>2, <3>3
  <2>6. QED
    BY <2>3, <2>5 DEF validateAgainstExisting
<1>2. QED
  BY <1>1, InitEditor, NextKeepsEditor, PTL DEF Spec

-----------------------------------------------------------------------------
(***************************************************************************)
(* Catalog.  What a request that nothing has raced is going to write and   *)
(* to send, and how the index follows.                                     *)
(***************************************************************************)
USE BatchSizeAssumption, MaxChangesAssumption, NoLockAssumption, AuthorAssumption

(***************************************************************************)
(* Types: the five stages of a request, its event, and the review it       *)
(* inserts or hides.                                                       *)
(***************************************************************************)
Events == {"none", "upsert", "delete"}
StageNames == {"idle", "find", "average", "send", "commit"}

OneAtMost == \A w \in Transactions : \A u, v \in changed[w] : u = v

(***************************************************************************)
(* The stage a request is in tells whether it has an event; a request      *)
(* that takes the product away writes a row search does not offer.         *)
(***************************************************************************)
StagesFit ==
    \A w \in Transactions :
        /\ stage[w] = "idle" => event[w] = "none" /\ changed[w] = {}
        /\ stage[w] = "find" => event[w] = "none" /\ changed[w] \subseteq reviews
        /\ stage[w] = "average" => event[w] = "none"
        /\ stage[w] = "send" => event[w] # "none"
        /\ event[w] = "delete" => mine[w].status # "PUBLISHED"

(***************************************************************************)
(* Ratings.  While nothing raced, a request whose product has not changed  *)
(* since it read it has the row as it is, is going to write the mean of    *)
(* the reviews as they will be, and has an event whenever search is to     *)
(* offer something else.                                                   *)
(***************************************************************************)
UpToDate == Running \ behind

WriteFits(w) ==
    /\ stage[w] = "average" => mine[w] = row
    /\ stage[w] \in {"send", "commit"} =>
           mine[w].rated = (Visible \ Hides(w)) \cup Inserts(w)
    /\ stage[w] = "commit" /\ event[w] = "none" =>
           Offered(DocOf(mine[w])) = Offered(DocOf(row))
    /\ \A v \in Inserts(w), u \in reviews : Author[u] # Author[v]

WritesFit == \A w \in UpToDate : WriteFits(w)

RatingFits == RatingIsCurrent /\ (~raced => WritesFit)

(***************************************************************************)
(* The stream.  Its last entry is what search should offer: the row's      *)
(* document, or while sent events wait for their commits one of theirs.    *)
(***************************************************************************)
LogEnd == IF log = <<>> THEN NoDoc ELSE log[Len(log)]
EventDoc(w) == IF event[w] = "delete" THEN NoDoc ELSE DocOf(mine[w])
Sent == {w \in Transactions : event[w] # "none" /\ stage[w] = "commit"}

LogFits ==
    /\ Sent = {} => Offered(LogEnd) = Offered(DocOf(row))
    /\ Sent \ behind # {} => \E w \in Sent : LogEnd = EventDoc(w)

(***************************************************************************)
(* The types, of the tables and of the stream, as one list each.           *)
(***************************************************************************)
RowsFit ==
    /\ row \in Row
    /\ hidden \subseteq reviews /\ reviews \subseteq Reviews
    /\ rowLock \in Running \cup {NoLock}
    /\ stage \in [Transactions -> StageNames]
    /\ mine \in [Transactions -> Row]
    /\ event \in [Transactions -> Events]
    /\ changed \in [Transactions -> SUBSET Reviews]
    /\ behind \subseteq Running

StreamFits ==
    /\ log \in Seq(Doc \cup {NoDoc})
    /\ next \in 1 .. Len(log) + 1
    /\ \A c, d \in Consumers : hand[c] \subseteq 1 .. next - 1
                               /\ (c # d => hand[c] \cap hand[d] = {})
    /\ index \in Doc \cup {NoDoc}
    /\ hand \in [Consumers -> SUBSET Nat]

TypesFit ==
    /\ RowsFit
    /\ StreamFits
    /\ OneAtMost
    /\ StagesFit

StreamIsCurrent == ~raced /\ ~lost => LogFits

(***************************************************************************)
(* The index is the document of an entry k, and what the replicas have in  *)
(* hand are all the entries read after it.                                 *)
(***************************************************************************)
IndexAt(k) ==
    /\ UNION {hand[c] : c \in Consumers} = (k + 1) .. (next - 1)
    /\ index = IF k = 0 THEN NoDoc ELSE log[k]

IndexIsCurrent == ~lost => \E k \in 0 .. next - 1 : IndexAt(k)

(***************************************************************************)
(* The inductive invariant.                                                *)
(***************************************************************************)
CatalogInv ==
    /\ TypesFit
    /\ RatingFits
    /\ StreamIsCurrent
    /\ IndexIsCurrent

-----------------------------------------------------------------------------
LEMMA TypesAreTypeOK == TypesFit => CatalogTypeOK
BY DEF TypesFit, CatalogTypeOK, RowsFit, StreamFits, StageNames, Events

(***************************************************************************)
(* The least of a set of numbers, and of the entries in a hand.            *)
(***************************************************************************)
LEMMA MinIsLeast ==
    ASSUME NEW S \in SUBSET Nat, S # {}
    PROVE  Min(S) \in S /\ \A n \in S : Min(S) <= n
<1>1. PICK m \in S : \A n \in S : ~ (<<n, m>> \in OpToRel(<, Nat))
  BY WFMin, NatLessThanWellFounded, Zenon
<1>2. \A n \in S : ~ (n < m)
  BY <1>1, Zenon DEF OpToRel
<1>3. \A n \in S : m <= n
  BY <1>2
<1>. QED  BY <1>3 DEF Min

LEMMA FirstIsLeast ==
    ASSUME TypesFit, NEW c \in Consumers, hand[c] # {}
    PROVE  /\ First(c) \in hand[c]
           /\ \A n \in hand[c] : First(c) <= n
           /\ First(c) \in 1 .. next - 1
<1>1. hand[c] \in SUBSET Nat
  BY DEF TypesFit, StreamFits
<1>. QED  BY <1>1, MinIsLeast DEF First, TypesFit, StreamFits

(***************************************************************************)
(* A request that starts with a row to write.                              *)
(***************************************************************************)
StartsWith(w, r, e) ==
    /\ Opens(w, r, e)
    /\ r \in Row /\ e \in Events
    /\ r.rated = row.rated
    /\ e = "none" => Offered(DocOf(r)) = Offered(DocOf(row))
    /\ e = "delete" => r.status # "PUBLISHED"
    /\ rowLock' \in {rowLock, w}

Starts(w) ==
    publish(w) \/ updateProduct(w) \/ unpublish(w) \/ removeProduct(w) \/ setStock(w)

LEMMA StartsFit ==
    ASSUME TypesFit, NEW w \in Transactions, Starts(w)
    PROVE  \E r, e : StartsWith(w, r, e)
<1>0. row \in Row
  BY DEF TypesFit, RowsFit
<1>1. CASE publish(w)
  <2>. DEFINE r == [row EXCEPT !.status = "PUBLISHED"]
  <2>1. StartsWith(w, r, "upsert")
    BY <1>0, <1>1 DEF publish, StartsWith, Row, Statuses, Events
  <2>. QED  BY <2>1
<1>2. CASE updateProduct(w)
  <2>1. PICK t \in Texts : Opens(w, [row EXCEPT !.text = t],
                IF row.status = "PUBLISHED" THEN "upsert" ELSE "none")
    BY <1>2 DEF updateProduct
  <2>. DEFINE r == [row EXCEPT !.text = t]
              e == IF row.status = "PUBLISHED" THEN "upsert" ELSE "none"
  <2>2. e = "none" => Offered(DocOf(r)) = Offered(DocOf(row))
    BY <1>0 DEF Offered, DocOf, Row
  <2>3. r \in Row /\ r.rated = row.rated /\ e \in Events /\ e # "delete"
    BY <1>0 DEF Row, Events
  <2>4. StartsWith(w, r, e)
    BY <2>1, <2>2, <2>3, <1>2 DEF StartsWith, updateProduct
  <2>. QED  BY <2>4
<1>3. CASE unpublish(w)
  <2>. DEFINE r == [row EXCEPT !.status = "UNPUBLISHED"]
  <2>1. StartsWith(w, r, "delete")
    BY <1>0, <1>3 DEF unpublish, StartsWith, Row, Statuses, Events
  <2>. QED  BY <2>1
<1>4. CASE removeProduct(w)
  <2>. DEFINE r == [row EXCEPT !.status = "REMOVED"]
  <2>1. StartsWith(w, r, "delete")
    BY <1>0, <1>4 DEF removeProduct, StartsWith, Row, Statuses, Events
  <2>. QED  BY <2>1
<1>5. CASE setStock(w)
  <2>1. PICK inStock \in BOOLEAN :
            Opens(w, [row EXCEPT !.status = applyStockChange(row.status, inStock)],
                  IF applyStockChange(row.status, inStock) # row.status
                  THEN "upsert" ELSE "none")
    BY <1>5 DEF setStock
  <2>. DEFINE s == applyStockChange(row.status, inStock)
              r == [row EXCEPT !.status = s]
              e == IF s # row.status THEN "upsert" ELSE "none"
  <2>2. s \in Statuses
    BY <1>0 DEF applyStockChange, Row, Statuses
  <2>3. e = "none" => r = row
    BY <1>0 DEF Row
  <2>4. r \in Row /\ r.rated = row.rated /\ e \in Events /\ e # "delete"
    BY <1>0, <2>2 DEF Row, Events
  <2>5. rowLock' \in {rowLock, w}
    BY <1>5 DEF setStock
  <2>6. StartsWith(w, r, e)
    BY <2>1, <2>3, <2>4, <2>5 DEF StartsWith
  <2>. QED  BY <2>6
<1>. QED  BY <1>1, <1>2, <1>3, <1>4, <1>5 DEF Starts

LEMMA Branches ==
    ASSUME CatalogNext
    PROVE  \/ \E w \in Transactions :
                \/ Starts(w) \/ submit(w) \/ removeReview(w)
                \/ findProduct(w) \/ recalculateAverage(w) \/ Send(w) \/ SendFails(w)
                \/ Commit(w) \/ RollsBack(w)
           \/ \E c \in Consumers :
                Fetch(c) \/ handle_event(c) \/ Fails(c) \/ Stops(c)
BY DEF CatalogNext, Request, Continue, Consume, Starts

-----------------------------------------------------------------------------
LEMMA CatalogStarts ==
    ASSUME CatalogInit
    PROVE  CatalogInv
<1>1. PICK t \in Texts : row = [status |-> "DRAFT", text |-> t, rated |-> {}]
  BY DEF CatalogInit
<1>2. row \in Row /\ NoChange \in Row /\ NoChange.status = "DRAFT"
  BY <1>1 DEF Row, Statuses, NoChange
<1>3. Running = {}
  BY DEF Running, CatalogInit
<1>4. RowsFit
  BY <1>2, <1>3 DEF RowsFit, CatalogInit, StageNames, Events
<1>5. TypesFit
  <2>1. log \in Seq(Doc \cup {NoDoc}) /\ Len(log) = 0
    BY DEF CatalogInit
  <2>2. StreamFits
    BY <2>1 DEF StreamFits, CatalogInit
  <2>. QED  BY <1>2, <1>4, <2>2 DEF TypesFit, OneAtMost, StagesFit, CatalogInit
<1>6. RatingIsCurrent
  BY <1>1 DEF RatingIsCurrent, Visible, CatalogInit
<1>7. WritesFit
  BY <1>3 DEF WritesFit, UpToDate
<1>8. LogFits
  <2>1. Sent = {}
    BY DEF Sent, CatalogInit
  <2>2. LogEnd = NoDoc
    BY DEF LogEnd, CatalogInit
  <2>3. Offered(DocOf(row)) = {} /\ Offered(NoDoc) = {}
    BY <1>1 DEF Offered, DocOf
  <2>. QED  BY <2>1, <2>2, <2>3 DEF LogFits
<1>9. IndexAt(0) /\ 0 \in 0 .. next - 1
  <2>1. next = 1 /\ index = NoDoc /\ \A c \in Consumers : hand[c] = {}
    BY DEF CatalogInit
  <2>2. UNION {hand[c] : c \in Consumers} = (0 + 1) .. (next - 1)
    BY <2>1
  <2>. QED  BY <2>1, <2>2 DEF IndexAt
<1>. QED  BY <1>5, <1>6, <1>7, <1>8, <1>9
         DEF CatalogInv, RatingFits, StreamIsCurrent, IndexIsCurrent

-----------------------------------------------------------------------------
LEMMA NoChangeIsRow ==
    ASSUME row \in Row
    PROVE  NoChange \in Row /\ NoChange.status = "DRAFT"
BY DEF Row, Statuses, NoChange

(***************************************************************************)
(* What an action leaves alone keeps its type.                             *)
(***************************************************************************)
LEMMA StreamStands ==
    ASSUME StreamFits, UNCHANGED <<log, search>>
    PROVE  StreamFits'
BY DEF StreamFits, search

LEMMA RowsStand ==
    ASSUME RowsFit, OneAtMost, StagesFit, UNCHANGED <<committed, inFlight, behind>>
    PROVE  RowsFit' /\ OneAtMost' /\ StagesFit'
BY DEF RowsFit, OneAtMost, StagesFit, committed, inFlight, Running

(***************************************************************************)
(* What each step does to the types.                                       *)
(***************************************************************************)
LEMMA TypesStart ==
    ASSUME TypesFit, NEW w \in Transactions, Starts(w)
    PROVE  TypesFit'
<1>1. PICK r, e : StartsWith(w, r, e)
  BY StartsFit
<1>2. RowsFit /\ StreamFits /\ OneAtMost /\ StagesFit
  BY DEF TypesFit
<1>3. /\ stage[w] = "idle"
      /\ mine' = [mine EXCEPT ![w] = r]
      /\ event' = [event EXCEPT ![w] = e]
      /\ stage' = [stage EXCEPT ![w] = IF e = "none" THEN "commit" ELSE "send"]
      /\ UNCHANGED <<row, reviews, hidden, changed, log, search, behind>>
      /\ r \in Row /\ e \in Events
      /\ e = "delete" => r.status # "PUBLISHED"
      /\ rowLock' \in {rowLock, w}
  BY <1>1 DEF StartsWith, Opens
<1>4. stage' \in [Transactions -> StageNames] /\ Running' = Running \cup {w}
  BY <1>2, <1>3 DEF RowsFit, StageNames, Running
<1>5. RowsFit'
  BY <1>2, <1>3, <1>4 DEF RowsFit
<1>6. StreamFits'
  BY <1>2, <1>3, StreamStands DEF search
<1>7. OneAtMost'
  BY <1>2, <1>3 DEF OneAtMost
<1>8. StagesFit'
  BY <1>2, <1>3 DEF StagesFit, RowsFit, Events
<1>. QED  BY <1>5, <1>6, <1>7, <1>8 DEF TypesFit

LEMMA TypesReview ==
    ASSUME TypesFit, NEW w \in Transactions, submit(w) \/ removeReview(w)
    PROVE  TypesFit'
<1>1. RowsFit /\ StreamFits /\ OneAtMost /\ StagesFit
  BY DEF TypesFit
<1>2. PICK v \in Reviews : changed' = [changed EXCEPT ![w] = {v}]
  BY <1>1 DEF submit, removeReview, RowsFit
<1>3. /\ stage[w] = "idle"
      /\ \/ stage' = [stage EXCEPT ![w] = "average"]
         \/ stage' = [stage EXCEPT ![w] = "find"] /\ changed'[w] \subseteq reviews
      /\ mine' = [mine EXCEPT ![w] = row] \/ mine' = mine
      /\ UNCHANGED <<row, reviews, hidden, rowLock, event, log, search, behind>>
  BY <1>1 DEF submit, removeReview, committed, RowsFit
<1>4. stage' \in [Transactions -> StageNames] /\ Running' = Running \cup {w}
  BY <1>1, <1>3 DEF RowsFit, StageNames, Running
<1>5. RowsFit'
  BY <1>1, <1>2, <1>3, <1>4 DEF RowsFit
<1>6. StreamFits'
  BY <1>1, <1>3, StreamStands DEF search
<1>7. OneAtMost'
  BY <1>1, <1>2 DEF OneAtMost, RowsFit
<1>8. StagesFit'
  BY <1>1, <1>2, <1>3 DEF StagesFit, RowsFit
<1>. QED  BY <1>5, <1>6, <1>7, <1>8 DEF TypesFit

LEMMA TypesFind ==
    ASSUME TypesFit, NEW w \in Transactions, findProduct(w)
    PROVE  TypesFit'
<1>1. RowsFit /\ StreamFits /\ OneAtMost /\ StagesFit
  BY DEF TypesFit
<1>2. /\ stage[w] = "find"
      /\ stage' = [stage EXCEPT ![w] = "average"]
      /\ mine' = [mine EXCEPT ![w] = row]
      /\ UNCHANGED <<row, reviews, hidden, rowLock, event, changed, log, search, behind>>
  BY DEF findProduct, committed
<1>3. stage' \in [Transactions -> StageNames] /\ Running' = Running
  BY <1>1, <1>2 DEF RowsFit, StageNames, Running
<1>4. RowsFit'
  BY <1>1, <1>2, <1>3 DEF RowsFit
<1>5. StreamFits'
  BY <1>1, <1>2, StreamStands DEF search
<1>6. OneAtMost'
  BY <1>1, <1>2 DEF OneAtMost
<1>7. StagesFit'
  BY <1>1, <1>2 DEF StagesFit, RowsFit
<1>. QED  BY <1>4, <1>5, <1>6, <1>7 DEF TypesFit

LEMMA TypesAverage ==
    ASSUME TypesFit, NEW w \in Transactions, recalculateAverage(w)
    PROVE  TypesFit'
<1>1. RowsFit /\ StreamFits /\ OneAtMost /\ StagesFit
  BY DEF TypesFit
<1>. DEFINE visible == (Visible \ Hides(w)) \cup Inserts(w)
<1>2. /\ stage[w] = "average"
      /\ stage' = [stage EXCEPT ![w] = "commit"]
      /\ mine' = [mine EXCEPT ![w].rated = visible]
      /\ UNCHANGED <<row, reviews, hidden, rowLock, event, changed, log, search, behind>>
  BY DEF recalculateAverage, committed
<1>3. mine[w] \in Row /\ visible \subseteq Reviews
  BY <1>1 DEF RowsFit, Visible, Inserts, Hides
<1>4. [mine[w] EXCEPT !.rated = visible] \in Row
  BY <1>3 DEF Row
<1>5. stage' \in [Transactions -> StageNames] /\ Running' = Running
  BY <1>1, <1>2 DEF RowsFit, StageNames, Running
<1>6. RowsFit'
  BY <1>1, <1>2, <1>4, <1>5 DEF RowsFit
<1>7. StreamFits'
  BY <1>1, <1>2, StreamStands DEF search
<1>8. OneAtMost'
  BY <1>1, <1>2 DEF OneAtMost
<1>9. StagesFit'
  BY <1>1, <1>2 DEF StagesFit, RowsFit
<1>. QED  BY <1>6, <1>7, <1>8, <1>9 DEF TypesFit

LEMMA TypesSend ==
    ASSUME TypesFit, NEW w \in Transactions, Send(w) \/ SendFails(w)
    PROVE  TypesFit'
<1>1. RowsFit /\ StreamFits /\ OneAtMost /\ StagesFit
  BY DEF TypesFit
<1>2. /\ stage[w] = "send"
      /\ stage' = [stage EXCEPT ![w] = "commit"]
      /\ UNCHANGED <<row, reviews, hidden, rowLock, mine, event, changed, search, behind>>
  BY DEF Send, SendFails, committed
<1>3. stage' \in [Transactions -> StageNames] /\ Running' = Running
  BY <1>1, <1>2 DEF RowsFit, StageNames, Running
<1>4. RowsFit'
  BY <1>1, <1>2, <1>3 DEF RowsFit
<1>5. StreamFits'
  <2>1. CASE Send(w)
    <3>. DEFINE d == IF event[w] = "delete" THEN NoDoc ELSE DocOf(mine[w])
    <3>1. d \in Doc \cup {NoDoc}
      BY <1>1 DEF RowsFit, DocOf, Doc, Row
    <3>2. log' = Append(log, d)
      BY <2>1 DEF Send
    <3>3. log' \in Seq(Doc \cup {NoDoc}) /\ Len(log') = Len(log) + 1
      BY <1>1, <3>1, <3>2, AppendProperties DEF StreamFits
    <3>. QED  BY <1>1, <1>2, <3>3 DEF StreamFits, search
  <2>2. CASE SendFails(w)
    BY <1>1, <2>2, StreamStands DEF SendFails, search
  <2>. QED  BY <2>1, <2>2
<1>6. OneAtMost'
  BY <1>1, <1>2 DEF OneAtMost
<1>7. StagesFit'
  BY <1>1, <1>2 DEF StagesFit, RowsFit
<1>. QED  BY <1>4, <1>5, <1>6, <1>7 DEF TypesFit

LEMMA TypesEnd ==
    ASSUME TypesFit, NEW w \in Transactions, Commit(w) \/ RollsBack(w)
    PROVE  TypesFit'
<1>1. RowsFit /\ StreamFits /\ OneAtMost /\ StagesFit
  BY DEF TypesFit
<1>2. Closes(w) /\ stage[w] # "idle"
  BY DEF Commit, RollsBack
<1>3. /\ stage' = [stage EXCEPT ![w] = "idle"]
      /\ mine' = [mine EXCEPT ![w] = NoChange]
      /\ event' = [event EXCEPT ![w] = "none"]
      /\ changed' = [changed EXCEPT ![w] = {}]
      /\ rowLock' = IF rowLock = w THEN NoLock ELSE rowLock
      /\ UNCHANGED <<log, search>>
  BY <1>2 DEF Closes
<1>4. NoChange \in Row /\ NoChange.status = "DRAFT"
  BY <1>1, NoChangeIsRow DEF RowsFit
<1>5. stage' \in [Transactions -> StageNames] /\ Running' = Running \ {w}
  BY <1>1, <1>3 DEF RowsFit, StageNames, Running
<1>6. row' \in Row /\ behind' \subseteq Running \ {w}
      /\ hidden' \subseteq reviews' /\ reviews \subseteq reviews' /\ reviews' \subseteq Reviews
  BY <1>1 DEF Commit, RollsBack, RowsFit, Inserts, Hides
<1>7. RowsFit'
  BY <1>1, <1>3, <1>4, <1>5, <1>6 DEF RowsFit, Events
<1>8. StreamFits'
  BY <1>1, <1>3, StreamStands
<1>9. OneAtMost'
  BY <1>1, <1>3 DEF OneAtMost, RowsFit
<1>10. StagesFit'
  BY <1>1, <1>3, <1>4, <1>6 DEF StagesFit, RowsFit
<1>. QED  BY <1>7, <1>8, <1>9, <1>10 DEF TypesFit

LEMMA TypesConsume ==
    ASSUME TypesFit, NEW c \in Consumers, Fetch(c) \/ handle_event(c) \/ Fails(c) \/ Stops(c)
    PROVE  TypesFit'
<1>1. RowsFit /\ StreamFits /\ OneAtMost /\ StagesFit
  BY DEF TypesFit
<1>2. UNCHANGED <<committed, inFlight, log, behind>>
  BY DEF Fetch, handle_event, Fails, Stops
<1>3. RowsFit' /\ OneAtMost' /\ StagesFit'
  BY <1>1, <1>2, RowsStand
<1>4. StreamFits'
  <2>1. CASE Fetch(c)
    <3>. DEFINE S == {next + BatchSize - 1, Len(log)}
                last == Min(S)
    <3>1. hand[c] = {} /\ next <= Len(log) /\ hand' = [hand EXCEPT ![c] = next .. last]
          /\ next' = last + 1 /\ UNCHANGED index
      BY <2>1 DEF Fetch
    <3>2. next \in Nat /\ next >= 1 /\ Len(log) \in Nat
      BY <1>1, LenProperties DEF StreamFits
    <3>3. S \in SUBSET Nat /\ S # {}
      BY <3>1, <3>2
    <3>4. last \in S /\ \A n \in S : last <= n
      BY <3>3, MinIsLeast
    <3>5. last \in Nat /\ next <= last /\ last <= Len(log)
      BY <3>1, <3>2, <3>4
    <3>. HIDE DEF last
    <3>. QED  BY <1>1, <1>2, <3>1, <3>2, <3>5 DEF StreamFits
  <2>2. CASE handle_event(c)
    <3>1. First(c) \in 1 .. next - 1
      BY <2>2, FirstIsLeast DEF handle_event
    <3>2. log[First(c)] \in Doc \cup {NoDoc}
      BY <1>1, <3>1, ElementOfSeq DEF StreamFits
    <3>. QED  BY <1>1, <1>2, <2>2, <3>2 DEF StreamFits, handle_event, Passed
  <2>3. CASE Fails(c) \/ Stops(c)
    BY <1>1, <1>2, <2>3 DEF StreamFits, Fails, Stops, Passed
  <2>. QED  BY <2>1, <2>2, <2>3
<1>. QED  BY <1>3, <1>4 DEF TypesFit

LEMMA TypesKept ==
    ASSUME TypesFit, CatalogNext
    PROVE  TypesFit'
BY Branches, TypesStart, TypesReview, TypesFind, TypesAverage, TypesSend, TypesEnd, TypesConsume

-----------------------------------------------------------------------------
(***************************************************************************)
(* The rating.  A step of one request that is not a commit leaves what the *)
(* others are going to write as fit as it was.                             *)
(***************************************************************************)
LEMMA OthersStandFit ==
    ASSUME TypesFit, RatingFits, NEW w \in Transactions,
           UNCHANGED <<row, reviews, hidden, raced>>,
           \A x \in Transactions \ {w} :
               /\ stage'[x] = stage[x] /\ mine'[x] = mine[x]
               /\ event'[x] = event[x] /\ changed'[x] = changed[x]
               /\ x \in behind' <=> x \in behind,
           ~raced /\ w \in UpToDate' => WriteFits(w)'
    PROVE  RatingFits'
<1>1. RatingIsCurrent'
  BY DEF RatingFits, RatingIsCurrent, Visible
<1>2. ASSUME ~raced', NEW x \in UpToDate'
      PROVE  WriteFits(x)'
  <2>1. CASE x = w
    BY <1>2, <2>1
  <2>2. CASE x # w
    <3>1. x \in Transactions \ {w} /\ x \in UpToDate /\ ~raced
      BY <1>2, <2>2 DEF UpToDate, Running
    <3>2. WriteFits(x)
      BY <3>1 DEF RatingFits, WritesFit
    <3>. QED  BY <3>1, <3>2 DEF WriteFits, Hides, Inserts, Visible
  <2>. QED  BY <2>1, <2>2
<1>. QED  BY <1>1, <1>2 DEF RatingFits, WritesFit

(***************************************************************************)
(* What each step does to the ratings.                                     *)
(***************************************************************************)
LEMMA RatingStarts ==
    ASSUME TypesFit, RatingFits, NEW w \in Transactions, Starts(w)
    PROVE  RatingFits'
<1>1. PICK r, e : StartsWith(w, r, e)
  BY StartsFit
<1>2. /\ stage[w] = "idle"
      /\ mine' = [mine EXCEPT ![w] = r]
      /\ event' = [event EXCEPT ![w] = e]
      /\ stage' = [stage EXCEPT ![w] = IF e = "none" THEN "commit" ELSE "send"]
      /\ UNCHANGED <<row, reviews, hidden, changed, behind, raced>>
      /\ r.rated = row.rated
      /\ e = "none" => Offered(DocOf(r)) = Offered(DocOf(row))
  BY <1>1 DEF StartsWith, Opens
<1>3. RowsFit /\ changed[w] = {}
  BY <1>2 DEF TypesFit, StagesFit
<1>4. /\ stage'[w] \in {"send", "commit"} /\ mine'[w] = r /\ event'[w] = e
      /\ changed'[w] = {}
  BY <1>2, <1>3 DEF RowsFit
<1>5. ~raced => WriteFits(w)'
  <2>1. ~raced => row.rated = Visible
    BY DEF RatingFits, RatingIsCurrent
  <2>2. Hides(w)' = {} /\ Inserts(w)' = {}
    BY <1>4 DEF Hides, Inserts
  <2>3. Visible' = Visible /\ Offered(DocOf(row))' = Offered(DocOf(row))
        /\ Offered(DocOf(mine[w]))' = Offered(DocOf(r))
    BY <1>2, <1>4 DEF Visible, Offered, DocOf
  <2>. QED  BY <1>2, <1>4, <2>1, <2>2, <2>3 DEF WriteFits
<1>6. \A x \in Transactions \ {w} :
          /\ stage'[x] = stage[x] /\ mine'[x] = mine[x]
          /\ event'[x] = event[x] /\ changed'[x] = changed[x]
          /\ x \in behind' <=> x \in behind
  BY <1>2, <1>3 DEF RowsFit
<1>. QED  BY <1>2, <1>5, <1>6, OthersStandFit

LEMMA RatingReview ==
    ASSUME TypesFit, RatingFits, NEW w \in Transactions, submit(w) \/ removeReview(w)
    PROVE  RatingFits'
<1>1. RowsFit
  BY DEF TypesFit
<1>2. UNCHANGED <<row, reviews, hidden, event, behind, raced>>
  BY DEF submit, removeReview, committed
<1>3. \A x \in Transactions \ {w} :
          /\ stage'[x] = stage[x] /\ mine'[x] = mine[x]
          /\ event'[x] = event[x] /\ changed'[x] = changed[x]
          /\ x \in behind' <=> x \in behind
  BY <1>1, <1>2 DEF RowsFit, submit, removeReview
<1>4. WriteFits(w)'
  <2>1. CASE submit(w)
    <3>1. PICK v \in Reviews : /\ \A u \in reviews : Author[u] # Author[v]
                               /\ changed' = [changed EXCEPT ![w] = {v}]
      BY <2>1 DEF submit
    <3>2. stage'[w] = "average" /\ changed'[w] = {v} /\ mine'[w] = row
      BY <1>1, <2>1, <3>1 DEF RowsFit, submit
    <3>. QED  BY <1>2, <3>1, <3>2 DEF WriteFits, Inserts
  <2>2. CASE removeReview(w)
    <3>1. PICK v \in reviews : changed' = [changed EXCEPT ![w] = {v}]
      BY <2>2 DEF removeReview
    <3>2. stage'[w] = "find" /\ changed'[w] = {v}
      BY <1>1, <2>2, <3>1 DEF RowsFit, removeReview
    <3>. QED  BY <1>2, <3>1, <3>2 DEF WriteFits, Inserts
  <2>. QED  BY <2>1, <2>2
<1>. QED  BY <1>2, <1>3, <1>4, OthersStandFit

LEMMA RatingFind ==
    ASSUME TypesFit, RatingFits, NEW w \in Transactions, findProduct(w)
    PROVE  RatingFits'
<1>1. RowsFit /\ StagesFit
  BY DEF TypesFit
<1>2. /\ stage[w] = "find"
      /\ stage' = [stage EXCEPT ![w] = "average"]
      /\ mine' = [mine EXCEPT ![w] = row]
      /\ UNCHANGED <<row, reviews, hidden, event, changed, behind, raced>>
  BY DEF findProduct, committed
<1>3. \A x \in Transactions \ {w} :
          /\ stage'[x] = stage[x] /\ mine'[x] = mine[x]
          /\ event'[x] = event[x] /\ changed'[x] = changed[x]
          /\ x \in behind' <=> x \in behind
  BY <1>1, <1>2 DEF RowsFit
<1>4. WriteFits(w)'
  <2>1. stage'[w] = "average" /\ mine'[w] = row
    BY <1>1, <1>2 DEF RowsFit
  <2>2. Inserts(w)' = {}
    BY <1>1, <1>2 DEF StagesFit, Inserts
  <2>. QED  BY <1>2, <2>1, <2>2 DEF WriteFits
<1>. QED  BY <1>2, <1>3, <1>4, OthersStandFit

LEMMA RatingAverage ==
    ASSUME TypesFit, RatingFits, NEW w \in Transactions, recalculateAverage(w)
    PROVE  RatingFits'
<1>1. RowsFit /\ StagesFit
  BY DEF TypesFit
<1>. DEFINE visible == (Visible \ Hides(w)) \cup Inserts(w)
<1>2. /\ stage[w] = "average"
      /\ stage' = [stage EXCEPT ![w] = "commit"]
      /\ mine' = [mine EXCEPT ![w].rated = visible]
      /\ UNCHANGED <<row, reviews, hidden, event, changed, behind, raced>>
  BY DEF recalculateAverage, committed
<1>3. \A x \in Transactions \ {w} :
          /\ stage'[x] = stage[x] /\ mine'[x] = mine[x]
          /\ event'[x] = event[x] /\ changed'[x] = changed[x]
          /\ x \in behind' <=> x \in behind
  BY <1>1, <1>2 DEF RowsFit
<1>4. ASSUME ~raced, w \in UpToDate'
      PROVE  WriteFits(w)'
  <2>1. w \in UpToDate
    BY <1>2, <1>4 DEF UpToDate, Running
  <2>2. WriteFits(w)
    BY <1>4, <2>1 DEF RatingFits, WritesFit
  <2>3. mine[w] = row /\ row \in Row
    BY <1>1, <1>2, <2>2 DEF WriteFits, RowsFit
  <2>4. mine'[w] = [row EXCEPT !.rated = visible] /\ stage'[w] = "commit"
    BY <1>1, <1>2, <2>3 DEF RowsFit
  <2>5. mine'[w].rated = visible /\ DocOf(mine'[w]) = DocOf(row)
    BY <2>3, <2>4 DEF Row, DocOf
  <2>6. /\ Hides(w)' = Hides(w) /\ Inserts(w)' = Inserts(w) /\ Visible' = Visible
        /\ DocOf(mine[w])' = DocOf(row) /\ DocOf(row)' = DocOf(row)
    BY <1>2, <2>5 DEF Hides, Inserts, Visible, DocOf
  <2>. QED  BY <1>2, <2>2, <2>4, <2>5, <2>6 DEF WriteFits, Offered
<1>. QED  BY <1>2, <1>3, <1>4, OthersStandFit

LEMMA RatingSend ==
    ASSUME TypesFit, RatingFits, NEW w \in Transactions, Send(w) \/ SendFails(w)
    PROVE  RatingFits'
<1>1. RowsFit /\ StagesFit
  BY DEF TypesFit
<1>2. /\ stage[w] = "send"
      /\ stage' = [stage EXCEPT ![w] = "commit"]
      /\ UNCHANGED <<row, reviews, hidden, mine, event, changed, behind, raced>>
  BY DEF Send, SendFails, committed
<1>3. \A x \in Transactions \ {w} :
          /\ stage'[x] = stage[x] /\ mine'[x] = mine[x]
          /\ event'[x] = event[x] /\ changed'[x] = changed[x]
          /\ x \in behind' <=> x \in behind
  BY <1>1, <1>2 DEF RowsFit
<1>4. ASSUME ~raced, w \in UpToDate'
      PROVE  WriteFits(w)'
  <2>1. w \in UpToDate /\ event[w] # "none" /\ stage'[w] = "commit"
    BY <1>1, <1>2, <1>4 DEF UpToDate, Running, StagesFit, RowsFit
  <2>2. WriteFits(w)
    BY <1>4, <2>1 DEF RatingFits, WritesFit
  <2>. QED  BY <1>2, <2>1, <2>2 DEF WriteFits, Hides, Inserts, Visible
<1>. QED  BY <1>2, <1>3, <1>4, OthersStandFit

LEMMA RatingRollsBack ==
    ASSUME TypesFit, RatingFits, NEW w \in Transactions, RollsBack(w)
    PROVE  RatingFits'
<1>1. RowsFit
  BY DEF TypesFit
<1>2. /\ stage' = [stage EXCEPT ![w] = "idle"]
      /\ mine' = [mine EXCEPT ![w] = NoChange]
      /\ event' = [event EXCEPT ![w] = "none"]
      /\ changed' = [changed EXCEPT ![w] = {}]
      /\ behind' = behind \ {w}
      /\ UNCHANGED <<row, reviews, hidden, raced>>
  BY DEF RollsBack, Closes
<1>3. w \notin UpToDate'
  BY <1>1, <1>2 DEF UpToDate, Running, RowsFit
<1>4. \A x \in Transactions \ {w} :
          /\ stage'[x] = stage[x] /\ mine'[x] = mine[x]
          /\ event'[x] = event[x] /\ changed'[x] = changed[x]
          /\ x \in behind' <=> x \in behind
  BY <1>1, <1>2 DEF RowsFit
<1>. QED  BY <1>2, <1>3, <1>4, OthersStandFit

(***************************************************************************)
(* A commit leaves behind all but those that have hidden a review and not  *)
(* found the product yet.                                                  *)
(***************************************************************************)
LEMMA RatingCommit ==
    ASSUME TypesFit, RatingFits, NEW w \in Transactions, Commit(w)
    PROVE  RatingFits'
<1>1. RowsFit /\ OneAtMost /\ StagesFit
  BY DEF TypesFit
<1>2. SUFFICES ASSUME ~raced'
               PROVE  RatingIsCurrent' /\ WritesFit'
  BY DEF RatingFits, RatingIsCurrent
<1>3. /\ stage[w] = "commit"
      /\ row' = mine[w]
      /\ reviews' = reviews \cup Inserts(w)
      /\ hidden' = hidden \cup Hides(w)
      /\ behind' = {x \in Running \ {w} : stage[x] # "find"}
      /\ ~raced /\ w \notin behind
      /\ stage' = [stage EXCEPT ![w] = "idle"]
      /\ changed' = [changed EXCEPT ![w] = {}]
  BY <1>2 DEF Commit, Closes
<1>4. WriteFits(w)
  BY <1>3 DEF RatingFits, WritesFit, UpToDate, Running
<1>5. RatingIsCurrent'
  <2>1. mine[w].rated = (Visible \ Hides(w)) \cup Inserts(w)
    BY <1>3, <1>4 DEF WriteFits
  <2>2. Visible' = (Visible \ Hides(w)) \cup Inserts(w)
    BY <1>1, <1>3 DEF Visible, Inserts, Hides, RowsFit
  <2>3. \A u, v \in reviews : u # v => Author[u] # Author[v]
    BY <1>3 DEF RatingFits, RatingIsCurrent
  <2>4. \A v \in Inserts(w), u \in reviews : Author[u] # Author[v]
    BY <1>4 DEF WriteFits
  <2>5. \A u, v \in Inserts(w) : u = v
    BY <1>1 DEF OneAtMost, Inserts
  <2>6. \A u, v \in reviews' : u # v => Author[u] # Author[v]
    BY <1>3, <2>3, <2>4, <2>5
  <2>. QED  BY <1>3, <2>1, <2>2, <2>6 DEF RatingIsCurrent
<1>6. ASSUME NEW x \in UpToDate'
      PROVE  WriteFits(x)'
  <2>1. /\ x \in Transactions /\ x # w /\ stage[x] = "find"
        /\ stage'[x] = "find" /\ changed'[x] = changed[x]
    BY <1>1, <1>3, <1>6 DEF UpToDate, Running, RowsFit
  <2>2. Inserts(x)' = {}
    BY <1>1, <1>3, <2>1 DEF StagesFit, Inserts
  <2>. QED  BY <2>1, <2>2 DEF WriteFits
<1>. QED  BY <1>5, <1>6 DEF WritesFit

LEMMA RatingStands ==
    ASSUME RatingFits, UNCHANGED <<committed, inFlight, behind, raced>>
    PROVE  RatingFits'
<1>1. UNCHANGED <<row, reviews, hidden, stage, mine, event, changed, behind, raced>>
  BY DEF committed, inFlight
<1>2. UpToDate' = UpToDate /\ RatingIsCurrent'
  BY <1>1 DEF UpToDate, Running, RatingFits, RatingIsCurrent, Visible
<1>3. ASSUME NEW x \in UpToDate, WriteFits(x)
      PROVE  WriteFits(x)'
  BY <1>1, <1>3 DEF WriteFits, Hides, Inserts, Visible, Offered, DocOf
<1>. QED  BY <1>1, <1>2, <1>3 DEF RatingFits, WritesFit

LEMMA RatingKept ==
    ASSUME TypesFit, RatingFits, CatalogNext
    PROVE  RatingFits'
<1>1. ASSUME NEW c \in Consumers, Fetch(c) \/ handle_event(c) \/ Fails(c) \/ Stops(c)
      PROVE  RatingFits'
  <2>1. UNCHANGED <<committed, inFlight, behind, raced>>
    BY <1>1 DEF Fetch, handle_event, Fails, Stops
  <2>. QED  BY <2>1, RatingStands
<1>. QED  BY <1>1, Branches, RatingStarts, RatingReview, RatingFind, RatingAverage, RatingSend,
             RatingRollsBack, RatingCommit

-----------------------------------------------------------------------------
(***************************************************************************)
(* The stream.  As long as no request overlaps with a commit and no event  *)
(* is lost, its last entry is what the product row asks for, or the event  *)
(* of a request that is about to commit.                                   *)
(***************************************************************************)
LEMMA LogStands ==
    ASSUME StreamIsCurrent, UNCHANGED <<row, log, raced>>, lost => lost',
           Sent' = Sent, Sent' \ behind' = Sent \ behind,
           \A x \in Sent : EventDoc(x)' = EventDoc(x)
    PROVE  StreamIsCurrent'
<1>1. LogEnd' = LogEnd /\ DocOf(row)' = DocOf(row)
  BY DEF LogEnd, DocOf
<1>2. LogFits => LogFits'
  BY <1>1 DEF LogFits, Offered
<1>. QED  BY <1>2 DEF StreamIsCurrent

(***************************************************************************)
(* The last entry of the stream stays what search should offer.            *)
(***************************************************************************)
LEMMA LogStarts ==
    ASSUME TypesFit, StreamIsCurrent, NEW w \in Transactions, Starts(w)
    PROVE  StreamIsCurrent'
<1>1. PICK r, e : StartsWith(w, r, e)
  BY StartsFit
<1>2. /\ stage[w] = "idle"
      /\ mine' = [mine EXCEPT ![w] = r]
      /\ event' = [event EXCEPT ![w] = e]
      /\ stage' = [stage EXCEPT ![w] = IF e = "none" THEN "commit" ELSE "send"]
      /\ UNCHANGED <<row, log, behind, raced, lost>>
  BY <1>1 DEF StartsWith, Opens
<1>3. RowsFit
  BY DEF TypesFit
<1>4. w \notin Sent /\ w \notin Sent'
  BY <1>2, <1>3 DEF Sent, RowsFit
<1>5. Sent' = Sent
  BY <1>2, <1>3, <1>4 DEF Sent, RowsFit
<1>6. \A x \in Sent : EventDoc(x)' = EventDoc(x)
  BY <1>2, <1>3, <1>4 DEF Sent, EventDoc, DocOf, RowsFit
<1>. QED  BY <1>2, <1>5, <1>6, LogStands

LEMMA LogReview ==
    ASSUME TypesFit, StreamIsCurrent, NEW w \in Transactions,
           submit(w) \/ removeReview(w) \/ findProduct(w) \/ recalculateAverage(w)
    PROVE  StreamIsCurrent'
<1>1. /\ stage[w] \in {"idle", "find", "average"}
      /\ \E s : stage' = [stage EXCEPT ![w] = s]
      /\ \E r : mine' = [mine EXCEPT ![w] = r] \/ mine' = mine
      /\ UNCHANGED <<row, log, event, behind, raced, lost>>
  BY DEF submit, removeReview, findProduct, recalculateAverage, committed
<1>2. RowsFit /\ event[w] = "none"
  BY <1>1 DEF TypesFit, StagesFit
<1>3. Sent' = Sent /\ w \notin Sent
  BY <1>1, <1>2 DEF Sent, RowsFit
<1>4. \A x \in Sent : EventDoc(x)' = EventDoc(x)
  BY <1>1, <1>2, <1>3 DEF Sent, EventDoc, DocOf, RowsFit
<1>. QED  BY <1>1, <1>3, <1>4, LogStands

LEMMA LogSend ==
    ASSUME TypesFit, StreamIsCurrent, NEW w \in Transactions, Send(w)
    PROVE  StreamIsCurrent'
<1>1. RowsFit /\ StreamFits /\ event[w] # "none"
  BY DEF TypesFit, StagesFit, Send
<1>2. /\ log' = Append(log, EventDoc(w))
      /\ stage' = [stage EXCEPT ![w] = "commit"]
      /\ UNCHANGED <<row, mine, event>>
  BY DEF Send, committed, EventDoc
<1>3. w \in Sent'
  BY <1>1, <1>2 DEF Sent, RowsFit
<1>4. EventDoc(w) \in Doc \cup {NoDoc}
  BY <1>1 DEF EventDoc, DocOf, Doc, Row, RowsFit
<1>5. log' # <<>> /\ log'[Len(log')] = EventDoc(w)
  BY <1>1, <1>2, <1>4, AppendProperties, LenProperties DEF StreamFits
<1>6. LogEnd' = EventDoc(w)'
  BY <1>2, <1>5 DEF LogEnd, EventDoc, DocOf
<1>7. LogFits'
  BY <1>3, <1>6 DEF LogFits
<1>. QED  BY <1>7 DEF StreamIsCurrent

LEMMA LogCommit ==
    ASSUME TypesFit, RatingFits, StreamIsCurrent, NEW w \in Transactions, Commit(w)
    PROVE  StreamIsCurrent'
<1>1. RowsFit /\ StagesFit
  BY DEF TypesFit
<1>2. SUFFICES ASSUME ~raced', ~lost'
               PROVE  LogFits'
  BY DEF StreamIsCurrent
<1>3. /\ stage[w] = "commit"
      /\ row' = mine[w]
      /\ behind' = {x \in Running \ {w} : stage[x] # "find"}
      /\ ~raced /\ ~lost /\ w \notin behind
      /\ stage' = [stage EXCEPT ![w] = "idle"]
      /\ event' = [event EXCEPT ![w] = "none"]
      /\ log' = log
  BY <1>2 DEF Commit, Closes
<1>4. Sent' = Sent \ {w} /\ Sent' \subseteq behind'
  BY <1>1, <1>3 DEF Sent, Running, RowsFit
<1>5. ASSUME Sent' = {}
      PROVE  Offered(LogEnd) = Offered(DocOf(mine[w]))
  <2>1. CASE event[w] = "none"
    <3>1. WriteFits(w)
      BY <1>3 DEF RatingFits, WritesFit, UpToDate, Running
    <3>2. Offered(DocOf(mine[w])) = Offered(DocOf(row))
      BY <1>3, <2>1, <3>1 DEF WriteFits
    <3>3. Sent = {}
      BY <1>4, <1>5, <2>1 DEF Sent
    <3>. QED  BY <1>3, <3>2, <3>3 DEF StreamIsCurrent, LogFits
  <2>2. CASE event[w] # "none"
    <3>1. Sent = {w}
      BY <1>3, <1>4, <1>5, <2>2 DEF Sent
    <3>2. LogEnd = EventDoc(w)
      BY <1>3, <3>1 DEF StreamIsCurrent, LogFits
    <3>3. event[w] = "delete" => mine[w].status # "PUBLISHED"
      BY <1>1 DEF StagesFit
    <3>. QED  BY <3>2, <3>3 DEF EventDoc, Offered, DocOf
  <2>. QED  BY <2>1, <2>2
<1>6. LogEnd' = LogEnd /\ DocOf(row)' = DocOf(mine[w])
  BY <1>3 DEF LogEnd, DocOf
<1>. QED  BY <1>4, <1>5, <1>6 DEF LogFits, Offered

LEMMA LogRollsBack ==
    ASSUME TypesFit, StreamIsCurrent, NEW w \in Transactions, RollsBack(w)
    PROVE  StreamIsCurrent'
<1>1. RowsFit
  BY DEF TypesFit
<1>2. SUFFICES ASSUME ~lost'
               PROVE  StreamIsCurrent'
  BY DEF StreamIsCurrent
<1>3. /\ behind' = behind \ {w}
      /\ ~lost /\ w \notin Sent
      /\ stage' = [stage EXCEPT ![w] = "idle"]
      /\ mine' = [mine EXCEPT ![w] = NoChange]
      /\ event' = [event EXCEPT ![w] = "none"]
      /\ UNCHANGED <<row, log, raced>>
  BY <1>2 DEF RollsBack, Closes, Sent
<1>4. Sent' = Sent
  BY <1>1, <1>3 DEF Sent, RowsFit
<1>5. \A x \in Sent : EventDoc(x)' = EventDoc(x)
  BY <1>1, <1>3 DEF Sent, EventDoc, DocOf, RowsFit
<1>6. Sent' \ behind' = Sent \ behind
  BY <1>3, <1>4
<1>. QED  BY <1>3, <1>4, <1>5, <1>6, LogStands

LEMMA LogKept ==
    ASSUME TypesFit, RatingFits, StreamIsCurrent, CatalogNext
    PROVE  StreamIsCurrent'
<1>1. ASSUME NEW w \in Transactions, SendFails(w)
      PROVE  StreamIsCurrent'
  BY <1>1 DEF SendFails, StreamIsCurrent
<1>2. ASSUME NEW c \in Consumers, Fetch(c) \/ handle_event(c) \/ Fails(c) \/ Stops(c)
      PROVE  StreamIsCurrent'
  <2>0. lost => lost'
    BY <1>2, Zenon DEF Fetch, handle_event, Fails, Stops
  <2>1. UNCHANGED <<committed, inFlight, log, behind, raced>>
    BY <1>2 DEF Fetch, handle_event, Fails, Stops
  <2>2. UNCHANGED <<row, stage, mine, event, log, behind, raced>>
    BY <2>1 DEF committed, inFlight
  <2>3. Sent' = Sent /\ \A x \in Sent : EventDoc(x)' = EventDoc(x)
    BY <2>2 DEF Sent, EventDoc, DocOf
  <2>. QED  BY <2>0, <2>1, <2>2, <2>3, LogStands
<1>. QED  BY <1>1, <1>2, Branches, LogStarts, LogReview, LogSend, LogCommit, LogRollsBack

-----------------------------------------------------------------------------
(***************************************************************************)
(* The index.  As long as no event is lost, the entries in the hands of    *)
(* the replicas are the last ones read, without a gap, and the index is    *)
(* what the entry before them says.                                        *)
(***************************************************************************)
LEMMA IndexStands ==
    ASSUME IndexIsCurrent, UNCHANGED <<log, search, lost>>
    PROVE  IndexIsCurrent'
BY DEF IndexIsCurrent, IndexAt, search

LEMMA IndexSend ==
    ASSUME TypesFit, IndexIsCurrent, NEW w \in Transactions, Send(w)
    PROVE  IndexIsCurrent'
<1>1. StreamFits /\ RowsFit
  BY DEF TypesFit
<1>2. log' = Append(log, EventDoc(w)) /\ UNCHANGED <<next, hand, index, lost>>
  BY DEF Send, EventDoc, search
<1>3. EventDoc(w) \in Doc \cup {NoDoc}
  BY <1>1 DEF EventDoc, DocOf, Doc, Row, RowsFit
<1>4. next \in Nat /\ next - 1 <= Len(log)
  BY <1>1, LenProperties DEF StreamFits
<1>5. \A k \in 1 .. next - 1 : log'[k] = log[k]
  <2>1. \A k \in 1 .. Len(log) : Append(log, EventDoc(w))[k] = log[k]
    BY <1>1, <1>3, AppendProperties DEF StreamFits
  <2>2. Len(log) \in Nat
    BY <1>1, LenProperties DEF StreamFits
  <2>. QED  BY <1>2, <1>4, <2>1, <2>2
<1>6. ASSUME NEW k \in 0 .. next - 1, IndexAt(k)
      PROVE  IndexAt(k)'
  BY <1>2, <1>4, <1>5, <1>6 DEF IndexAt
<1>. QED  BY <1>2, <1>6 DEF IndexIsCurrent

LEMMA IndexFetch ==
    ASSUME TypesFit, IndexIsCurrent, NEW c \in Consumers, Fetch(c)
    PROVE  IndexIsCurrent'
<1>1. StreamFits
  BY DEF TypesFit
<1>. DEFINE S == {next + BatchSize - 1, Len(log)}
            last == Min(S)
<1>2. /\ hand[c] = {} /\ next <= Len(log) /\ hand' = [hand EXCEPT ![c] = next .. last]
      /\ next' = last + 1 /\ UNCHANGED <<index, log, lost>>
  BY DEF Fetch
<1>3. next \in Nat /\ next >= 1 /\ Len(log) \in Nat
  BY <1>1, LenProperties DEF StreamFits
<1>4. S \in SUBSET Nat /\ S # {}
  BY <1>2, <1>3
<1>5. last \in S
  BY <1>4, MinIsLeast
<1>6. last \in Nat /\ next <= last
  BY <1>2, <1>3, <1>5
<1>. HIDE DEF last
<1>7. UNION {hand'[d] : d \in Consumers} = (UNION {hand[d] : d \in Consumers}) \cup (next .. last)
  <2>1. hand'[c] = next .. last /\ \A d \in Consumers \ {c} : hand'[d] = hand[d]
    BY <1>1, <1>2 DEF StreamFits
  <2>. QED  BY <1>2, <2>1
<1>8. ASSUME NEW k \in 0 .. next - 1, IndexAt(k)
      PROVE  IndexAt(k)' /\ k \in 0 .. next' - 1
  <2>1. k \in Nat /\ k + 1 <= next
    BY <1>3
  <2>2. ((k + 1) .. (next - 1)) \cup (next .. last) = (k + 1) .. (next' - 1)
    BY <1>2, <1>3, <1>6, <2>1
  <2>3. k \in 0 .. next' - 1
    BY <1>2, <1>3, <1>6, <2>1
  <2>. QED  BY <1>2, <1>7, <1>8, <2>2, <2>3 DEF IndexAt
<1>. QED  BY <1>2, <1>8 DEF IndexIsCurrent

LEMMA IndexHandled ==
    ASSUME TypesFit, IndexIsCurrent, NEW c \in Consumers, handle_event(c)
    PROVE  IndexIsCurrent'
<1>1. StreamFits
  BY DEF TypesFit
<1>2. SUFFICES ASSUME ~lost'
               PROVE  \E k \in 0 .. next' - 1 : IndexAt(k)'
  BY DEF IndexIsCurrent
<1>0. PICK f : f = First(c)
  OBVIOUS
<1>3. /\ hand[c] # {} /\ index' = log[f] /\ hand' = [hand EXCEPT ![c] = @ \ {f}]
      /\ UNCHANGED <<log, next>> /\ ~lost /\ ~Overtakes(c)
  BY <1>0, <1>2 DEF handle_event, Passed
<1>4. f \in hand[c] /\ f \in 1 .. next - 1 /\ \A n \in hand[c] : f <= n
  BY <1>0, <1>3, FirstIsLeast
<1>5. next \in Nat /\ f \in Nat
  BY <1>1, <1>4, LenProperties DEF StreamFits
<1>6. \A d \in Consumers : \A n \in hand[d] : ~ (n < f)
  BY <1>0, <1>3 DEF Overtakes
<1>7. PICK k \in 0 .. next - 1 : IndexAt(k)
  BY <1>3 DEF IndexIsCurrent
<1>8. f = k + 1
  <2>1. f \in (k + 1) .. (next - 1)
    BY <1>4, <1>7 DEF IndexAt
  <2>2. k + 1 \in (k + 1) .. (next - 1)
    BY <1>5, <2>1
  <2>3. PICK d \in Consumers : k + 1 \in hand[d]
    BY <1>7, <2>2 DEF IndexAt
  <2>4. ~ (k + 1 < f)
    BY <1>6, <2>3
  <2>. QED  BY <1>5, <2>1, <2>4
<1>9. UNION {hand'[d] : d \in Consumers} = (UNION {hand[d] : d \in Consumers}) \ {f}
  <2>1. hand'[c] = hand[c] \ {f} /\ \A d \in Consumers \ {c} : hand'[d] = hand[d]
    BY <1>1, <1>3 DEF StreamFits
  <2>2. \A d \in Consumers \ {c} : f \notin hand[d]
    BY <1>1, <1>4 DEF StreamFits
  <2>. QED  BY <2>1, <2>2
<1>10. ((k + 1) .. (next - 1)) \ {f} = (f + 1) .. (next' - 1)
  BY <1>3, <1>5, <1>8
<1>11. IndexAt(f)' /\ f \in 0 .. next' - 1
  <2>1. UNION {hand'[d] : d \in Consumers} = (f + 1) .. (next' - 1)
    BY <1>7, <1>9, <1>10 DEF IndexAt
  <2>2. f \in 0 .. next' - 1 /\ f # 0
    BY <1>3, <1>4, <1>5
  <2>3. index' = IF f = 0 THEN NoDoc ELSE log'[f]
    BY <1>3, <2>2
  <2>. QED  BY <2>1, <2>2, <2>3 DEF IndexAt
<1>. QED  BY <1>11

LEMMA IndexKept ==
    ASSUME TypesFit, IndexIsCurrent, CatalogNext
    PROVE  IndexIsCurrent'
<1>1. ASSUME NEW w \in Transactions, \/ Starts(w) \/ submit(w) \/ removeReview(w)
                                     \/ findProduct(w) \/ recalculateAverage(w) \/ Commit(w)
      PROVE  IndexIsCurrent'
  <2>1. UNCHANGED <<log, search, lost>>
    BY <1>1 DEF Starts, publish, updateProduct, unpublish, removeProduct, setStock, Opens,
                submit, removeReview, findProduct, recalculateAverage, Commit, Closes
  <2>. QED  BY <2>1, IndexStands
<1>2. ASSUME NEW w \in Transactions, SendFails(w) \/ RollsBack(w)
      PROVE  IndexIsCurrent'
  <2>1. lost => lost'
    BY <1>2, Zenon DEF SendFails, RollsBack
  <2>2. UNCHANGED <<log, next, hand, index>>
    BY <1>2 DEF SendFails, RollsBack, Closes, search
  <2>. QED  BY <2>1, <2>2 DEF IndexIsCurrent, IndexAt
<1>3. ASSUME NEW c \in Consumers, Fails(c) \/ Stops(c)
      PROVE  IndexIsCurrent'
  BY <1>3 DEF Fails, Stops, IndexIsCurrent
<1>. QED  BY <1>1, <1>2, <1>3, Branches, IndexSend, IndexFetch, IndexHandled

-----------------------------------------------------------------------------
LEMMA CatalogStutters ==
    ASSUME CatalogInv, UNCHANGED catalogVars
    PROVE  CatalogInv'
<1>1. UNCHANGED <<committed, inFlight, log, search, behind, raced, lost>>
  BY DEF catalogVars
<1>2. UNCHANGED <<row, stage, mine, event, log, behind, raced, lost>>
  BY <1>1 DEF committed, inFlight
<1>3. TypesFit'
  BY <1>1, RowsStand, StreamStands DEF CatalogInv, TypesFit
<1>4. RatingFits'
  BY <1>1, RatingStands DEF CatalogInv
<1>5. StreamIsCurrent'
  <2>1. Sent' = Sent /\ \A x \in Sent : EventDoc(x)' = EventDoc(x)
    BY <1>2 DEF Sent, EventDoc, DocOf
  <2>. QED  BY <1>2, <2>1, LogStands DEF CatalogInv
<1>6. IndexIsCurrent'
  BY <1>1, IndexStands DEF CatalogInv
<1>. QED  BY <1>3, <1>4, <1>5, <1>6 DEF CatalogInv

(***************************************************************************)
(* The inductive invariant of the catalogue.                               *)
(***************************************************************************)
THEOREM CatalogInvariant == CatalogSpec => []CatalogInv
<1>1. CatalogInit => CatalogInv
  BY CatalogStarts
<1>2. CatalogInv /\ [CatalogNext]_catalogVars => CatalogInv'
  BY CatalogStutters, TypesKept, RatingKept, LogKept, IndexKept DEF CatalogInv
<1>. QED  BY <1>1, <1>2, PTL DEF CatalogSpec

(***************************************************************************)
(* For any number of requests and reviews: the values are those of the     *)
(* code, and the rating kept with a product is that of its visible         *)
(* reviews, one from each retailer, unless a request wrote back a row that *)
(* had changed since it read it.                                           *)
(***************************************************************************)
THEOREM ReviewsAreAlwaysSound == CatalogSpec => []ReviewsAreSound
<1>1. CatalogInv => ReviewsAreSound
  BY TypesAreTypeOK DEF CatalogInv, ReviewsAreSound, RatingFits
<1>. QED  BY <1>1, CatalogInvariant, PTL

(***************************************************************************)
(* For any number of requests, replicas of search and sizes of a batch:    *)
(* what search offers is what is PUBLISHED, with its present text, once    *)
(* all is handled, unless requests overlapped or an event went astray.     *)
(***************************************************************************)
THEOREM IndexAlwaysFollows == CatalogSpec => []IndexFollows
<1>1. CatalogInv => IndexFollows
  <2>1. SUFFICES ASSUME CatalogInv, Settled, ~raced, ~lost
                 PROVE  Agrees
    BY DEF IndexFollows
  <2>2. PICK k \in 0 .. next - 1 : IndexAt(k)
    BY <2>1 DEF CatalogInv, IndexIsCurrent
  <2>3. next = Len(log) + 1 /\ Len(log) \in Nat /\ log \in Seq(Doc \cup {NoDoc})
    BY <2>1, LenProperties DEF CatalogInv, TypesFit, StreamFits, Settled
  <2>4. k = Len(log)
    <3>1. UNION {hand[c] : c \in Consumers} = {}
      BY <2>1 DEF Settled
    <3>2. k + 1 \notin (k + 1) .. (next - 1)
      BY <2>2, <3>1 DEF IndexAt
    <3>. QED  BY <2>2, <2>3, <3>2
  <2>5. index = LogEnd
    <3>1. Len(log) = 0 <=> log = <<>>
      BY <2>3, EmptySeq
    <3>. QED  BY <2>2, <2>4, <3>1 DEF IndexAt, LogEnd
  <2>6. Sent = {}
    BY <2>1 DEF Settled, Sent, Running
  <2>7. Offered(LogEnd) = Offered(DocOf(row))
    BY <2>1, <2>6 DEF CatalogInv, StreamIsCurrent, LogFits
  <2>. QED  BY <2>5, <2>7 DEF Agrees
<1>. QED  BY <1>1, CatalogInvariant, PTL
=============================================================================
