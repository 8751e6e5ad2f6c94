--------------------------- MODULE CheckoutProofs ---------------------------
(***************************************************************************)
(* Proofs about Checkout: for any retailers, items, stock and number of    *)
(* requests that overlap and fail, a hold backs one line and fits it, no   *)
(* hold gets out of sight, and what is ordered has left its cart.          *)
(***************************************************************************)
EXTENDS Checkout, TLAPS

USE QuantitiesAssumption, StockLevelsAssumption, NoRowAssumption, NoCallAssumption

-----------------------------------------------------------------------------
(***************************************************************************)
(* Who speaks of a row x as item i: the tables, and the requests that have *)
(* read it or are about to write it.  A request that adds an item has a    *)
(* row, and no item for it yet.                                            *)
(***************************************************************************)
Runs(w) == calls[w] # NoCall

Adds(w, x) == Runs(w) /\ calls[w].at \in AddSteps /\ calls[w].new = x

Keeps(w, i, x) ==
    /\ Runs(w)
    /\ \/ calls[w].at \in ChangeSteps \cup RemoveSteps /\ calls[w].item = i /\ calls[w].old = x
       \/ calls[w].at = "update" /\ calls[w].item = i /\ calls[w].new = x
       \/ calls[w].at \in OrderSteps /\ <<i, x>> \in calls[w].lines

Stored(i, x) == row[i] = x \/ \E o \in Orders : <<i, x>> \in orders[o]

Mentioned(i, x) == Stored(i, x) \/ \E w \in Workers : Keeps(w, i, x)

(***************************************************************************)
(* The inductive invariant.                                                *)
(*                                                                         *)
(* An id of a reservation stands for one row of one item, wherever it is   *)
(* spoken of, and the store holds for it what the row says.                *)
(***************************************************************************)
Unique ==
    \A i, j \in Items, x, y \in Rows :
        Mentioned(i, x) /\ Mentioned(j, y) /\ x.resv = y.resv => i = j /\ x = y

Apart ==
    \A w \in Workers, x \in Rows : Adds(w, x) =>
        /\ \A i \in Items, y \in Rows : Mentioned(i, y) => y.resv # x.resv
        /\ \A v \in Workers \ {w}, y \in Rows : Adds(v, y) => y.resv # x.resv

HoldsFit ==
    \A p \in Products, r \in Reservations, q \in Quantities : <<r, q>> \in holds[p] =>
        /\ \A i \in Items, x \in Rows :
            Mentioned(i, x) /\ x.resv = r => x.product = p /\ x.qty = q
        /\ \A w \in Workers, x \in Rows :
            Adds(w, x) /\ x.resv = r => x.product = p /\ x.qty = q
        /\ \A m \in Products, k \in Quantities : <<r, k>> \in holds[m] => m = p /\ k = q

Core == Unique /\ Apart /\ HoldsFit

(***************************************************************************)
(* What a request has released stays released, since ids are not used      *)
(* twice; and a hold is firm, known to a row, to an order, or to a request *)
(* that will write it, unless it is leaked.                                *)
(***************************************************************************)
ReleasedSteps == {"reserve new", "restore old", "update", "delete"}

Released ==
    \A w \in Workers, r \in Reservations :
        /\ Runs(w) /\ calls[w].at \in ReleasedSteps
        /\ calls[w].old.resv = r
        => ~Held(r)

Writer(w, r) == Runs(w) /\ calls[w].at \in AddSteps \cup {"update"} /\ calls[w].new.resv = r

Firm(r) ==
    \/ r \in leaked
    \/ \E i \in Items, x \in Rows : Stored(i, x) /\ x.resv = r
    \/ \E w \in Workers : Writer(w, r)

HeldIsFirm == \A r \in Reservations : Held(r) => Firm(r)

(***************************************************************************)
(* Rows do not change hands, and a checkout deletes every row it orders.   *)
(***************************************************************************)
Placed(w) ==
    Runs(w) =>
        /\ calls[w].at \in ChangeSteps /\ row[calls[w].item] # NoRow =>
              row[calls[w].item].owner = calls[w].new.owner
        /\ \A i \in Items, x \in Rows :
              calls[w].at \in OrderSteps /\ <<i, x>> \in calls[w].lines /\ row[i] # NoRow =>
                  /\ row[i].owner = calls[w].owner
                  /\ calls[w].at = "commit" => i \in calls[w].items

Places ==
    /\ \A w \in Workers : Placed(w)
    /\ OrderedLinesLeaveCart

IInv == TypeOK /\ Core /\ Released /\ HeldIsFirm /\ Places

-----------------------------------------------------------------------------
(***************************************************************************)
(* Types of rows and requests.                                             *)
(***************************************************************************)
LEMMA RowFacts ==
  ASSUME NEW u \in Retailers, NEW p \in Products, NEW q \in Quantities, NEW r \in Reservations
  PROVE  /\ Row(u, p, q, r) \in Rows
         /\ Row(u, p, q, r).owner = u /\ Row(u, p, q, r).product = p
         /\ Row(u, p, q, r).qty = q /\ Row(u, p, q, r).resv = r
  BY DEF Row, Rows

LEMMA FieldFacts ==
  ASSUME NEW x \in Rows
  PROVE  /\ x.owner \in Retailers /\ x.product \in Products
         /\ x.qty \in Quantities /\ x.resv \in Reservations
         /\ x # NoRow
  BY DEF Rows

LEMMA CallFacts ==
  ASSUME TypeOK, NEW w \in Workers, Runs(w)
  PROVE  /\ calls[w] \in Calls
         /\ calls[w].at \in AddSteps \cup ChangeSteps \cup RemoveSteps \cup OrderSteps
         /\ calls[w].at \in AddSteps => calls[w].new \in Rows /\ calls[w].found \in {None, One}
         /\ calls[w].at \in ChangeSteps =>
              calls[w].item \in Items /\ calls[w].old \in Rows /\ calls[w].new \in Rows
         /\ calls[w].at \in RemoveSteps => calls[w].item \in Items /\ calls[w].old \in Rows
         /\ calls[w].at \in OrderSteps =>
              /\ calls[w].owner \in Retailers
              /\ calls[w].lines \subseteq Lines /\ calls[w].items \subseteq Items
<1>1. calls[w] \in Calls
  BY DEF TypeOK, Runs
<1>2. QED
  BY <1>1 DEF Calls, AddSteps, ChangeSteps, RemoveSteps, OrderSteps

LEMMA AddingFacts ==
  ASSUME NEW s \in AddSteps, NEW x \in Rows, NEW n \in {None, One}
  PROVE  /\ Adding(s, x, n) \in Calls /\ Adding(s, x, n) # NoCall
         /\ Adding(s, x, n).at = s /\ Adding(s, x, n).new = x
<1>1. Adding(s, x, n) \in Calls
  BY DEF Adding, Calls, AddSteps
<1>2. QED
  BY <1>1 DEF Adding

LEMMA ChangingFacts ==
  ASSUME NEW s \in ChangeSteps, NEW i \in Items, NEW x \in Rows, NEW y \in Rows
  PROVE  /\ Changing(s, i, x, y) \in Calls /\ Changing(s, i, x, y) # NoCall
         /\ Changing(s, i, x, y).at = s /\ Changing(s, i, x, y).item = i
         /\ Changing(s, i, x, y).old = x /\ Changing(s, i, x, y).new = y
<1>1. Changing(s, i, x, y) \in Calls
  BY DEF Changing, Calls
<1>2. QED
  BY <1>1 DEF Changing

LEMMA RemovingFacts ==
  ASSUME NEW s \in RemoveSteps, NEW i \in Items, NEW x \in Rows
  PROVE  /\ Removing(s, i, x) \in Calls /\ Removing(s, i, x) # NoCall
         /\ Removing(s, i, x).at = s /\ Removing(s, i, x).item = i /\ Removing(s, i, x).old = x
<1>1. Removing(s, i, x) \in Calls
  BY DEF Removing, Calls
<1>2. QED
  BY <1>1 DEF Removing

LEMMA OrderingFacts ==
  ASSUME NEW s \in OrderSteps, NEW u \in Retailers, NEW L \in SUBSET Lines, NEW I \in SUBSET Items
  PROVE  /\ Ordering(s, u, L, I) \in Calls /\ Ordering(s, u, L, I) # NoCall
         /\ Ordering(s, u, L, I).at = s /\ Ordering(s, u, L, I).owner = u
         /\ Ordering(s, u, L, I).lines = L /\ Ordering(s, u, L, I).items = I
<1>1. Ordering(s, u, L, I) \in Calls
  BY DEF Ordering, Calls
<1>2. QED
  BY <1>1 DEF Ordering

LEMMA StepKinds ==
  /\ \A s \in AddSteps : s \notin ChangeSteps \cup RemoveSteps \cup OrderSteps
  /\ \A s \in ChangeSteps : s \notin RemoveSteps \cup OrderSteps
  /\ \A s \in RemoveSteps : s \notin OrderSteps
  BY DEF AddSteps, ChangeSteps, RemoveSteps, OrderSteps

LEMMA HoldFacts ==
  ASSUME TypeOK, NEW p \in Products, NEW h \in holds[p]
  PROVE  /\ h[1] \in Reservations /\ h[2] \in Quantities /\ h = <<h[1], h[2]>>
         /\ Held(h[1])
<1>1. h \in Reservations \X Quantities
  BY DEF TypeOK
<1>2. h[1] \in Reservations /\ h[2] \in Quantities /\ h = <<h[1], h[2]>>
  BY <1>1
<1>3. <<h[1], h[2]>> \in holds[p]
  BY <1>2
<1>4. QED
  BY <1>2, <1>3 DEF Held

(***************************************************************************)
(* An id that is fresh is nowhere.                                         *)
(***************************************************************************)
LEMMA FreshFacts ==
  ASSUME TypeOK, NEW r \in Reservations, FreshResv(r)
  PROVE  /\ \A i \in Items, x \in Rows : Mentioned(i, x) => x.resv # r
         /\ \A w \in Workers, x \in Rows : Adds(w, x) => x.resv # r
         /\ \A p \in Products, q \in Quantities : <<r, q>> \notin holds[p]
         /\ \A w \in Workers :
               Runs(w) /\ calls[w].at \in ChangeSteps \cup RemoveSteps => calls[w].old.resv # r
         /\ ~Held(r) /\ r \notin leaked
<1>1. ASSUME NEW i \in Items, NEW x \in Rows, Stored(i, x) PROVE x.resv # r
  <2>1. CASE row[i] = x
    BY <2>1, FieldFacts DEF FreshResv
  <2>2. ASSUME NEW o \in Orders, <<i, x>> \in orders[o] PROVE x.resv # r
    BY <2>2 DEF FreshResv, OrderedResv
  <2>3. QED
    BY <1>1, <2>1, <2>2 DEF Stored
<1>2. ASSUME NEW w \in Workers, NEW i \in Items, NEW x \in Rows, Keeps(w, i, x) PROVE x.resv # r
  <2>1. ~InFlight(w, r) /\ Runs(w)
    BY <1>2 DEF FreshResv, Keeps
  <2>2. CASE calls[w].at \in OrderSteps /\ <<i, x>> \in calls[w].lines
    BY <2>1, <2>2 DEF InFlight, Runs
  <2>3. CASE calls[w].at \in ChangeSteps \cup RemoveSteps /\ calls[w].old = x
    BY <2>1, <2>3 DEF InFlight, Runs
  <2>4. CASE calls[w].at = "update" /\ calls[w].new = x
    BY <2>1, <2>4 DEF InFlight, Runs, ChangeSteps
  <2>5. QED
    BY <1>2, <2>2, <2>3, <2>4 DEF Keeps
<1>3. QED
  BY <1>1, <1>2 DEF Mentioned, Adds, FreshResv, InFlight, Held, Runs

-----------------------------------------------------------------------------
(***************************************************************************)
(* One request goes on, the others stand still.                            *)
(***************************************************************************)
Moves(w, c) ==
    /\ calls' \in [Workers -> Calls \cup {NoCall}]
    /\ calls'[w] = c
    /\ \A v \in Workers \ {w} : calls'[v] = calls[v]

LEMMA GoesMoves ==
  ASSUME TypeOK, NEW w \in Workers, NEW c \in Calls \cup {NoCall}, Goes(w, c)
  PROVE  Moves(w, c)
  BY DEF TypeOK, Goes, Moves

LEMMA MentionSteps ==
  ASSUME NEW w \in Workers, NEW c, Moves(w, c),
         NEW i \in Items, NEW x \in Rows, Mentioned(i, x)'
  PROVE  Stored(i, x)' \/ Keeps(w, i, x)' \/ Mentioned(i, x)
<1>1. CASE Stored(i, x)'
  BY <1>1
<1>2. ASSUME NEW v \in Workers, Keeps(v, i, x)', v # w PROVE Mentioned(i, x)
  BY <1>2 DEF Moves, Keeps, Mentioned, Runs
<1>3. QED
  BY <1>1, <1>2 DEF Mentioned

LEMMA OthersAdd ==
  ASSUME NEW w \in Workers, NEW c, Moves(w, c), NEW v \in Workers \ {w}, NEW x \in Rows
  PROVE  Adds(v, x)' <=> Adds(v, x)
  BY DEF Moves, Adds, Runs

(***************************************************************************)
(* A step that makes nobody speak of anything new, and grants nothing.     *)
(***************************************************************************)
LEMMA CoreShrinks ==
  ASSUME Core,
         \A i \in Items, x \in Rows : Mentioned(i, x)' => Mentioned(i, x),
         \A w \in Workers, x \in Rows : Adds(w, x)' => Adds(w, x),
         \A p \in Products : holds'[p] \subseteq holds[p]
  PROVE  Core'
<1>1. Unique'
  BY DEF Core, Unique
<1>2. Apart'
  BY DEF Core, Apart
<1>3. HoldsFit'
  <2>1. ASSUME NEW p \in Products, NEW r \in Reservations, NEW q \in Quantities,
               <<r, q>> \in holds'[p]
        PROVE  /\ \A i \in Items, x \in Rows :
                     Mentioned(i, x) /\ x.resv = r => x.product = p /\ x.qty = q
               /\ \A w \in Workers, x \in Rows :
                     Adds(w, x) /\ x.resv = r => x.product = p /\ x.qty = q
               /\ \A m \in Products, k \in Quantities : <<r, k>> \in holds[m] => m = p /\ k = q
    BY <2>1 DEF Core, HoldsFit
  <2>2. QED
    BY <2>1 DEF HoldsFit
<1>4. QED
  BY <1>1, <1>2, <1>3 DEF Core

(***************************************************************************)
(* A hold is granted under a fresh id, for a row that one request speaks   *)
(* of from now on, as the item it changes, or as one it adds.              *)
(***************************************************************************)
LEMMA CoreGrants ==
  ASSUME TypeOK, Core, NEW w \in Workers, NEW y \in Rows, NEW j, NEW adds \in BOOLEAN,
         FreshResv(y.resv),
         \A i \in Items, x \in Rows :
            Mentioned(i, x)' => Mentioned(i, x) \/ (~adds /\ i = j /\ x = y),
         \A v \in Workers, x \in Rows :
            Adds(v, x)' => Adds(v, x) \/ (adds /\ v = w /\ x = y),
         \A p \in Products : holds'[p] \subseteq holds[p] \cup {<<y.resv, y.qty>>},
         \A p \in Products : p # y.product => holds'[p] \subseteq holds[p]
  PROVE  Core'
<1>1. /\ \A i \in Items, x \in Rows : Mentioned(i, x) => x.resv # y.resv
      /\ \A v \in Workers, x \in Rows : Adds(v, x) => x.resv # y.resv
      /\ \A p \in Products, q \in Quantities : <<y.resv, q>> \notin holds[p]
  BY FreshFacts, FieldFacts
<1>2. Unique'
  BY <1>1 DEF Core, Unique
<1>3. Apart'
  BY <1>1 DEF Core, Apart
<1>4. HoldsFit'
  <2>1. ASSUME NEW p \in Products, NEW r \in Reservations, NEW q \in Quantities,
               <<r, q>> \in holds'[p]
        PROVE  \/ <<r, q>> \in holds[p] /\ r # y.resv
               \/ r = y.resv /\ q = y.qty /\ p = y.product
    BY <1>1, <2>1
  <2>2. ASSUME NEW p \in Products, NEW r \in Reservations, NEW q \in Quantities,
               <<r, q>> \in holds'[p], NEW i \in Items, NEW x \in Rows,
               Mentioned(i, x)', x.resv = r
        PROVE  x.product = p /\ x.qty = q
    <3>1. CASE r = y.resv
      BY <1>1, <2>1, <2>2, <3>1
    <3>2. CASE r # y.resv
      BY <2>1, <2>2, <3>2 DEF Core, HoldsFit
    <3>3. QED
      BY <3>1, <3>2
  <2>3. ASSUME NEW p \in Products, NEW r \in Reservations, NEW q \in Quantities,
               <<r, q>> \in holds'[p], NEW v \in Workers, NEW x \in Rows,
               Adds(v, x)', x.resv = r
        PROVE  x.product = p /\ x.qty = q
    <3>1. CASE r = y.resv
      BY <1>1, <2>1, <2>3, <3>1
    <3>2. CASE r # y.resv
      BY <2>1, <2>3, <3>2 DEF Core, HoldsFit
    <3>3. QED
      BY <3>1, <3>2
  <2>4. ASSUME NEW p \in Products, NEW r \in Reservations, NEW q \in Quantities,
               <<r, q>> \in holds'[p], NEW m \in Products, NEW k \in Quantities,
               <<r, k>> \in holds'[m]
        PROVE  m = p /\ k = q
    BY <2>1, <2>4 DEF Core, HoldsFit
  <2>5. QED
    BY <2>2, <2>3, <2>4 DEF HoldsFit
<1>5. QED
  BY <1>2, <1>3, <1>4 DEF Core

(***************************************************************************)
(* A row that was added gets an item.                                      *)
(***************************************************************************)
LEMMA CoreInserts ==
  ASSUME Core, NEW w \in Workers, NEW y \in Rows, NEW j \in Items, Adds(w, y),
         \A i \in Items, x \in Rows : Mentioned(i, x)' => Mentioned(i, x) \/ (i = j /\ x = y),
         \A v \in Workers, x \in Rows : Adds(v, x)' => Adds(v, x) /\ v # w,
         holds' = holds
  PROVE  Core'
<1>1. Unique'
  BY DEF Core, Unique, Apart
<1>2. Apart'
  BY DEF Core, Apart
<1>3. HoldsFit'
  BY DEF Core, HoldsFit
<1>4. QED
  BY <1>1, <1>2, <1>3 DEF Core

(***************************************************************************)
(* What was released, and what is firm, as one request goes on.            *)
(***************************************************************************)
LEMMA ReleasedKeeps ==
  ASSUME Released, NEW w \in Workers, NEW c, Moves(w, c),
         \A v \in Workers, r \in Reservations :
            /\ Runs(v) /\ calls[v].at \in ChangeSteps \cup RemoveSteps /\ calls[v].old.resv = r
            /\ Held(r)'
            => Held(r),
         \A r \in Reservations :
            c # NoCall /\ c.at \in ReleasedSteps /\ c.old.resv = r => ~Held(r)'
  PROVE  Released'
<1>1. ASSUME NEW v \in Workers, NEW r \in Reservations,
             Runs(v)', calls'[v].at \in ReleasedSteps, calls'[v].old.resv = r
      PROVE  ~Held(r)'
  <2>1. CASE v = w
    BY <1>1, <2>1 DEF Moves, Runs
  <2>2. CASE v # w
    BY <1>1, <2>2 DEF Released, Moves, Runs, ChangeSteps, RemoveSteps, ReleasedSteps
  <2>3. QED
    BY <2>1, <2>2
<1>2. QED
  BY <1>1 DEF Released

(***************************************************************************)
(* What is firm stays firm while its row is stored, and its writer goes on.*)
(***************************************************************************)
LEMMA FirmKeeps ==
  ASSUME NEW w \in Workers, NEW c, Moves(w, c), NEW r \in Reservations, Firm(r),
         r \in leaked => Firm(r)',
         \A i \in Items, x \in Rows : Stored(i, x) /\ x.resv = r => Firm(r)',
         Writer(w, r) => Firm(r)'
  PROVE  Firm(r)'
<1>1. ASSUME NEW v \in Workers, v # w, Writer(v, r) PROVE Firm(r)'
  BY <1>1 DEF Moves, Writer, Runs, Firm
<1>2. QED
  BY <1>1 DEF Firm

(***************************************************************************)
(* A step that leaves the tables alone.                                    *)
(***************************************************************************)
LEMMA PlacesKeep ==
  ASSUME TypeOK, Places, NEW w \in Workers, NEW c, Moves(w, c), UNCHANGED <<row, orders>>,
         c # NoCall => Placed(w)'
  PROVE  Places'
<1>1. ASSUME NEW v \in Workers PROVE Placed(v)'
  <2>1. CASE v = w
    BY <2>1 DEF Moves, Placed, Runs
  <2>2. CASE v # w
    BY <2>2 DEF Moves, Places, Placed, Runs
  <2>3. QED
    BY <2>1, <2>2
<1>2. QED
  BY <1>1 DEF Places, OrderedLinesLeaveCart

(***************************************************************************)
(* A step of the control of one request: the tables stay, holds are at     *)
(* most given back, and the request speaks of what was spoken of.          *)
(***************************************************************************)
LEMMA ControlKeeps ==
  ASSUME IInv, NEW w \in Workers, NEW c \in Calls, Moves(w, c), c # NoCall,
         UNCHANGED <<tables, stock, leaked>>,
         holds' \in [Products -> SUBSET (Reservations \X Quantities)],
         \A p \in Products : holds'[p] \subseteq holds[p],
         \A i \in Items, x \in Rows : Keeps(w, i, x)' => Mentioned(i, x),
         \A x \in Rows : Adds(w, x)' => Adds(w, x),
         \A r \in Reservations : Writer(w, r) => Writer(w, r)',
         \A r \in Reservations : c.at \in ReleasedSteps /\ c.old.resv = r => ~Held(r)',
         Placed(w)'
  PROVE  IInv'
<1> USE DEF tables
<1>1. TypeOK'
  BY DEF IInv, TypeOK, Moves
<1>2. Core'
  <2>1. \A i \in Items, x \in Rows : Mentioned(i, x)' => Mentioned(i, x)
    <3>1. \A i \in Items, x \in Rows : Stored(i, x)' <=> Stored(i, x)
      BY DEF Stored
    <3>2. QED
      BY <3>1, MentionSteps DEF Mentioned
  <2>2. \A v \in Workers, x \in Rows : Adds(v, x)' => Adds(v, x)
    BY OthersAdd
  <2>3. QED
    BY <2>1, <2>2, CoreShrinks DEF IInv
<1>3. \A r \in Reservations : Held(r)' => Held(r)
  BY DEF Held
<1>4. Released'
  BY <1>3, ReleasedKeeps DEF IInv
<1>5. HeldIsFirm'
  <2>1. ASSUME NEW r \in Reservations, Held(r)' PROVE Firm(r)'
    <3>1. Firm(r)
      BY <1>3, <2>1 DEF IInv, HeldIsFirm
    <3>2. \A i \in Items, x \in Rows : Stored(i, x) => Stored(i, x)'
      BY DEF Stored
    <3>3. QED
      BY <3>1, <3>2, FirmKeeps DEF Firm
  <2>2. QED
    BY <2>1 DEF HeldIsFirm
<1>6. Places'
  BY PlacesKeep DEF IInv
<1>7. QED
  BY <1>1, <1>2, <1>4, <1>5, <1>6 DEF IInv

(***************************************************************************)
(* The end of a request: what it has seen stays in sight.                  *)
(***************************************************************************)
Sees(r) == r \in leaked \/ \E i \in Items, x \in Rows : Stored(i, x) /\ x.resv = r

LEMMA EndKeeps ==
  ASSUME IInv, NEW w \in Workers, Moves(w, NoCall), UNCHANGED ledger,
         carts' \in [Retailers -> {None, One, Several}],
         row' \in [Items -> Rows \cup {NoRow}],
         orders' \in [Orders -> SUBSET Lines],
         leaked' \subseteq Reservations,
         \A i \in Items, x \in Rows : Stored(i, x)' => Mentioned(i, x),
         \A r \in Reservations : Held(r) /\ Sees(r) => Sees(r)',
         \A r \in Reservations : Held(r) /\ Writer(w, r) => Sees(r)',
         Places'
  PROVE  IInv'
<1> USE DEF ledger
<1>1. TypeOK'
  BY DEF IInv, TypeOK, Moves
<1>2. Core'
  <2>1. \A i \in Items, x \in Rows : Mentioned(i, x)' => Mentioned(i, x)
    BY MentionSteps DEF Keeps, Moves, Runs
  <2>2. \A v \in Workers, x \in Rows : Adds(v, x)' => Adds(v, x)
    BY OthersAdd DEF Adds, Moves, Runs
  <2>3. QED
    BY <2>1, <2>2, CoreShrinks DEF IInv
<1>3. \A r \in Reservations : Held(r)' <=> Held(r)
  BY DEF Held
<1>4. Released'
  BY <1>3, ReleasedKeeps DEF IInv
<1>5. HeldIsFirm'
  <2>1. ASSUME NEW r \in Reservations, Held(r)' PROVE Firm(r)'
    <3>1. Firm(r) /\ Held(r)
      BY <1>3, <2>1 DEF IInv, HeldIsFirm
    <3>2. (Sees(r) => Firm(r)') /\ (Writer(w, r) => Firm(r)')
      BY <3>1 DEF Firm, Sees
    <3>3. QED
      BY <3>1, <3>2, FirmKeeps DEF Sees
  <2>2. QED
    BY <2>1 DEF HeldIsFirm
<1>6. QED
  BY <1>1, <1>2, <1>4, <1>5 DEF IInv

LEMMA QuietEndKeeps ==
  ASSUME IInv, NEW w \in Workers, Ends(w), UNCHANGED <<ledger, tables>>,
         leaked \subseteq leaked', leaked' \subseteq Reservations,
         \A r \in Reservations : Writer(w, r) => r \in leaked'
  PROVE  IInv'
<1>1. Moves(w, NoCall)
  BY GoesMoves DEF Ends, IInv
<1>2. UNCHANGED <<carts, row, orders>>
  BY DEF tables
<1>3. /\ carts' \in [Retailers -> {None, One, Several}]
      /\ row' \in [Items -> Rows \cup {NoRow}] /\ orders' \in [Orders -> SUBSET Lines]
  BY <1>2 DEF IInv, TypeOK
<1>4. \A i \in Items, x \in Rows : (Stored(i, x)' <=> Stored(i, x)) /\ (Stored(i, x)' => Mentioned(i, x))
  BY <1>2 DEF Stored, Mentioned
<1>5. Places'
  BY <1>1, <1>2, PlacesKeep DEF IInv
<1>6. \A r \in Reservations : (Sees(r) => Sees(r)') /\ (Writer(w, r) => Sees(r)')
  BY <1>4 DEF Sees
<1>7. QED
  BY <1>1, <1>3, <1>4, <1>5, <1>6, EndKeeps

(***************************************************************************)
(* The end of a request that changes rows, but not whose they are.         *)
(***************************************************************************)
LEMMA RowsStayPlaced ==
  ASSUME IInv, NEW w \in Workers, Moves(w, NoCall),
         \A i \in Items : row'[i] # NoRow => row[i] # NoRow /\ row'[i].owner = row[i].owner,
         NEW v \in Workers
  PROVE  Placed(v)'
<1>1. CASE v = w
  BY <1>1 DEF Moves, Placed, Runs
<1>2. CASE v # w /\ Runs(v)
  <2>1. calls'[v] = calls[v] /\ (calls[v].at \in ChangeSteps => calls[v].item \in Items)
    BY <1>2, CallFacts DEF Moves, IInv
  <2>2. QED
    BY <1>2, <2>1 DEF IInv, Places, Placed, Runs
<1>3. CASE v # w /\ ~Runs(v)
  BY <1>3 DEF Moves, Placed, Runs
<1>4. QED
  BY <1>1, <1>2, <1>3

LEMMA LineFacts ==
  ASSUME TypeOK, NEW o \in Orders, NEW l \in orders[o]
  PROVE  l[1] \in Items /\ l[2] \in Rows /\ l = <<l[1], l[2]>>
  BY DEF TypeOK, Lines

(***************************************************************************)
(* The grant of a hold.                                                    *)
(***************************************************************************)
LEMMA GrantKeeps ==
  ASSUME IInv, NEW w \in Workers, NEW c \in Calls \cup {NoCall}, Goes(w, c),
         NEW y \in Rows, NEW j, NEW adds \in BOOLEAN,
         Reserve(y.product, y.resv, y.qty), UNCHANGED tables,
         leaked \subseteq leaked', leaked' \subseteq Reservations,
         \A i \in Items, x \in Rows :
            Keeps(w, i, x)' => Mentioned(i, x) \/ (~adds /\ i = j /\ x = y),
         \A x \in Rows : Adds(w, x)' => adds /\ x = y,
         \A r \in Reservations : ~Writer(w, r),
         \A r \in Reservations : r = y.resv => Firm(r)',
         \A r \in Reservations :
            c # NoCall /\ c.at \in ReleasedSteps /\ c.old.resv = r => ~Held(r) /\ r # y.resv,
         c # NoCall => Placed(w)'
  PROVE  IInv'
<1>1. Moves(w, c)
  BY GoesMoves DEF IInv
<1>2. /\ y.product \in Products /\ y.resv \in Reservations /\ y.qty \in Quantities
      /\ FreshResv(y.resv)
      /\ holds' = [holds EXCEPT ![y.product] = holds[y.product] \cup {<<y.resv, y.qty>>}]
      /\ UNCHANGED <<stock, carts, row, orders>>
  BY FieldFacts DEF Reserve, Ledger!Grant, tables
<1>3. /\ holds' \in [Products -> SUBSET (Reservations \X Quantities)]
      /\ \A p \in Products : holds'[p] \subseteq holds[p] \cup {<<y.resv, y.qty>>}
      /\ \A p \in Products : p # y.product => holds'[p] \subseteq holds[p]
  BY <1>2 DEF IInv, TypeOK
<1>4. TypeOK'
  BY <1>1, <1>2, <1>3 DEF IInv, TypeOK, Moves
<1>5. \A i \in Items, x \in Rows : Stored(i, x)' <=> Stored(i, x)
  BY <1>2 DEF Stored
<1>6. Core'
  <2>1. \A i \in Items, x \in Rows :
            Mentioned(i, x)' => Mentioned(i, x) \/ (~adds /\ i = j /\ x = y)
    BY <1>1, <1>5, MentionSteps DEF Mentioned
  <2>2. \A v \in Workers, x \in Rows : Adds(v, x)' => Adds(v, x) \/ (adds /\ v = w /\ x = y)
    BY <1>1, OthersAdd
  <2>3. QED
    BY <1>2, <1>3, <2>1, <2>2, CoreGrants DEF IInv
<1>7. \A r \in Reservations : Held(r)' => Held(r) \/ r = y.resv
  BY <1>3 DEF Held
<1>8. Released'
  <2>1. \A v \in Workers :
            Runs(v) /\ calls[v].at \in ChangeSteps \cup RemoveSteps => calls[v].old.resv # y.resv
    BY <1>2, FreshFacts DEF IInv
  <2>2. QED
    BY <1>1, <1>7, <2>1, ReleasedKeeps DEF IInv
<1>9. HeldIsFirm'
  <2>1. ASSUME NEW r \in Reservations, Held(r), r # y.resv PROVE Firm(r)'
    <3>1. Firm(r)
      BY <2>1 DEF IInv, HeldIsFirm
    <3>2. r \in leaked => Firm(r)'
      BY DEF Firm
    <3>3. \A i \in Items, x \in Rows : Stored(i, x) /\ x.resv = r => Firm(r)'
      BY <1>5 DEF Firm
    <3>4. QED
      BY <1>1, <3>1, <3>2, <3>3, FirmKeeps
  <2>2. QED
    BY <1>7, <2>1 DEF HeldIsFirm
<1>10. Places'
  BY <1>1, <1>2, PlacesKeep DEF IInv
<1>11. QED
  BY <1>4, <1>6, <1>8, <1>9, <1>10 DEF IInv

-----------------------------------------------------------------------------
(***************************************************************************)
(* addItem.                                                                *)
(***************************************************************************)
LEMMA AddItemKeeps ==
  ASSUME IInv, NEW w \in Workers, NEW u \in Retailers, NEW p \in Products,
         NEW q \in Quantities, NEW r \in Reservations, AddItem(w, u, p, q, r)
  PROVE  IInv'
<1>1. PICK y \in Rows : /\ y = Row(u, p, q, r)
                        /\ y.owner = u /\ y.product = p /\ y.qty = q /\ y.resv = r
  BY RowFacts
<1>2. PICK c \in Calls : /\ c = Adding("find cart", y, None)
                         /\ c # NoCall /\ c.at = "find cart" /\ c.new = y
  BY AddingFacts DEF AddSteps
<1>3. Goes(w, c) /\ ~Runs(w) /\ Reserve(y.product, y.resv, y.qty) /\ UNCHANGED <<tables, leaked>>
  BY <1>1, <1>2 DEF AddItem, Runs
<1>4. calls'[w] = c
  BY <1>3, GoesMoves DEF Moves, IInv
<1>5. "find cart" \in AddSteps /\ "find cart" \notin ChangeSteps \cup RemoveSteps \cup OrderSteps
      /\ "find cart" \notin ReleasedSteps /\ "find cart" # "update"
  BY DEF AddSteps, ChangeSteps, RemoveSteps, OrderSteps, ReleasedSteps
<1>6. /\ \A i \in Items, x \in Rows : ~Keeps(w, i, x)'
      /\ \A x \in Rows : Adds(w, x)' => x = y
      /\ \A s \in Reservations : ~Writer(w, s)
      /\ Placed(w)'
  BY <1>2, <1>3, <1>4, <1>5 DEF Keeps, Adds, Writer, Placed, Runs
<1>7. \A s \in Reservations : s = y.resv => Firm(s)'
  BY <1>2, <1>4, <1>5 DEF Firm, Writer, Runs
<1>8. leaked \subseteq leaked' /\ leaked' \subseteq Reservations
  BY <1>3 DEF IInv, TypeOK
<1>9. QED
  BY <1>2, <1>3, <1>5, <1>6, <1>7, <1>8, GrantKeeps

LEMMA FindCartKeeps == ASSUME IInv, NEW w \in Workers, FindCart(w) PROVE IInv'
<1>1. Runs(w) /\ calls[w].at = "find cart" /\ "find cart" \in AddSteps /\ calls[w].new \in Rows
      /\ UNCHANGED <<ledger, tables, leaked>>
  BY CallFacts DEF FindCart, At, Runs, AddSteps, IInv
<1>2. PICK y \in Rows : y = calls[w].new
  BY <1>1
<1>3. carts[y.owner] \in {None, One}
  BY <1>2, FieldFacts DEF FindCart, IInv, TypeOK
<1>4. PICK c \in Calls : /\ c = Adding("insert", y, carts[y.owner])
                         /\ c # NoCall /\ c.at = "insert" /\ c.new = y
  BY <1>3, AddingFacts DEF AddSteps
<1>5. Moves(w, c)
  BY <1>2, <1>4, GoesMoves DEF FindCart, IInv
<1>6. "insert" \in AddSteps /\ "insert" \notin ChangeSteps \cup RemoveSteps \cup OrderSteps
      /\ "insert" \notin ReleasedSteps /\ "insert" # "update"
  BY DEF AddSteps, ChangeSteps, RemoveSteps, OrderSteps, ReleasedSteps
<1>7. /\ \A i \in Items, x \in Rows : ~Keeps(w, i, x)'
      /\ \A x \in Rows : Adds(w, x)' => Adds(w, x)
      /\ \A r \in Reservations : Writer(w, r) => Writer(w, r)'
      /\ Placed(w)'
  BY <1>1, <1>2, <1>4, <1>5, <1>6 DEF Moves, Keeps, Adds, Writer, Placed, Runs
<1>8. holds' = holds /\ stock' = stock
  BY <1>1 DEF ledger
<1>9. holds' \in [Products -> SUBSET (Reservations \X Quantities)]
  BY <1>8 DEF IInv, TypeOK
<1>10. QED
  BY <1>1, <1>4, <1>5, <1>6, <1>7, <1>8, <1>9, ControlKeeps

LEMMA FindSeveralCartsKeeps == ASSUME IInv, NEW w \in Workers, FindSeveralCarts(w) PROVE IInv'
<1>1. Runs(w) /\ calls[w].at \in AddSteps /\ calls[w].new \in Rows
  BY CallFacts DEF FindSeveralCarts, At, Runs, AddSteps, IInv
<1>2. leaked' = leaked \cup {calls[w].new.resv} /\ calls[w].new.resv \in Reservations
  BY <1>1, FieldFacts DEF FindSeveralCarts
<1>3. leaked' \subseteq Reservations
  BY <1>2 DEF IInv, TypeOK
<1>4. QED
  BY <1>2, <1>3, QuietEndKeeps DEF FindSeveralCarts, Writer

LEMMA InsertItemKeeps ==
  ASSUME IInv, NEW w \in Workers, NEW j \in Items, InsertItem(w, j)
  PROVE  IInv'
<1>1. Runs(w) /\ calls[w].at \in AddSteps /\ calls[w].at # "update" /\ calls[w].new \in Rows
  BY CallFacts DEF InsertItem, At, Runs, AddSteps, IInv
<1>2. PICK y \in Rows : y = calls[w].new
  BY <1>1
<1>3. /\ FreshItem(j) /\ row' = [row EXCEPT ![j] = y]
      /\ UNCHANGED <<stock, holds, orders, leaked>> /\ Ends(w)
  BY <1>2 DEF InsertItem, ledger
<1>4. /\ row' \in [Items -> Rows \cup {NoRow}] /\ row'[j] = y
      /\ \A i \in Items : i # j => row'[i] = row[i]
      /\ row[j] = NoRow
  BY <1>3 DEF IInv, TypeOK, FreshItem
<1>5. carts' \in [Retailers -> {None, One, Several}]
  BY DEF InsertItem, IInv, TypeOK
<1>6. Moves(w, NoCall)
  BY <1>3, GoesMoves DEF Ends, IInv
<1>7. TypeOK'
  BY <1>3, <1>4, <1>5, <1>6 DEF IInv, TypeOK, Moves
<1>8. /\ Adds(w, y)
      /\ \A i \in Items, x \in Rows : ~Keeps(w, i, x)'
      /\ \A x \in Rows : ~Adds(w, x)'
  BY <1>1, <1>2, <1>6 DEF Adds, Keeps, Moves, Runs
<1>9. \A i \in Items, x \in Rows : Stored(i, x)' => Stored(i, x) \/ (i = j /\ x = y)
  BY <1>3, <1>4 DEF Stored
<1>10. \A i \in Items, x \in Rows : Stored(i, x) => Stored(i, x)'
  BY <1>3, <1>4, FieldFacts DEF Stored
<1>11. Core'
  <2>1. \A i \in Items, x \in Rows : Mentioned(i, x)' => Mentioned(i, x) \/ (i = j /\ x = y)
    BY <1>6, <1>8, <1>9, MentionSteps DEF Mentioned
  <2>2. \A v \in Workers, x \in Rows : Adds(v, x)' => Adds(v, x) /\ v # w
    BY <1>6, <1>8, OthersAdd
  <2>3. QED
    BY <1>3, <1>8, <2>1, <2>2, CoreInserts DEF IInv
<1>12. \A r \in Reservations : Held(r)' <=> Held(r)
  BY <1>3 DEF Held
<1>13. Released'
  BY <1>6, <1>12, ReleasedKeeps DEF IInv
<1>14. HeldIsFirm'
  <2>1. ASSUME NEW r \in Reservations, Held(r) PROVE Firm(r)'
    <3>1. Firm(r)
      BY <2>1 DEF IInv, HeldIsFirm
    <3>2. r \in leaked => Firm(r)'
      BY <1>3 DEF Firm
    <3>3. \A i \in Items, x \in Rows : Stored(i, x) /\ x.resv = r => Firm(r)'
      BY <1>10 DEF Firm
    <3>4. Writer(w, r) => Firm(r)'
      BY <1>2, <1>4 DEF Firm, Writer, Stored
    <3>5. QED
      BY <1>6, <3>1, <3>2, <3>3, <3>4, FirmKeeps
  <2>2. QED
    BY <1>12, <2>1 DEF HeldIsFirm
<1>15. ASSUME NEW v \in Workers PROVE Placed(v)'
  <2>1. CASE v = w
    BY <1>6, <2>1 DEF Moves, Placed, Runs
  <2>2. CASE v # w /\ Runs(v)
    <3>1. /\ calls'[v] = calls[v]
          /\ calls[v].at \in ChangeSteps => calls[v].item \in Items /\ calls[v].item # j
      BY <1>3, <1>6, <2>2, CallFacts DEF Moves, FreshItem, Runs, IInv
    <3>2. \A x \in Rows : calls[v].at \in OrderSteps => <<j, x>> \notin calls[v].lines
      BY <1>3, <2>2 DEF FreshItem, Runs
    <3>3. QED
      BY <1>4, <2>2, <3>1, <3>2 DEF IInv, Places, Placed, Runs
  <2>3. CASE v # w /\ ~Runs(v)
    BY <1>6, <2>3 DEF Moves, Placed, Runs
  <2>4. QED
    BY <2>1, <2>2, <2>3
<1>16. OrderedLinesLeaveCart'
  <2>1. ASSUME NEW o \in Orders, NEW l \in orders[o] PROVE row'[l[1]] = NoRow
    <3>1. l[1] \in Items /\ l[1] # j
      BY <1>3, LineFacts DEF FreshItem, Ordered, IInv
    <3>2. QED
      BY <1>4, <3>1 DEF IInv, Places, OrderedLinesLeaveCart
  <2>2. QED
    BY <1>3, <2>1 DEF OrderedLinesLeaveCart
<1>17. QED
  BY <1>7, <1>11, <1>13, <1>14, <1>15, <1>16 DEF IInv, Places

-----------------------------------------------------------------------------
(***************************************************************************)
(* changeQuantity.                                                         *)
(***************************************************************************)
LEMMA ChangeStepFacts ==
  /\ \A s \in ChangeSteps : s \notin AddSteps \cup RemoveSteps \cup OrderSteps
  /\ "release old" \in ChangeSteps /\ "reserve new" \in ChangeSteps
  /\ "restore old" \in ChangeSteps /\ "update" \in ChangeSteps
  /\ "release old" \notin ReleasedSteps /\ "reserve new" \in ReleasedSteps
  /\ "restore old" \in ReleasedSteps /\ "update" \in ReleasedSteps
  BY DEF ChangeSteps, AddSteps, RemoveSteps, OrderSteps, ReleasedSteps

LEMMA ChangeQuantityKeeps ==
  ASSUME IInv, NEW w \in Workers, NEW i \in Items, NEW q \in Quantities, ChangeQuantity(w, i, q)
  PROVE  IInv'
<1>1. PICK x \in Rows : x = row[i]
  BY DEF ChangeQuantity, IInv, TypeOK
<1>2. PICK y \in Rows : y = Row(x.owner, x.product, q, x.resv) /\ y.owner = x.owner
  BY FieldFacts, RowFacts
<1>3. PICK c \in Calls : /\ c = Changing("release old", i, x, y)
                         /\ c # NoCall /\ c.at = "release old"
                         /\ c.item = i /\ c.old = x /\ c.new = y
  <2> DEFINE d == Changing("release old", i, x, y)
  <2>1. "release old" \in ChangeSteps
    BY ChangeStepFacts
  <2>2. d \in Calls
    BY <2>1, ChangingFacts
  <2>3. d.at = "release old" /\ d.item = i /\ d.old = x /\ d.new = y
    BY DEF Changing
  <2>4. QED
    BY <2>2, <2>3
<1>4. Goes(w, c) /\ ~Runs(w) /\ UNCHANGED <<ledger, tables, leaked>>
  BY <1>1, <1>2, <1>3 DEF ChangeQuantity, Runs
<1>5. Moves(w, c)
  BY <1>4, GoesMoves DEF IInv
<1>6. /\ \A k \in Items, z \in Rows : Keeps(w, k, z)' => k = i /\ z = x
      /\ \A z \in Rows : ~Adds(w, z)'
      /\ \A r \in Reservations : ~Writer(w, r)
  BY <1>3, <1>4, <1>5, ChangeStepFacts DEF Moves, Keeps, Adds, Writer, Runs
<1>7. Mentioned(i, x)
  BY <1>1 DEF Mentioned, Stored
<1>8. Placed(w)'
  BY <1>1, <1>2, <1>3, <1>4, <1>5, ChangeStepFacts DEF Moves, Placed, Runs, tables
<1>9. holds' = holds /\ stock' = stock /\ holds' \in [Products -> SUBSET (Reservations \X Quantities)]
  BY <1>4 DEF ledger, IInv, TypeOK
<1>10. QED
  BY <1>3, <1>4, <1>5, <1>6, <1>7, <1>8, <1>9, ChangeStepFacts, ControlKeeps

(***************************************************************************)
(* The release of a row that is spoken of frees its id.                    *)
(***************************************************************************)
LEMMA ReleaseFrees ==
  ASSUME IInv, NEW i \in Items, NEW x \in Rows, Mentioned(i, x), Release(x.product, x.resv)
  PROVE  /\ holds' \in [Products -> SUBSET (Reservations \X Quantities)]
         /\ \A p \in Products : holds'[p] \subseteq holds[p]
         /\ stock' = stock
         /\ \A r \in Reservations : x.resv = r => ~Held(r)'
<1>1. /\ holds' = [holds EXCEPT ![x.product] = {h \in holds[x.product] : h[1] # x.resv}]
      /\ stock' = stock
  BY DEF Release, Ledger!Drop
<1>2. x.product \in Products /\ x.resv \in Reservations
  BY FieldFacts
<1>3. /\ holds' \in [Products -> SUBSET (Reservations \X Quantities)]
      /\ \A p \in Products : holds'[p] \subseteq holds[p]
  BY <1>1, <1>2 DEF IInv, TypeOK
<1>4. ASSUME NEW p \in Products, NEW q \in Quantities, <<x.resv, q>> \in holds'[p] PROVE FALSE
  <2>1. <<x.resv, q>> \in holds[p]
    BY <1>3, <1>4
  <2>2. p = x.product
    BY <1>2, <2>1 DEF IInv, Core, HoldsFit
  <2>3. QED
    BY <1>1, <1>2, <1>4, <2>2 DEF IInv, TypeOK
<1>5. QED
  BY <1>1, <1>3, <1>4 DEF Held

LEMMA ReleaseOldKeeps == ASSUME IInv, NEW w \in Workers, ReleaseOld(w) PROVE IInv'
<1>1. Runs(w) /\ calls[w].at = "release old"
  BY DEF ReleaseOld, At, Runs
<1>2. PICK i \in Items, x \in Rows, y \in Rows :
        i = calls[w].item /\ x = calls[w].old /\ y = calls[w].new
  BY <1>1, CallFacts, ChangeStepFacts DEF IInv
<1>3. PICK c \in Calls : /\ c = Changing("reserve new", i, x, y)
                         /\ c # NoCall /\ c.at = "reserve new"
                         /\ c.item = i /\ c.old = x /\ c.new = y
  <2> DEFINE d == Changing("reserve new", i, x, y)
  <2>1. "reserve new" \in ChangeSteps
    BY ChangeStepFacts
  <2>2. d \in Calls
    BY <2>1, ChangingFacts
  <2>3. d.at = "reserve new" /\ d.item = i /\ d.old = x /\ d.new = y
    BY DEF Changing
  <2>4. QED
    BY <2>2, <2>3
<1>4. Goes(w, c) /\ Release(x.product, x.resv) /\ UNCHANGED <<tables, leaked>>
  BY <1>2, <1>3 DEF ReleaseOld
<1>5. Moves(w, c)
  BY <1>4, GoesMoves DEF IInv
<1>6. Keeps(w, i, x) /\ Mentioned(i, x)
  BY <1>1, <1>2, ChangeStepFacts DEF Keeps, Mentioned
<1>7. /\ \A k \in Items, z \in Rows : Keeps(w, k, z)' => k = i /\ z = x
      /\ \A z \in Rows : ~Adds(w, z)'
      /\ \A r \in Reservations : ~Writer(w, r)
  BY <1>1, <1>3, <1>4, <1>5, ChangeStepFacts DEF Moves, Keeps, Adds, Writer, Runs
<1>8. Placed(w)'
  <2>1. row[i] # NoRow => row[i].owner = y.owner
    BY <1>1, <1>2, ChangeStepFacts DEF IInv, Places, Placed
  <2>2. QED
    BY <1>3, <1>4, <1>5, <2>1, ChangeStepFacts DEF Moves, Placed, tables
<1>9. /\ holds' \in [Products -> SUBSET (Reservations \X Quantities)]
      /\ \A p \in Products : holds'[p] \subseteq holds[p]
      /\ stock' = stock
      /\ \A r \in Reservations : x.resv = r => ~Held(r)'
  BY <1>4, <1>6, ReleaseFrees
<1>10. QED
  BY <1>3, <1>4, <1>5, <1>6, <1>7, <1>8, <1>9, ChangeStepFacts, ControlKeeps

LEMMA ReserveNewKeeps ==
  ASSUME IInv, NEW w \in Workers, NEW r \in Reservations, ReserveNew(w, r)
  PROVE  IInv'
<1>1. Runs(w) /\ calls[w].at = "reserve new"
  BY DEF ReserveNew, At, Runs
<1>2. PICK i \in Items, x \in Rows, n \in Rows :
        i = calls[w].item /\ x = calls[w].old /\ n = calls[w].new
  BY <1>1, CallFacts, ChangeStepFacts DEF IInv
<1>3. PICK y \in Rows : /\ y = Row(n.owner, n.product, n.qty, r)
                        /\ y.owner = n.owner /\ y.product = n.product
                        /\ y.qty = n.qty /\ y.resv = r
  <2> DEFINE z == Row(n.owner, n.product, n.qty, r)
  <2>1. n.owner \in Retailers /\ n.product \in Products /\ n.qty \in Quantities
    BY FieldFacts
  <2>2. /\ z \in Rows /\ z.owner = n.owner /\ z.product = n.product
        /\ z.qty = n.qty /\ z.resv = r
    BY <2>1 DEF Row, Rows
  <2>3. QED
    BY <2>2
<1>4. PICK c \in Calls : /\ c = Changing("update", i, x, y)
                         /\ c # NoCall /\ c.at = "update"
                         /\ c.item = i /\ c.old = x /\ c.new = y
  <2> DEFINE d == Changing("update", i, x, y)
  <2>1. "update" \in ChangeSteps
    BY ChangeStepFacts
  <2>2. d \in Calls
    BY <2>1, ChangingFacts
  <2>3. d.at = "update" /\ d.item = i /\ d.old = x /\ d.new = y
    BY DEF Changing
  <2>4. QED
    BY <2>2, <2>3
<1>5. Goes(w, c) /\ Reserve(y.product, y.resv, y.qty) /\ UNCHANGED <<tables, leaked>>
  BY <1>2, <1>3, <1>4 DEF ReserveNew
<1>6. Moves(w, c)
  BY <1>5, GoesMoves DEF IInv
<1>7. Keeps(w, i, x)
  BY <1>1, <1>2, ChangeStepFacts DEF Keeps
<1>8. /\ \A k \in Items, z \in Rows : Keeps(w, k, z)' => k = i /\ (z = x \/ z = y)
      /\ \A z \in Rows : ~Adds(w, z)'
      /\ \A s \in Reservations : ~Writer(w, s)
      /\ \A s \in Reservations : s = y.resv => Firm(s)'
  BY <1>1, <1>4, <1>6, ChangeStepFacts DEF Moves, Keeps, Adds, Writer, Runs, Firm
<1>9. Placed(w)'
  <2>1. row[i] # NoRow => row[i].owner = n.owner
    BY <1>1, <1>2, ChangeStepFacts DEF IInv, Places, Placed
  <2>2. QED
    BY <1>3, <1>4, <1>5, <1>6, <2>1, ChangeStepFacts DEF Moves, Placed, tables
<1>10. \A s \in Reservations : x.resv = s => ~Held(s) /\ s # y.resv
  <2>1. x.resv # r
    BY <1>1, <1>2, <1>3, <1>5, ChangeStepFacts, FreshFacts DEF IInv, Reserve
  <2>2. QED
    BY <1>1, <1>2, <1>3, <2>1, ChangeStepFacts DEF IInv, Released
<1>11. leaked \subseteq leaked' /\ leaked' \subseteq Reservations
  BY <1>5 DEF IInv, TypeOK
<1>12. PICK adds \in BOOLEAN : adds = FALSE
  OBVIOUS
<1>13. \A k \in Items, z \in Rows :
          Keeps(w, k, z)' => Mentioned(k, z) \/ (~adds /\ k = i /\ z = y)
  BY <1>7, <1>8, <1>12 DEF Mentioned
<1>14. \A s \in Reservations :
          c # NoCall /\ c.at \in ReleasedSteps /\ c.old.resv = s => ~Held(s) /\ s # y.resv
  BY <1>4, <1>10
<1>15. \A z \in Rows : Adds(w, z)' => adds /\ z = y
  BY <1>8
<1>16. c \in Calls \cup {NoCall} /\ UNCHANGED tables /\ Goes(w, c)
       /\ Reserve(y.product, y.resv, y.qty)
  BY <1>5
<1>17. QED
  BY <1>8, <1>9, <1>11, <1>13, <1>14, <1>15, <1>16, GrantKeeps

LEMMA RefuseNewKeeps == ASSUME IInv, NEW w \in Workers, RefuseNew(w) PROVE IInv'
<1>1. Runs(w) /\ calls[w].at = "reserve new"
  BY DEF RefuseNew, At, Runs
<1>2. PICK i \in Items, x \in Rows, y \in Rows :
        i = calls[w].item /\ x = calls[w].old /\ y = calls[w].new
  BY <1>1, CallFacts, ChangeStepFacts DEF IInv
<1>3. PICK c \in Calls : /\ c = Changing("restore old", i, x, y)
                         /\ c # NoCall /\ c.at = "restore old"
                         /\ c.item = i /\ c.old = x /\ c.new = y
  <2> DEFINE d == Changing("restore old", i, x, y)
  <2>1. "restore old" \in ChangeSteps
    BY ChangeStepFacts
  <2>2. d \in Calls
    BY <2>1, ChangingFacts
  <2>3. d.at = "restore old" /\ d.item = i /\ d.old = x /\ d.new = y
    BY DEF Changing
  <2>4. QED
    BY <2>2, <2>3
<1>4. Goes(w, c) /\ UNCHANGED <<ledger, tables, leaked>>
  BY <1>2, <1>3 DEF RefuseNew
<1>5. Moves(w, c)
  BY <1>4, GoesMoves DEF IInv
<1>6. Keeps(w, i, x) /\ Mentioned(i, x)
  BY <1>1, <1>2, ChangeStepFacts DEF Keeps, Mentioned
<1>7. /\ \A k \in Items, z \in Rows : Keeps(w, k, z)' => k = i /\ z = x
      /\ \A z \in Rows : ~Adds(w, z)'
      /\ \A r \in Reservations : ~Writer(w, r)
  BY <1>1, <1>3, <1>4, <1>5, ChangeStepFacts DEF Moves, Keeps, Adds, Writer, Runs
<1>8. Placed(w)'
  <2>1. row[i] # NoRow => row[i].owner = y.owner
    BY <1>1, <1>2, ChangeStepFacts DEF IInv, Places, Placed
  <2>2. QED
    BY <1>3, <1>4, <1>5, <2>1, ChangeStepFacts DEF Moves, Placed, tables
<1>9. holds' = holds /\ stock' = stock /\ holds' \in [Products -> SUBSET (Reservations \X Quantities)]
  BY <1>4 DEF ledger, IInv, TypeOK
<1>10. \A r \in Reservations : x.resv = r => ~Held(r)'
  BY <1>1, <1>2, <1>9, ChangeStepFacts DEF IInv, Released, Held
<1>11. QED
  BY <1>3, <1>4, <1>5, <1>6, <1>7, <1>8, <1>9, <1>10, ChangeStepFacts, ControlKeeps

LEMMA RestoreOldKeeps ==
  ASSUME IInv, NEW w \in Workers, NEW r \in Reservations, RestoreOld(w, r)
  PROVE  IInv'
<1>1. Runs(w) /\ calls[w].at = "restore old"
  BY DEF RestoreOld, At, Runs
<1>2. PICK x \in Rows : x = calls[w].old
  BY <1>1, CallFacts, ChangeStepFacts DEF IInv
<1>3. PICK y \in Rows : y.product = x.product /\ y.qty = x.qty /\ y.resv = r
  <2> DEFINE z == Row(x.owner, x.product, x.qty, r)
  <2>1. x.owner \in Retailers /\ x.product \in Products /\ x.qty \in Quantities
    BY FieldFacts
  <2>2. /\ z \in Rows /\ z.owner = x.owner /\ z.product = x.product
        /\ z.qty = x.qty /\ z.resv = r
    BY <2>1 DEF Row, Rows
  <2>3. QED
    BY <2>2
<1>4. Goes(w, NoCall) /\ Reserve(y.product, y.resv, y.qty) /\ UNCHANGED tables
      /\ leaked' = leaked \cup {r}
  BY <1>2, <1>3 DEF RestoreOld, Ends
<1>5. Moves(w, NoCall)
  BY <1>4, GoesMoves DEF IInv
<1>6. /\ \A k \in Items, z \in Rows : ~Keeps(w, k, z)'
      /\ \A z \in Rows : ~Adds(w, z)'
      /\ \A s \in Reservations : ~Writer(w, s)
  BY <1>1, <1>5, ChangeStepFacts DEF Moves, Keeps, Adds, Writer, Runs
<1>7. leaked \subseteq leaked' /\ leaked' \subseteq Reservations
      /\ \A s \in Reservations : s = y.resv => Firm(s)'
  BY <1>3, <1>4 DEF IInv, TypeOK, Firm
<1>8. QED
  BY <1>4, <1>6, <1>7, GrantKeeps

LEMMA RefuseOldKeeps == ASSUME IInv, NEW w \in Workers, RefuseOld(w) PROVE IInv'
<1>1. \A r \in Reservations : ~Writer(w, r)
  BY DEF RefuseOld, At, Writer, AddSteps
<1>2. Ends(w) /\ UNCHANGED <<ledger, tables, leaked>>
  BY DEF RefuseOld
<1>3. leaked \subseteq leaked' /\ leaked' \subseteq Reservations
  BY <1>2 DEF IInv, TypeOK
<1>4. QED
  BY <1>1, <1>2, <1>3, QuietEndKeeps

(***************************************************************************)
(* The request that overwrites or deletes a row.  Of the two ids it had in *)
(* hand, the old one is released, and one that the row got meanwhile leaks.*)
(***************************************************************************)
LEMMA RowEnds ==
  ASSUME IInv, NEW w \in Workers, NEW i \in Items, NEW x \in Rows, NEW z \in Rows \cup {NoRow},
         Runs(w), calls[w].at \in ReleasedSteps, calls[w].old = x,
         row[i] # NoRow, row' = [row EXCEPT ![i] = z],
         z # NoRow => Mentioned(i, z) /\ z.owner = row[i].owner,
         leaked' = leaked \cup ({row[i].resv} \ {x.resv}),
         \A r \in Reservations : Writer(w, r) => z # NoRow /\ z.resv = r,
         Ends(w), UNCHANGED <<ledger, carts, orders>>
  PROVE  IInv'
<1>1. Moves(w, NoCall)
  BY GoesMoves DEF Ends, IInv
<1>2. /\ row' \in [Items -> Rows \cup {NoRow}] /\ row'[i] = z
      /\ \A j \in Items : j # i => row'[j] = row[j]
      /\ row[i] \in Rows /\ row[i].resv \in Reservations
      /\ \A r \in Reservations : x.resv = r => ~Held(r)
  BY FieldFacts DEF IInv, TypeOK, Released
<1>3. /\ carts' \in [Retailers -> {None, One, Several}]
      /\ orders' \in [Orders -> SUBSET Lines] /\ leaked' \subseteq Reservations
  BY <1>2 DEF IInv, TypeOK
<1>4. \A j \in Items, y \in Rows : Stored(j, y)' => Mentioned(j, y)
  BY <1>2 DEF Stored, Mentioned
<1>5. \A r \in Reservations : Held(r) /\ Sees(r) => Sees(r)'
  <2>1. ASSUME NEW r \in Reservations, Held(r), NEW j \in Items, NEW y \in Rows,
               Stored(j, y), y.resv = r
        PROVE  Sees(r)'
    <3>1. CASE j = i /\ row[i] = y
      BY <1>2, <2>1, <3>1 DEF Sees
    <3>2. CASE ~(j = i /\ row[i] = y)
      BY <1>2, <2>1, <3>2 DEF Sees, Stored
    <3>3. QED
      BY <3>1, <3>2
  <2>2. QED
    BY <2>1 DEF Sees
<1>6. \A r \in Reservations : Writer(w, r) => Sees(r)'
  BY <1>2 DEF Sees, Stored
<1>7. Places'
  <2>1. \A v \in Workers : Placed(v)'
    BY <1>1, <1>2, RowsStayPlaced
  <2>2. OrderedLinesLeaveCart'
    <3>1. ASSUME NEW o \in Orders, NEW l \in orders[o] PROVE row'[l[1]] = NoRow
      BY <1>2, LineFacts DEF IInv, Places, OrderedLinesLeaveCart
    <3>2. QED
      BY <3>1 DEF OrderedLinesLeaveCart
  <2>3. QED
    BY <2>1, <2>2 DEF Places
<1>8. QED
  BY <1>1, <1>2, <1>3, <1>4, <1>5, <1>6, <1>7, EndKeeps

LEMMA UpdateItemKeeps == ASSUME IInv, NEW w \in Workers, UpdateItem(w) PROVE IInv'
<1>1. Runs(w) /\ calls[w].at = "update"
  BY DEF UpdateItem, At, Runs
<1>2. PICK i \in Items, x \in Rows, y \in Rows :
        i = calls[w].item /\ x = calls[w].old /\ y = calls[w].new
  BY <1>1, CallFacts, ChangeStepFacts DEF IInv
<1>3. /\ row[i] # NoRow /\ row' = [row EXCEPT ![i] = y]
      /\ leaked' = leaked \cup ({row[i].resv} \ {x.resv})
      /\ Ends(w) /\ UNCHANGED <<ledger, carts, orders>>
  BY <1>2 DEF UpdateItem
<1>4. Mentioned(i, y)
  BY <1>1, <1>2 DEF Mentioned, Keeps
<1>5. y.owner = row[i].owner
  BY <1>1, <1>2, <1>3, ChangeStepFacts DEF IInv, Places, Placed
<1>6. \A r \in Reservations : Writer(w, r) => y # NoRow /\ y.resv = r
  BY <1>2, FieldFacts DEF Writer
<1>7. /\ Runs(w) /\ calls[w].at \in ReleasedSteps /\ calls[w].old = x
      /\ y \in Rows \cup {NoRow}
  BY <1>1, <1>2, ChangeStepFacts
<1>8. QED
  BY <1>3, <1>4, <1>5, <1>6, <1>7, RowEnds

LEMMA UpdateGoneItemKeeps == ASSUME IInv, NEW w \in Workers, UpdateGoneItem(w) PROVE IInv'
<1>1. Runs(w) /\ calls[w].at = "update" /\ calls[w].new \in Rows
  BY CallFacts DEF UpdateGoneItem, At, Runs, ChangeSteps, IInv
<1>2. leaked' = leaked \cup {calls[w].new.resv} /\ calls[w].new.resv \in Reservations
  BY <1>1, FieldFacts DEF UpdateGoneItem
<1>3. leaked' \subseteq Reservations
  BY <1>2 DEF IInv, TypeOK
<1>4. QED
  BY <1>2, <1>3, QuietEndKeeps DEF UpdateGoneItem, Writer

-----------------------------------------------------------------------------
(***************************************************************************)
(* removeItem.                                                             *)
(***************************************************************************)
LEMMA RemoveStepFacts ==
  /\ \A s \in RemoveSteps : s \notin AddSteps \cup ChangeSteps \cup OrderSteps /\ s # "update"
  /\ "release" \in RemoveSteps /\ "delete" \in RemoveSteps
  /\ "release" \notin ReleasedSteps /\ "delete" \in ReleasedSteps
  BY DEF ChangeSteps, AddSteps, RemoveSteps, OrderSteps, ReleasedSteps

LEMMA RemoveItemKeeps ==
  ASSUME IInv, NEW w \in Workers, NEW i \in Items, RemoveItem(w, i)
  PROVE  IInv'
<1>1. PICK x \in Rows : x = row[i]
  BY DEF RemoveItem, IInv, TypeOK
<1>2. PICK c \in Calls : /\ c = Removing("release", i, x)
                         /\ c # NoCall /\ c.at = "release"
                         /\ c.item = i /\ c.old = x
  <2> DEFINE d == Removing("release", i, x)
  <2>1. "release" \in RemoveSteps
    BY RemoveStepFacts
  <2>2. d \in Calls
    BY <2>1, RemovingFacts
  <2>3. d.at = "release" /\ d.item = i /\ d.old = x
    BY DEF Removing
  <2>4. QED
    BY <2>2, <2>3
<1>3. Goes(w, c) /\ ~Runs(w) /\ UNCHANGED <<ledger, tables, leaked>>
  BY <1>1, <1>2 DEF RemoveItem, Runs
<1>4. Moves(w, c)
  BY <1>3, GoesMoves DEF IInv
<1>5. /\ \A k \in Items, z \in Rows : Keeps(w, k, z)' => k = i /\ z = x
      /\ \A z \in Rows : ~Adds(w, z)'
      /\ \A r \in Reservations : ~Writer(w, r)
      /\ Placed(w)'
  BY <1>2, <1>3, <1>4, RemoveStepFacts DEF Moves, Keeps, Adds, Writer, Placed, Runs
<1>6. Mentioned(i, x)
  BY <1>1 DEF Mentioned, Stored
<1>7. holds' = holds /\ stock' = stock /\ holds' \in [Products -> SUBSET (Reservations \X Quantities)]
  BY <1>3 DEF ledger, IInv, TypeOK
<1>8. QED
  BY <1>2, <1>3, <1>4, <1>5, <1>6, <1>7, RemoveStepFacts, ControlKeeps

LEMMA ReleaseRemovedKeeps == ASSUME IInv, NEW w \in Workers, ReleaseRemoved(w) PROVE IInv'
<1>1. Runs(w) /\ calls[w].at = "release"
  BY DEF ReleaseRemoved, At, Runs
<1>2. PICK i \in Items, x \in Rows : i = calls[w].item /\ x = calls[w].old
  BY <1>1, CallFacts, RemoveStepFacts DEF IInv
<1>3. PICK c \in Calls : /\ c = Removing("delete", i, x)
                         /\ c # NoCall /\ c.at = "delete"
                         /\ c.item = i /\ c.old = x
  <2> DEFINE d == Removing("delete", i, x)
  <2>1. "delete" \in RemoveSteps
    BY RemoveStepFacts
  <2>2. d \in Calls
    BY <2>1, RemovingFacts
  <2>3. d.at = "delete" /\ d.item = i /\ d.old = x
    BY DEF Removing
  <2>4. QED
    BY <2>2, <2>3
<1>4. Goes(w, c) /\ Release(x.product, x.resv) /\ UNCHANGED <<tables, leaked>>
  BY <1>2, <1>3 DEF ReleaseRemoved
<1>5. Moves(w, c)
  BY <1>4, GoesMoves DEF IInv
<1>6. Keeps(w, i, x) /\ Mentioned(i, x)
  BY <1>1, <1>2, RemoveStepFacts DEF Keeps, Mentioned
<1>7. /\ \A k \in Items, z \in Rows : Keeps(w, k, z)' => k = i /\ z = x
      /\ \A z \in Rows : ~Adds(w, z)'
      /\ \A r \in Reservations : ~Writer(w, r)
      /\ Placed(w)'
  BY <1>1, <1>3, <1>4, <1>5, RemoveStepFacts DEF Moves, Keeps, Adds, Writer, Placed, Runs
<1>8. /\ holds' \in [Products -> SUBSET (Reservations \X Quantities)]
      /\ \A p \in Products : holds'[p] \subseteq holds[p]
      /\ stock' = stock
      /\ \A r \in Reservations : x.resv = r => ~Held(r)'
  BY <1>4, <1>6, ReleaseFrees
<1>9. QED
  BY <1>3, <1>4, <1>5, <1>6, <1>7, <1>8, RemoveStepFacts, ControlKeeps

LEMMA DeleteItemKeeps == ASSUME IInv, NEW w \in Workers, DeleteItem(w) PROVE IInv'
<1>1. Runs(w) /\ calls[w].at = "delete"
  BY DEF DeleteItem, At, Runs
<1>2. PICK i \in Items, x \in Rows : i = calls[w].item /\ x = calls[w].old
  BY <1>1, CallFacts, RemoveStepFacts DEF IInv
<1>3. PICK z \in Rows \cup {NoRow} : z = NoRow
  OBVIOUS
<1>4. /\ row[i] # NoRow /\ row' = [row EXCEPT ![i] = z]
      /\ leaked' = leaked \cup ({row[i].resv} \ {x.resv})
      /\ Ends(w) /\ UNCHANGED <<ledger, carts, orders>>
  BY <1>2, <1>3 DEF DeleteItem
<1>5. \A r \in Reservations : Writer(w, r) => z # NoRow /\ z.resv = r
  BY <1>1, RemoveStepFacts DEF Writer
<1>6. Runs(w) /\ calls[w].at \in ReleasedSteps /\ calls[w].old = x
  BY <1>1, <1>2, RemoveStepFacts
<1>7. z # NoRow => Mentioned(i, z) /\ z.owner = row[i].owner
  BY <1>3
<1>8. QED
  BY <1>4, <1>5, <1>6, <1>7, RowEnds

LEMMA DeleteGoneItemKeeps == ASSUME IInv, NEW w \in Workers, DeleteGoneItem(w) PROVE IInv'
<1>1. \A r \in Reservations : ~Writer(w, r)
  BY DEF DeleteGoneItem, At, Writer, AddSteps
<1>2. Ends(w) /\ UNCHANGED <<ledger, tables, leaked>>
  BY DEF DeleteGoneItem
<1>3. leaked \subseteq leaked' /\ leaked' \subseteq Reservations
  BY <1>2 DEF IInv, TypeOK
<1>4. QED
  BY <1>1, <1>2, <1>3, QuietEndKeeps

-----------------------------------------------------------------------------
(***************************************************************************)
(* checkout.                                                               *)
(***************************************************************************)
LEMMA OrderStepFacts ==
  /\ \A s \in OrderSteps : s \notin AddSteps \cup ChangeSteps \cup RemoveSteps /\ s # "update"
  /\ \A s \in OrderSteps : s \notin ReleasedSteps
  /\ "check" \in OrderSteps /\ "commit" \in OrderSteps /\ "check" # "commit"
  BY DEF ChangeSteps, AddSteps, RemoveSteps, OrderSteps, ReleasedSteps

LEMMA OrderingExists ==
  ASSUME NEW s \in OrderSteps, NEW u \in Retailers, NEW L \in SUBSET Lines, NEW I \in SUBSET Items
  PROVE  \E c \in Calls : /\ c = Ordering(s, u, L, I)
                         /\ c # NoCall /\ c.at = s
                         /\ c.owner = u /\ c.lines = L /\ c.items = I
<1> DEFINE d == Ordering(s, u, L, I)
<1>1. d \in Calls
  BY OrderingFacts
<1>2. d.at = s /\ d.owner = u /\ d.lines = L /\ d.items = I
  BY DEF Ordering
<1>3. QED
  BY <1>1, <1>2

(***************************************************************************)
(* A step of a checkout from one point to the next.                        *)
(***************************************************************************)
LEMMA CheckoutKeeps ==
  ASSUME IInv, NEW w \in Workers, NEW c \in Calls, c # NoCall, c.at \in OrderSteps,
         Goes(w, c), UNCHANGED <<ledger, tables, leaked>>,
         \A r \in Reservations : ~Writer(w, r),
         \A i \in Items, x \in Rows : <<i, x>> \in c.lines => Mentioned(i, x),
         \A i \in Items, x \in Rows : <<i, x>> \in c.lines /\ row[i] # NoRow =>
            row[i].owner = c.owner /\ (c.at = "commit" => i \in c.items)
  PROVE  IInv'
<1>1. Moves(w, c)
  BY GoesMoves DEF IInv
<1>2. holds' = holds /\ stock' = stock /\ holds' \in [Products -> SUBSET (Reservations \X Quantities)]
      /\ row' = row
  BY DEF ledger, tables, IInv, TypeOK
<1>3. /\ \A i \in Items, x \in Rows : Keeps(w, i, x)' => Mentioned(i, x)
      /\ \A x \in Rows : ~Adds(w, x)'
  BY <1>1, OrderStepFacts DEF Moves, Keeps, Adds, Runs
<1>4. Placed(w)'
  BY <1>1, <1>2, OrderStepFacts DEF Moves, Placed, Runs
<1>5. QED
  BY <1>1, <1>2, <1>3, <1>4, OrderStepFacts, ControlKeeps

LEMMA ReadCartKeeps ==
  ASSUME IInv, NEW w \in Workers, NEW u \in Retailers, ReadCart(w, u)
  PROVE  IInv'
<1> DEFINE L == {<<i, row[i]>> : i \in LinesOf(u)}
<1>1. LinesOf(u) \in SUBSET Items /\ L \in SUBSET Lines
  BY DEF LinesOf, Lines, IInv, TypeOK
<1>2. \A i \in Items, x \in Rows : <<i, x>> \in L => x = row[i] /\ row[i].owner = u
  BY DEF LinesOf
<1> HIDE DEF L
<1>3. PICK c \in Calls : /\ c = Ordering("check", u, L, LinesOf(u))
                         /\ c # NoCall /\ c.at = "check"
                         /\ c.owner = u /\ c.lines = L /\ c.items = LinesOf(u)
  BY <1>1, OrderStepFacts, OrderingExists
<1>4. Goes(w, c) /\ UNCHANGED <<ledger, tables, leaked>> /\ ~Runs(w)
  BY <1>3 DEF ReadCart, Runs, L
<1>5. \A i \in Items, x \in Rows : <<i, x>> \in c.lines => Mentioned(i, x)
  BY <1>2, <1>3 DEF Mentioned, Stored
<1>6. \A r \in Reservations : ~Writer(w, r)
  BY <1>4 DEF Writer
<1>7. QED
  BY <1>2, <1>3, <1>4, <1>5, <1>6, OrderStepFacts, CheckoutKeeps

LEMMA CheckingFacts ==
  ASSUME IInv, NEW w \in Workers, Runs(w), calls[w].at \in OrderSteps
  PROVE  /\ calls[w].owner \in Retailers
         /\ calls[w].lines \in SUBSET Lines /\ calls[w].items \in SUBSET Items
         /\ \A r \in Reservations : ~Writer(w, r)
         /\ \A i \in Items, x \in Rows : <<i, x>> \in calls[w].lines =>
              /\ Mentioned(i, x)
              /\ row[i] # NoRow => row[i].owner = calls[w].owner
<1>1. \A i \in Items, x \in Rows : <<i, x>> \in calls[w].lines => Mentioned(i, x)
  BY DEF Mentioned, Keeps
<1>2. \A i \in Items, x \in Rows : <<i, x>> \in calls[w].lines /\ row[i] # NoRow =>
          row[i].owner = calls[w].owner
  BY DEF IInv, Places, Placed
<1>3. \A r \in Reservations : ~Writer(w, r)
  BY OrderStepFacts DEF Writer
<1>4. QED
  BY <1>1, <1>2, <1>3, CallFacts DEF IInv

LEMMA CheckLineKeeps == ASSUME IInv, NEW w \in Workers, CheckLine(w) PROVE IInv'
<1>1. Runs(w) /\ calls[w].at = "check"
  BY DEF CheckLine, At, Runs
<1>2. PICK u \in Retailers, L \in SUBSET Lines, I \in SUBSET Items :
        u = calls[w].owner /\ L = calls[w].lines /\ I = calls[w].items
  BY <1>1, CheckingFacts, OrderStepFacts
<1>3. PICK i : Goes(w, Ordering("check", u, L, I \ {i}))
  BY <1>2 DEF CheckLine
<1>4. PICK c \in Calls : /\ c = Ordering("check", u, L, I \ {i})
                         /\ c # NoCall /\ c.at = "check"
                         /\ c.owner = u /\ c.lines = L /\ c.items = I \ {i}
  BY OrderStepFacts, OrderingExists
<1>5. Goes(w, c) /\ UNCHANGED <<ledger, tables, leaked>>
  BY <1>3, <1>4 DEF CheckLine
<1>6. QED
  BY <1>1, <1>2, <1>4, <1>5, CheckingFacts, OrderStepFacts, CheckoutKeeps

LEMMA HaltCheckoutKeeps == ASSUME IInv, NEW w \in Workers, HaltCheckout(w) PROVE IInv'
<1>1. \A r \in Reservations : ~Writer(w, r)
  BY OrderStepFacts DEF HaltCheckout, At, Writer, Runs
<1>2. Ends(w) /\ UNCHANGED <<ledger, tables, leaked>>
  BY DEF HaltCheckout
<1>3. leaked \subseteq leaked' /\ leaked' \subseteq Reservations
  BY <1>2 DEF IInv, TypeOK
<1>4. QED
  BY <1>1, <1>2, <1>3, QuietEndKeeps

LEMMA PlanDeletesKeeps == ASSUME IInv, NEW w \in Workers, PlanDeletes(w) PROVE IInv'
<1>1. Runs(w) /\ calls[w].at = "check"
  BY DEF PlanDeletes, At, Runs
<1>2. PICK u \in Retailers, L \in SUBSET Lines : u = calls[w].owner /\ L = calls[w].lines
  BY <1>1, CheckingFacts, OrderStepFacts
<1>3. PICK kept \in SUBSET {i \in LinesOf(u) : \A l \in L : l[1] # i} :
        Goes(w, Ordering("commit", u, L, LinesOf(u) \ kept))
  BY <1>2 DEF PlanDeletes
<1>4. LinesOf(u) \ kept \in SUBSET Items
  BY DEF LinesOf
<1>5. PICK c \in Calls : /\ c = Ordering("commit", u, L, LinesOf(u) \ kept)
                         /\ c # NoCall /\ c.at = "commit"
                         /\ c.owner = u /\ c.lines = L /\ c.items = LinesOf(u) \ kept
  BY <1>4, OrderStepFacts, OrderingExists
<1>6. Goes(w, c) /\ UNCHANGED <<ledger, tables, leaked>>
  BY <1>5, <1>3 DEF PlanDeletes
<1>7. \A i \in Items, x \in Rows : <<i, x>> \in c.lines /\ row[i] # NoRow =>
          row[i].owner = c.owner /\ i \in c.items
  <2>1. ASSUME NEW i \in Items, NEW x \in Rows, <<i, x>> \in L, row[i] # NoRow
        PROVE  row[i].owner = u /\ i \in LinesOf(u) \ kept
    <3>1. row[i].owner = u
      BY <1>1, <1>2, <2>1, CheckingFacts, OrderStepFacts
    <3>2. i \notin kept
      BY <2>1
    <3>3. QED
      BY <2>1, <3>1, <3>2 DEF LinesOf
  <2>2. QED
    BY <1>5, <2>1
<1>8. QED
  BY <1>1, <1>2, <1>5, <1>6, <1>7, CheckingFacts, OrderStepFacts, CheckoutKeeps

LEMMA CommitFailsKeeps == ASSUME IInv, NEW w \in Workers, CommitFails(w) PROVE IInv'
<1>1. \A r \in Reservations : ~Writer(w, r)
  BY OrderStepFacts DEF CommitFails, At, Writer, Runs
<1>2. Ends(w) /\ UNCHANGED <<ledger, tables, leaked>>
  BY DEF CommitFails
<1>3. leaked \subseteq leaked' /\ leaked' \subseteq Reservations
  BY <1>2 DEF IInv, TypeOK
<1>4. QED
  BY <1>1, <1>2, <1>3, QuietEndKeeps

LEMMA CommitOrderKeeps ==
  ASSUME IInv, NEW w \in Workers, NEW o \in Orders, CommitOrder(w, o)
  PROVE  IInv'
<1>1. Runs(w) /\ calls[w].at = "commit"
  BY DEF CommitOrder, At, Runs
<1>2. PICK L \in SUBSET Lines, I \in SUBSET Items : L = calls[w].lines /\ I = calls[w].items
  BY <1>1, CheckingFacts, OrderStepFacts
<1>3. /\ orders[o] = {} /\ orders' = [orders EXCEPT ![o] = L]
      /\ row' = [i \in Items |-> IF i \in I THEN NoRow ELSE row[i]]
      /\ leaked' = leaked \cup ({row[i].resv : i \in I} \ {l[2].resv : l \in L})
      /\ \A i \in I : row[i] # NoRow
      /\ Ends(w) /\ UNCHANGED <<ledger, carts>>
  BY <1>2 DEF CommitOrder
<1>4. Moves(w, NoCall)
  BY <1>3, GoesMoves DEF Ends, IInv
<1>5. /\ orders' \in [Orders -> SUBSET Lines] /\ orders'[o] = L
      /\ \A m \in Orders : m # o => orders'[m] = orders[m]
      /\ row' \in [Items -> Rows \cup {NoRow}]
      /\ carts' \in [Retailers -> {None, One, Several}]
  BY <1>3 DEF IInv, TypeOK
<1>6. leaked' \subseteq Reservations
  <2>1. \A i \in I : row[i].resv \in Reservations
    BY <1>3, FieldFacts DEF IInv, TypeOK
  <2>2. QED
    BY <1>3, <2>1 DEF IInv, TypeOK
<1>7. /\ \A i \in Items, x \in Rows : <<i, x>> \in L => Mentioned(i, x)
      /\ \A i \in Items, x \in Rows : <<i, x>> \in L /\ row[i] # NoRow => i \in I
      /\ \A r \in Reservations : ~Writer(w, r)
  BY <1>1, <1>2, CheckingFacts, OrderStepFacts DEF IInv, Places, Placed
<1>8. ASSUME NEW i \in Items, NEW x \in Rows, Stored(i, x)' PROVE Mentioned(i, x)
  <2>1. CASE row'[i] = x
    BY <1>3, <2>1, FieldFacts DEF Mentioned, Stored
  <2>2. ASSUME NEW m \in Orders, <<i, x>> \in orders'[m] PROVE Mentioned(i, x)
    BY <1>5, <1>7, <2>2 DEF Mentioned, Stored
  <2>3. QED
    BY <1>8, <2>1, <2>2 DEF Stored
<1>9. ASSUME NEW r \in Reservations, Sees(r) PROVE Sees(r)'
  <2>1. CASE r \in leaked
    BY <1>3, <2>1 DEF Sees
  <2>2. ASSUME NEW i \in Items, NEW x \in Rows, x.resv = r, row[i] = x PROVE Sees(r)'
    <3>1. CASE i \notin I
      BY <1>3, <2>2, <3>1 DEF Sees, Stored
    <3>2. ASSUME NEW l \in L, l[2].resv = r PROVE Sees(r)'
      <4>1. l[1] \in Items /\ l[2] \in Rows /\ <<l[1], l[2]>> \in orders'[o]
        BY <1>5 DEF Lines
      <4>2. QED
        BY <3>2, <4>1 DEF Sees, Stored
    <3>3. CASE i \in I /\ ~\E l \in L : l[2].resv = r
      BY <1>3, <2>2, <3>3 DEF Sees
    <3>4. QED
      BY <3>1, <3>2, <3>3
  <2>3. ASSUME NEW m \in Orders, NEW i \in Items, NEW x \in Rows, x.resv = r, <<i, x>> \in orders[m]
        PROVE  Sees(r)'
    BY <1>3, <1>5, <2>3 DEF Sees, Stored
  <2>4. QED
    BY <1>9, <2>1, <2>2, <2>3 DEF Sees, Stored
<1>10. Places'
  <2>1. \A v \in Workers : Placed(v)'
    BY <1>3, <1>4, RowsStayPlaced
  <2>2. ASSUME NEW m \in Orders, NEW l \in orders'[m] PROVE row'[l[1]] = NoRow
    <3>1. l[1] \in Items /\ l[2] \in Rows /\ l = <<l[1], l[2]>>
      BY <1>5, <2>2 DEF Lines
    <3>2. CASE m = o
      BY <1>3, <1>5, <1>7, <2>2, <3>1, <3>2
    <3>3. CASE m # o
      BY <1>3, <1>5, <2>2, <3>1, <3>3 DEF IInv, Places, OrderedLinesLeaveCart
    <3>4. QED
      BY <3>2, <3>3
  <2>3. QED
    BY <2>1, <2>2 DEF Places, OrderedLinesLeaveCart
<1>11. QED
  BY <1>3, <1>4, <1>5, <1>6, <1>7, <1>8, <1>9, <1>10, EndKeeps

-----------------------------------------------------------------------------
(***************************************************************************)
(* A request that fails, and a hold that lapses.                           *)
(***************************************************************************)
LEMMA FailsKeeps == ASSUME IInv, NEW w \in Workers, Fails(w) PROVE IInv'
<1>1. /\ Runs(w) /\ Ends(w) /\ UNCHANGED <<ledger, tables>>
      /\ calls[w].at \in AddSteps \cup {"update"} => leaked' = leaked \cup {calls[w].new.resv}
      /\ calls[w].at \notin AddSteps \cup {"update"} => leaked' = leaked
  BY DEF Fails, Runs
<1>2. calls[w].at \in AddSteps \cup {"update"} => calls[w].new.resv \in Reservations
  BY <1>1, CallFacts, FieldFacts DEF IInv, ChangeSteps
<1>3. /\ leaked \subseteq leaked' /\ leaked' \subseteq Reservations
      /\ \A r \in Reservations : Writer(w, r) => r \in leaked'
  BY <1>1, <1>2 DEF IInv, TypeOK, Writer
<1>4. QED
  BY <1>1, <1>3, QuietEndKeeps

LEMMA LapseKeeps ==
  ASSUME IInv, NEW p \in Products, NEW h \in holds[p], Lapse(p, h)
  PROVE  IInv'
<1>1. /\ holds' = [holds EXCEPT ![p] = holds[p] \ {h}] /\ leaked' = leaked \ {h[1]}
      /\ UNCHANGED <<stock, carts, row, orders, calls>>
  BY DEF Lapse, Ledger!Drop, tables
<1>2. h[1] \in Reservations /\ h[2] \in Quantities /\ h = <<h[1], h[2]>>
  BY HoldFacts DEF IInv
<1>3. TypeOK' /\ \A m \in Products : holds'[m] \subseteq holds[m]
  BY <1>1 DEF IInv, TypeOK
<1>4. /\ \A i \in Items, x \in Rows : Stored(i, x)' <=> Stored(i, x)
      /\ \A w \in Workers, i \in Items, x \in Rows : Keeps(w, i, x)' <=> Keeps(w, i, x)
      /\ \A w \in Workers, x \in Rows : Adds(w, x)' <=> Adds(w, x)
      /\ \A w \in Workers, r \in Reservations : Writer(w, r)' <=> Writer(w, r)
  BY <1>1 DEF Stored, Keeps, Adds, Writer, Runs
<1>5. Core'
  <2>1. \A i \in Items, x \in Rows : Mentioned(i, x)' => Mentioned(i, x)
    BY <1>4 DEF Mentioned
  <2>2. QED
    BY <1>3, <1>4, <2>1, CoreShrinks DEF IInv
<1>6. ASSUME NEW r \in Reservations, Held(r)' PROVE Held(r) /\ r # h[1]
  <2>1. PICK m \in Products, k \in Quantities : <<r, k>> \in holds'[m]
    BY <1>6 DEF Held
  <2>2. <<r, k>> \in holds[m]
    BY <1>3, <2>1
  <2>3. ASSUME r = h[1] PROVE FALSE
    <3>1. m = p /\ k = h[2]
      BY <1>2, <2>2, <2>3 DEF IInv, Core, HoldsFit
    <3>2. QED
      BY <1>1, <1>2, <2>1, <2>3, <3>1 DEF IInv, TypeOK
  <2>4. QED
    BY <2>2, <2>3 DEF Held
<1>7. Released'
  BY <1>1, <1>6 DEF IInv, Released, Runs
<1>8. HeldIsFirm'
  <2>1. ASSUME NEW r \in Reservations, Held(r)' PROVE Firm(r)'
    <3>1. Firm(r) /\ r # h[1]
      BY <1>6, <2>1 DEF IInv, HeldIsFirm
    <3>2. QED
      BY <1>1, <1>4, <3>1 DEF Firm
  <2>2. QED
    BY <2>1 DEF HeldIsFirm
<1>9. Places'
  BY <1>1 DEF IInv, Places, Placed, OrderedLinesLeaveCart, Runs
<1>10. QED
  BY <1>3, <1>5, <1>7, <1>8, <1>9 DEF IInv

-----------------------------------------------------------------------------
LEMMA InitHolds == Init => IInv
<1> SUFFICES ASSUME Init PROVE IInv
  OBVIOUS
<1>1. TypeOK
  BY DEF Init, TypeOK, None, One, Several
<1>2. /\ \A w \in Workers : ~Runs(w)
      /\ \A r \in Reservations : ~Held(r)
      /\ \A i \in Items, x \in Rows : ~Stored(i, x)
  BY FieldFacts DEF Init, Runs, Held, Stored
<1>3. \A i \in Items, x \in Rows : ~Mentioned(i, x)
  BY <1>2 DEF Mentioned, Keeps
<1>4. Core
  BY <1>2, <1>3 DEF Core, Unique, Apart, HoldsFit, Adds, Held
<1>5. Released /\ HeldIsFirm
  BY <1>2 DEF Released, HeldIsFirm
<1>6. Places
  BY <1>2 DEF Places, Placed, OrderedLinesLeaveCart, Init
<1>7. QED
  BY <1>1, <1>4, <1>5, <1>6 DEF IInv

LEMMA StutterKeeps == IInv /\ UNCHANGED vars => IInv'
<1> SUFFICES ASSUME IInv, UNCHANGED vars PROVE IInv'
  OBVIOUS
<1>1. UNCHANGED <<stock, holds, carts, row, orders, calls, leaked>>
  BY DEF vars, ledger, tables
<1>2. /\ TypeOK' /\ \A m \in Products : holds'[m] \subseteq holds[m]
      /\ \A r \in Reservations : Held(r)' <=> Held(r)
  BY <1>1 DEF IInv, TypeOK, Held
<1>3. /\ \A i \in Items, x \in Rows : Stored(i, x)' <=> Stored(i, x)
      /\ \A w \in Workers, i \in Items, x \in Rows : Keeps(w, i, x)' <=> Keeps(w, i, x)
      /\ \A w \in Workers, x \in Rows : Adds(w, x)' <=> Adds(w, x)
      /\ \A w \in Workers, r \in Reservations : Writer(w, r)' <=> Writer(w, r)
  BY <1>1 DEF Stored, Keeps, Adds, Writer, Runs
<1>4. \A i \in Items, x \in Rows : Mentioned(i, x)' => Mentioned(i, x)
  BY <1>3 DEF Mentioned
<1>5. Core'
  BY <1>2, <1>3, <1>4, CoreShrinks DEF IInv
<1>6. Released' /\ HeldIsFirm'
  BY <1>1, <1>2, <1>3 DEF IInv, Released, HeldIsFirm, Firm, Runs
<1>7. Places'
  BY <1>1 DEF IInv, Places, Placed, OrderedLinesLeaveCart, Runs
<1>8. QED
  BY <1>2, <1>5, <1>6, <1>7 DEF IInv

LEMMA NextKeeps == IInv /\ [Next]_vars => IInv'
<1> SUFFICES ASSUME IInv, [Next]_vars PROVE IInv'
  OBVIOUS
<1>1. CASE UNCHANGED vars
  BY <1>1, StutterKeeps
<1>2. ASSUME NEW w \in Workers, Begin(w) PROVE IInv'
  BY <1>2, AddItemKeeps, ChangeQuantityKeeps, RemoveItemKeeps, ReadCartKeeps DEF Begin
<1>3. ASSUME NEW w \in Workers, Continue(w) PROVE IInv'
  BY <1>3, FindCartKeeps, FindSeveralCartsKeeps, InsertItemKeeps, ReleaseOldKeeps,
     ReserveNewKeeps, RefuseNewKeeps, RestoreOldKeeps, RefuseOldKeeps, UpdateItemKeeps,
     UpdateGoneItemKeeps, ReleaseRemovedKeeps, DeleteItemKeeps, DeleteGoneItemKeeps,
     CheckLineKeeps, HaltCheckoutKeeps, PlanDeletesKeeps, CommitFailsKeeps, CommitOrderKeeps
     DEF Continue
<1>4. QED
  BY <1>1, <1>2, <1>3, FailsKeeps, LapseKeeps DEF Next

-----------------------------------------------------------------------------
(***************************************************************************)
(* An id of a reservation stands for one row of one item, wherever it is   *)
(* spoken of: in a cart, in an order, or in the memory of a request.       *)
(***************************************************************************)
THEOREM Invariant == Spec => []IInv
<1>1. QED
  BY InitHolds, NextKeeps, PTL DEF Spec

LEMMA ClaimFacts ==
  ASSUME IInv, NEW l \in Claims
  PROVE  l[1] \in Items /\ l[2] \in Rows /\ Mentioned(l[1], l[2])
<1>1. CASE l \in {<<i, row[i]>> : i \in {j \in Items : row[j] # NoRow}}
  <2>1. PICK i \in Items : row[i] # NoRow /\ l = <<i, row[i]>>
    BY <1>1
  <2>2. row[i] \in Rows
    BY <2>1 DEF IInv, TypeOK
  <2>3. QED
    BY <2>1, <2>2 DEF Mentioned, Stored
<1>2. ASSUME NEW o \in Orders, l \in orders[o]
      PROVE  l[1] \in Items /\ l[2] \in Rows /\ Mentioned(l[1], l[2])
  BY <1>2, LineFacts DEF IInv, Mentioned, Stored
<1>3. ASSUME NEW w \in Workers, At(w, "check") \/ At(w, "commit"), l \in calls[w].lines
      PROVE  l[1] \in Items /\ l[2] \in Rows /\ Mentioned(l[1], l[2])
  <2>1. Runs(w) /\ calls[w].at \in OrderSteps
    BY <1>3, OrderStepFacts DEF At, Runs
  <2>2. l[1] \in Items /\ l[2] \in Rows /\ l = <<l[1], l[2]>>
    BY <1>3, <2>1, CheckingFacts DEF Lines
  <2>3. QED
    BY <1>3, <2>1, <2>2, CheckingFacts
<1>4. QED
  BY <1>1, <1>2, <1>3 DEF Claims

(***************************************************************************)
(* Whatever requests overlap and wherever they fail, what a line says it   *)
(* holds is what the store holds for it, and for it alone.                 *)
(***************************************************************************)
THEOREM HoldsSound == Spec => []HoldsAreSound
<1>1. IInv => HoldsAreSound
  <2> SUFFICES ASSUME IInv PROVE HoldsAreSound
    OBVIOUS
  <2>1. NoSharedHold
    BY ClaimFacts DEF NoSharedHold, IInv, Core, Unique
  <2>2. ASSUME NEW l \in Claims, NEW p \in Products, NEW h \in holds[p], h[1] = l[2].resv
        PROVE  p = l[2].product /\ h[2] = l[2].qty
    <3>1. h[1] \in Reservations /\ h[2] \in Quantities /\ <<h[1], h[2]>> \in holds[p]
      BY HoldFacts DEF IInv
    <3>2. PICK i \in Items, x \in Rows : i = l[1] /\ x = l[2] /\ Mentioned(i, x)
      BY ClaimFacts
    <3>3. PICK r \in Reservations, q \in Quantities : r = h[1] /\ q = h[2]
      BY <3>1
    <3>4. x.product = p /\ x.qty = q
      BY <2>2, <3>1, <3>2, <3>3 DEF IInv, Core, HoldsFit
    <3>5. QED
      BY <3>2, <3>3, <3>4
  <2>3. QED
    BY <2>1, <2>2 DEF HoldsAreSound, HoldsFitLines, IInv
<1>2. QED
  BY <1>1, Invariant, PTL

(***************************************************************************)
(* No hold gets out of sight silently, whatever requests fail or overlap.  *)
(***************************************************************************)
THEOREM HoldsOwned == Spec => []HoldsAreOwned
<1>1. IInv => HoldsAreOwned
  <2> SUFFICES ASSUME IInv, NEW p \in Products, NEW h \in holds[p]
               PROVE  \/ h[1] \in leaked
                      \/ \E l \in Claims : l[2].resv = h[1]
                      \/ \E w \in Workers : InFlight(w, h[1])
    BY DEF HoldsAreOwned
  <2>1. Firm(h[1])
    BY HoldFacts DEF IInv, HeldIsFirm
  <2>2. ASSUME NEW i \in Items, NEW x \in Rows, Stored(i, x), x.resv = h[1]
        PROVE  \E l \in Claims : l[2].resv = h[1]
    <3>1. <<i, x>> \in Claims
      BY <2>2, FieldFacts DEF Claims, Stored
    <3>2. QED
      BY <2>2, <3>1
  <2>3. ASSUME NEW w \in Workers, Writer(w, h[1]) PROVE InFlight(w, h[1])
    BY <2>3 DEF Writer, InFlight, Runs, ChangeSteps
  <2>4. QED
    BY <2>1, <2>2, <2>3 DEF Firm
<1>2. QED
  BY <1>1, Invariant, PTL

(***************************************************************************)
(* What has been ordered is no longer in a cart, also when the row was     *)
(* changed while the checkout ran.                                         *)
(***************************************************************************)
THEOREM OrderedLeave == Spec => []OrderedLinesLeaveCart
<1>1. IInv => OrderedLinesLeaveCart
  BY DEF IInv, Places
<1>2. QED
  BY <1>1, Invariant, PTL
=============================================================================
