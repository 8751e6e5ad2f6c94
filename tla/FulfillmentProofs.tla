------------------------- MODULE FulfillmentProofs -------------------------
(***************************************************************************)
(* Proofs about Fulfillment: for any sub-orders, lines, products and       *)
(* number of requests that overlap, the stock is what suppliers have set   *)
(* less what is sold by the statuses of the sub-orders, unless it has gone *)
(* astray, the mirror follows, and every status is earned.                 *)
(***************************************************************************)
EXTENDS Fulfillment, FiniteSetTheorems, TLAPS

USE LinesAssumption, StockLevelsAssumption, NamesAssumption, ProductsAssumption,
    NoCallAssumption

-----------------------------------------------------------------------------
(***************************************************************************)
(* The inductive invariant.                                                *)
(*                                                                         *)
(* Fits: a transaction writes one value per product, and only one of a     *)
(* sub-order has lines to restore; it has locked every row it writes, and  *)
(* writes what is in the row and the units of its line; a cancellation     *)
(* that has read CONFIRMED writes all of its lines in the end, no other    *)
(* transition writes any; its status is allowed by the one it has read.    *)
(***************************************************************************)
Writes(w, p, n) == <<p, n>> \in calls[w].writes

Restores(c) == c.from = "CONFIRMED" /\ c.to = "CANCELLED"

Covers(c, p) ==
    \/ \E n \in Nat : <<p, n>> \in c.writes
    \/ \E i \in 1 .. Len(c.todo) : c.todo[i] = p

Complete(c) ==
    /\ Restores(c) => \A p \in ProductsOf(c.sub) : Covers(c, p)
    /\ ~Restores(c) => c.todo = <<>> /\ c.writes = {}

Fits(w) ==
    Runs(w) =>
        /\ \A p \in Products, n, k \in Nat : Writes(w, p, n) /\ Writes(w, p, k) => n = k
        /\ calls[w].sub = NoSubOrder => calls[w].todo = <<>>
        /\ calls[w].sub # NoSubOrder =>
            /\ \A p \in Products, n \in Nat :
                Writes(w, p, n) => lock[p] = w /\ n = available[p] + Lines[calls[w].sub][p]
            /\ Complete(calls[w])
            /\ calls[w].from \in timeline[calls[w].sub]
            /\ <<calls[w].from, calls[w].to>> \in Allowed

(***************************************************************************)
(* LocksFit: who has a row locked runs, and will write what it has set the *)
(* mirror to.                                                              *)
(***************************************************************************)
LocksFit ==
    \A p \in Products : lock[p] # Nobody =>
        /\ Runs(lock[p])
        /\ mirror[p] \in Nat
        /\ Writes(lock[p], p, mirror[p])

StatusesFit ==
    /\ \A s \in SubOrders : status[s] \in timeline[s]
    /\ EveryStatusIsEarned

IInv ==
    /\ TypeOK
    /\ \A w \in Workers : Fits(w)
    /\ LocksFit
    /\ StockAddsUp
    /\ MirrorMatchesStock
    /\ StatusesFit

-----------------------------------------------------------------------------
(***************************************************************************)
(* The calls, one of which changes.                                        *)
(***************************************************************************)
LEMMA CallFacts ==
  ASSUME TypeOK, NEW w \in Workers, NEW c \in Calls \cup {NoCall}, Goes(w, c)
  PROVE  /\ calls' \in [Workers -> Calls \cup {NoCall}]
         /\ calls'[w] = c
         /\ \A v \in Workers \ {w} : calls'[v] = calls[v] /\ (Runs(v)' <=> Runs(v))
  BY DEF TypeOK, Goes, Runs

LEMMA RunningCall ==
  ASSUME TypeOK, NEW w \in Workers, Runs(w)
  PROVE  /\ calls[w] \in Calls
         /\ calls[w].sub \in SubOrders \cup {NoSubOrder}
         /\ calls[w].from \in Statuses /\ calls[w].to \in Statuses
         /\ calls[w].todo \in Seq(Products)
         /\ calls[w].writes \subseteq Products \X Nat
  BY DEF TypeOK, Runs, Calls

LEMMA TransactionFacts ==
  ASSUME NEW s \in SubOrders \cup {NoSubOrder}, NEW from \in Statuses, NEW to \in Statuses,
         NEW todo \in Seq(Products), NEW writes \in SUBSET (Products \X Nat)
  PROVE  /\ Transaction(s, from, to, todo, writes) \in Calls
         /\ Transaction(s, from, to, todo, writes) # NoCall
         /\ Transaction(s, from, to, todo, writes).sub = s
         /\ Transaction(s, from, to, todo, writes).from = from
         /\ Transaction(s, from, to, todo, writes).to = to
         /\ Transaction(s, from, to, todo, writes).todo = todo
         /\ Transaction(s, from, to, todo, writes).writes = writes
<1>1. Transaction(s, from, to, todo, writes) \in Calls
  BY DEF Transaction, Calls
<1>2. QED
  BY <1>1 DEF Transaction

LEMMA NoLinesFacts ==
  ASSUME NEW s \in SubOrders \cup {NoSubOrder}, NEW from \in Statuses, NEW to \in Statuses,
         NEW writes \in SUBSET (Products \X Nat)
  PROVE  /\ Transaction(s, from, to, <<>>, writes) \in Calls
         /\ Transaction(s, from, to, <<>>, writes) # NoCall
         /\ Transaction(s, from, to, <<>>, writes).sub = s
         /\ Transaction(s, from, to, <<>>, writes).from = from
         /\ Transaction(s, from, to, <<>>, writes).to = to
         /\ Transaction(s, from, to, <<>>, writes).todo = <<>>
         /\ Transaction(s, from, to, <<>>, writes).writes = writes
<1>1. <<>> \in Seq(Products)
  OBVIOUS
<1>2. Transaction(s, from, to, <<>>, writes) \in Calls
  BY <1>1 DEF Transaction, Calls
<1>3. QED
  BY <1>2 DEF Transaction

LEMMA StatusFacts == Allowed \subseteq Statuses \X Statuses /\ "PENDING" \in Statuses
                     /\ "CONFIRMED" \in Statuses
  BY DEF Allowed, Statuses

(***************************************************************************)
(* The lines in some order are a sequence of products, all of them.        *)
(***************************************************************************)
LEMMA LinesInOrder ==
  ASSUME NEW S \in SUBSET Products, NEW f \in InAnyOrder(S)
  PROVE  /\ f \in Seq(Products)
         /\ \A p \in S : \E i \in 1 .. Len(f) : f[i] = p
         /\ S = {} => f = <<>>
<1>1. IsFiniteSet(S)
  BY FS_Subset
<1>2. Cardinality(S) \in Nat
  BY <1>1, FS_CardinalityType
<1>3. /\ f \in [1 .. Cardinality(S) -> Products]
      /\ \A p \in S : \E i \in DOMAIN f : f[i] = p
  BY DEF InAnyOrder
<1>4. f \in Seq(Products) /\ Len(f) = Cardinality(S)
  BY <1>2, <1>3
<1>5. S = {} => Cardinality(S) = 0
  BY FS_EmptySet
<1>6. S = {} => f = <<>>
  BY <1>4, <1>5
<1>7. QED
  BY <1>3, <1>4, <1>6

-----------------------------------------------------------------------------
(***************************************************************************)
(* A request begins without a lock: it has read, and nothing changed.      *)
(***************************************************************************)
LEMMA BeginKeeps ==
  ASSUME IInv, NEW w \in Workers, ~Runs(w), NEW c \in Calls, c # NoCall, Goes(w, c),
         UNCHANGED <<tables, lock, mirror, history>>,
         \A p \in Products, n, k \in Nat :
            <<p, n>> \in c.writes /\ <<p, k>> \in c.writes => n = k,
         c.sub = NoSubOrder => c.todo = <<>>,
         c.sub # NoSubOrder =>
            /\ c.writes = {}
            /\ Complete(c)
            /\ c.from \in timeline[c.sub]
            /\ <<c.from, c.to>> \in Allowed
  PROVE  IInv'
<1>1. /\ calls' \in [Workers -> Calls \cup {NoCall}]
      /\ calls'[w] = c
      /\ \A v \in Workers \ {w} : calls'[v] = calls[v] /\ (Runs(v)' <=> Runs(v))
  BY CallFacts DEF IInv
<1>2. UNCHANGED <<status, timeline, available, lock, mirror, expected, astray, unmirrored>>
  BY DEF tables, history
<1>3. TypeOK'
  BY <1>1, <1>2 DEF IInv, TypeOK
<1>4. ASSUME NEW v \in Workers PROVE Fits(v)'
  <2>1. CASE v = w
    BY <1>1, <1>2, <2>1 DEF Fits, Writes
  <2>2. CASE v # w
    BY <1>1, <1>2, <2>2 DEF IInv, Fits, Writes
  <2>3. QED
    BY <2>1, <2>2
<1>5. LocksFit'
  <2>1. ASSUME NEW p \in Products, lock[p] # Nobody
        PROVE  lock[p] \in Workers \ {w}
    BY <2>1 DEF IInv, LocksFit, TypeOK
  <2>2. QED
    BY <1>1, <1>2, <2>1 DEF IInv, LocksFit, Writes
<1>6. QED
  BY <1>2, <1>3, <1>4, <1>5
     DEF IInv, StockAddsUp, MirrorMatchesStock, StatusesFit, EveryStatusIsEarned

LEMMA AdvanceKeeps ==
  ASSUME IInv, NEW w \in Workers, NEW s \in SubOrders,
         NEW to \in {"PACKED", "SHIPPED", "DELIVERED"}, Advance(w, s, to)
  PROVE  IInv'
<1> DEFINE c == Transaction(s, status[s], to, <<>>, {})
<1>1. status[s] \in Statuses /\ to \in Statuses /\ <<status[s], to>> \in Allowed
      /\ status[s] \in timeline[s]
  BY StatusFacts DEF Advance, IInv, TypeOK, StatusesFit
<1>2. /\ c \in Calls /\ c # NoCall /\ c.sub = s /\ c.from = status[s] /\ c.to = to
      /\ c.writes = {} /\ Complete(c)
  <2>1. to # "CANCELLED"
    OBVIOUS
  <2>2. /\ c \in Calls /\ c # NoCall /\ c.sub = s /\ c.from = status[s] /\ c.to = to
        /\ c.writes = {} /\ c.todo = <<>>
    <3> DEFINE writes == {}
    <3>1. s \in SubOrders \cup {NoSubOrder} /\ writes \in SUBSET (Products \X Nat)
      OBVIOUS
    <3>2. PICK from \in Statuses : from = status[s]
      BY <1>1
    <3> HIDE DEF writes
    <3>3. /\ Transaction(s, from, to, <<>>, writes) \in Calls
          /\ Transaction(s, from, to, <<>>, writes) # NoCall
          /\ Transaction(s, from, to, <<>>, writes).sub = s
          /\ Transaction(s, from, to, <<>>, writes).from = from
          /\ Transaction(s, from, to, <<>>, writes).to = to
          /\ Transaction(s, from, to, <<>>, writes).todo = <<>>
          /\ Transaction(s, from, to, <<>>, writes).writes = writes
      BY <1>1, <3>1, NoLinesFacts
    <3>4. c = Transaction(s, from, to, <<>>, writes)
      BY <3>2 DEF writes
    <3>5. QED
      BY <3>2, <3>3, <3>4 DEF writes
  <2>3. Complete(c)
    BY <2>1, <2>2 DEF Complete, Restores
  <2>4. QED
    BY <2>2, <2>3
<1>3. Goes(w, c) /\ ~Runs(w) /\ UNCHANGED <<tables, lock, mirror, history>>
  BY DEF Advance
<1> HIDE DEF c
<1>4. QED
  BY <1>1, <1>2, <1>3, BeginKeeps

LEMMA CancelKeeps ==
  ASSUME IInv, NEW w \in Workers, NEW s \in SubOrders, Cancel(w, s)
  PROVE  IInv'
<1>1. PICK todo \in InAnyOrder(IF status[s] = "CONFIRMED" THEN ProductsOf(s) ELSE {}) :
        Goes(w, Transaction(s, status[s], "CANCELLED", todo, {}))
  BY DEF Cancel
<1> DEFINE c == Transaction(s, status[s], "CANCELLED", todo, {})
<1> DEFINE S == IF status[s] = "CONFIRMED" THEN ProductsOf(s) ELSE {}
<1>2. /\ todo \in Seq(Products)
      /\ \A p \in S : \E i \in 1 .. Len(todo) : todo[i] = p
      /\ S = {} => todo = <<>>
  BY LinesInOrder DEF ProductsOf
<1>3. status[s] \in Statuses /\ <<status[s], "CANCELLED">> \in Allowed
      /\ status[s] \in timeline[s] /\ "CANCELLED" \in Statuses
  BY DEF Cancel, IInv, TypeOK, StatusesFit, Statuses
<1>4. /\ c \in Calls /\ c # NoCall /\ c.sub = s /\ c.from = status[s] /\ c.to = "CANCELLED"
      /\ c.writes = {} /\ c.todo = todo
  BY <1>2, <1>3, TransactionFacts
<1>5. Goes(w, c) /\ ~Runs(w) /\ UNCHANGED <<tables, lock, mirror, history>>
  BY <1>1 DEF Cancel
<1> HIDE DEF c
<1>6. Complete(c)
  BY <1>2, <1>4 DEF Complete, Restores, Covers
<1>7. QED
  BY <1>3, <1>4, <1>5, <1>6, BeginKeeps

LEMMA EditKeeps ==
  ASSUME IInv, NEW w \in Workers, NEW q \in Products, EditProduct(w, q)
  PROVE  IInv'
<1> DEFINE c == Transaction(NoSubOrder, "PENDING", "PENDING", <<>>, {<<q, available[q]>>})
<1>1. {<<q, available[q]>>} \in SUBSET (Products \X Nat)
  BY DEF IInv, TypeOK
<1>2. /\ c \in Calls /\ c # NoCall /\ c.sub = NoSubOrder
      /\ c.writes = {<<q, available[q]>>} /\ c.todo = <<>>
  <2>1. NoSubOrder \in SubOrders \cup {NoSubOrder}
    OBVIOUS
  <2>2. QED
    BY <1>1, <2>1, StatusFacts, NoLinesFacts, SMTT(30)
<1>3. Goes(w, c) /\ ~Runs(w) /\ UNCHANGED <<tables, lock, mirror, history>>
  BY DEF EditProduct
<1> HIDE DEF c
<1>4. QED
  BY <1>2, <1>3, BeginKeeps

(***************************************************************************)
(* A row is locked, and the mirror set to what will be written.            *)
(***************************************************************************)
LEMMA LockKeeps ==
  ASSUME IInv, NEW w \in Workers, NEW q \in Products, NEW n \in Nat,
         NEW c \in Calls, c # NoCall, Goes(w, c),
         lock[q] = Nobody, lock' = [lock EXCEPT ![q] = w],
         mirror' = [mirror EXCEPT ![q] = n], UNCHANGED <<tables, history>>,
         Runs(w) => calls[w].writes \subseteq c.writes,
         <<q, n>> \in c.writes,
         \A p \in Products, k, m \in Nat :
            <<p, k>> \in c.writes /\ <<p, m>> \in c.writes => k = m,
         c.sub = NoSubOrder => c.todo = <<>>,
         c.sub # NoSubOrder =>
            /\ \A p \in Products, k \in Nat : <<p, k>> \in c.writes =>
                 /\ p # q => lock[p] = w
                 /\ k = available[p] + Lines[c.sub][p]
            /\ Complete(c)
            /\ c.from \in timeline[c.sub]
            /\ <<c.from, c.to>> \in Allowed
  PROVE  IInv'
<1>1. /\ calls' \in [Workers -> Calls \cup {NoCall}]
      /\ calls'[w] = c
      /\ \A v \in Workers \ {w} : calls'[v] = calls[v] /\ (Runs(v)' <=> Runs(v))
  BY CallFacts DEF IInv
<1>2. UNCHANGED <<status, timeline, available, expected, astray, unmirrored>>
  BY DEF tables, history
<1>3. /\ lock'[q] = w /\ \A p \in Products \ {q} : lock'[p] = lock[p] /\ mirror'[p] = mirror[p]
      /\ mirror'[q] = n
      /\ lock' \in [Products -> Workers \cup {Nobody}] /\ mirror' \in [Products -> Int]
  BY DEF IInv, TypeOK
<1>4. TypeOK'
  BY <1>1, <1>2, <1>3 DEF IInv, TypeOK
<1>5. ASSUME NEW v \in Workers PROVE Fits(v)'
  <2>1. CASE v = w
    BY <1>1, <1>2, <1>3, <2>1 DEF Fits, Writes
  <2>2. CASE v # w
    <3>1. \A p \in Products : lock[p] = v => lock'[p] = v
      BY <1>3
    <3>2. QED
      BY <1>1, <1>2, <2>2, <3>1 DEF IInv, Fits, Writes
  <2>3. QED
    BY <2>1, <2>2
<1>6. LocksFit'
  <2>1. ASSUME NEW p \in Products, lock'[p] # Nobody
        PROVE  /\ calls'[lock'[p]] # NoCall
               /\ mirror'[p] \in Nat
               /\ <<p, mirror'[p]>> \in calls'[lock'[p]].writes
    <3>1. CASE p = q
      BY <1>1, <1>3, <3>1
    <3>2. CASE p # q
      <4>1. /\ lock'[p] = lock[p] /\ lock[p] \in Workers /\ Runs(lock[p])
            /\ mirror'[p] = mirror[p] /\ mirror[p] \in Nat
            /\ <<p, mirror[p]>> \in calls[lock[p]].writes
        BY <1>3, <2>1, <3>2 DEF IInv, LocksFit, TypeOK, Writes
      <4>2. CASE lock[p] = w
        BY <1>1, <4>1, <4>2
      <4>3. CASE lock[p] # w
        BY <1>1, <4>1, <4>3 DEF Runs
      <4>4. QED
        BY <4>2, <4>3
    <3>3. QED
      BY <3>1, <3>2
  <2>2. QED
    BY <2>1 DEF LocksFit, Runs, Writes
<1>7. MirrorMatchesStock'
  BY <1>2, <1>3 DEF IInv, MirrorMatchesStock
<1>8. QED
  BY <1>2, <1>4, <1>5, <1>6, <1>7
     DEF IInv, StockAddsUp, StatusesFit, EveryStatusIsEarned

LEMMA SetStockKeeps ==
  ASSUME IInv, NEW w \in Workers, NEW q \in Products, NEW n \in StockLevels, SetStock(w, q, n)
  PROVE  IInv'
<1> DEFINE c == Transaction(NoSubOrder, "PENDING", "PENDING", <<>>, {<<q, n>>})
<1>1. n \in Nat /\ {<<q, n>>} \in SUBSET (Products \X Nat)
  OBVIOUS
<1>2. c \in Calls /\ c # NoCall /\ c.sub = NoSubOrder /\ c.writes = {<<q, n>>} /\ c.todo = <<>>
  BY <1>1, StatusFacts, NoLinesFacts
<1>3. /\ Goes(w, c) /\ ~Runs(w) /\ UNCHANGED <<tables, history>>
      /\ lock[q] = Nobody /\ lock' = [lock EXCEPT ![q] = w]
      /\ mirror' = [mirror EXCEPT ![q] = n]
  BY DEF SetStock
<1> HIDE DEF c
<1>4. QED
  BY <1>1, <1>2, <1>3, LockKeeps

LEMMA RestoreKeeps ==
  ASSUME IInv, NEW w \in Workers, RestoreLine(w)
  PROVE  IInv'
<1> DEFINE s == calls[w].sub
           q == Head(calls[w].todo)
           n == available[q] + Lines[s][q]
           W == calls[w].writes \cup {<<q, n>>}
           rest == Tail(calls[w].todo)
           c == Transaction(s, calls[w].from, calls[w].to, rest, W)
<1>1. /\ Runs(w) /\ calls[w].todo # <<>> /\ lock[q] = Nobody
      /\ lock' = [lock EXCEPT ![q] = w] /\ mirror' = [mirror EXCEPT ![q] = n]
      /\ Goes(w, c) /\ UNCHANGED <<tables, history>>
  BY DEF RestoreLine
<1>10. calls[w].sub # NoSubOrder
  BY <1>1 DEF IInv, Fits
<1>2. /\ s \in SubOrders /\ s # NoSubOrder
      /\ calls[w].from \in Statuses /\ calls[w].to \in Statuses
      /\ calls[w].todo \in Seq(Products) /\ calls[w].writes \subseteq Products \X Nat
  BY <1>1, <1>10, RunningCall DEF IInv
<1>3. q \in Products /\ rest \in Seq(Products)
  BY <1>1, <1>2
<1>4. n \in Nat
  BY <1>2, <1>3 DEF IInv, TypeOK
<1>5. W \in SUBSET (Products \X Nat)
  BY <1>2, <1>3, <1>4
<1>6. /\ c \in Calls /\ c # NoCall /\ c.sub = s /\ c.from = calls[w].from
      /\ c.to = calls[w].to /\ c.writes = W /\ c.todo = rest
  <2> HIDE DEF s, q, n, W, rest
  <2>1. QED
    BY <1>2, <1>3, <1>5, TransactionFacts
<1>7. /\ \A p \in Products, k \in Nat : <<p, k>> \in calls[w].writes =>
            lock[p] = w /\ k = available[p] + Lines[s][p]
      /\ Restores(calls[w]) /\ \A p \in ProductsOf(s) : Covers(calls[w], p)
      /\ calls[w].from \in timeline[s] /\ <<calls[w].from, calls[w].to>> \in Allowed
  BY <1>1, <1>2 DEF IInv, Fits, Writes, Complete
<1>8. /\ \A p \in Products, k \in Nat : <<p, k>> \in W =>
            /\ p # q => lock[p] = w
            /\ k = available[p] + Lines[s][p]
      /\ calls[w].writes \subseteq W /\ <<q, n>> \in W
  BY <1>7
<1> HIDE DEF s, q, n, W, rest, c
<1>9. /\ \A p \in Products, k, m \in Nat : <<p, k>> \in c.writes /\ <<p, m>> \in c.writes => k = m
      /\ \A p \in Products, k \in Nat : <<p, k>> \in c.writes =>
            /\ p # q => lock[p] = w
            /\ k = available[p] + Lines[c.sub][p]
      /\ <<q, n>> \in c.writes /\ calls[w].writes \subseteq c.writes
  BY <1>6, <1>8
<1>11. c.from \in timeline[c.sub] /\ <<c.from, c.to>> \in Allowed /\ c.sub # NoSubOrder
  BY <1>2, <1>6, <1>7
<1>12. Complete(c)
  <2>1. Restores(c)
    BY <1>6, <1>7 DEF Restores
  <2>2. ASSUME NEW p \in ProductsOf(s) PROVE Covers(c, p)
    <3>1. CASE \E k \in Nat : <<p, k>> \in calls[w].writes
      BY <1>6, <1>8, <3>1 DEF Covers
    <3>2. CASE \E i \in 1 .. Len(calls[w].todo) : calls[w].todo[i] = p
      <4>1. PICK i \in 1 .. Len(calls[w].todo) : calls[w].todo[i] = p
        BY <3>2
      <4>2. CASE i = 1
        BY <1>4, <1>6, <1>8, <4>1, <4>2 DEF Covers, q
      <4>3. CASE i # 1
        <5>1. i - 1 \in 1 .. Len(rest) /\ rest[i - 1] = p
          BY <1>1, <1>2, <4>1, <4>3 DEF rest
        <5>2. QED
          BY <1>6, <5>1 DEF Covers
      <4>4. QED
        BY <4>2, <4>3
    <3>3. QED
      BY <1>7, <3>1, <3>2 DEF Covers
  <2>3. QED
    BY <1>6, <2>1, <2>2 DEF Complete
<1>13. QED
  BY <1>1, <1>3, <1>4, <1>6, <1>9, <1>11, <1>12, LockKeeps


-----------------------------------------------------------------------------
(***************************************************************************)
(* The end of a transaction.                                               *)
(***************************************************************************)
LEMMA WrittenFacts ==
  ASSUME IInv, NEW w \in Workers, Runs(w), NEW p \in Products
  PROVE  /\ StockAfter(w, p) \in Nat
         /\ Written(w, p) = {} => StockAfter(w, p) = available[p]
         /\ Written(w, p) # {} => Writes(w, p, StockAfter(w, p))
         /\ \A n \in Nat : Writes(w, p, n) => Written(w, p) # {} /\ StockAfter(w, p) = n
<1>1. calls[w].writes \subseteq Products \X Nat
  BY RunningCall DEF IInv
<1>2. \A n : n \in Written(w, p) <=> n \in Nat /\ Writes(w, p, n)
  BY <1>1 DEF Written, Writes
<1>3. \A n, k \in Nat : Writes(w, p, n) /\ Writes(w, p, k) => n = k
  BY DEF IInv, Fits
<1>4. CASE Written(w, p) = {}
  BY <1>2, <1>4 DEF StockAfter, IInv, TypeOK
<1>5. CASE Written(w, p) # {}
  <2>1. StockAfter(w, p) \in Written(w, p)
    BY <1>5 DEF StockAfter
  <2>2. QED
    BY <1>2, <1>3, <1>5, <2>1
<1>6. QED
  BY <1>4, <1>5

(***************************************************************************)
(* The request of a sub-order writes what its transition gives back, going *)
(* by the status it has read.                                              *)
(***************************************************************************)
LEMMA CommitRestores ==
  ASSUME IInv, NEW w \in Workers, Runs(w), calls[w].todo = <<>>,
         calls[w].sub # NoSubOrder, NEW p \in Products
  PROVE  StockAfter(w, p) =
            available[p] + Taken(calls[w].from, calls[w].sub, p)
                         - Taken(calls[w].to, calls[w].sub, p)
<1> DEFINE s == calls[w].sub
<1>1. /\ StockAfter(w, p) \in Nat
      /\ Written(w, p) = {} => StockAfter(w, p) = available[p]
      /\ Written(w, p) # {} => Writes(w, p, StockAfter(w, p))
      /\ \A n \in Nat : Writes(w, p, n) => Written(w, p) # {} /\ StockAfter(w, p) = n
  BY WrittenFacts
<1>2. s \in SubOrders /\ available[p] \in Nat /\ Lines[s][p] \in Nat
  BY RunningCall DEF IInv, TypeOK
<1>3. /\ \A n \in Nat : Writes(w, p, n) => n = available[p] + Lines[s][p]
      /\ Restores(calls[w]) => \A q \in ProductsOf(s) : Covers(calls[w], q)
      /\ ~Restores(calls[w]) => calls[w].writes = {}
      /\ <<calls[w].from, calls[w].to>> \in Allowed
  <2>1. Fits(w)
    BY DEF IInv
  <2>2. QED
    BY <2>1 DEF Fits, Complete
<1>4. CASE Restores(calls[w])
  <2>1. Taken(calls[w].from, s, p) = Lines[s][p] /\ Taken(calls[w].to, s, p) = 0
    BY <1>4 DEF Restores, Taken, Sold
  <2>2. CASE p \in ProductsOf(s)
    <3>1. PICK n \in Nat : Writes(w, p, n)
      BY <1>3, <1>4, <2>2 DEF Covers, Writes
    <3>2. QED
      BY <1>1, <1>2, <1>3, <2>1, <3>1
  <2>3. CASE p \notin ProductsOf(s)
    <3>1. Lines[s][p] = 0
      BY <1>2, <2>3 DEF ProductsOf
    <3>2. CASE Written(w, p) = {}
      BY <1>1, <1>2, <2>1, <3>1, <3>2
    <3>3. CASE Written(w, p) # {}
      BY <1>1, <1>2, <1>3, <2>1, <3>1, <3>3
    <3>4. QED
      BY <3>2, <3>3
  <2>4. QED
    BY <2>2, <2>3
<1>5. CASE ~Restores(calls[w])
  <2>1. StockAfter(w, p) = available[p]
    BY <1>1, <1>3, <1>5 DEF Written
  <2>2. Taken(calls[w].from, s, p) = Taken(calls[w].to, s, p)
    BY <1>3, <1>5 DEF Allowed, Restores, Taken, Sold
  <2>3. Taken(calls[w].to, s, p) \in Nat
    BY <1>2 DEF Taken
  <2>4. QED
    BY <1>2, <2>1, <2>2, <2>3
<1>6. QED
  BY <1>4, <1>5

LEMMA CommitKeeps == ASSUME IInv, NEW w \in Workers, Commit(w) PROVE IInv'
<1> DEFINE s == calls[w].sub
           to == calls[w].to
<1>1. /\ Runs(w) /\ calls[w].todo = <<>>
      /\ \A p \in Products : Written(w, p) # {} => lock[p] \in {w, Nobody}
      /\ status' = [t \in SubOrders |-> IF t = s THEN to ELSE status[t]]
      /\ timeline' = [t \in SubOrders |-> IF t = s THEN timeline[t] \cup {to} ELSE timeline[t]]
      /\ available' = [p \in Products |-> StockAfter(w, p)]
      /\ lock' = [p \in Products |-> IF Locks(w, p) THEN Nobody ELSE lock[p]]
      /\ expected' = [p \in Products |->
                            IF s # NoSubOrder
                            THEN expected[p] + Taken(status[s], s, p) - Taken(to, s, p)
                            ELSE IF Locks(w, p) THEN StockAfter(w, p) ELSE expected[p]]
      /\ astray' = {p \in Products :
                        \/ p \in astray /\ ~(s = NoSubOrder /\ Locks(w, p))
                        \/ Misled(w) /\ p \in ProductsOf(s)
                        \/ s = NoSubOrder /\ ~Locks(w, p) /\ StockAfter(w, p) # available[p]}
      /\ unmirrored' = {p \in Products : ~Locks(w, p) /\
                                (p \in unmirrored \/ StockAfter(w, p) # available[p])}
      /\ Goes(w, NoCall) /\ mirror' = mirror
  BY DEF Commit
<1>2. /\ calls' \in [Workers -> Calls \cup {NoCall}]
      /\ ~Runs(w)'
      /\ \A v \in Workers \ {w} : calls'[v] = calls[v] /\ (Runs(v)' <=> Runs(v))
  BY <1>1, CallFacts DEF IInv, Runs
<1>3. s \in SubOrders \cup {NoSubOrder} /\ to \in Statuses
  BY <1>1, RunningCall DEF IInv
<1>4. \A p \in Products :
         /\ StockAfter(w, p) \in Nat
         /\ Written(w, p) = {} => StockAfter(w, p) = available[p]
         /\ Written(w, p) # {} => Writes(w, p, StockAfter(w, p))
         /\ \A n \in Nat : Writes(w, p, n) => Written(w, p) # {} /\ StockAfter(w, p) = n
  BY <1>1, WrittenFacts
<1>5. s # NoSubOrder =>
         /\ \A p \in Products, n \in Nat :
                Writes(w, p, n) => lock[p] = w /\ n = available[p] + Lines[s][p]
         /\ calls[w].from \in timeline[s] /\ <<calls[w].from, to>> \in Allowed
  BY <1>1 DEF IInv, Fits
<1>51. s # NoSubOrder /\ ~Misled(w) => (calls[w].from \in Sold <=> status[s] \in Sold)
  BY DEF Misled
<1>52. s # NoSubOrder => \A p \in Products :
         StockAfter(w, p) = available[p] + Taken(calls[w].from, s, p) - Taken(to, s, p)
  BY <1>1, CommitRestores
<1> HIDE DEF s, to
<1>53. \A p \in Products : available[p] \in Nat /\ expected[p] \in Int
  BY DEF IInv, TypeOK
<1>54. s # NoSubOrder => \A p \in Products :
            /\ Lines[s][p] \in Nat
            /\ \A st : Taken(st, s, p) \in Nat
            /\ p \notin ProductsOf(s) => Lines[s][p] = 0
  <2>1. ASSUME s # NoSubOrder, NEW p \in Products PROVE Lines[s][p] \in Nat
    BY <1>3, <2>1
  <2>2. ASSUME s # NoSubOrder, NEW p \in Products, NEW st PROVE Taken(st, s, p) \in Nat
    BY <2>1, <2>2 DEF Taken
  <2>3. ASSUME s # NoSubOrder, NEW p \in Products, p \notin ProductsOf(s)
        PROVE  Lines[s][p] = 0
    BY <2>1, <2>3 DEF ProductsOf
  <2>4. QED
    BY <2>1, <2>2, <2>3
<1>6. StockAddsUp'
  <2>1. ASSUME NEW p \in Products, p \notin astray' PROVE available'[p] = expected'[p]
    <3>1. available'[p] = StockAfter(w, p)
      BY <1>1
    <3>2. CASE s = NoSubOrder /\ Locks(w, p)
      BY <1>1, <3>1, <3>2
    <3>3. CASE s = NoSubOrder /\ ~Locks(w, p)
      BY <1>1, <2>1, <3>1, <3>3 DEF IInv, StockAddsUp
    <3>4. CASE s # NoSubOrder
      <4>1. available[p] = expected[p]
        BY <1>1, <2>1, <3>4 DEF IInv, StockAddsUp
      <4>2. Taken(calls[w].from, s, p) = Taken(status[s], s, p)
        <5>1. CASE Misled(w)
          <6>1. Lines[s][p] = 0
            BY <1>1, <1>54, <2>1, <3>4, <5>1
          <6>2. QED
            BY <6>1 DEF Taken
        <5>2. CASE ~Misled(w)
          BY <1>51, <3>4, <5>2 DEF Taken
        <5>3. QED
          BY <5>1, <5>2
      <4>3. expected'[p] = expected[p] + Taken(status[s], s, p) - Taken(to, s, p)
        BY <1>1, <3>4
      <4>4. QED
        BY <1>52, <3>1, <3>4, <4>1, <4>2, <4>3
    <3>5. QED
      BY <3>2, <3>3, <3>4
  <2>2. QED
    BY <2>1 DEF StockAddsUp
<1>7. TypeOK'
  <2>1. status' \in [SubOrders -> Statuses] /\ timeline' \in [SubOrders -> SUBSET Statuses]
    BY <1>1, <1>3 DEF IInv, TypeOK
  <2>2. available' \in [Products -> Nat]
    BY <1>1, <1>4
  <2>3. expected' \in [Products -> Int]
    <3>1. ASSUME NEW p \in Products PROVE expected'[p] \in Int
      <4>1. s # NoSubOrder => Taken(status[s], s, p) \in Nat /\ Taken(to, s, p) \in Nat
        BY <1>54
      <4>2. QED
        BY <1>1, <1>4, <1>53, <4>1
    <3>2. QED
      BY <1>1, <3>1
  <2>4. lock' \in [Products -> Workers \cup {Nobody}]
    BY <1>1 DEF IInv, TypeOK
  <2>5. astray' \subseteq Products /\ unmirrored' \subseteq Products /\ mirror' \in [Products -> Int]
    BY <1>1 DEF IInv, TypeOK
  <2>6. QED
    BY <1>2, <2>1, <2>2, <2>3, <2>4, <2>5 DEF TypeOK
<1>8. ASSUME NEW v \in Workers PROVE Fits(v)'
  <2>1. CASE v = w
    BY <1>2, <2>1 DEF Fits
  <2>2. CASE v # w /\ Runs(v)
    <3>1. calls'[v] = calls[v] /\ calls[v].sub \in SubOrders \cup {NoSubOrder}
      BY <1>2, <2>2, RunningCall DEF IInv
    <3>2. ASSUME calls[v].sub # NoSubOrder
          PROVE  calls[v].from \in timeline'[calls[v].sub] /\ <<calls[v].from, calls[v].to>> \in Allowed
      BY <1>1, <2>2, <3>1, <3>2 DEF IInv, Fits
    <3>3. ASSUME calls[v].sub # NoSubOrder, NEW p \in Products, NEW n \in Nat, Writes(v, p, n)
          PROVE  lock'[p] = v /\ n = available'[p] + Lines[calls[v].sub][p]
      <4>1. lock[p] = v /\ n = available[p] + Lines[calls[v].sub][p]
        BY <2>2, <3>3 DEF IInv, Fits
      <4>2. Written(w, p) = {} /\ ~Locks(w, p)
        BY <1>1, <2>2, <4>1 DEF Locks
      <4>3. QED
        BY <1>1, <1>4, <4>1, <4>2
    <3>4. QED
      BY <2>2, <3>1, <3>2, <3>3 DEF IInv, Fits, Writes
  <2>3. CASE v # w /\ ~Runs(v)
    BY <1>2, <2>3 DEF Fits
  <2>4. QED
    BY <2>1, <2>2, <2>3
<1>9. LocksFit'
  <2>1. ASSUME NEW p \in Products, lock'[p] # Nobody
        PROVE  /\ lock'[p] = lock[p] /\ lock[p] \in Workers \ {w}
               /\ Runs(lock[p]) /\ mirror[p] \in Nat /\ Writes(lock[p], p, mirror[p])
    BY <1>1, <2>1 DEF Locks, IInv, LocksFit, TypeOK
  <2>2. ASSUME NEW p \in Products, lock'[p] # Nobody
        PROVE  /\ calls'[lock'[p]] # NoCall /\ mirror'[p] \in Nat
               /\ <<p, mirror'[p]>> \in calls'[lock'[p]].writes
    BY <1>1, <1>2, <2>1, <2>2 DEF Runs, Writes
  <2>3. QED
    BY <2>2 DEF LocksFit, Runs, Writes
<1>10. MirrorMatchesStock'
  <2>1. ASSUME NEW p \in Products, lock'[p] = Nobody, p \notin unmirrored'
        PROVE  mirror[p] = StockAfter(w, p)
    <3>1. CASE Locks(w, p)
      <4>1. mirror[p] \in Nat /\ Writes(w, p, mirror[p])
        BY <3>1 DEF IInv, LocksFit, Locks
      <4>2. QED
        BY <1>4, <4>1
    <3>2. CASE ~Locks(w, p)
      BY <1>1, <2>1, <3>2 DEF IInv, MirrorMatchesStock
    <3>3. QED
      BY <3>1, <3>2
  <2>2. QED
    BY <1>1, <2>1 DEF MirrorMatchesStock
<1>11. StatusesFit'
  <2>1. ASSUME NEW t \in SubOrders PROVE status'[t] \in timeline'[t] /\ timeline[t] \subseteq timeline'[t]
    BY <1>1 DEF IInv, StatusesFit
  <2>2. ASSUME NEW t \in SubOrders, NEW x \in timeline'[t] \ {"PENDING", "CONFIRMED"}
        PROVE  \E from \in timeline'[t] : <<from, x>> \in Allowed
    <3>1. CASE x \in timeline[t]
      BY <2>1, <2>2, <3>1 DEF IInv, StatusesFit, EveryStatusIsEarned
    <3>2. CASE x \notin timeline[t]
      <4>1. t = s /\ x = to /\ s # NoSubOrder
        BY <1>1, <2>2, <3>2
      <4>2. QED
        BY <1>5, <2>1, <4>1
    <3>3. QED
      BY <3>1, <3>2
  <2>3. QED
    BY <2>1, <2>2 DEF StatusesFit, EveryStatusIsEarned
<1>12. QED
  BY <1>6, <1>7, <1>8, <1>9, <1>10, <1>11 DEF IInv

LEMMA RollbackKeeps == ASSUME IInv, NEW w \in Workers, Rollback(w) PROVE IInv'
<1>1. /\ lock' = [p \in Products |-> IF Locks(w, p) THEN Nobody ELSE lock[p]]
      /\ unmirrored' = unmirrored \cup {p \in Products : Locks(w, p)}
      /\ Goes(w, NoCall)
      /\ UNCHANGED <<status, timeline, available, mirror, expected, astray>>
  BY DEF Rollback, tables
<1>2. /\ calls' \in [Workers -> Calls \cup {NoCall}]
      /\ ~Runs(w)'
      /\ \A v \in Workers \ {w} : calls'[v] = calls[v] /\ (Runs(v)' <=> Runs(v))
  BY <1>1, CallFacts DEF IInv, Runs
<1>3. TypeOK'
  BY <1>1, <1>2 DEF IInv, TypeOK
<1>4. ASSUME NEW v \in Workers PROVE Fits(v)'
  <2>1. CASE v = w
    BY <1>2, <2>1 DEF Fits
  <2>2. CASE v # w
    <3>1. calls'[v] = calls[v] /\ (Runs(v)' <=> Runs(v))
          /\ \A p \in Products : lock[p] = v => lock'[p] = v
      BY <1>1, <1>2, <2>2 DEF Locks
    <3>2. UNCHANGED <<available, timeline>>
      BY <1>1
    <3>3. Fits(v)
      BY DEF IInv
    <3>4. QED
      BY <3>1, <3>2, <3>3 DEF Fits, Writes
  <2>3. QED
    BY <2>1, <2>2
<1>5. LocksFit'
  <2>1. ASSUME NEW p \in Products, lock'[p] # Nobody
        PROVE  /\ lock'[p] = lock[p] /\ lock[p] \in Workers \ {w}
               /\ Runs(lock[p]) /\ mirror[p] \in Nat /\ Writes(lock[p], p, mirror[p])
    BY <1>1, <2>1 DEF Locks, IInv, LocksFit, TypeOK
  <2>2. ASSUME NEW p \in Products, lock'[p] # Nobody
        PROVE  /\ calls'[lock'[p]] # NoCall /\ mirror'[p] \in Nat
               /\ <<p, mirror'[p]>> \in calls'[lock'[p]].writes
    BY <1>1, <1>2, <2>1, <2>2 DEF Runs, Writes
  <2>3. QED
    BY <2>2 DEF LocksFit, Runs, Writes
<1>6. MirrorMatchesStock'
  BY <1>1 DEF IInv, MirrorMatchesStock, Locks
<1>7. QED
  BY <1>1, <1>3, <1>4, <1>5, <1>6
     DEF IInv, StockAddsUp, StatusesFit, EveryStatusIsEarned

(***************************************************************************)
(* A confirmed payment takes units of rows that nobody has locked.         *)
(***************************************************************************)
LEMMA ConfirmKeeps == ASSUME IInv, NEW s \in SubOrders, Confirm(s) PROVE IInv'
<1>1. /\ UNCHANGED <<lock, calls, astray, unmirrored>>
      /\ status' = [status EXCEPT ![s] = "CONFIRMED"]
      /\ timeline' = [timeline EXCEPT ![s] = @ \cup {"CONFIRMED"}]
      /\ available' = [p \in Products |-> available[p] - Lines[s][p]]
      /\ mirror' = [p \in Products |-> mirror[p] - Lines[s][p]]
      /\ expected' = [p \in Products |-> expected[p] - Lines[s][p]]
  BY DEF Confirm
<1>2. ASSUME NEW p \in Products
      PROVE  /\ Lines[s][p] \in Nat /\ available[p] \in Nat
             /\ mirror[p] \in Int /\ expected[p] \in Int
             /\ lock[p] # Nobody => Lines[s][p] = 0
             /\ Lines[s][p] <= available[p]
  BY DEF Confirm, ProductsOf, IInv, TypeOK
<1>3. TypeOK'
  <2>1. available' \in [Products -> Nat] /\ expected' \in [Products -> Int]
        /\ mirror' \in [Products -> Int]
    BY <1>1, <1>2
  <2>2. status' \in [SubOrders -> Statuses] /\ timeline' \in [SubOrders -> SUBSET Statuses]
    BY <1>1, StatusFacts DEF IInv, TypeOK
  <2>3. QED
    BY <1>1, <2>1, <2>2 DEF IInv, TypeOK
<1>4. \A t \in SubOrders : timeline[t] \subseteq timeline'[t] /\ status'[t] \in timeline'[t]
                          /\ timeline'[t] \subseteq timeline[t] \cup {"CONFIRMED"}
  BY <1>1 DEF IInv, StatusesFit, TypeOK
<1>5. \A p \in Products : lock[p] # Nobody => available'[p] = available[p] /\ mirror'[p] = mirror[p]
  BY <1>1, <1>2
<1>6. ASSUME NEW v \in Workers PROVE Fits(v)'
  <2>1. CASE Runs(v)
    <3>1. calls[v].sub \in SubOrders \cup {NoSubOrder}
      BY <2>1, RunningCall DEF IInv
    <3>2. Fits(v) /\ calls'[v] = calls[v] /\ lock' = lock
      BY <1>1 DEF IInv
    <3>3. ASSUME calls[v].sub # NoSubOrder, NEW p \in Products, NEW n \in Nat, Writes(v, p, n)
          PROVE  lock[p] = v /\ n = available'[p] + Lines[calls[v].sub][p]
      <4>1. lock[p] = v /\ n = available[p] + Lines[calls[v].sub][p]
        BY <2>1, <3>2, <3>3 DEF Fits
      <4>2. QED
        BY <1>5, <4>1
    <3>4. ASSUME calls[v].sub # NoSubOrder
          PROVE  calls[v].from \in timeline'[calls[v].sub] /\ <<calls[v].from, calls[v].to>> \in Allowed
      BY <1>4, <2>1, <3>1, <3>2, <3>4 DEF Fits
    <3>5. QED
      BY <2>1, <3>2, <3>3, <3>4 DEF Fits, Writes
  <2>2. CASE ~Runs(v)
    BY <1>1, <2>2 DEF Fits, Runs
  <2>3. QED
    BY <2>1, <2>2
<1>7. LocksFit'
  BY <1>1, <1>5 DEF IInv, LocksFit, Runs, Writes
<1>8. StockAddsUp' /\ MirrorMatchesStock'
  BY <1>1, <1>2 DEF IInv, StockAddsUp, MirrorMatchesStock
<1>9. StatusesFit'
  BY <1>4 DEF IInv, StatusesFit, EveryStatusIsEarned
<1>10. QED
  BY <1>3, <1>6, <1>7, <1>8, <1>9 DEF IInv

-----------------------------------------------------------------------------
LEMMA InitHolds == Init => IInv
<1> SUFFICES ASSUME Init PROVE IInv
  OBVIOUS
<1> USE DEF Init
<1>1. /\ available \in [Products -> Nat] /\ mirror = available /\ expected = available
      /\ \A p \in Products : lock[p] = Nobody
      /\ \A w \in Workers : ~Runs(w)
  BY DEF Runs
<1>2. TypeOK
  BY <1>1, StatusFacts DEF TypeOK
<1>3. StatusesFit
  BY DEF StatusesFit, EveryStatusIsEarned
<1>4. QED
  BY <1>1, <1>2, <1>3 DEF IInv, Fits, LocksFit, StockAddsUp, MirrorMatchesStock

LEMMA StutterKeeps == ASSUME IInv, UNCHANGED vars PROVE IInv'
<1>1. /\ UNCHANGED <<status, timeline, available, lock, mirror, calls>>
      /\ UNCHANGED <<expected, astray, unmirrored>>
  BY DEF vars, tables, history
<1>2. TypeOK' /\ StockAddsUp' /\ MirrorMatchesStock' /\ StatusesFit'
  BY <1>1 DEF IInv, TypeOK, StockAddsUp, MirrorMatchesStock, StatusesFit, EveryStatusIsEarned
<1>3. (\A w \in Workers : Fits(w)') /\ LocksFit'
  BY <1>1 DEF IInv, Fits, LocksFit, Runs, Writes
<1>4. QED
  BY <1>2, <1>3 DEF IInv

LEMMA NextKeeps == IInv /\ [Next]_vars => IInv'
<1> SUFFICES ASSUME IInv, [Next]_vars PROVE IInv'
  OBVIOUS
<1>1. ASSUME NEW s \in SubOrders, Confirm(s) PROVE IInv'
  BY <1>1, ConfirmKeeps
<1>2. ASSUME NEW w \in Workers, Begin(w) PROVE IInv'
  BY <1>2, AdvanceKeeps, CancelKeeps, SetStockKeeps, EditKeeps DEF Begin
<1>3. ASSUME NEW w \in Workers, Continue(w) \/ Fails(w) PROVE IInv'
  BY <1>3, RestoreKeeps, CommitKeeps, RollbackKeeps DEF Continue, Fails
<1>4. ASSUME BreakDeadlock PROVE IInv'
  BY <1>4, RollbackKeeps DEF BreakDeadlock
<1>5. QED
  BY <1>1, <1>2, <1>3, <1>4, StutterKeeps DEF Next

(***************************************************************************)
(* Locks, transactions, stock and statuses fit together in every state.    *)
(***************************************************************************)
THEOREM Invariant == Spec => []IInv
<1>1. QED
  BY InitHolds, NextKeeps, PTL DEF Spec

(***************************************************************************)
(* Requests on different sub-orders and changes of the stock neither lose  *)
(* nor double a unit of a product, however they overlap, and the mirror    *)
(* follows; the exceptions are those StockAddsUp and MirrorMatchesStock    *)
(* name.                                                                   *)
(***************************************************************************)
THEOREM StockSound == Spec => []StockIsSound
<1>1. IInv => StockIsSound
  BY DEF IInv, StockIsSound
<1>2. QED
  BY <1>1, Invariant, PTL

(***************************************************************************)
(* No sub-order reaches a status without one that leads to it.             *)
(***************************************************************************)
THEOREM StatusesEarned == Spec => []EveryStatusIsEarned
<1>1. IInv => EveryStatusIsEarned
  BY DEF IInv, StatusesFit
<1>2. QED
  BY <1>1, Invariant, PTL
=============================================================================
