---------------------- MODULE ReservationStoreProofs ----------------------
(***************************************************************************)
(* Proofs about the reservation store, for any number of products,         *)
(* reservations, renewals and clock error.                                 *)
(***************************************************************************)
EXTENDS ReservationStore, FiniteSetTheorems, TLAPS

-----------------------------------------------------------------------------
(***************************************************************************)
(* Counting units.                                                         *)
(***************************************************************************)
Pairs == Reservations \X Quantities

(***************************************************************************)
(* One member stands for as many units as its quantity says.               *)
(***************************************************************************)
LEMMA OneMemberUnits ==
  ASSUME NEW m \in Pairs
  PROVE  /\ IsFiniteSet({m} \X (1..m[2]))
         /\ Cardinality({m} \X (1..m[2])) = m[2]
<1>1. m[2] \in Nat \ {0}
  BY QuantitiesAssumption DEF Pairs
<1>2. IsFiniteSet({m}) /\ Cardinality({m}) = 1
  BY FS_Singleton
<1>3. IsFiniteSet(1..m[2]) /\ Cardinality(1..m[2]) = m[2]
  <2>1. IsFiniteSet(1..m[2]) /\ Cardinality(1..m[2]) = IF 1 > m[2] THEN 0 ELSE m[2] - 1 + 1
    BY <1>1, FS_Interval
  <2>2. QED
    BY <1>1, <2>1
<1>4. /\ IsFiniteSet({m} \X (1..m[2]))
      /\ Cardinality({m} \X (1..m[2])) = Cardinality({m}) * Cardinality(1..m[2])
  BY <1>2, <1>3, FS_Product
<1>5. QED
  BY <1>1, <1>2, <1>3, <1>4

(***************************************************************************)
(* A finite set of members has finitely many units.                        *)
(***************************************************************************)
LEMMA UnitsFinite ==
  ASSUME NEW M \in SUBSET Pairs, IsFiniteSet(M)
  PROVE  IsFiniteSet(Units(M)) /\ UnitsOf(M) \in Nat
<1> DEFINE T == {{m} \X (1..m[2]) : m \in M}
           f == [m \in M |-> {m} \X (1..m[2])]
<1>1. f \in Surjection(M, T)
  BY DEF Surjection
<1>2. IsFiniteSet(T)
  BY <1>1, FS_Surjection
<1>3. \A t \in T : IsFiniteSet(t)
  BY OneMemberUnits
<1>4. IsFiniteSet(UNION T)
  BY <1>2, <1>3, FS_UNION
<1>5. QED
  BY <1>4, FS_CardinalityType DEF Units, UnitsOf

(***************************************************************************)
(* Units carry the name of their member, so set difference commutes with   *)
(* Units, and dropping members drops exactly their units.                  *)
(***************************************************************************)
LEMMA UnitsDifference ==
  ASSUME NEW A, NEW B
  PROVE  Units(A \ B) = Units(A) \ Units(B)
BY DEF Units

(***************************************************************************)
(* Taking a subset of the members out subtracts exactly their units.       *)
(***************************************************************************)
LEMMA UnitsRemove ==
  ASSUME NEW A \in SUBSET Pairs, IsFiniteSet(A), NEW B \in SUBSET A
  PROVE  /\ IsFiniteSet(A \ B)
         /\ IsFiniteSet(B)
         /\ UnitsOf(B) \in Nat
         /\ UnitsOf(A \ B) = UnitsOf(A) - UnitsOf(B)
<1>1. IsFiniteSet(A \ B) /\ IsFiniteSet(B)
  BY FS_Subset
<1>2. IsFiniteSet(Units(A)) /\ IsFiniteSet(Units(B)) /\ UnitsOf(B) \in Nat
  BY <1>1, UnitsFinite
<1>3. Units(A) \cap Units(B) = Units(B)
  BY DEF Units
<1>4. Cardinality(Units(A) \ Units(B))
        = Cardinality(Units(A)) - Cardinality(Units(A) \cap Units(B))
  BY <1>2, FS_Difference
<1>5. QED
  BY <1>1, <1>2, <1>3, <1>4, UnitsDifference DEF UnitsOf

(***************************************************************************)
(* A new member adds its quantity.                                         *)
(***************************************************************************)
LEMMA UnitsAdd ==
  ASSUME NEW A \in SUBSET Pairs, IsFiniteSet(A), NEW m \in Pairs, m \notin A
  PROVE  /\ IsFiniteSet(A \cup {m})
         /\ UnitsOf(A \cup {m}) = UnitsOf(A) + m[2]
<1> DEFINE new == {m} \X (1..m[2])
<1>1. IsFiniteSet(A \cup {m})
  BY FS_AddElement
<1>2. IsFiniteSet(Units(A)) /\ UnitsOf(A) \in Nat
  BY UnitsFinite
<1>3. IsFiniteSet(new) /\ Cardinality(new) = m[2]
  BY OneMemberUnits
<1>4. Units(A \cup {m}) = Units(A) \cup new
  BY DEF Units
<1>5. Units(A) \cap new = {}
  BY DEF Units
<1>6. Cardinality(Units(A) \cup new)
        = Cardinality(Units(A)) + Cardinality(new) - Cardinality(Units(A) \cap new)
  BY <1>2, <1>3, FS_Union
<1>7. m[2] \in Nat
  BY QuantitiesAssumption DEF Pairs
<1>8. Cardinality(Units(A) \cap new) = 0
  BY <1>5, FS_EmptySet
<1>9. Cardinality(Units(A \cup {m})) = Cardinality(Units(A)) + m[2]
  <2>1. Cardinality(Units(A \cup {m})) = Cardinality(Units(A) \cup new)
    BY <1>4
  <2>2. Cardinality(Units(A)) \in Nat
    BY <1>2 DEF UnitsOf
  <2> HIDE DEF new
  <2>3. QED
    BY <1>3, <1>6, <1>7, <1>8, <2>1, <2>2
<1>10. QED
  BY <1>1, <1>9 DEF UnitsOf
-----------------------------------------------------------------------------
(***************************************************************************)
(* The inductive invariant.  CounterMatchesHolds needs the sets of members *)
(* to be finite (TypeOK) and a granted id to be new to every set, which    *)
(* Fresh gives; ActiveHoldIsCounted makes the quantity release.lua and     *)
(* convert.lua subtract that of a member really in the set.                *)
(***************************************************************************)
IInv ==
    /\ TypeOK
    /\ CounterMatchesHolds
    /\ ActiveHoldIsCounted
    /\ OneMemberEach

(***************************************************************************)
(* The bounds on the clocks are integers, and no caller is further off     *)
(* than Skew.                                                              *)
(***************************************************************************)
LEMMA SkewFacts ==
  /\ Lapsed \in Int /\ Lapsed <= 0
  /\ \A d \in Offsets : d \in Int /\ -Skew <= d /\ d <= Skew
BY ClockAssumption DEF Lapsed, Offsets

(***************************************************************************)
(* The bound on the age is a natural number.                               *)
(***************************************************************************)
LEMMA AgeCapIsNat == LongestHold \in Nat /\ AgeCap \in Nat
<1>1. LongestHold \in Nat
  BY ClockAssumption DEF LongestHold
<1>2. QED
  BY <1>1, ClockAssumption DEF AgeCap

(***************************************************************************)
(* The expired members are members of the product they were looked for     *)
(* in.                                                                     *)
(***************************************************************************)
LEMMA ExpiredIsCounted ==
  ASSUME NEW p \in Products, NEW d \in Offsets
  PROVE  Expired(p, d) \subseteq members[p]
BY DEF Expired

(***************************************************************************)
(* The empty store satisfies the invariant.                                *)
(***************************************************************************)
LEMMA InitInv == Init => IInv
<1> SUFFICES ASSUME Init PROVE IInv
  OBVIOUS
<1>1. IsFiniteSet({})
  BY FS_EmptySet
<1>2. TypeOK
  BY <1>1, SkewFacts, AgeCapIsNat DEF Init, TypeOK
<1>3. Units({}) = {}
  BY DEF Units
<1>4. CounterMatchesHolds
  BY <1>3, FS_EmptySet DEF Init, CounterMatchesHolds, UnitsOf
<1>5. ActiveHoldIsCounted /\ OneMemberEach
  BY DEF Init, ActiveHoldIsCounted, OneMemberEach
<1>6. QED
  BY <1>2, <1>4, <1>5 DEF IInv

(***************************************************************************)
(* Taking any counted members out preserves the invariant: what every      *)
(* script but renew.lua does.                                              *)
(***************************************************************************)
LEMMA RemoveInv ==
  ASSUME IInv, NEW p \in Products, NEW gone \in SUBSET members[p],
         Remove(p, gone), stock' \in [Products -> Int]
  PROVE  IInv'
<1> USE DEF IInv
<1>1. members[p] \in SUBSET Pairs /\ IsFiniteSet(members[p])
  BY DEF TypeOK, Pairs
<1>2. /\ IsFiniteSet(members[p] \ gone)
      /\ UnitsOf(gone) \in Nat
      /\ UnitsOf(members[p] \ gone) = UnitsOf(members[p]) - UnitsOf(gone)
  BY <1>1, UnitsRemove
<1>3. TypeOK'
  <2>1. members' \in [Products -> SUBSET (Reservations \X Quantities)]
    BY DEF TypeOK, Remove
  <2>2. \A p1 \in Products : IsFiniteSet(members'[p1])
    BY <1>2 DEF TypeOK, Remove
  <2>3. reserved' \in [Products -> Int]
    BY <1>2 DEF TypeOK, Remove
  <2>4. score' \in [Reservations -> Int]
    BY SkewFacts DEF TypeOK, Remove
  <2>5. hash' \in [Reservations -> Hashes \cup {NoHash}]
    BY DEF TypeOK, Remove
  <2>6. age' \in [Reservations -> 0 .. AgeCap]
    BY AgeCapIsNat DEF TypeOK, Remove
  <2>7. QED
    BY <2>1, <2>2, <2>3, <2>4, <2>5, <2>6 DEF TypeOK
<1>4. CounterMatchesHolds'
  BY <1>2 DEF TypeOK, CounterMatchesHolds, Remove
<1>5. ActiveHoldIsCounted'
  BY NoHashAssumption DEF TypeOK, ActiveHoldIsCounted, Remove, Ids, Hashes
<1>6. OneMemberEach'
  BY DEF TypeOK, OneMemberEach, Remove
<1>7. QED
  BY <1>3, <1>4, <1>5, <1>6

(***************************************************************************)
(* A reservation with a hash has its member among the counted ones, so     *)
(* release.lua and convert.lua take out counted members only.              *)
(***************************************************************************)
LEMMA OwnMember ==
  ASSUME IInv, NEW r \in Reservations, hash[r] # NoHash
  PROVE  /\ hash[r] \in Hashes
         /\ hash[r].product \in Products
         /\ hash[r].qty \in Quantities
         /\ <<r, hash[r].qty>> \in members[hash[r].product]
         /\ score[r] = hash[r].expiresAt
BY DEF IInv, TypeOK, ActiveHoldIsCounted, Hashes

(***************************************************************************)
(* reserve.lua preserves the invariant when it grants: a fresh id adds     *)
(* one member, its units and its hash together.                            *)
(***************************************************************************)
LEMMA GrantInv ==
  ASSUME IInv, NEW p \in Products, NEW r \in Reservations, NEW q \in Quantities,
         NEW d \in Offsets, ReserveGranted(p, r, q, d)
  PROVE  IInv'
<1> USE DEF IInv
<1> DEFINE gone == Expired(p, d)
           kept == members[p] \ gone
<1>1. gone \in SUBSET members[p]
  BY ExpiredIsCounted
<1>2. members[p] \in SUBSET Pairs /\ IsFiniteSet(members[p]) /\ <<r, q>> \in Pairs
  BY DEF TypeOK, Pairs
<1>3. /\ IsFiniteSet(kept)
      /\ UnitsOf(gone) \in Nat
      /\ UnitsOf(kept) = UnitsOf(members[p]) - UnitsOf(gone)
  BY <1>1, <1>2, UnitsRemove
<1>4. \A p1 \in Products : \A m \in members[p1] : m[1] # r
  BY DEF ReserveGranted, Fresh, Counted, Ids
<1>5. /\ IsFiniteSet(kept \cup {<<r, q>>})
      /\ UnitsOf(kept \cup {<<r, q>>}) = UnitsOf(kept) + q
  <2>1. <<r, q>> \notin kept
    BY <1>4
  <2>2. kept \in SUBSET Pairs
    BY <1>2
  <2> HIDE DEF kept
  <2>3. QED
    BY <1>2, <1>3, <2>1, <2>2, UnitsAdd
<1>6. q \in Nat
  BY QuantitiesAssumption
<1> HIDE DEF gone
<1>7. /\ members' = [members EXCEPT ![p] = kept \cup {<<r, q>>}]
      /\ reserved' = [reserved EXCEPT ![p] = @ - UnitsOf(gone) + q]
      /\ stock' = stock
      /\ score' = [s \in Reservations |->
                    IF s = r THEN Ttl + d
                    ELSE IF s \in Ids(gone) THEN Lapsed ELSE score[s]]
      /\ hash' = [s \in Reservations |->
                    IF s = r THEN HashOf(p, q, 0, Ttl + d, Ttl)
                    ELSE IF s \in Ids(gone) THEN NoHash ELSE hash[s]]
      /\ age' = [s \in Reservations |-> IF s \in Ids(gone) THEN 0 ELSE age[s]]
  BY DEF ReserveGranted, gone
<1> HIDE DEF kept
<1>8. TypeOK'
  <2>1. members' \in [Products -> SUBSET (Reservations \X Quantities)]
    BY <1>2, <1>7 DEF TypeOK, kept
  <2>2. \A p1 \in Products : IsFiniteSet(members'[p1])
    BY <1>5, <1>7 DEF TypeOK
  <2>3. reserved' \in [Products -> Int] /\ stock' \in [Products -> Int]
    BY <1>3, <1>6, <1>7 DEF TypeOK
  <2>4. score' \in [Reservations -> Int]
    BY <1>7, SkewFacts, ClockAssumption DEF TypeOK
  <2>5. HashOf(p, q, 0, Ttl + d, Ttl) \in Hashes
    BY SkewFacts, ClockAssumption DEF Hashes, HashOf
  <2>6. hash' \in [Reservations -> Hashes \cup {NoHash}]
    BY <1>7, <2>5 DEF TypeOK
  <2>7. age' \in [Reservations -> 0 .. AgeCap]
    BY <1>7, AgeCapIsNat DEF TypeOK
  <2>8. QED
    BY <2>1, <2>2, <2>3, <2>4, <2>6, <2>7 DEF TypeOK
<1>9. CounterMatchesHolds'
  <2>1. reserved'[p] = UnitsOf(members'[p])
    BY <1>3, <1>5, <1>6, <1>7 DEF TypeOK, CounterMatchesHolds
  <2>2. \A p1 \in Products \ {p} : reserved'[p1] = UnitsOf(members'[p1])
    BY <1>7 DEF TypeOK, CounterMatchesHolds
  <2>3. QED
    BY <2>1, <2>2 DEF CounterMatchesHolds
<1>10. ActiveHoldIsCounted'
  <2> SUFFICES ASSUME NEW s \in Reservations, hash'[s] # NoHash
               PROVE  /\ <<s, hash'[s].qty>> \in members'[hash'[s].product]
                      /\ score'[s] = hash'[s].expiresAt
    BY DEF ActiveHoldIsCounted
  <2>1. CASE s = r
    BY <1>7, <2>1 DEF TypeOK, HashOf
  <2>2. CASE s # r
    <3>1. s \notin Ids(gone) /\ hash'[s] = hash[s] /\ score'[s] = score[s]
      BY <1>7, <2>2
    <3>2. /\ <<s, hash[s].qty>> \in members[hash[s].product]
          /\ score[s] = hash[s].expiresAt
          /\ hash[s].product \in Products
      BY <3>1, OwnMember
    <3>3. <<s, hash[s].qty>> \notin gone
      BY <3>1 DEF Ids
    <3>4. QED
      BY <1>7, <3>1, <3>2, <3>3 DEF TypeOK, kept
  <2>3. QED
    BY <2>1, <2>2
<1>11. OneMemberEach'
  <2> SUFFICES ASSUME NEW p1 \in Products, NEW p2 \in Products,
                      NEW m1 \in members'[p1], NEW m2 \in members'[p2],
                      m1[1] = m2[1]
               PROVE  p1 = p2 /\ m1 = m2
    BY DEF OneMemberEach
  <2>1. m1 \in members[p1] \/ (p1 = p /\ m1 = <<r, q>>)
    BY <1>7 DEF TypeOK, kept
  <2>2. m2 \in members[p2] \/ (p2 = p /\ m2 = <<r, q>>)
    BY <1>7 DEF TypeOK, kept
  <2>3. QED
    BY <1>4, <2>1, <2>2 DEF OneMemberEach
<1>12. QED
  BY <1>8, <1>9, <1>10, <1>11

(***************************************************************************)
(* renew.lua preserves the invariant: score and hash move together.        *)
(***************************************************************************)
LEMMA RenewInv ==
  ASSUME IInv, NEW r \in Reservations, NEW d \in Offsets, Renew(r, d)
  PROVE  IInv'
<1> USE DEF IInv
<1>1. hash[r] \in Hashes
  BY OwnMember DEF Renew
<1> DEFINE h == HashOf(hash[r].product, hash[r].qty, hash[r].renewals + 1, Ttl + d, Ttl)
<1>2. hash' = [hash EXCEPT ![r] = h]
  BY DEF Renew
<1>3. /\ h \in Hashes
      /\ h.product = hash[r].product /\ h.qty = hash[r].qty /\ h.expiresAt = Ttl + d
  BY <1>1, SkewFacts, ClockAssumption DEF Hashes, HashOf, Renew
<1> HIDE DEF h
<1>4. TypeOK'
  <2>1. Ttl + d \in Int
    BY SkewFacts, ClockAssumption
  <2>2. hash' \in [Reservations -> Hashes \cup {NoHash}]
    BY <1>2, <1>3 DEF TypeOK
  <2>3. QED
    BY <2>1, <2>2 DEF TypeOK, Renew
<1>5. CounterMatchesHolds' /\ OneMemberEach'
  BY DEF CounterMatchesHolds, OneMemberEach, Renew
<1>6. ActiveHoldIsCounted'
  BY <1>2, <1>3 DEF TypeOK, ActiveHoldIsCounted, Renew
<1>7. QED
  BY <1>4, <1>5, <1>6

(***************************************************************************)
(* Time preserves the invariant: a hash may go, its member stays counted.  *)
(***************************************************************************)
LEMMA TickInv == ASSUME IInv, Tick PROVE IInv'
<1> USE DEF IInv
<1>1. \A t \in Int : Sooner(t) \in Int
  BY SkewFacts DEF Sooner
<1>2. \A r \in Reservations : hash'[r] # NoHash =>
        /\ hash[r] \in Hashes
        /\ hash[r].ttl # 1
        /\ hash'[r] = Older(hash[r])
  BY NoHashAssumption DEF Tick, TypeOK, HashLeft
<1>3. \A r \in Reservations : hash'[r] # NoHash =>
        /\ hash'[r] \in Hashes
        /\ hash'[r].product = hash[r].product
        /\ hash'[r].qty = hash[r].qty
        /\ hash'[r].expiresAt = Sooner(hash[r].expiresAt)
  <2>1. \A h \in Hashes : h.ttl # 1 =>
          /\ Older(h) \in Hashes
          /\ Older(h).product = h.product
          /\ Older(h).qty = h.qty
          /\ Older(h).expiresAt = Sooner(h.expiresAt)
    BY <1>1, ClockAssumption DEF Hashes, Older, HashOf
  <2>2. QED
    BY <1>2, <2>1
<1>4. TypeOK'
  <2>1. hash' \in [Reservations -> Hashes \cup {NoHash}]
    BY <1>3 DEF Tick
  <2>2. score' \in [Reservations -> Int]
    BY <1>1 DEF Tick, TypeOK
  <2>3. age' \in [Reservations -> 0 .. AgeCap]
    BY AgeCapIsNat DEF Tick, TypeOK
  <2>4. QED
    BY <2>1, <2>2, <2>3 DEF Tick, TypeOK
<1>5. CounterMatchesHolds' /\ OneMemberEach'
  BY DEF CounterMatchesHolds, OneMemberEach, Tick
<1>6. ActiveHoldIsCounted'
  <2> SUFFICES ASSUME NEW r \in Reservations, hash'[r] # NoHash
               PROVE  /\ <<r, hash'[r].qty>> \in members'[hash'[r].product]
                      /\ score'[r] = hash'[r].expiresAt
    BY DEF ActiveHoldIsCounted
  <2>1. hash[r] # NoHash
    BY <1>2, NoHashAssumption
  <2>2. QED
    BY <1>3, <2>1, OwnMember DEF Tick, TypeOK
<1>7. QED
  BY <1>4, <1>5, <1>6

(***************************************************************************)
(* Every step of the store preserves the invariant.                        *)
(***************************************************************************)
LEMMA NextInv == IInv /\ [Next]_vars => IInv'
<1> SUFFICES ASSUME IInv, [Next]_vars PROVE IInv'
  OBVIOUS
<1>0. stock \in [Products -> Int] /\ Quantities \subseteq Int /\ StockLevels \subseteq Int
  BY QuantitiesAssumption, StockLevelsAssumption DEF IInv, TypeOK
<1>1. ASSUME NEW p \in Products, NEW d \in Offsets, Reap(p, d) PROVE IInv'
  BY <1>0, <1>1, ExpiredIsCounted, RemoveInv DEF Reap
<1>2. ASSUME NEW p \in Products, NEW q \in Quantities, NEW d \in Offsets,
             ReserveRejected(p, q, d)
      PROVE  IInv'
  BY <1>0, <1>2, ExpiredIsCounted, RemoveInv DEF ReserveRejected
<1>3. ASSUME NEW p \in Products, NEW q \in Quantities, NEW d \in Offsets,
             ConvertLapsed(p, q, d)
      PROVE  IInv'
  <2>1. stock' \in [Products -> Int]
    BY <1>0, <1>3 DEF ConvertLapsed
  <2>2. QED
    BY <1>3, <2>1, ExpiredIsCounted, RemoveInv DEF ConvertLapsed
<1>4. ASSUME NEW r \in Reservations, NEW d \in Offsets, Release(r, d) PROVE IInv'
  BY <1>0, <1>4, OwnMember, ExpiredIsCounted, RemoveInv DEF Release
<1>5. ASSUME NEW r \in Reservations, NEW d \in Offsets, ConvertHeld(r, d) PROVE IInv'
  <2>1. hash[r].product \in Products /\ hash[r].qty \in Int
    BY <1>0, <1>5, OwnMember DEF ConvertHeld
  <2>2. stock' \in [Products -> Int]
    BY <1>0, <1>5, <2>1 DEF ConvertHeld
  <2>3. QED
    BY <1>5, <2>2, OwnMember, ExpiredIsCounted, RemoveInv DEF ConvertHeld
<1>6. ASSUME Resync PROVE IInv'
  BY <1>0, <1>6 DEF Resync, SyncStockMirror, IInv, TypeOK, CounterMatchesHolds,
                    ActiveHoldIsCounted, OneMemberEach
<1>7. CASE UNCHANGED vars
  BY <1>7 DEF vars, IInv, TypeOK, CounterMatchesHolds, ActiveHoldIsCounted, OneMemberEach
<1>8. QED
  BY <1>1, <1>2, <1>3, <1>4, <1>5, <1>6, <1>7, GrantInv, RenewInv, TickInv
     DEF Next, Script, Sellable

(***************************************************************************)
(* Every reachable state satisfies the inductive invariant.                *)
(***************************************************************************)
THEOREM Invariant == Spec => []IInv
<1>1. QED
  BY InitInv, NextInv, PTL DEF Spec

(***************************************************************************)
(* Every key of the store holds a value of its type, always.               *)
(***************************************************************************)
THEOREM TypeCorrect == Spec => []TypeOK
BY Invariant, PTL DEF IInv

(***************************************************************************)
(* reserved_total is always the units of the members in the sorted set.    *)
(***************************************************************************)
THEOREM CounterCorrect == Spec => []CounterMatchesHolds
BY Invariant, PTL DEF IInv

(***************************************************************************)
(* A hold with a hash is always counted, with the expiry the hash states.  *)
(***************************************************************************)
THEOREM ActiveCounted == Spec => []ActiveHoldIsCounted
BY Invariant, PTL DEF IInv

(***************************************************************************)
(* A reservation id never counts twice.                                    *)
(***************************************************************************)
THEOREM CountedOnce == Spec => []OneMemberEach
BY Invariant, PTL DEF IInv

-----------------------------------------------------------------------------
(***************************************************************************)
(* Overselling.  A set of members that contains m has at least m's units.  *)
(***************************************************************************)
LEMMA UnitsContain ==
  ASSUME NEW A \in SUBSET Pairs, IsFiniteSet(A), NEW m \in A
  PROVE  UnitsOf(A) \in Nat /\ m[2] \in Nat /\ m[2] <= UnitsOf(A)
<1>1. Units({m}) = {m} \X (1..m[2])
  BY DEF Units
<1>2. UnitsOf({m}) = m[2]
  BY <1>1, OneMemberUnits DEF UnitsOf
<1>3. UnitsOf(A \ {m}) = UnitsOf(A) - UnitsOf({m}) /\ IsFiniteSet(A \ {m})
  BY UnitsRemove
<1>4. UnitsOf(A \ {m}) \in Nat /\ UnitsOf(A) \in Nat
  BY <1>3, UnitsFinite
<1>5. m[2] \in Nat
  BY QuantitiesAssumption DEF Pairs
<1>6. QED
  BY <1>2, <1>3, <1>4, <1>5

(***************************************************************************)
(* What the arithmetic of the scripts works on: the units of the counted   *)
(* members and of those to be taken out are numbers, and their difference  *)
(* is the counter less the latter.                                         *)
(***************************************************************************)
LEMMA CountedUnits ==
  ASSUME IInv, NEW p \in Products, NEW gone \in SUBSET members[p]
  PROVE  /\ members[p] \in SUBSET Pairs /\ IsFiniteSet(members[p])
         /\ gone \in SUBSET Pairs /\ IsFiniteSet(gone)
         /\ UnitsOf(gone) \in Nat
         /\ UnitsOf(members[p] \ gone) = reserved[p] - UnitsOf(gone)
         /\ reserved[p] \in Int /\ stock[p] \in Int
<1>1. members[p] \in SUBSET Pairs /\ IsFiniteSet(members[p])
  BY DEF IInv, TypeOK, Pairs
<1>2. reserved[p] = UnitsOf(members[p]) /\ reserved[p] \in Int /\ stock[p] \in Int
  BY DEF IInv, TypeOK, CounterMatchesHolds
<1>3. QED
  BY <1>1, <1>2, UnitsRemove

Fits(p) == reserved[p] <= stock[p]

(***************************************************************************)
(* Taking members out keeps what is reserved of any product within its     *)
(* stock.                                                                  *)
(***************************************************************************)
LEMMA RemoveFits ==
  ASSUME IInv, NEW p \in Products, NEW gone \in SUBSET members[p],
         Remove(p, gone), UNCHANGED stock, NEW x \in Products, Fits(x)
  PROVE  Fits(x)'
<1>1. UnitsOf(gone) \in Nat /\ reserved[p] \in Int /\ stock[p] \in Int
  BY CountedUnits
<1>2. CASE x = p
  BY <1>1, <1>2 DEF Fits, Remove, IInv, TypeOK
<1>3. CASE x # p
  BY <1>3 DEF Fits, Remove, IInv, TypeOK
<1>4. QED
  BY <1>2, <1>3

(***************************************************************************)
(* Every step but a resync keeps the reserved units of a product within    *)
(* its stock.  The reservation that fits is checked against the counter,   *)
(* so this rests on CounterMatchesHolds; the unguarded decrement of        *)
(* convert.lua is covered by the units of its own hold.                    *)
(***************************************************************************)
LEMMA StepFits ==
  ASSUME IInv, [Next]_vars, ~Resync, NEW x \in Products, Fits(x)
  PROVE  Fits(x)'
<1>1. ASSUME NEW p \in Products, NEW d \in Offsets, Reap(p, d) PROVE Fits(x)'
  BY <1>1, ExpiredIsCounted, RemoveFits DEF Reap
<1>2. ASSUME NEW p \in Products, NEW q \in Quantities, NEW d \in Offsets,
             ReserveRejected(p, q, d)
      PROVE  Fits(x)'
  BY <1>2, ExpiredIsCounted, RemoveFits DEF ReserveRejected
<1>3. ASSUME NEW p \in Products, NEW q \in Quantities, NEW d \in Offsets,
             ConvertLapsed(p, q, d)
      PROVE  Fits(x)'
  <2> DEFINE gone == Expired(p, d)
  <2>1. gone \in SUBSET members[p]
    BY ExpiredIsCounted
  <2>2. UnitsOf(gone) \in Nat /\ reserved[p] \in Int /\ stock[p] \in Int /\ q \in Nat
    BY <2>1, CountedUnits, QuantitiesAssumption
  <2>3. Remove(p, gone)
    BY <1>3 DEF ConvertLapsed
  <2>4. CASE q <= SellableWithout(p, gone)
    <3>1. stock' = [stock EXCEPT ![p] = @ - q]
      BY <1>3, <2>4 DEF ConvertLapsed
    <3>2. CASE x = p
      BY <2>2, <2>3, <2>4, <3>1, <3>2 DEF Fits, Remove, IInv, TypeOK, SellableWithout
    <3>3. CASE x # p
      BY <2>3, <3>1, <3>3 DEF Fits, Remove, IInv, TypeOK
    <3>4. QED
      BY <3>2, <3>3
  <2>5. CASE ~(q <= SellableWithout(p, gone))
    BY <1>3, <2>1, <2>3, <2>5, RemoveFits DEF ConvertLapsed
  <2>6. QED
    BY <2>4, <2>5
<1>4. ASSUME NEW p \in Products, NEW r \in Reservations, NEW q \in Quantities,
             NEW d \in Offsets, ReserveGranted(p, r, q, d)
      PROVE  Fits(x)'
  <2> DEFINE gone == Expired(p, d)
  <2>1. gone \in SUBSET members[p]
    BY ExpiredIsCounted
  <2>2. UnitsOf(gone) \in Nat /\ reserved[p] \in Int /\ stock[p] \in Int /\ q \in Nat
    BY <2>1, CountedUnits, QuantitiesAssumption
  <2>3. /\ q <= SellableWithout(p, gone)
        /\ reserved' = [reserved EXCEPT ![p] = @ - UnitsOf(gone) + q]
        /\ stock' = stock
    BY <1>4 DEF ReserveGranted
  <2>4. CASE x = p
    BY <2>2, <2>3, <2>4 DEF Fits, IInv, TypeOK, SellableWithout
  <2>5. CASE x # p
    BY <2>3, <2>5 DEF Fits, IInv, TypeOK
  <2>6. QED
    BY <2>4, <2>5
<1>5. ASSUME NEW r \in Reservations, NEW d \in Offsets, Release(r, d) PROVE Fits(x)'
  BY <1>5, OwnMember, ExpiredIsCounted, RemoveFits DEF Release
<1>6. ASSUME NEW r \in Reservations, NEW d \in Offsets, ConvertHeld(r, d) PROVE Fits(x)'
  <2> DEFINE p == hash[r].product
             q == hash[r].qty
             gone == Expired(p, d) \cup {<<r, q>>}
  <2>1. p \in Products /\ gone \in SUBSET members[p]
    BY <1>6, OwnMember, ExpiredIsCounted DEF ConvertHeld
  <2>2. /\ Remove(p, gone)
        /\ stock' = [stock EXCEPT ![p] = @ - q]
    BY <1>6 DEF ConvertHeld
  <2>3. gone \in SUBSET Pairs /\ IsFiniteSet(gone) /\ <<r, q>> \in gone
    BY <2>1, CountedUnits
  <2> HIDE DEF gone, p, q
  <2>4. UnitsOf(gone) \in Nat /\ q \in Nat /\ q <= UnitsOf(gone)
    BY <2>3, UnitsContain
  <2>5. reserved[p] \in Int /\ stock[p] \in Int
    BY <2>1, CountedUnits
  <2>6. CASE x = p
    BY <2>1, <2>2, <2>4, <2>5, <2>6 DEF Fits, Remove, IInv, TypeOK
  <2>7. CASE x # p
    BY <2>1, <2>2, <2>7 DEF Fits, Remove, IInv, TypeOK
  <2>8. QED
    BY <2>6, <2>7
<1>7. ASSUME NEW r \in Reservations, NEW d \in Offsets, Renew(r, d) PROVE Fits(x)'
  BY <1>7 DEF Fits, Renew
<1>8. CASE Tick
  BY <1>8 DEF Fits, Tick
<1>9. CASE UNCHANGED vars
  BY <1>9 DEF Fits, vars
<1>10. QED
  BY <1>1, <1>2, <1>3, <1>4, <1>5, <1>6, <1>7, <1>8, <1>9 DEF Next, Script, Sellable

(***************************************************************************)
(* No script oversells, whatever the clocks of its callers say.            *)
(***************************************************************************)
THEOREM NeverOversold == Spec => ScriptsNeverOversell
<1>1. IInv /\ [Next]_vars
        => [Resync \/ \A p \in Products :
               reserved[p] <= stock[p] => reserved'[p] <= stock'[p]]_vars
  <2> SUFFICES ASSUME IInv, [Next]_vars, ~Resync, NEW p \in Products,
                      reserved[p] <= stock[p]
               PROVE  reserved'[p] <= stock'[p]
    OBVIOUS
  <2>1. QED
    BY StepFits DEF Fits
<1>2. QED
  BY <1>1, Invariant, PTL DEF Spec, ScriptsNeverOversell

-----------------------------------------------------------------------------
(***************************************************************************)
(* The store implements HoldLedger: what a script drops, keeps and adds is *)
(* what the ledger's operation drops, keeps and adds.                      *)
(***************************************************************************)
LEMMA SameUnits == \A H : Ledger!UnitsOf(H) = UnitsOf(H)
BY DEF Ledger!UnitsOf, Ledger!Units, UnitsOf, Units, Ledger!Cardinality, Cardinality

(***************************************************************************)
(* Taking members out is a drop in the ledger.                             *)
(***************************************************************************)
LEMMA DropStep ==
  ASSUME IInv, NEW p \in Products, NEW gone \in SUBSET members[p],
         Remove(p, gone), UNCHANGED stock
  PROVE  Ledger!Next
<1>1. members[p] \ gone \in SUBSET members[p]
  OBVIOUS
<1>2. Ledger!Drop(p, members[p] \ gone)
  BY DEF Ledger!Drop, Remove
<1>3. QED
  BY <1>1, <1>2 DEF Ledger!Next

(***************************************************************************)
(* Every step of the store is a step of the ledger or leaves it alone.     *)
(***************************************************************************)
LEMMA LedgerStep == IInv /\ [Next]_vars => [Ledger!Next]_(Ledger!vars)
<1> SUFFICES ASSUME IInv, [Next]_vars
             PROVE  Ledger!Next \/ UNCHANGED <<stock, members>>
  BY DEF Ledger!vars
<1>1. ASSUME NEW p \in Products, NEW d \in Offsets, Reap(p, d) PROVE Ledger!Next
  BY <1>1, ExpiredIsCounted, DropStep DEF Reap
<1>2. ASSUME NEW p \in Products, NEW q \in Quantities, NEW d \in Offsets,
             ReserveRejected(p, q, d)
      PROVE  Ledger!Next
  BY <1>2, ExpiredIsCounted, DropStep DEF ReserveRejected
<1>3. ASSUME NEW p \in Products, NEW q \in Quantities, NEW d \in Offsets,
             ConvertLapsed(p, q, d)
      PROVE  Ledger!Next
  <2> DEFINE gone == Expired(p, d)
             kept == members[p] \ gone
  <2>1. gone \in SUBSET members[p] /\ kept \in SUBSET members[p]
    BY ExpiredIsCounted
  <2>2. SellableWithout(p, gone) = stock[p] - Ledger!UnitsOf(kept)
    BY <2>1, CountedUnits, SameUnits DEF SellableWithout
  <2>3. Remove(p, gone)
    BY <1>3 DEF ConvertLapsed
  <2>4. CASE q <= SellableWithout(p, gone)
    <3>1. Ledger!SellFree(p, q, kept)
      BY <1>3, <2>2, <2>3, <2>4 DEF Ledger!SellFree, Remove, ConvertLapsed
    <3>2. QED
      BY <2>1, <3>1 DEF Ledger!Next
  <2>5. CASE ~(q <= SellableWithout(p, gone))
    BY <1>3, <2>1, <2>3, <2>5, DropStep DEF ConvertLapsed
  <2>6. QED
    BY <2>4, <2>5
<1>4. ASSUME NEW p \in Products, NEW r \in Reservations, NEW q \in Quantities,
             NEW d \in Offsets, ReserveGranted(p, r, q, d)
      PROVE  Ledger!Next
  <2> DEFINE gone == Expired(p, d)
             kept == members[p] \ gone
  <2>1. gone \in SUBSET members[p] /\ kept \in SUBSET members[p]
    BY ExpiredIsCounted
  <2>2. SellableWithout(p, gone) = stock[p] - Ledger!UnitsOf(kept)
    BY <2>1, CountedUnits, SameUnits DEF SellableWithout
  <2>3. Ledger!Unheld(r)
    BY <1>4 DEF Ledger!Unheld, ReserveGranted, Fresh, Counted, Ids
  <2>4. Ledger!Grant(p, r, q, kept)
    BY <1>4, <2>2, <2>3 DEF Ledger!Grant, ReserveGranted
  <2>5. QED
    BY <2>1, <2>4 DEF Ledger!Next
<1>5. ASSUME NEW r \in Reservations, NEW d \in Offsets, Release(r, d) PROVE Ledger!Next
  BY <1>5, OwnMember, ExpiredIsCounted, DropStep DEF Release
<1>6. ASSUME NEW r \in Reservations, NEW d \in Offsets, ConvertHeld(r, d)
      PROVE  Ledger!Next
  <2> DEFINE p == hash[r].product
             q == hash[r].qty
             gone == Expired(p, d)
             kept == (members[p] \ gone) \cup {<<r, q>>}
  <2>1. p \in Products /\ q \in Quantities /\ <<r, q>> \in members[p]
    BY <1>6, OwnMember DEF ConvertHeld
  <2>2. kept \in SUBSET members[p] /\ <<r, q>> \in kept
    BY <2>1
  <2>3. /\ members' = [members EXCEPT ![p] = kept \ {<<r, q>>}]
        /\ stock' = [stock EXCEPT ![p] = @ - q]
    <3>1. kept \ {<<r, q>>} = members[p] \ (gone \cup {<<r, q>>})
      OBVIOUS
    <3>2. QED
      BY <1>6, <3>1 DEF ConvertHeld, Remove
  <2>4. Ledger!SellHeld(p, r, q, kept)
    BY <2>2, <2>3 DEF Ledger!SellHeld
  <2> HIDE DEF p, q, kept
  <2>5. QED
    BY <2>1, <2>2, <2>4 DEF Ledger!Next
<1>7. ASSUME NEW r \in Reservations, NEW d \in Offsets, Renew(r, d)
      PROVE  UNCHANGED <<stock, members>>
  BY <1>7 DEF Renew
<1>8. ASSUME Tick PROVE UNCHANGED <<stock, members>>
  BY <1>8 DEF Tick
<1>9. ASSUME Resync PROVE Ledger!Next
  BY <1>9 DEF Resync, SyncStockMirror, Ledger!Next, Ledger!SetStock
<1>10. CASE UNCHANGED vars
  BY <1>10 DEF vars
<1>11. QED
  BY <1>1, <1>2, <1>3, <1>4, <1>5, <1>6, <1>7, <1>8, <1>9, <1>10
     DEF Next, Script, Sellable

(***************************************************************************)
(* The Lua scripts with their counter, lazily cleaned sets and two clocks  *)
(* implement the ledger that adds all holds up before every decision.      *)
(***************************************************************************)
THEOREM ImplementsLedger == Spec => LedgerSpec
<1>1. Init => Ledger!Init
  BY DEF Init, Ledger!Init
<1>2. QED
  BY <1>1, LedgerStep, Invariant, PTL DEF Spec, LedgerSpec, Ledger!Spec

-----------------------------------------------------------------------------
(***************************************************************************)
(* The longest hold.  A hash that was renewed n times has been there for   *)
(* at most n + 1 times Ttl, counting what it has left; the score of a      *)
(* member that somebody may still take for valid is at most the clock      *)
(* error away from that.                                                   *)
(***************************************************************************)
HoldFor(n) == (n + 1) * Ttl

AgeInv ==
    /\ \A r \in Reservations :
          hash[r] # NoHash => age[r] + hash[r].ttl <= HoldFor(hash[r].renewals)
    /\ \A r \in Reservations :
          /\ score[r] >= Lapsed
          /\ score[r] > Lapsed => score[r] + age[r] <= LongestHold + Skew
    /\ \A r \in Reservations : ~Counted(r) => age[r] = 0

(***************************************************************************)
(* The time a hold may have lasted after n renewals.                       *)
(***************************************************************************)
LEMMA HoldForFacts ==
  ASSUME NEW n \in 0 .. MaxRenewals
  PROVE  /\ HoldFor(n) \in Nat
         /\ HoldFor(n) <= LongestHold
         /\ HoldFor(n + 1) = HoldFor(n) + Ttl
<1>1. n \in Nat /\ MaxRenewals \in Nat /\ Ttl \in Nat /\ n <= MaxRenewals
  BY ClockAssumption
<1>2. HoldFor(n) \in Nat
  BY <1>1 DEF HoldFor
<1>3. (MaxRenewals + 1) * Ttl = (n + 1) * Ttl + (MaxRenewals - n) * Ttl
  BY <1>1
<1>4. (MaxRenewals - n) * Ttl \in Nat
  BY <1>1
<1>5. (n + 1 + 1) * Ttl = (n + 1) * Ttl + Ttl
  BY <1>1
<1>6. QED
  BY <1>1, <1>2, <1>3, <1>4, <1>5 DEF HoldFor, LongestHold

(***************************************************************************)
(* The renewals and the time to live of a hash are within their bounds.    *)
(***************************************************************************)
LEMMA HashFacts ==
  ASSUME IInv, NEW r \in Reservations, hash[r] # NoHash
  PROVE  hash[r].renewals \in 0 .. MaxRenewals /\ hash[r].ttl \in 1 .. Ttl
BY OwnMember DEF Hashes

(***************************************************************************)
(* Taking members out keeps every remaining hold within its age.           *)
(***************************************************************************)
LEMMA RemoveAge ==
  ASSUME IInv, AgeInv, NEW p \in Products, NEW gone \in SUBSET members[p], Remove(p, gone)
  PROVE  AgeInv'
<1> SUFFICES ASSUME NEW r \in Reservations
             PROVE  /\ hash'[r] # NoHash => age'[r] + hash'[r].ttl <= HoldFor(hash'[r].renewals)
                    /\ score'[r] >= Lapsed
                    /\ score'[r] > Lapsed => score'[r] + age'[r] <= LongestHold + Skew
                    /\ ~Counted(r)' => age'[r] = 0
  BY DEF AgeInv
<1>1. CASE r \in Ids(gone)
  BY <1>1, SkewFacts DEF Remove
<1>2. CASE r \notin Ids(gone)
  <2>1. hash'[r] = hash[r] /\ score'[r] = score[r] /\ age'[r] = age[r]
    BY <1>2 DEF Remove
  <2>2. Counted(r) => Counted(r)'
    BY <1>2 DEF Counted, Ids, Remove, IInv, TypeOK
  <2>3. QED
    BY <2>1, <2>2 DEF AgeInv
<1>3. QED
  BY <1>1, <1>2

(***************************************************************************)
(* A granted hold starts with age 0.                                       *)
(***************************************************************************)
LEMMA GrantAge ==
  ASSUME IInv, AgeInv, NEW p \in Products, NEW r \in Reservations, NEW q \in Quantities,
         NEW d \in Offsets, ReserveGranted(p, r, q, d)
  PROVE  AgeInv'
<1> DEFINE gone == Expired(p, d)
<1> SUFFICES ASSUME NEW s \in Reservations
             PROVE  /\ hash'[s] # NoHash => age'[s] + hash'[s].ttl <= HoldFor(hash'[s].renewals)
                    /\ score'[s] >= Lapsed
                    /\ score'[s] > Lapsed => score'[s] + age'[s] <= LongestHold + Skew
                    /\ ~Counted(s)' => age'[s] = 0
  BY DEF AgeInv
<1>1. gone \in SUBSET members[p]
  BY ExpiredIsCounted
<1>2. ~Counted(r) /\ r \notin Ids(gone)
  BY <1>1 DEF ReserveGranted, Fresh, Counted, Ids
<1>3. members' = [members EXCEPT ![p] = (@ \ gone) \cup {<<r, q>>}]
  BY DEF ReserveGranted
<1>4. CASE s = r
  <2>1. age'[s] = 0
    BY <1>2, <1>4 DEF ReserveGranted, AgeInv
  <2>2. hash'[s] = HashOf(p, q, 0, Ttl + d, Ttl) /\ score'[s] = Ttl + d
    BY <1>4 DEF ReserveGranted
  <2>3. hash'[s].ttl = Ttl /\ hash'[s].renewals = 0
    BY <2>2 DEF HashOf
  <2>4. HoldFor(0) = Ttl /\ Ttl <= LongestHold /\ LongestHold \in Nat
    <3>1. HoldFor(0) = Ttl
      BY ClockAssumption DEF HoldFor
    <3>2. HoldFor(0) <= LongestHold
      BY HoldForFacts, ClockAssumption
    <3>3. QED
      BY <3>1, <3>2, AgeCapIsNat
  <2>5. /\ Ttl \in Nat /\ Skew \in Nat /\ d \in Int /\ d <= Skew
        /\ Lapsed <= Ttl + d
    BY ClockAssumption, SkewFacts DEF Lapsed
  <2>6. QED
    BY <2>1, <2>2, <2>3, <2>4, <2>5
<1>5. CASE s # r /\ s \in Ids(gone)
  BY <1>5, SkewFacts DEF ReserveGranted
<1>6. CASE s # r /\ s \notin Ids(gone)
  <2>1. hash'[s] = hash[s] /\ score'[s] = score[s] /\ age'[s] = age[s]
    BY <1>6 DEF ReserveGranted
  <2>2. Counted(s) => Counted(s)'
    BY <1>3, <1>6 DEF Counted, Ids, IInv, TypeOK
  <2>3. QED
    BY <2>1, <2>2 DEF AgeInv
<1>7. QED
  BY <1>4, <1>5, <1>6

(***************************************************************************)
(* A renewal buys at most one more Ttl, and MaxRenewals of them.           *)
(***************************************************************************)
LEMMA RenewAge ==
  ASSUME IInv, AgeInv, NEW r \in Reservations, NEW d \in Offsets, Renew(r, d)
  PROVE  AgeInv'
<1> DEFINE h == HashOf(hash[r].product, hash[r].qty, hash[r].renewals + 1, Ttl + d, Ttl)
           n == hash[r].renewals
<1>1. n \in 0 .. MaxRenewals /\ n < MaxRenewals /\ hash[r].ttl \in 1 .. Ttl
  BY HashFacts DEF Renew
<1>2. hash' = [hash EXCEPT ![r] = h] /\ score' = [score EXCEPT ![r] = Ttl + d] /\ age' = age
  BY DEF Renew
<1>3. h.renewals = n + 1 /\ h.ttl = Ttl
  BY DEF HashOf
<1>4. age[r] \in Nat /\ age[r] + hash[r].ttl <= HoldFor(n)
  BY AgeCapIsNat DEF IInv, TypeOK, AgeInv, Renew
<1>5. /\ HoldFor(n) \in Nat
      /\ HoldFor(n + 1) = HoldFor(n) + Ttl
      /\ HoldFor(n + 1) <= LongestHold
  <2>1. n + 1 \in 0 .. MaxRenewals
    BY <1>1, ClockAssumption
  <2>2. QED
    BY <1>1, <2>1, HoldForFacts
<1>6. /\ Ttl \in Nat /\ Skew \in Nat /\ d \in Int /\ d <= Skew /\ LongestHold \in Nat
  BY ClockAssumption, SkewFacts, AgeCapIsNat
<1>7. age[r] + h.ttl <= HoldFor(h.renewals)
  BY <1>1, <1>3, <1>4, <1>5, <1>6
<1>8. Lapsed <= Ttl + d /\ Ttl + d + age[r] <= LongestHold + Skew
  BY <1>1, <1>4, <1>5, <1>6, SkewFacts DEF Lapsed
<1>9. \A s \in Reservations : Counted(s)' = Counted(s)
  BY DEF Counted, Renew
<1> HIDE DEF h
<1>10. QED
  BY <1>2, <1>7, <1>8, <1>9 DEF AgeInv, IInv, TypeOK

(***************************************************************************)
(* A tick ages a hold by one and takes one off what it has left.           *)
(***************************************************************************)
LEMMA TickAge == ASSUME IInv, AgeInv, Tick PROVE AgeInv'
<1> SUFFICES ASSUME NEW r \in Reservations
             PROVE  /\ hash'[r] # NoHash => age'[r] + hash'[r].ttl <= HoldFor(hash'[r].renewals)
                    /\ score'[r] >= Lapsed
                    /\ score'[r] > Lapsed => score'[r] + age'[r] <= LongestHold + Skew
                    /\ ~Counted(r)' => age'[r] = 0
  BY DEF AgeInv
<1>1. age[r] \in Nat /\ age'[r] \in Nat /\ age'[r] <= age[r] + 1 /\ score[r] \in Int
  BY AgeCapIsNat DEF IInv, TypeOK, Tick
<1>2. ASSUME hash'[r] # NoHash
      PROVE  age'[r] + hash'[r].ttl <= HoldFor(hash'[r].renewals)
  <2>1. hash[r] # NoHash /\ hash'[r] = Older(hash[r])
    BY <1>2 DEF Tick, HashLeft
  <2>2. hash'[r].ttl = hash[r].ttl - 1 /\ hash'[r].renewals = hash[r].renewals
    BY <2>1 DEF Older, HashOf
  <2>3. hash[r].ttl \in Int /\ HoldFor(hash[r].renewals) \in Nat
    BY <2>1, HashFacts, HoldForFacts
  <2>4. age[r] + hash[r].ttl <= HoldFor(hash[r].renewals)
    BY <2>1 DEF AgeInv
  <2>5. QED
    BY <1>1, <2>2, <2>3, <2>4
<1>3. ASSUME score'[r] > Lapsed
      PROVE  score'[r] + age'[r] <= LongestHold + Skew
  <2>1. score[r] > Lapsed /\ score'[r] = score[r] - 1
    BY <1>1, <1>3, SkewFacts DEF Tick, Sooner
  <2>2. score[r] + age[r] <= LongestHold + Skew
    BY <2>1 DEF AgeInv
  <2>3. QED
    BY <1>1, <2>1, <2>2, AgeCapIsNat, ClockAssumption
<1>4. ASSUME ~Counted(r)' PROVE age'[r] = 0
  <2>1. ~Counted(r)
    BY <1>4 DEF Counted, Tick
  <2>2. QED
    BY <2>1 DEF Tick, AgeInv
<1>5. score'[r] >= Lapsed
  BY <1>1, SkewFacts DEF AgeInv, Tick, Sooner
<1>6. QED
  BY <1>2, <1>3, <1>4, <1>5

(***************************************************************************)
(* Every step keeps the holds within their age.                            *)
(***************************************************************************)
LEMMA NextAge == IInv /\ AgeInv /\ [Next]_vars => AgeInv'
<1> SUFFICES ASSUME IInv, AgeInv, [Next]_vars PROVE AgeInv'
  OBVIOUS
<1>1. ASSUME NEW p \in Products, NEW d \in Offsets, Remove(p, Expired(p, d)) PROVE AgeInv'
  BY <1>1, ExpiredIsCounted, RemoveAge
<1>2. ASSUME NEW r \in Reservations, NEW d \in Offsets, Release(r, d) \/ ConvertHeld(r, d)
      PROVE  AgeInv'
  BY <1>2, OwnMember, ExpiredIsCounted, RemoveAge DEF Release, ConvertHeld
<1>3. CASE Resync
  BY <1>3 DEF Resync, SyncStockMirror, AgeInv, Counted
<1>4. CASE UNCHANGED vars
  BY <1>4 DEF vars, AgeInv, Counted
<1>5. QED
  BY <1>1, <1>2, <1>3, <1>4, GrantAge, RenewAge, TickAge
     DEF Next, Script, Sellable, Reap, ReserveRejected, ConvertLapsed

(***************************************************************************)
(* No hold outlives LongestHold by more than the clock error, whoever      *)
(* renews it whenever.                                                     *)
(***************************************************************************)
THEOREM Bounded == Spec => []HoldIsBounded
<1>1. Init => AgeInv
  BY SkewFacts, AgeCapIsNat DEF Init, AgeInv
<1>2. IInv /\ AgeInv => HoldIsBounded
  <2> SUFFICES ASSUME IInv, AgeInv, NEW r \in Reservations
               PROVE  /\ age[r] >= LongestHold => hash[r] = NoHash
                      /\ age[r] = AgeCap => score[r] = Lapsed
    BY DEF HoldIsBounded
  <2>1. ASSUME age[r] >= LongestHold, hash[r] # NoHash PROVE FALSE
    <3>1. age[r] + hash[r].ttl <= HoldFor(hash[r].renewals)
      BY <2>1 DEF AgeInv
    <3>2. HoldFor(hash[r].renewals) <= LongestHold /\ HoldFor(hash[r].renewals) \in Nat
      BY <2>1, HashFacts, HoldForFacts
    <3>3. hash[r].ttl \in 1 .. Ttl /\ age[r] \in Int
      BY <2>1, HashFacts DEF IInv, TypeOK
    <3>4. QED
      BY <2>1, <3>1, <3>2, <3>3, AgeCapIsNat, ClockAssumption
  <2>2. ASSUME age[r] = AgeCap, score[r] > Lapsed PROVE FALSE
    <3>1. score[r] + AgeCap <= LongestHold + Skew /\ score[r] \in Int
      BY <2>2 DEF AgeInv, IInv, TypeOK
    <3>2. QED
      BY <2>2, <3>1, AgeCapIsNat, ClockAssumption DEF AgeCap, Lapsed
  <2>3. score[r] >= Lapsed /\ score[r] \in Int
    BY DEF AgeInv, IInv, TypeOK
  <2>4. QED
    BY <2>1, <2>2, <2>3, SkewFacts
<1>3. QED
  BY <1>1, <1>2, NextAge, Invariant, PTL DEF Spec

(***************************************************************************)
(* Counter, set and hashes are three records of the same holds, whatever   *)
(* order the scripts come in.                                              *)
(***************************************************************************)
THEOREM HoldsConsistent == Spec => []HoldsAreConsistent
  BY CounterCorrect, ActiveCounted, CountedOnce, Bounded, PTL DEF HoldsAreConsistent
=============================================================================
