------------------------- MODULE ReservationStore -------------------------
(***************************************************************************)
(* The stock and reservation keys the inventory service keeps in Redis,    *)
(* and the Lua scripts that are the only code to change them               *)
(* (src/services/inventory/src/main/resources/redis, called by             *)
(* RedisReservationService).  One script runs as one EVAL, so one script   *)
(* is one action.                                                          *)
(*                                                                         *)
(* Two clocks matter.  A hold's expiry (the score of its member in the     *)
(* product's sorted set, and expiresAt in its hash) is computed and        *)
(* compared with the nowMillis of the calling Java process; the time to    *)
(* live of its hash (PEXPIRE) runs on the clock of Redis.  Both are kept   *)
(* as the time left by the clock of Redis: a caller whose clock is d ahead *)
(* of it (d may be negative) takes a hold for expired when at most d is    *)
(* left.  Times are counted in ticks and stop at Lapsed, where every       *)
(* caller takes the hold for expired.                                      *)
(***************************************************************************)
EXTENDS Integers, FiniteSets

CONSTANTS
    Products,       \* product ids
    Reservations,   \* names of the reservations the store knows at one time
    Quantities,     \* units asked for: RedisReservationService wants >= 1
    StockLevels,    \* values of available_stock copied into the mirror
    Ttl,            \* reservation.ttl, in ticks
    MaxRenewals,    \* reservation.max-renewals
    Skew,           \* bound on the distance of a caller's clock from Redis'
    NoHash          \* what EXISTS finds when there is no resv:{id} key

ASSUME QuantitiesAssumption == Quantities \subseteq Nat \ {0}
ASSUME StockLevelsAssumption == StockLevels \subseteq Nat
ASSUME ClockAssumption == Ttl \in Nat \ {0} /\ MaxRenewals \in Nat /\ Skew \in Nat

Offsets == -Skew .. Skew
Lapsed == -Skew

Hashes == [product : Products, qty : Quantities, renewals : 0 .. MaxRenewals,
           expiresAt : Int, ttl : 1 .. Ttl]

ASSUME NoHashAssumption == NoHash \notin Hashes

HashOf(p, q, n, left, ttl) ==
    [product |-> p, qty |-> q, renewals |-> n, expiresAt |-> left, ttl |-> ttl]

VARIABLES
    stock,      \* product:{id}:stock, 0 while the key is missing
    reserved,   \* product:{id}:reserved_total
    members,    \* product:{id}:reservations, the pairs <<reservation, qty>>
    score,      \* score[r]: time left of r's member, Lapsed without a member
    hash,       \* resv:{id}, its remaining time to live included
    age         \* history: ticks since the member of r was added, capped

vars == <<stock, reserved, members, score, hash, age>>

(***************************************************************************)
(* Units in a set of members, counted as in HoldLedger.                    *)
(***************************************************************************)
Units(M) == UNION {{m} \X (1..m[2]) : m \in M}
UnitsOf(M) == Cardinality(Units(M))
Ids(M) == {m[1] : m \in M}

Counted(r) == \E p \in Products : r \in Ids(members[p])

LongestHold == (MaxRenewals + 1) * Ttl
AgeCap == LongestHold + 2 * Skew

\* Broken variant of Fresh: ids are given out again as soon as the hash is gone.
FreshByHash(r) == hash[r] = NoHash

(***************************************************************************)
(* A reservation id is a random UUID, never used twice.  A name no key of  *)
(* the store mentions any more stands for a fresh one.                     *)
(***************************************************************************)
Fresh(r) == hash[r] = NoHash /\ ~Counted(r)

Init ==
    /\ stock = [p \in Products |-> 0]
    /\ reserved = [p \in Products |-> 0]
    /\ members = [p \in Products |-> {}]
    /\ score = [r \in Reservations |-> Lapsed]
    /\ hash = [r \in Reservations |-> NoHash]
    /\ age = [r \in Reservations |-> 0]

\* Broken variant of Expired: members whose hash has already gone are forgotten.
ExpiredByHash(p, d) == {m \in members[p] : hash[m[1]] # NoHash /\ score[m[1]] <= d}

(***************************************************************************)
(* The loop every mutating script opens with: the members of p that have   *)
(* expired by the caller's clock.  release.lua and convert.lua spare the   *)
(* member of the reservation they are called for.                          *)
(***************************************************************************)
Expired(p, d) == {m \in members[p] : score[m[1]] <= d}

\* Broken variant of Remove: the members are counted, not their units.
RemoveByMember(p, gone) ==
    /\ members' = [members EXCEPT ![p] = @ \ gone]
    /\ reserved' = [reserved EXCEPT ![p] = @ - Cardinality(gone)]
    /\ score' = [r \in Reservations |-> IF r \in Ids(gone) THEN Lapsed ELSE score[r]]
    /\ hash' = [r \in Reservations |-> IF r \in Ids(gone) THEN NoHash ELSE hash[r]]
    /\ age' = [r \in Reservations |-> IF r \in Ids(gone) THEN 0 ELSE age[r]]

(***************************************************************************)
(* Take the members gone out of p's set: subtract their units, ZREM them   *)
(* and DEL their hashes.                                                   *)
(***************************************************************************)
Remove(p, gone) ==
    /\ members' = [members EXCEPT ![p] = @ \ gone]
    /\ reserved' = [reserved EXCEPT ![p] = @ - UnitsOf(gone)]
    /\ score' = [r \in Reservations |-> IF r \in Ids(gone) THEN Lapsed ELSE score[r]]
    /\ hash' = [r \in Reservations |-> IF r \in Ids(gone) THEN NoHash ELSE hash[r]]
    /\ age' = [r \in Reservations |-> IF r \in Ids(gone) THEN 0 ELSE age[r]]

(***************************************************************************)
(* stock - reserved_total once the members gone have been taken out.       *)
(***************************************************************************)
SellableWithout(p, gone) == stock[p] - (reserved[p] - UnitsOf(gone))

ReserveRejected(p, q, d) ==
    /\ q > SellableWithout(p, Expired(p, d))
    /\ Remove(p, Expired(p, d))
    /\ UNCHANGED stock

ReserveGranted(p, r, q, d) ==
    LET gone == Expired(p, d) IN
    /\ Fresh(r)
    /\ q <= SellableWithout(p, gone)
    /\ members' = [members EXCEPT ![p] = (@ \ gone) \cup {<<r, q>>}]
    /\ reserved' = [reserved EXCEPT ![p] = @ - UnitsOf(gone) + q]
    /\ score' = [s \in Reservations |->
                    IF s = r THEN Ttl + d
                    ELSE IF s \in Ids(gone) THEN Lapsed ELSE score[s]]
    /\ hash' = [s \in Reservations |->
                    IF s = r THEN HashOf(p, q, 0, Ttl + d, Ttl)
                    ELSE IF s \in Ids(gone) THEN NoHash ELSE hash[s]]
    /\ age' = [s \in Reservations |-> IF s \in Ids(gone) THEN 0 ELSE age[s]]
    /\ UNCHANGED stock

(***************************************************************************)
(* release.lua: without a hash nothing happens.  Otherwise r's own member  *)
(* goes together with the other expired ones of its product.               *)
(***************************************************************************)
Release(r, d) ==
    /\ hash[r] # NoHash
    /\ Remove(hash[r].product,
              Expired(hash[r].product, d) \cup {<<r, hash[r].qty>>})
    /\ UNCHANGED stock

\* Broken variants of Renew: no cap, one renewal too many, the score forgotten.
RenewUncapped(r, d) ==
    /\ hash[r] # NoHash
    /\ hash' = [hash EXCEPT ![r] =
                    HashOf(@.product, @.qty, @.renewals, Ttl + d, Ttl)]
    /\ score' = [score EXCEPT ![r] = Ttl + d]
    /\ UNCHANGED <<stock, reserved, members, age>>
RenewOnceMore(r, d) ==
    /\ hash[r] # NoHash
    /\ hash[r].renewals <= MaxRenewals
    /\ hash' = [hash EXCEPT ![r] =
                    HashOf(@.product, @.qty, @.renewals + 1, Ttl + d, Ttl)]
    /\ score' = [score EXCEPT ![r] = Ttl + d]
    /\ UNCHANGED <<stock, reserved, members, age>>
RenewForgetsScore(r, d) ==
    /\ hash[r] # NoHash
    /\ hash[r].renewals < MaxRenewals
    /\ hash' = [hash EXCEPT ![r] =
                    HashOf(@.product, @.qty, @.renewals + 1, Ttl + d, Ttl)]
    /\ UNCHANGED <<stock, reserved, members, score, age>>

(***************************************************************************)
(* renew.lua: no expired hold is dropped, not even an expired r.  At the   *)
(* cap, and without a hash, nothing changes.                               *)
(***************************************************************************)
Renew(r, d) ==
    /\ hash[r] # NoHash
    /\ hash[r].renewals < MaxRenewals
    /\ hash' = [hash EXCEPT ![r] =
                    HashOf(@.product, @.qty, @.renewals + 1, Ttl + d, Ttl)]
    /\ score' = [score EXCEPT ![r] = Ttl + d]
    /\ UNCHANGED <<stock, reserved, members, age>>

\* Broken variant of ConvertHeld: the stock is decremented, the hold stays.
ConvertKeepsHold(r, d) ==
    LET p == hash[r].product
    IN  /\ hash[r] # NoHash
        /\ Remove(p, Expired(p, d) \ {<<r, hash[r].qty>>})
        /\ stock' = [stock EXCEPT ![p] = @ - hash[r].qty]

(***************************************************************************)
(* convert.lua with the hash still there: the hold becomes a decrement of  *)
(* the mirror, without a look at the stock.  Callers pass the product and  *)
(* the quantity the reservation was granted for.                           *)
(***************************************************************************)
ConvertHeld(r, d) ==
    LET p == hash[r].product
        q == hash[r].qty
    IN  /\ hash[r] # NoHash
        /\ Remove(p, Expired(p, d) \cup {<<r, q>>})
        /\ stock' = [stock EXCEPT ![p] = @ - q]

\* Broken variant of ConvertLapsed: the sellable units are not looked at.
ConvertUnchecked(p, q, d) ==
    /\ Remove(p, Expired(p, d))
    /\ stock' = [stock EXCEPT ![p] = @ - q]

(***************************************************************************)
(* convert.lua without the hash.  Nothing in the store tells what such a   *)
(* reservation was for, or whether it has been converted before, so        *)
(* product and quantity are the caller's.                                  *)
(***************************************************************************)
ConvertLapsed(p, q, d) ==
    /\ Remove(p, Expired(p, d))
    /\ stock' = IF q <= SellableWithout(p, Expired(p, d))
                THEN [stock EXCEPT ![p] = @ - q]
                ELSE stock

(***************************************************************************)
(* reap.lua, run for every product by the scheduled reaper and on expiry   *)
(* events, and sellable.lua, which drops the expired holds as well.        *)
(***************************************************************************)
Reap(p, d) ==
    /\ Remove(p, Expired(p, d))
    /\ UNCHANGED stock

Sellable(p, d) == Reap(p, d)

(***************************************************************************)
(* syncStockMirror: a plain SET.  Its caller has just written the value    *)
(* into PostgreSQL, whatever is reserved.                                  *)
(***************************************************************************)
SyncStockMirror(p, n) ==
    /\ stock' = [stock EXCEPT ![p] = n]
    /\ UNCHANGED <<reserved, members, score, hash, age>>

(***************************************************************************)
(* Time passes on every clock; Redis drops the hashes whose PEXPIRE is up. *)
(* A member stays until a script finds it expired.                         *)
(***************************************************************************)
Sooner(t) == IF t > Lapsed THEN t - 1 ELSE t

Older(h) == HashOf(h.product, h.qty, h.renewals, Sooner(h.expiresAt), h.ttl - 1)

HashLeft(h) == IF h = NoHash \/ h.ttl = 1 THEN NoHash ELSE Older(h)

Tick ==
    /\ score' = [r \in Reservations |-> Sooner(score[r])]
    /\ hash' = [r \in Reservations |-> HashLeft(hash[r])]
    /\ age' = [r \in Reservations |->
                    IF Counted(r) /\ age[r] < AgeCap THEN age[r] + 1 ELSE age[r]]
    /\ UNCHANGED <<stock, reserved, members>>

(***************************************************************************)
(* active.lua, the read-only check at checkout.                            *)
(***************************************************************************)
IsActive(r, d) == hash[r] # NoHash /\ hash[r].expiresAt > d

Script(d) ==
    \/ \E p \in Products : Reap(p, d) \/ Sellable(p, d)
    \/ \E p \in Products, q \in Quantities :
          ReserveRejected(p, q, d) \/ ConvertLapsed(p, q, d)
    \/ \E p \in Products, r \in Reservations, q \in Quantities :
          ReserveGranted(p, r, q, d)
    \/ \E r \in Reservations : Release(r, d) \/ Renew(r, d) \/ ConvertHeld(r, d)

Resync == \E p \in Products, n \in StockLevels : SyncStockMirror(p, n)

Next == Tick \/ Resync \/ \E d \in Offsets : Script(d)

(***************************************************************************)
(* The clocks run, and ReservationReaper runs reap.lua for every product   *)
(* with a fixed delay.  No caller is obliged to do anything.               *)
(***************************************************************************)
Fairness ==
    /\ WF_vars(Tick)
    /\ \A p \in Products : WF_vars(\E d \in Offsets : Reap(p, d))

Spec == Init /\ [][Next]_vars
FairSpec == Spec /\ Fairness

-----------------------------------------------------------------------------
(***************************************************************************)
(* Every key holds a value of the kind the scripts write.                  *)
(***************************************************************************)
TypeOK ==
    /\ stock \in [Products -> Int]
    /\ reserved \in [Products -> Int]
    /\ members \in [Products -> SUBSET (Reservations \X Quantities)]
    /\ \A p \in Products : IsFiniteSet(members[p])
    /\ score \in [Reservations -> Int]
    /\ hash \in [Reservations -> Hashes \cup {NoHash}]
    /\ age \in [Reservations -> 0 .. AgeCap]

(***************************************************************************)
(* The counter that decides whether a reservation fits always equals the   *)
(* units of the members in the product's set, whichever of the scripts     *)
(* dropped, renewed or converted them and in whatever order their expiry,  *)
(* the end of the hash's own TTL and an explicit release came.             *)
(***************************************************************************)
CounterMatchesHolds ==
    \A p \in Products : reserved[p] = UnitsOf(members[p])

(***************************************************************************)
(* A hold that active.lua may still call active, because its hash exists,  *)
(* is counted against the stock of its product with the same expiry: no    *)
(* reaper can take units away that checkout still takes for held.          *)
(***************************************************************************)
ActiveHoldIsCounted ==
    \A r \in Reservations : hash[r] # NoHash =>
        /\ <<r, hash[r].qty>> \in members[hash[r].product]
        /\ score[r] = hash[r].expiresAt

(***************************************************************************)
(* No reservation counts twice: an id has at most one member, in one set.  *)
(***************************************************************************)
OneMemberEach ==
    \A p1, p2 \in Products : \A m1 \in members[p1], m2 \in members[p2] :
        m1[1] = m2[1] => p1 = p2 /\ m1 = m2

(***************************************************************************)
(* No script oversells: whatever the callers' clocks say, a script that    *)
(* finds the reserved units within the stock leaves them so.  Only copying *)
(* a new stock value into the mirror may break this.                       *)
(***************************************************************************)
ScriptsNeverOversell ==
    [][Resync \/ \A p \in Products :
            reserved[p] <= stock[p] => reserved'[p] <= stock'[p]]_vars

(***************************************************************************)
(* Renewals are capped, so nobody blocks stock for good: once LongestHold  *)
(* ticks (and the clock error twice) have passed since the grant, the hash *)
(* is gone and every caller takes the member for expired.                  *)
(***************************************************************************)
HoldIsBounded ==
    \A r \in Reservations : Counted(r) =>
        /\ age[r] >= LongestHold => hash[r] = NoHash
        /\ age[r] = AgeCap => score[r] = Lapsed

(***************************************************************************)
(* Every hold is given back in the end, even if its owner disappears, no   *)
(* expiry event arrives and nobody else asks for the product: the reaper   *)
(* suffices.                                                               *)
(***************************************************************************)
EveryHoldEnds == \A r \in Reservations : Counted(r) ~> ~Counted(r)

(***************************************************************************)
(* The scripts implement the ledger: the counter and the lazily cleaned    *)
(* sets decide as if every hold were added up anew.                        *)
(***************************************************************************)
Ledger == INSTANCE HoldLedger WITH holds <- members
LedgerSpec == Ledger!Spec

(***************************************************************************)
(* The counter, the sorted sets and the hashes tell one story, through     *)
(* every order of grants, renewals, conversions, reaping and lapsing TTLs: *)
(* each hold counts once, as long as it may be called active, and not for  *)
(* ever.                                                                   *)
(***************************************************************************)
HoldsAreConsistent ==
    /\ CounterMatchesHolds
    /\ ActiveHoldIsCounted
    /\ OneMemberEach
    /\ HoldIsBounded

(***************************************************************************)
(* ReservationService.java:8-12 and OversellInvariantPropertyTest: at all  *)
(* times the reserved units are within the stock.                          *)
(***************************************************************************)
NoOversell == \A p \in Products : 0 <= reserved[p] /\ reserved[p] <= stock[p]
=============================================================================
