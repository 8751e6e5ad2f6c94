------------------------- MODULE NotificationProofs -------------------------
(***************************************************************************)
(* Proofs about Notification: for any events, replicas, channels, retries  *)
(* and batches, with lost replies, failing writes and deaths, what is      *)
(* acknowledged is settled, and the replicas together do what Delivery     *)
(* promises.                                                               *)
(***************************************************************************)
EXTENDS Notification, TLAPS

USE NChannelsAssumption, MaxRetriesAssumption, BatchSizeAssumption, BoundsAssumption

-----------------------------------------------------------------------------
(***************************************************************************)
(* The inductive invariant, part by part.                                  *)
(*                                                                         *)
(* BatchInv: the entries a replica still has to handle are its own, not    *)
(* acknowledged, and, but for the one it is at, no claim is by them.       *)
(***************************************************************************)
Busy(w) == at[w] \in InBatch

Batches ==
    /\ \A w \in Workers : Busy(w) =>
           1 <= entry[w] /\ entry[w] <= upto[w] /\ upto[w] <= cursor
    /\ \A w, v \in Workers :
           w # v /\ Busy(w) /\ Busy(v) => upto[w] < entry[v] \/ upto[v] < entry[w]
    /\ \A w \in Workers, n \in acked : Busy(w) => n < entry[w] \/ upto[w] < n

Claims ==
    /\ \A e \in Events : claimedBy[e] <= cursor
    /\ \A e \in Events : claimedBy[e] # 0 => event[claimedBy[e]] = e
    /\ \A w \in Workers, e \in Events : Busy(w) =>
           \/ claimedBy[e] < entry[w]
           \/ upto[w] < claimedBy[e]
           \/ claimedBy[e] = entry[w] /\ at[w] # "claim"

BatchInv == Batches /\ Claims

(***************************************************************************)
(* OwnerInv: a replica that delivers an event has claimed it, and nobody   *)
(* has touched an event without a claim.                                   *)
(***************************************************************************)
Untouched(e, c) ==
    /\ row[e][c] = "NONE"
    /\ sends[e][c] = 0
    /\ <<e, c>> \notin reached
    /\ <<e, c>> \notin dead

OwnerInv ==
    /\ \A w \in Workers : at[w] \in Delivering => claimedBy[Ev(w)] = entry[w]
    /\ \A e \in Events, c \in Channels : claimedBy[e] = 0 => Untouched(e, c)

(***************************************************************************)
(* DeliverInv: how far a delivery has come, and that it is complete when   *)
(* its entry is about to be, or is, acknowledged.                          *)
(***************************************************************************)
Stage(s, e, c, t) ==
    /\ s = "create" => Untouched(e, c)
    /\ s = "send" => /\ row[e][c] = "PENDING"
                     /\ sends[e][c] = t /\ t < MaxAttempts
                     /\ <<e, c>> \notin reached /\ <<e, c>> \notin dead
    /\ s = "delivered" => row[e][c] = "PENDING" /\ <<e, c>> \in reached
    /\ s = "failed" => /\ row[e][c] = "PENDING"
                       /\ sends[e][c] = MaxAttempts
                       /\ <<e, c>> \notin reached /\ <<e, c>> \notin dead
    /\ s = "bury" => /\ row[e][c] = "FAILED"
                     /\ <<e, c>> \notin dead

Progress(w) ==
    at[w] \in Delivering =>
        /\ \A c \in Channels : c < chan[w] => Closed(Ev(w), c)
        /\ \A c \in Channels : c > chan[w] => Untouched(Ev(w), c)
        /\ Stage(at[w], Ev(w), chan[w], tries[w])

Finished(w) ==
    at[w] = "ack" /\ claimedBy[Ev(w)] = entry[w] =>
        \A c \in Channels : Closed(Ev(w), c)

AckedIsClosed ==
    \A e \in Events : claimedBy[e] \in acked => \A c \in Channels : Closed(e, c)

DeliverInv ==
    /\ \A w \in Workers : Progress(w) /\ Finished(w)
    /\ AckedIsClosed

IInv == TypeOK /\ BatchInv /\ OwnerInv /\ DeliverInv

-----------------------------------------------------------------------------
(***************************************************************************)
(* The types, by the parts the actions change.                             *)
(***************************************************************************)
StreamTypes ==
    /\ last \in 0..MaxEntries
    /\ event \in [Entries -> Events]
    /\ group \in BOOLEAN
    /\ base \in 0..last
    /\ cursor \in base..last
    /\ acked \subseteq 1..cursor

WorkerTypes ==
    /\ at \in [Workers -> Steps]
    /\ entry \in [Workers -> 0..MaxEntries]
    /\ upto \in [Workers -> 0..MaxEntries]
    /\ chan \in [Workers -> Channels]
    /\ tries \in [Workers -> 0..MaxAttempts]

StoreTypes ==
    /\ claimedBy \in [Events -> 0..MaxEntries]
    /\ row \in [Events -> [Channels -> Statuses]]
    /\ dead \subseteq Events \X Channels
    /\ sends \in [Events -> [Channels -> 0..MaxAttempts]]
    /\ reached \subseteq Events \X Channels

HistoryTypes ==
    /\ abandoned \subseteq 1..cursor
    /\ deaths \in 0..MaxDeaths

LEMMA PrimedTypes ==
  ASSUME StreamTypes', WorkerTypes', StoreTypes', HistoryTypes'
  PROVE  TypeOK'
  BY DEF TypeOK, StreamTypes, WorkerTypes, StoreTypes, HistoryTypes

(***************************************************************************)
(* The entry of a batch is one of the stream, and carries an event.        *)
(***************************************************************************)
LEMMA EntryFacts ==
  ASSUME TypeOK, Batches, NEW w \in Workers, Busy(w)
  PROVE  /\ entry[w] \in Entries /\ entry[w] \in 1..cursor /\ upto[w] \in Entries
         /\ entry[w] <= upto[w] /\ upto[w] <= cursor
         /\ Ev(w) \in Events
         /\ cursor \in Nat
<1>1. entry[w] \in Int /\ upto[w] \in Int /\ cursor \in Int /\ cursor <= MaxEntries
  BY DEF TypeOK
<1>2. entry[w] \in Entries /\ entry[w] \in 1..cursor /\ upto[w] \in Entries
  BY <1>1 DEF Batches, Entries
<1>3. QED
  BY <1>1, <1>2 DEF Batches, Ev, TypeOK

LEMMA Disjoint ==
  ASSUME TypeOK, BatchInv, OwnerInv, NEW w \in Workers, NEW v \in Workers, w # v,
         at[w] \in Delivering,
         at[v] \in Delivering \/ (at[v] = "ack" /\ claimedBy[Ev(v)] = entry[v])
  PROVE  Ev(v) # Ev(w)
<1>1. Busy(w) /\ Busy(v)
  BY DEF Busy, InBatch
<1>2. claimedBy[Ev(w)] = entry[w] /\ claimedBy[Ev(v)] = entry[v]
  BY DEF OwnerInv
<1>3. entry[w] # entry[v]
  BY <1>1, EntryFacts DEF BatchInv, Batches, Entries
<1>4. QED
  BY <1>2, <1>3

-----------------------------------------------------------------------------
(***************************************************************************)
(* A replica goes on in its batch: with the entry it is at, or past it.    *)
(***************************************************************************)
Stays(w) == \E s \in InBatch \ {"claim"} : Goes(w, s) /\ UNCHANGED <<entry, acked>>

Leaves(w) ==
    /\ acked \subseteq acked'
    /\ acked' \subseteq acked \cup {entry[w]}
    /\ \/ NextEntry(w)
       \/ \E s \in {"idle", "off"} : Goes(w, s) /\ UNCHANGED entry

ClaimsBy(w) ==
    \/ UNCHANGED claimedBy
    \/ at[w] = "claim" /\ MarkProcessed(w)

BatchMove(w) ==
    /\ Busy(w)
    /\ Stays(w) \/ Leaves(w)
    /\ ClaimsBy(w)
    /\ UNCHANGED <<last, event, group, base, cursor, upto>>

LEMMA BatchKeeps ==
  ASSUME TypeOK, BatchInv, NEW w \in Workers, BatchMove(w)
  PROVE  /\ StreamTypes'
         /\ at' \in [Workers -> Steps]
         /\ entry' \in [Workers -> 0..MaxEntries]
         /\ claimedBy' \in [Events -> 0..MaxEntries]
         /\ \A v \in Workers \ {w} : at'[v] = at[v] /\ entry'[v] = entry[v]
         /\ BatchInv'
<1> USE DEF BatchMove
<1>1. /\ entry[w] \in Entries /\ entry[w] \in 1..cursor /\ upto[w] \in Entries
      /\ entry[w] <= upto[w] /\ upto[w] <= cursor /\ Ev(w) \in Events /\ cursor \in Nat
  BY EntryFacts DEF BatchInv
<1>2. /\ at' \in [Workers -> Steps]
      /\ entry' \in [Workers -> 0..MaxEntries]
      /\ \A v \in Workers \ {w} : at'[v] = at[v] /\ entry'[v] = entry[v]
  <2>1. PICK s \in Steps : at' = [at EXCEPT ![w] = s]
    BY DEF Stays, Leaves, NextEntry, Goes, Steps, InBatch
  <2>2. entry' = entry \/ (entry[w] < upto[w] /\ entry' = [entry EXCEPT ![w] = entry[w] + 1])
    BY DEF Stays, Leaves, NextEntry
  <2>3. entry[w] < upto[w] => entry[w] + 1 \in 0..MaxEntries
    BY <1>1 DEF Entries
  <2>4. at' \in [Workers -> Steps] /\ \A v \in Workers \ {w} : at'[v] = at[v]
    BY <2>1 DEF TypeOK
  <2>5. entry' \in [Workers -> 0..MaxEntries] /\ \A v \in Workers \ {w} : entry'[v] = entry[v]
    BY <2>2, <2>3 DEF TypeOK
  <2>6. QED
    BY <2>4, <2>5
<1>3. \/ entry'[w] = entry[w] /\ at'[w] \in InBatch \ {"claim"} /\ acked' = acked
      \/ entry'[w] = entry[w] + 1 /\ at'[w] = "claim" /\ entry[w] < upto[w]
      \/ at'[w] \notin InBatch
  BY DEF Stays, Leaves, NextEntry, Goes, TypeOK, Steps, InBatch, Delivering
<1>4. acked' \subseteq acked \cup {entry[w]}
  BY DEF Stays, Leaves
<1>5. /\ claimedBy' \in [Events -> 0..MaxEntries]
      /\ \A e \in Events : \/ claimedBy'[e] = claimedBy[e]
                           \/ claimedBy'[e] = entry[w] /\ e = Ev(w) /\ at[w] = "claim"
  BY <1>1 DEF ClaimsBy, MarkProcessed, TypeOK, Entries
<1>6. StreamTypes'
  BY <1>1, <1>4 DEF StreamTypes, TypeOK
<1>7. \A v \in Workers : entry[v] \in Int /\ upto[v] \in Int
  BY DEF TypeOK
<1>8. Batches'
  <2>1. ASSUME NEW v \in Workers, Busy(v)'
        PROVE  /\ Busy(v)
               /\ entry'[v] \in Int /\ entry[v] <= entry'[v] /\ entry'[v] <= upto[v]
               /\ v # w => entry'[v] = entry[v]
               /\ entry'[v] = entry[v] /\ v = w => acked' = acked
    BY <1>1, <1>2, <1>3, <1>7, <2>1 DEF Busy, BatchInv, Batches
  <2>2. ASSUME NEW v \in Workers, Busy(v)'
        PROVE  1 <= entry'[v] /\ entry'[v] <= upto[v] /\ upto[v] <= cursor
    BY <1>7, <2>1, <2>2 DEF BatchInv, Batches
  <2>3. ASSUME NEW v \in Workers, NEW u \in Workers, v # u, Busy(v)', Busy(u)'
        PROVE  upto[v] < entry'[u] \/ upto[u] < entry'[v]
    BY <1>7, <2>1, <2>3 DEF BatchInv, Batches
  <2>4. ASSUME NEW v \in Workers, NEW n \in acked', Busy(v)'
        PROVE  n < entry'[v] \/ upto[v] < n
    <3>1. n \in Int
      BY <1>1, <1>4 DEF TypeOK
    <3>2. CASE n \in acked
      BY <1>7, <2>1, <2>4, <3>1, <3>2 DEF BatchInv, Batches
    <3>3. CASE n = entry[w] /\ n \notin acked /\ v # w
      BY <1>1, <1>7, <2>1, <2>4, <3>3 DEF BatchInv, Batches
    <3>4. CASE n = entry[w] /\ n \notin acked /\ v = w
      BY <1>1, <1>3, <2>1, <2>4, <3>4 DEF Busy
    <3>5. QED
      BY <1>4, <3>2, <3>3, <3>4
  <2>5. QED
    BY <2>2, <2>3, <2>4 DEF Batches
<1>9. Claims'
  <2>1. \A e \in Events : claimedBy[e] \in Int
    BY DEF TypeOK
  <2>2. \A e \in Events : claimedBy'[e] <= cursor
    BY <1>1, <1>5 DEF BatchInv, Claims
  <2>3. \A e \in Events : claimedBy'[e] # 0 => event[claimedBy'[e]] = e
    BY <1>1, <1>5 DEF BatchInv, Claims, Ev
  <2>4. ASSUME NEW v \in Workers, NEW e \in Events, Busy(v)'
        PROVE  \/ claimedBy'[e] < entry'[v]
               \/ upto[v] < claimedBy'[e]
               \/ claimedBy'[e] = entry'[v] /\ at'[v] # "claim"
    <3>1. CASE v = w
      BY <1>1, <1>3, <1>5, <2>1, <2>4, <3>1 DEF BatchInv, Claims, Busy
    <3>2. CASE v # w
      <4>1. Busy(v) /\ entry'[v] = entry[v] /\ at'[v] = at[v]
        BY <1>2, <2>4, <3>2 DEF Busy
      <4>2. upto[w] < entry[v] \/ upto[v] < entry[w]
        BY <3>2, <4>1 DEF BatchInv, Batches
      <4>3. QED
        BY <1>1, <1>5, <1>7, <2>1, <4>1, <4>2 DEF BatchInv, Claims
    <3>3. QED
      BY <3>1, <3>2
  <2>5. QED
    BY <2>2, <2>3, <2>4 DEF Claims
<1>10. QED
  BY <1>2, <1>5, <1>6, <1>8, <1>9 DEF BatchInv

(***************************************************************************)
(* A replica goes on without a write: deliveries stay as they are, and     *)
(* what is acknowledged was closed.                                        *)
(***************************************************************************)
Stands(v) ==
    /\ at'[v] = at[v] /\ entry'[v] = entry[v]
    /\ chan'[v] = chan[v] /\ tries'[v] = tries[v]

LEMMA ControlKeeps ==
  ASSUME IInv, UNCHANGED <<event, store, provider>>,
         \A v \in Workers :
            \/ Stands(v)
            \/ at'[v] \notin Delivering \cup {"ack"}
            \/ at'[v] = "ack" /\ claimedBy[event[entry'[v]]] # entry'[v],
         \A e \in Events : claimedBy[e] \in acked' \ acked =>
            \A c \in Channels : Closed(e, c)
  PROVE  OwnerInv' /\ DeliverInv'
<1> USE DEF store, provider
<1>1. OwnerInv'
  <2>1. ASSUME NEW v \in Workers, at'[v] \in Delivering
        PROVE  claimedBy[event[entry'[v]]] = entry'[v]
    BY <2>1 DEF IInv, OwnerInv, Stands, Ev, Delivering
  <2>2. QED
    BY <2>1 DEF IInv, OwnerInv, Untouched, Ev
<1>2. ASSUME NEW v \in Workers PROVE Progress(v)'
  BY DEF IInv, DeliverInv, Progress, Stage, Stands, Closed, Untouched, Ev, Delivering
<1>3. ASSUME NEW v \in Workers PROVE Finished(v)'
  BY DEF IInv, DeliverInv, Finished, Stands, Closed, Ev, Delivering
<1>4. AckedIsClosed'
  BY DEF IInv, DeliverInv, AckedIsClosed, Closed
<1>5. QED
  BY <1>1, <1>2, <1>3, <1>4 DEF DeliverInv

(***************************************************************************)
(* The group's position moves on, at any time, and entries are added.      *)
(***************************************************************************)
LEMMA CursorKeeps ==
  ASSUME TypeOK, BatchInv, UNCHANGED <<event, acked, entry, upto, claimedBy>>,
         \A v \in Workers : at'[v] = at[v] \/ (at[v] \notin InBatch /\ at'[v] \notin InBatch),
         cursor' \in Int, cursor <= cursor'
  PROVE  BatchInv'
<1>1. \A v \in Workers : Busy(v)' => Busy(v) /\ at'[v] = at[v]
  BY DEF Busy
<1>2. cursor \in Int /\ \A v \in Workers : upto[v] \in Int
  BY DEF TypeOK
<1>3. \A e \in Events : claimedBy[e] \in Int
  BY DEF TypeOK
<1>4. Batches'
  BY <1>1, <1>2 DEF BatchInv, Batches
<1>5. Claims'
  BY <1>1, <1>2, <1>3 DEF BatchInv, Claims
<1>6. QED
  BY <1>4, <1>5 DEF BatchInv

LEMMA BatchEndFacts ==
  ASSUME TypeOK, cursor < last
  PROVE  BatchEnd \in cursor + 1 .. last /\ BatchEnd \in Nat /\ cursor \in Nat /\ last \in 0..MaxEntries
  BY DEF TypeOK, BatchEnd

(***************************************************************************)
(* Outside of batches.                                                     *)
(***************************************************************************)
LEMMA IdleStepsKeep ==
  ASSUME IInv, NEW w \in Workers,
         Publish \/ Start(w) \/ EnsureGroup(w) \/ ReadReplyLost(w) \/ (Dies(w) /\ ~Busy(w))
  PROVE  IInv'
<1>1. /\ cursor \in Int /\ cursor' \in Int /\ cursor <= cursor' /\ StreamTypes'
      /\ HistoryTypes'
  <2> USE DEF IInv, TypeOK, StreamTypes, HistoryTypes
  <2>1. CASE Publish
    BY <2>1 DEF Publish, history
  <2>2. CASE Start(w)
    BY <2>2 DEF Start, stream, history
  <2>6. CASE Dies(w) /\ ~Busy(w)
    <3>1. UNCHANGED <<stream, abandoned>> /\ deaths' = deaths + 1 /\ deaths < MaxDeaths
      BY <2>6 DEF Dies, Busy
    <3>2. UNCHANGED <<last, event, group, base, cursor, acked, abandoned>>
      BY <3>1 DEF stream
    <3>3. deaths' \in 0..MaxDeaths
      BY <3>1
    <3>4. QED
      BY <3>2, <3>3
  <2>3. CASE EnsureGroup(w)
    <3>1. cursor' \in base'..last /\ cursor <= cursor' /\ base' \in 0..last /\ group'
      BY <2>3 DEF EnsureGroup
    <3>2. 1..cursor \subseteq 1..cursor'
      BY <3>1
    <3>3. UNCHANGED <<last, event, acked, history>>
      BY <2>3 DEF EnsureGroup
    <3>4. UNCHANGED <<last, event, acked, abandoned, deaths>>
      BY <3>3 DEF history
    <3>5. StreamTypes'
      BY <3>1, <3>2, <3>4
    <3>6. HistoryTypes'
      BY <3>1, <3>2, <3>4
    <3>7. QED
      BY <3>1, <3>5, <3>6
  <2>4. CASE ReadReplyLost(w)
    <3>1. (cursor + 1)..BatchEnd \subseteq 1..BatchEnd /\ 1..cursor \subseteq 1..BatchEnd
      BY <2>4, BatchEndFacts DEF ReadReplyLost
    <3>2. /\ UNCHANGED <<last, event, group, base, acked, deaths>>
          /\ cursor' = BatchEnd /\ abandoned' = abandoned \cup (cursor + 1)..BatchEnd
      BY <2>4 DEF ReadReplyLost
    <3>3. /\ cursor' \in cursor + 1 .. last /\ cursor \in Nat
          /\ last \in 0..MaxEntries /\ base \in 0..last /\ cursor \in base..last
      BY <2>4, <3>2, BatchEndFacts DEF ReadReplyLost
    <3>4. cursor \in Int /\ cursor' \in base..last /\ cursor <= cursor'
      BY <3>3
    <3>5. acked \subseteq 1..cursor' /\ abandoned' \subseteq 1..cursor'
      BY <3>1, <3>2
    <3>6. QED
      BY <3>2, <3>3, <3>4, <3>5
  <2>5. QED
    BY <2>1, <2>2, <2>3, <2>4, <2>6
<1>2. /\ at' \in [Workers -> Steps]
      /\ UNCHANGED <<entry, upto, chan, tries, event, acked, store, provider>>
      /\ \A v \in Workers : \/ at'[v] = at[v]
                            \/ at[v] \notin InBatch /\ at'[v] \notin InBatch
  BY DEF IInv, TypeOK, Steps, InBatch, Delivering, Publish, Start, EnsureGroup, ReadReplyLost,
     Dies, Goes, Busy, workers, stream
<1>3. TypeOK'
  <2>1. WorkerTypes' /\ StoreTypes'
    BY <1>2 DEF WorkerTypes, StoreTypes, IInv, TypeOK, store, provider
  <2>2. QED
    BY <1>1, <2>1, PrimedTypes
<1>4. BatchInv'
  <2>1. UNCHANGED <<event, acked, entry, upto, claimedBy>>
    BY <1>2 DEF store
  <2>2. QED
    BY <1>1, <1>2, <2>1, CursorKeeps DEF IInv
<1>5. OwnerInv' /\ DeliverInv'
  <2>1. \A v \in Workers : Stands(v) \/ at'[v] \notin Delivering \cup {"ack"}
    BY <1>2 DEF Stands, InBatch
  <2>2. QED
    BY <1>2, <2>1, ControlKeeps
<1>6. QED
  BY <1>3, <1>4, <1>5 DEF IInv

LEMMA ReadKeeps == ASSUME IInv, NEW w \in Workers, ReadGroup(w) PROVE IInv'
<1> USE DEF IInv, ReadGroup, Goes, store, provider, history
<1>1. /\ cursor' \in cursor + 1 .. last /\ cursor' \in Nat /\ cursor \in Nat
      /\ last \in 0..MaxEntries
  BY BatchEndFacts
<1>2. /\ at'[w] = "claim" /\ entry'[w] = cursor + 1 /\ upto'[w] = cursor'
      /\ \A v \in Workers \ {w} : at'[v] = at[v] /\ entry'[v] = entry[v] /\ upto'[v] = upto[v]
  BY DEF TypeOK
<1>3. at' \in [Workers -> Steps]
  BY DEF TypeOK, Steps, InBatch
<1>4. entry' \in [Workers -> 0..MaxEntries] /\ upto' \in [Workers -> 0..MaxEntries]
  BY <1>1 DEF TypeOK
<1>5. StreamTypes' /\ HistoryTypes'
  BY <1>1 DEF TypeOK, StreamTypes, HistoryTypes
<1>6. TypeOK'
  <2>1. WorkerTypes' /\ StoreTypes'
    BY <1>3, <1>4 DEF WorkerTypes, StoreTypes, TypeOK
  <2>2. QED
    BY <1>5, <2>1, PrimedTypes
<1>7. Batches'
  <2>1. \A v \in Workers : upto[v] \in Int /\ entry[v] \in Int
    BY DEF TypeOK
  <2>2. ASSUME NEW v \in Workers, Busy(v)', v # w
        PROVE  Busy(v) /\ upto[v] <= cursor /\ entry[v] <= upto[v] /\ 1 <= entry[v]
    BY <1>2, <2>2 DEF Busy, BatchInv, Batches
  <2>3. \A n \in acked : n \in Int /\ n <= cursor
    BY DEF TypeOK
  <2>4. QED
    BY <1>1, <1>2, <2>1, <2>2, <2>3 DEF BatchInv, Batches
<1>8. Claims'
  <2>1. \A e \in Events : claimedBy[e] \in Int /\ claimedBy[e] <= cursor
    BY DEF TypeOK, BatchInv, Claims
  <2>2. \A v \in Workers \ {w} : Busy(v)' <=> Busy(v)
    BY <1>2 DEF Busy
  <2>3. QED
    BY <1>1, <1>2, <2>1, <2>2 DEF BatchInv, Claims
<1>9. OwnerInv' /\ DeliverInv'
  <2>1. \A v \in Workers : Stands(v) \/ at'[v] \notin Delivering \cup {"ack"}
    BY <1>2 DEF Stands, Delivering
  <2>2. QED
    BY <2>1, ControlKeeps
<1>10. QED
  BY <1>6, <1>7, <1>8, <1>9 DEF BatchInv

(***************************************************************************)
(* Inside of a batch, without a write.                                     *)
(***************************************************************************)
LEMMA SkipKeeps == ASSUME IInv, NEW w \in Workers, SkipDuplicate(w) PROVE IInv'
<1> USE DEF IInv, SkipDuplicate, store, provider, history, stream
<1>1. Busy(w)
  BY DEF Busy, InBatch
<1>2. BatchMove(w)
  BY <1>1 DEF BatchMove, Stays, ClaimsBy, InBatch
<1>3. /\ entry[w] \in Int /\ upto[w] \in Int /\ entry[w] <= upto[w] /\ Ev(w) \in Events
      /\ claimedBy[Ev(w)] \in Int
  BY <1>1, EntryFacts DEF BatchInv, Entries, TypeOK
<1>4. claimedBy[Ev(w)] # entry[w]
  BY <1>1, <1>3 DEF BatchInv, Claims
<1>5. TypeOK' /\ BatchInv'
  BY <1>2, BatchKeeps DEF TypeOK, StreamTypes
<1>6. OwnerInv' /\ DeliverInv'
  <2>1. \A v \in Workers : \/ Stands(v)
                           \/ at'[v] = "ack" /\ claimedBy[event[entry'[v]]] # entry'[v]
    BY <1>4 DEF Stands, Goes, Ev, TypeOK
  <2>2. QED
    BY <2>1, ControlKeeps
<1>7. QED
  BY <1>5, <1>6

LEMMA LeaveKeeps ==
  ASSUME IInv, NEW w \in Workers, Busy(w), Leaves(w),
         UNCHANGED <<last, event, group, base, cursor, upto, chan, tries, store, provider>>,
         acked' = acked \/ at[w] = "ack", HistoryTypes'
  PROVE  IInv'
<1> USE DEF IInv, store, provider
<1>1. BatchMove(w)
  BY DEF BatchMove, ClaimsBy
<1>2. TypeOK' /\ BatchInv' /\ \A v \in Workers \ {w} : at'[v] = at[v] /\ entry'[v] = entry[v]
  <2>1. /\ StreamTypes' /\ BatchInv'
        /\ at' \in [Workers -> Steps] /\ entry' \in [Workers -> 0..MaxEntries]
        /\ \A v \in Workers \ {w} : at'[v] = at[v] /\ entry'[v] = entry[v]
    BY <1>1, BatchKeeps
  <2>2. WorkerTypes' /\ StoreTypes'
    BY <2>1 DEF WorkerTypes, StoreTypes, TypeOK
  <2>3. QED
    BY <2>1, <2>2, PrimedTypes
<1>3. at'[w] \in {"claim", "idle", "off"}
  BY DEF Leaves, NextEntry, Goes, TypeOK
<1>4. ASSUME NEW e \in Events, claimedBy[e] \in acked' \ acked, NEW c \in Channels
      PROVE  Closed(e, c)
  <2>1. claimedBy[e] = entry[w] /\ at[w] = "ack"
    BY <1>4 DEF Leaves
  <2>2. entry[w] # 0
    BY EntryFacts DEF BatchInv, Entries
  <2>3. Ev(w) = e
    BY <2>1, <2>2 DEF BatchInv, Claims, Ev
  <2>4. QED
    BY <2>1, <2>3 DEF DeliverInv, Finished
<1>5. \A v \in Workers : Stands(v) \/ at'[v] \notin Delivering \cup {"ack"}
  BY <1>2, <1>3 DEF Stands, Delivering
<1>6. OwnerInv' /\ DeliverInv'
  BY <1>4, <1>5, ControlKeeps
<1>7. QED
  BY <1>2, <1>6

LEMMA LeaversKeep ==
  ASSUME IInv, NEW w \in Workers, WriteFails(w) \/ Ack(w) \/ AckFails(w) \/ (Dies(w) /\ Busy(w))
  PROVE  IInv'
<1> USE DEF IInv, WriteFails, Ack, AckFails, Dies, Abandon, store, provider, history, stream
<1>1. Busy(w)
  BY DEF Busy, InBatch
<1>2. /\ entry[w] \in 1..cursor /\ upto[w] \in Int /\ upto[w] <= cursor /\ cursor \in Nat
  BY <1>1, EntryFacts DEF BatchInv, Entries
<1>3. HistoryTypes'
  <2>1. {entry[w]} \subseteq 1..cursor /\ (entry[w]..upto[w]) \subseteq 1..cursor
    BY <1>2
  <2>2. abandoned' \subseteq abandoned \cup {entry[w]} \cup (entry[w]..upto[w])
    OBVIOUS
  <2>3. deaths' \in 0..MaxDeaths /\ cursor' = cursor
    BY DEF TypeOK
  <2>4. QED
    BY <2>1, <2>2, <2>3 DEF HistoryTypes, TypeOK
<1>4. Leaves(w) /\ (acked' = acked \/ at[w] = "ack")
  BY DEF Leaves
<1>5. QED
  BY <1>1, <1>3, <1>4, LeaveKeeps

(***************************************************************************)
(* Inside of a batch, with a write: a delivery of w touches the records of *)
(* the event of w on its channel, and of nothing else.                     *)
(***************************************************************************)
Others(w) ==
    /\ \A e \in Events, c \in Channels : e # Ev(w) \/ c # chan[w] =>
           /\ row'[e][c] = row[e][c]
           /\ sends'[e][c] = sends[e][c]
           /\ <<e, c>> \in reached' <=> <<e, c>> \in reached
           /\ <<e, c>> \in dead' <=> <<e, c>> \in dead
    /\ \A v \in Workers \ {w} : Stands(v)

LEMMA OthersKeep ==
  ASSUME IInv, NEW w \in Workers, at[w] \in Delivering, Others(w),
         UNCHANGED <<event, claimedBy, acked>>
  PROVE  /\ \A v \in Workers \ {w} : Progress(v)' /\ Finished(v)'
         /\ AckedIsClosed'
         /\ \A e \in Events, c \in Channels : claimedBy[e] = 0 => Untouched(e, c)'
<1>1. Busy(w) /\ claimedBy[Ev(w)] = entry[w] /\ entry[w] # 0 /\ entry[w] \notin acked
  <2>1. Busy(w)
    BY DEF Busy, InBatch
  <2>2. entry[w] \in Entries /\ entry[w] <= upto[w] /\ upto[w] \in Entries
    BY <2>1, EntryFacts DEF IInv, BatchInv
  <2>3. QED
    BY <2>1, <2>2 DEF IInv, BatchInv, Batches, OwnerInv, Entries
<1>2. ASSUME NEW e \in Events, e # Ev(w), NEW c \in Channels
      PROVE  (Closed(e, c)' <=> Closed(e, c)) /\ (Untouched(e, c)' <=> Untouched(e, c))
  BY <1>2 DEF Others, Closed, Untouched
<1>3. AckedIsClosed'
  BY <1>1, <1>2 DEF IInv, DeliverInv, AckedIsClosed
<1>4. \A e \in Events, c \in Channels : claimedBy[e] = 0 => Untouched(e, c)'
  BY <1>1, <1>2 DEF IInv, OwnerInv
<1>5. ASSUME NEW v \in Workers, v # w PROVE Progress(v)' /\ Finished(v)'
  <2>1. Stands(v) /\ event' = event /\ Ev(v)' = Ev(v)
    BY <1>5 DEF Others, Stands, Ev
  <2>2. CASE at[v] \in Delivering
    <3>1. Ev(v) # Ev(w) /\ Ev(v) \in Events /\ chan[v] \in Channels
      BY <1>5, <2>2, Disjoint, EntryFacts DEF IInv, BatchInv, Busy, InBatch, TypeOK
    <3>2. Stage(at[v], Ev(v), chan[v], tries[v])'
      BY <2>1, <2>2, <3>1 DEF IInv, DeliverInv, Progress, Stage, Stands, Others, Untouched
    <3>3. Progress(v)'
      BY <1>2, <2>1, <2>2, <3>1, <3>2 DEF IInv, DeliverInv, Progress, Stands
    <3>4. QED
      BY <2>1, <2>2, <3>3 DEF Stands, Finished, Delivering
  <2>3. CASE at[v] = "ack" /\ claimedBy[Ev(v)] = entry[v]
    <3>1. Ev(v) # Ev(w) /\ Ev(v) \in Events
      BY <1>5, <2>3, Disjoint, EntryFacts DEF IInv, BatchInv, Busy, InBatch
    <3>2. \A c \in Channels : Closed(Ev(v), c)'
      BY <1>2, <2>1, <2>3, <3>1 DEF IInv, DeliverInv, Finished, Closed
    <3>3. QED
      BY <2>1, <2>3, <3>2 DEF Stands, Finished, Progress, Delivering
  <2>4. CASE at[v] \notin Delivering /\ ~(at[v] = "ack" /\ claimedBy[Ev(v)] = entry[v])
    BY <2>1, <2>4 DEF Stands, Finished, Progress
  <2>5. QED
    BY <2>2, <2>3, <2>4
<1>6. QED
  BY <1>3, <1>4, <1>5

(***************************************************************************)
(* What the steps of a delivery do to the record of their event, and that  *)
(* the invariant survives a step that does no more.                        *)
(***************************************************************************)
LEMMA DeliveryFacts ==
  ASSUME IInv, NEW w \in Workers, at[w] \in Delivering
  PROVE  /\ Busy(w) /\ Ev(w) \in Events /\ chan[w] \in Channels
         /\ entry[w] \in Entries /\ entry[w] \in 1..cursor
         /\ claimedBy[Ev(w)] = entry[w] /\ entry[w] \notin acked
         /\ \A c \in Channels : c < chan[w] => Closed(Ev(w), c)
         /\ \A c \in Channels : c > chan[w] => Untouched(Ev(w), c)
         /\ Stage(at[w], Ev(w), chan[w], tries[w])
<1>1. Busy(w)
  BY DEF Busy, InBatch
<1>2. Ev(w) \in Events /\ chan[w] \in Channels /\ entry[w] \in Entries
      /\ entry[w] \in 1..cursor /\ entry[w] <= upto[w] /\ upto[w] \in Entries
  BY <1>1, EntryFacts DEF IInv, BatchInv, TypeOK
<1>3. entry[w] \notin acked
  BY <1>1, <1>2 DEF IInv, BatchInv, Batches, Entries
<1>4. QED
  BY <1>1, <1>2, <1>3 DEF IInv, OwnerInv, DeliverInv, Progress

LEMMA WriteKeeps ==
  ASSUME IInv, NEW w \in Workers, at[w] \in Delivering, Others(w),
         BatchMove(w), UNCHANGED claimedBy,
         chan' \in [Workers -> Channels], tries' \in [Workers -> 0..MaxAttempts],
         row' \in [Events -> [Channels -> Statuses]], dead' \subseteq Events \X Channels,
         sends' \in [Events -> [Channels -> 0..MaxAttempts]],
         reached' \subseteq Events \X Channels, HistoryTypes',
         acked' = acked,
         at'[w] \in Delivering \cup {"ack"} => entry'[w] = entry[w],
         Progress(w)', Finished(w)'
  PROVE  IInv'
<1>1. /\ StreamTypes' /\ BatchInv'
      /\ at' \in [Workers -> Steps] /\ entry' \in [Workers -> 0..MaxEntries]
      /\ claimedBy' \in [Events -> 0..MaxEntries]
  BY BatchKeeps DEF IInv
<1>2. TypeOK'
  <2>1. upto' \in [Workers -> 0..MaxEntries]
    BY DEF BatchMove, IInv, TypeOK
  <2>2. WorkerTypes' /\ StoreTypes'
    BY <1>1, <2>1 DEF WorkerTypes, StoreTypes
  <2>3. QED
    BY <1>1, <2>2, PrimedTypes
<1>3. /\ \A v \in Workers \ {w} : Progress(v)' /\ Finished(v)'
      /\ AckedIsClosed'
      /\ \A e \in Events, c \in Channels : claimedBy[e] = 0 => Untouched(e, c)'
  BY OthersKeep DEF BatchMove
<1>4. DeliverInv'
  BY <1>3 DEF DeliverInv
<1>5. OwnerInv'
  <2>1. event' = event
    BY DEF BatchMove
  <2>2. ASSUME NEW v \in Workers, at'[v] \in Delivering
        PROVE  claimedBy[event[entry'[v]]] = entry'[v]
    <3>1. CASE v = w
      BY <2>2, <3>1, DeliveryFacts DEF Ev
    <3>2. CASE v # w
      BY <2>2, <3>2 DEF Others, Stands, IInv, OwnerInv, Ev
    <3>3. QED
      BY <3>1, <3>2
  <2>3. QED
    BY <1>3, <2>1, <2>2 DEF OwnerInv, Ev
<1>6. QED
  BY <1>1, <1>2, <1>4, <1>5 DEF IInv

(***************************************************************************)
(* An update of one record of a table by event and channel.                *)
(***************************************************************************)
LEMMA RowFacts ==
  ASSUME TypeOK, NEW w \in Workers, Ev(w) \in Events, NEW s \in Statuses, SetRow(w, s)
  PROVE  /\ row' \in [Events -> [Channels -> Statuses]]
         /\ row'[Ev(w)][chan[w]] = s
         /\ \A e \in Events, c \in Channels : e # Ev(w) \/ c # chan[w] => row'[e][c] = row[e][c]
         /\ claimedBy' = claimedBy /\ dead' = dead
<1>1. chan[w] \in Channels /\ row \in [Events -> [Channels -> Statuses]]
  BY DEF TypeOK
<1>2. row' = [row EXCEPT ![Ev(w)] = [row[Ev(w)] EXCEPT ![chan[w]] = s]]
  BY DEF SetRow
<1>3. [row[Ev(w)] EXCEPT ![chan[w]] = s] \in [Channels -> Statuses]
  BY <1>1
<1>4. QED
  BY <1>1, <1>2, <1>3 DEF SetRow

LEMMA CreateKeeps == ASSUME IInv, NEW w \in Workers, Create(w) PROVE IInv'
<1> USE DEF Create, Goes
<1>1. at[w] \in Delivering /\ at' = [at EXCEPT ![w] = "send"] /\ SetRow(w, "PENDING")
  BY DEF Delivering, CreateRow
<1>2. /\ Busy(w) /\ Ev(w) \in Events /\ chan[w] \in Channels
      /\ \A c \in Channels : c < chan[w] => Closed(Ev(w), c)
      /\ \A c \in Channels : c > chan[w] => Untouched(Ev(w), c)
      /\ Untouched(Ev(w), chan[w])
  BY <1>1, DeliveryFacts DEF Stage
<1>3. /\ row' \in [Events -> [Channels -> Statuses]]
      /\ row'[Ev(w)][chan[w]] = "PENDING"
      /\ \A e \in Events, c \in Channels : e # Ev(w) \/ c # chan[w] => row'[e][c] = row[e][c]
      /\ claimedBy' = claimedBy /\ dead' = dead
  BY <1>1, <1>2, RowFacts DEF IInv, Statuses
<1>4. /\ UNCHANGED <<last, event, group, base, cursor, acked, entry, upto, chan>>
      /\ UNCHANGED <<sends, reached, abandoned, deaths>>
      /\ tries' \in [Workers -> 0..MaxAttempts] /\ tries'[w] = 0
      /\ at'[w] = "send" /\ \A v \in Workers \ {w} : at'[v] = at[v] /\ tries'[v] = tries[v]
  BY <1>1 DEF stream, provider, history, IInv, TypeOK, MaxAttempts
<1>5. BatchMove(w)
  BY <1>1, <1>2, <1>3, <1>4 DEF BatchMove, Stays, ClaimsBy, InBatch, Delivering
<1>6. Others(w)
  BY <1>3, <1>4 DEF Others, Stands
<1>7. Ev(w)' = Ev(w)
  BY <1>4 DEF Ev
<1>8. Progress(w)' /\ Finished(w)'
  BY <1>2, <1>3, <1>4, <1>7 DEF Progress, Finished, Stage, Closed, Untouched, MaxAttempts
<1>9. HistoryTypes'
  BY <1>4 DEF IInv, TypeOK, HistoryTypes
<1>10. QED
  BY <1>1, <1>3, <1>4, <1>5, <1>6, <1>8, <1>9, WriteKeeps DEF IInv, TypeOK

LEMMA ChannelOrder ==
  \A c, d \in Channels : (d < c => d # c) /\ (d > c => d # c)
  BY DEF Channels

LEMMA TryFacts ==
  ASSUME IInv, NEW w \in Workers, at[w] = "send",
         tries' = [tries EXCEPT ![w] = @ + 1],
         sends' = [sends EXCEPT ![Ev(w)][chan[w]] = @ + 1]
  PROVE  /\ tries' \in [Workers -> 0..MaxAttempts]
         /\ tries'[w] = tries[w] + 1 /\ tries[w] < MaxAttempts /\ tries[w] \in Nat
         /\ \A v \in Workers \ {w} : tries'[v] = tries[v]
         /\ sends' \in [Events -> [Channels -> 0..MaxAttempts]]
         /\ sends'[Ev(w)][chan[w]] = tries[w] + 1
         /\ \A e \in Events, c \in Channels :
                e # Ev(w) \/ c # chan[w] => sends'[e][c] = sends[e][c]
<1>1. /\ Ev(w) \in Events /\ chan[w] \in Channels
      /\ sends[Ev(w)][chan[w]] = tries[w] /\ tries[w] < MaxAttempts
  BY DeliveryFacts DEF Stage, Delivering
<1>2. tries[w] \in Nat /\ MaxAttempts \in Nat /\ tries[w] + 1 \in 0..MaxAttempts
  BY <1>1 DEF IInv, TypeOK, MaxAttempts
<1>3. sends \in [Events -> [Channels -> 0..MaxAttempts]] /\ tries \in [Workers -> 0..MaxAttempts]
  BY DEF IInv, TypeOK
<1>4. sends' = [sends EXCEPT ![Ev(w)] = [sends[Ev(w)] EXCEPT ![chan[w]] = tries[w] + 1]]
  BY <1>1, <1>3
<1>5. [sends[Ev(w)] EXCEPT ![chan[w]] = tries[w] + 1] \in [Channels -> 0..MaxAttempts]
  BY <1>1, <1>2, <1>3
<1>6. QED
  BY <1>1, <1>2, <1>3, <1>4, <1>5

LEMMA SendKeeps ==
  ASSUME IInv, NEW w \in Workers, SendSucceeds(w) \/ SendFails(w)
  PROVE  IInv'
<1>1. at[w] = "send" /\ at[w] \in Delivering
  BY DEF SendSucceeds, SendFails, Delivering
<1>16. PICK e \in Events, c \in Channels : e = Ev(w) /\ c = chan[w]
  BY <1>1, DeliveryFacts
<1>2. /\ Busy(w)
      /\ \A d \in Channels : d < c => Closed(e, d)
      /\ \A d \in Channels : d > c => Untouched(e, d)
      /\ row[e][c] = "PENDING" /\ <<e, c>> \notin reached /\ <<e, c>> \notin dead
  BY <1>1, <1>16, DeliveryFacts DEF Stage
<1>3. /\ tries' \in [Workers -> 0..MaxAttempts]
      /\ tries'[w] = tries[w] + 1 /\ tries[w] < MaxAttempts /\ tries[w] \in Nat
      /\ \A v \in Workers \ {w} : tries'[v] = tries[v]
      /\ sends' \in [Events -> [Channels -> 0..MaxAttempts]]
      /\ sends'[e][c] = tries[w] + 1
      /\ \A f \in Events, d \in Channels : f # e \/ d # c => sends'[f][d] = sends[f][d]
  BY <1>1, <1>16, TryFacts DEF SendSucceeds, SendFails
<1>4. /\ UNCHANGED <<last, event, group, base, cursor, acked, entry, upto, chan>>
      /\ UNCHANGED <<claimedBy, row, dead, abandoned, deaths>>
  BY DEF SendSucceeds, SendFails, stream, store, history
<1>5. PICK s \in {"send", "delivered", "failed"} :
        /\ at' = [at EXCEPT ![w] = s]
        /\ s = "delivered" => reached' = reached \cup {<<e, c>>}
        /\ s # "delivered" => reached' = reached
        /\ s = "send" => tries[w] + 1 < MaxAttempts
        /\ s = "failed" => ~(tries[w] + 1 < MaxAttempts)
  BY <1>16 DEF SendSucceeds, SendFails, Goes, provider
<1>6. at'[w] = s /\ \A v \in Workers \ {w} : at'[v] = at[v]
  BY <1>5 DEF IInv, TypeOK
<1>7. BatchMove(w)
  BY <1>2, <1>4, <1>5 DEF BatchMove, Stays, ClaimsBy, Goes, InBatch, Delivering
<1>8. Others(w)
  BY <1>16, <1>3, <1>4, <1>5, <1>6 DEF Others, Stands
<1>9. Ev(w)' = e /\ chan'[w] = c
  BY <1>4, <1>16 DEF Ev
<1>10. \A d \in Channels : d # c => /\ (Closed(e, d)' <=> Closed(e, d))
                                    /\ (Untouched(e, d)' <=> Untouched(e, d))
  BY <1>8, <1>16 DEF Others, Closed, Untouched
<1>11. Stage(at[w], Ev(w), chan[w], tries[w])'
  <2>1. PICK k \in Nat : k = tries'[w]
    BY <1>3
  <2>2. s = "failed" => k = MaxAttempts
    BY <1>3, <1>5, <2>1 DEF MaxAttempts
  <2>3. Stage(s, e, c, k)'
    BY <1>2, <1>3, <1>4, <1>5, <2>1, <2>2 DEF Stage
  <2>4. QED
    BY <1>6, <1>9, <2>1, <2>3
<1>12. Progress(w)' /\ Finished(w)'
  <2>1. /\ \A d \in Channels : d < c => Closed(e, d)'
        /\ \A d \in Channels : d > c => Untouched(e, d)'
    <3>1. ASSUME NEW d \in Channels, d < c PROVE Closed(e, d)'
      BY <1>2, <1>10, <3>1, ChannelOrder
    <3>2. ASSUME NEW d \in Channels, d > c PROVE Untouched(e, d)'
      BY <1>2, <1>10, <3>2, ChannelOrder
    <3>3. QED
      BY <3>1, <3>2
  <2>2. at'[w] # "ack"
    BY <1>6
  <2>3. Progress(w)'
    BY <1>9, <1>11, <2>1 DEF Progress
  <2>4. QED
    BY <2>2, <2>3 DEF Finished
<1>13. HistoryTypes'
  BY <1>4 DEF IInv, TypeOK, HistoryTypes
<1>14. reached' \subseteq Events \X Channels
  BY <1>5 DEF IInv, TypeOK
<1>15. QED
  BY <1>1, <1>3, <1>4, <1>7, <1>8, <1>12, <1>13, <1>14, WriteKeeps DEF IInv, TypeOK

(***************************************************************************)
(* The loop over the channels goes on behind a channel that is closed.     *)
(***************************************************************************)
LEMMA NextChannelFacts ==
  ASSUME IInv, NEW w \in Workers, at[w] \in Delivering, NextChannel(w), Others(w),
         UNCHANGED <<event, entry, acked, claimedBy>>,
         \A c \in Channels : c = chan[w] => Closed(Ev(w), c)'
  PROVE  /\ at'[w] \in {"create", "ack"} /\ Stays(w)
         /\ chan' \in [Workers -> Channels]
         /\ Progress(w)' /\ Finished(w)'
<1>1. PICK e \in Events, c \in Channels : e = Ev(w) /\ c = chan[w]
  BY DeliveryFacts
<1>2. Ev(w)' = e
  BY <1>1 DEF Ev
<1>3. /\ Closed(e, c)'
      /\ \A d \in Channels : d < c => Closed(e, d)
      /\ \A d \in Channels : d > c => Untouched(e, d)
  <2>1. /\ \A d \in Channels : d < c => Closed(e, d)
        /\ \A d \in Channels : d > c => Untouched(e, d)
    BY <1>1, DeliveryFacts
  <2>2. Closed(e, c)'
    BY <1>1, <1>2 DEF Closed
  <2>3. QED
    BY <2>1, <2>2
<1>4. \A d \in Channels : d # c => /\ (Closed(e, d)' <=> Closed(e, d))
                                   /\ (Untouched(e, d)' <=> Untouched(e, d))
  BY <1>1 DEF Others, Closed, Untouched
<1>5. /\ \A d \in Channels : d <= c => Closed(e, d)'
      /\ \A d \in Channels : d > c => Untouched(e, d)'
  <2>1. ASSUME NEW d \in Channels, d <= c PROVE Closed(e, d)'
    <3>1. d < c \/ d = c
      BY <2>1 DEF Channels
    <3>2. QED
      BY <1>3, <1>4, <3>1, ChannelOrder
  <2>2. ASSUME NEW d \in Channels, d > c PROVE Untouched(e, d)'
    BY <1>3, <1>4, <2>2, ChannelOrder
  <2>3. QED
    BY <2>1, <2>2
<1>6. c \in Int /\ NChannels \in Int
  BY DEF Channels
<1>7. CASE c < NChannels
  <2>1. chan' = [chan EXCEPT ![w] = c + 1] /\ Goes(w, "create")
    BY <1>1, <1>7 DEF NextChannel, IInv, TypeOK
  <2>2. c + 1 \in Channels
    BY <1>7 DEF Channels
  <2>3. at'[w] = "create" /\ chan'[w] = c + 1 /\ chan' \in [Workers -> Channels] /\ Stays(w)
    BY <2>1, <2>2 DEF Goes, Stays, InBatch, Delivering, IInv, TypeOK
  <2>4. ASSUME NEW d \in Channels
        PROVE  /\ d < c + 1 => Closed(e, d)'
               /\ d > c + 1 => Untouched(e, d)'
               /\ d = c + 1 => Untouched(e, d)'
    <3>1. (d < c + 1 => d <= c) /\ (d > c + 1 => d > c) /\ (d = c + 1 => d > c)
      BY DEF Channels
    <3>2. QED
      BY <1>5, <3>1
  <2>5. PICK k \in Channels : k = c + 1
    BY <2>2
  <2>6. Stage("create", e, k, tries[w])'
    BY <2>4, <2>5 DEF Stage
  <2>7. Progress(w)'
    BY <1>2, <2>3, <2>4, <2>5, <2>6 DEF Progress, Stage
  <2>8. QED
    BY <2>3, <2>7 DEF Finished
<1>8. CASE ~(c < NChannels)
  <2>1. chan' = chan /\ Goes(w, "ack")
    BY <1>1, <1>8 DEF NextChannel
  <2>2. at'[w] = "ack" /\ chan' \in [Workers -> Channels] /\ Stays(w)
    BY <2>1 DEF Goes, Stays, InBatch, Delivering, IInv, TypeOK
  <2>3. ASSUME NEW d \in Channels PROVE Closed(e, d)'
    <3>1. d <= c
      BY <1>8 DEF Channels
    <3>2. QED
      BY <1>5, <3>1
  <2>4. Finished(w)'
    BY <1>2, <2>3 DEF Finished
  <2>5. QED
    BY <2>2, <2>4 DEF Progress, Delivering
<1>9. QED
  BY <1>7, <1>8

(***************************************************************************)
(* The writes behind a send: the outcome of the record, the dead letter.   *)
(***************************************************************************)
LEMMA OutcomeFacts ==
  ASSUME IInv, NEW w \in Workers, at[w] \in {"delivered", "failed"}, UpdateDelivery(w),
         UNCHANGED provider, \A v \in Workers \ {w} : Stands(v)
  PROVE  /\ row' \in [Events -> [Channels -> Statuses]] /\ Others(w)
         /\ UNCHANGED <<claimedBy, dead, sends, reached>>
         /\ row'[Ev(w)][chan[w]] = IF at[w] = "delivered" THEN "DELIVERED" ELSE "FAILED"
         /\ at[w] = "delivered" => <<Ev(w), chan[w]>> \in reached
         /\ at[w] = "failed" => <<Ev(w), chan[w]>> \notin dead
<1> DEFINE s == IF at[w] = "delivered" THEN "DELIVERED" ELSE "FAILED"
<1>1. SetRow(w, s) /\ s \in Statuses /\ at[w] \in Delivering
  BY DEF UpdateDelivery, Statuses, Delivering
<1>2. /\ Ev(w) \in Events
      /\ at[w] = "delivered" => <<Ev(w), chan[w]>> \in reached
      /\ at[w] = "failed" => <<Ev(w), chan[w]>> \notin dead
  BY <1>1, DeliveryFacts DEF Stage
<1> HIDE DEF s
<1>3. /\ row' \in [Events -> [Channels -> Statuses]]
      /\ row'[Ev(w)][chan[w]] = s
      /\ \A e \in Events, c \in Channels : e # Ev(w) \/ c # chan[w] => row'[e][c] = row[e][c]
      /\ claimedBy' = claimedBy /\ dead' = dead
  BY <1>1, <1>2, RowFacts DEF IInv
<1>4. Others(w)
  BY <1>3 DEF Others, provider
<1>5. QED
  BY <1>2, <1>3, <1>4 DEF s, provider

LEMMA SettleKeeps == ASSUME IInv, NEW w \in Workers, Settle(w) PROVE IInv'
<1>1. at[w] \in {"delivered", "failed"} /\ at[w] \in Delivering /\ UpdateDelivery(w)
  BY DEF Settle, Delivering
<1>2. UNCHANGED <<last, event, group, base, cursor, acked, entry, upto, tries, sends, reached,
                  abandoned, deaths>>
  BY DEF Settle, stream, provider, history
<1>3. \A v \in Workers \ {w} : Stands(v)
  BY <1>2 DEF Settle, NextChannel, Goes, Stands, IInv, TypeOK
<1>4. /\ row' \in [Events -> [Channels -> Statuses]] /\ Others(w)
      /\ UNCHANGED <<claimedBy, dead, sends, reached>>
      /\ row'[Ev(w)][chan[w]] = IF at[w] = "delivered" THEN "DELIVERED" ELSE "FAILED"
      /\ at[w] = "delivered" => <<Ev(w), chan[w]>> \in reached
      /\ at[w] = "failed" => <<Ev(w), chan[w]>> \notin dead
  BY <1>1, <1>2, <1>3, OutcomeFacts DEF provider
<1>5. PICK e \in Events, c \in Channels : e = Ev(w) /\ c = chan[w]
  BY <1>1, DeliveryFacts
<1>6. Ev(w)' = e
  BY <1>2, <1>5 DEF Ev
<1>7. /\ Stays(w) /\ chan' \in [Workers -> Channels]
      /\ at'[w] \in {"create", "ack", "bury"}
      /\ Progress(w)' /\ Finished(w)'
  <2>1. CASE at[w] = "delivered"
    <3>1. NextChannel(w)
      BY <2>1 DEF Settle
    <3>2. Closed(e, c)'
      BY <1>2, <1>4, <1>5, <2>1 DEF Closed
    <3>3. QED
      BY <1>1, <1>2, <1>4, <1>5, <1>6, <3>1, <3>2, NextChannelFacts DEF Closed
  <2>2. CASE at[w] = "failed"
    <3>1. Goes(w, "bury") /\ chan' = chan
      BY <2>2 DEF Settle
    <3>2. at'[w] = "bury" /\ Stays(w) /\ chan' \in [Workers -> Channels]
      BY <1>2, <3>1 DEF Goes, Stays, InBatch, Delivering, IInv, TypeOK
    <3>3. \A d \in Channels : d # c => /\ (Closed(e, d)' <=> Closed(e, d))
                                       /\ (Untouched(e, d)' <=> Untouched(e, d))
      BY <1>4, <1>5 DEF Others, Closed, Untouched
    <3>4. /\ \A d \in Channels : d < c => Closed(e, d)
          /\ \A d \in Channels : d > c => Untouched(e, d)
      BY <1>1, <1>5, DeliveryFacts
    <3>5. ASSUME NEW d \in Channels
          PROVE  (d < c => Closed(e, d)') /\ (d > c => Untouched(e, d)')
      BY <3>3, <3>4, ChannelOrder
    <3>6. Stage("bury", e, c, tries[w])'
      BY <1>4, <1>5, <2>2 DEF Stage
    <3>7. Progress(w)'
      BY <1>5, <1>6, <3>1, <3>2, <3>5, <3>6 DEF Progress, Stage
    <3>8. QED
      BY <3>2, <3>7 DEF Finished
  <2>3. QED
    BY <1>1, <2>1, <2>2
<1>8. BatchMove(w)
  BY <1>1, <1>2, <1>4, <1>7 DEF BatchMove, ClaimsBy, Busy, InBatch
<1>9. HistoryTypes'
  BY <1>2 DEF IInv, TypeOK, HistoryTypes
<1>10. QED
  BY <1>1, <1>2, <1>4, <1>7, <1>8, <1>9, WriteKeeps DEF IInv, TypeOK

LEMMA DeadLetterFacts ==
  ASSUME IInv, NEW w \in Workers, at[w] = "bury", RecordDeadLetter(w),
         UNCHANGED provider, \A v \in Workers \ {w} : Stands(v)
  PROVE  /\ dead' \subseteq Events \X Channels /\ Others(w)
         /\ UNCHANGED <<claimedBy, row, sends, reached>>
         /\ row'[Ev(w)][chan[w]] = "FAILED" /\ <<Ev(w), chan[w]>> \in dead'
<1>5. Ev(w) \in Events /\ chan[w] \in Channels /\ row[Ev(w)][chan[w]] = "FAILED"
  BY DeliveryFacts DEF Delivering, Stage
<1>1. PICK e \in Events, c \in Channels : e = Ev(w) /\ c = chan[w] /\ row[e][c] = "FAILED"
  BY <1>5
<1>2. dead' = dead \cup {<<e, c>>} /\ UNCHANGED <<claimedBy, row, sends, reached>>
  BY <1>1 DEF RecordDeadLetter, provider
<1>3. Others(w)
  BY <1>1, <1>2 DEF Others
<1>4. QED
  BY <1>1, <1>2, <1>3 DEF IInv, TypeOK

LEMMA BuryKeeps == ASSUME IInv, NEW w \in Workers, Bury(w) PROVE IInv'
<1>1. at[w] = "bury" /\ at[w] \in Delivering /\ RecordDeadLetter(w) /\ NextChannel(w)
  BY DEF Bury, Delivering
<1>2. UNCHANGED <<last, event, group, base, cursor, acked, entry, upto, tries, sends, reached,
                  abandoned, deaths>>
  BY DEF Bury, stream, provider, history
<1>3. \A v \in Workers \ {w} : Stands(v)
  BY <1>1, <1>2 DEF NextChannel, Goes, Stands, IInv, TypeOK
<1>4. /\ dead' \subseteq Events \X Channels /\ Others(w)
      /\ UNCHANGED <<claimedBy, row, sends, reached>>
      /\ row'[Ev(w)][chan[w]] = "FAILED" /\ <<Ev(w), chan[w]>> \in dead'
  BY <1>1, <1>2, <1>3, DeadLetterFacts DEF provider
<1>5. PICK e \in Events, c \in Channels : e = Ev(w) /\ c = chan[w]
  BY <1>1, DeliveryFacts
<1>6. Ev(w)' = e
  BY <1>2, <1>5 DEF Ev
<1>7. /\ Stays(w) /\ chan' \in [Workers -> Channels]
      /\ at'[w] \in {"create", "ack"}
      /\ Progress(w)' /\ Finished(w)'
  BY <1>1, <1>2, <1>4, <1>5, <1>6, NextChannelFacts DEF Closed
<1>8. BatchMove(w)
  BY <1>1, <1>2, <1>4, <1>7 DEF BatchMove, ClaimsBy, Busy, InBatch
<1>9. HistoryTypes'
  BY <1>2 DEF IInv, TypeOK, HistoryTypes
<1>10. QED
  BY <1>1, <1>2, <1>4, <1>7, <1>8, <1>9, WriteKeeps DEF IInv, TypeOK

(***************************************************************************)
(* The answer of a write is lost: the write is made, the entry abandoned.  *)
(***************************************************************************)
LEMMA AbandonFacts ==
  ASSUME IInv, NEW w \in Workers, Busy(w), Abandon(w)
  PROVE  /\ UNCHANGED <<last, event, group, base, cursor, acked, upto, chan, tries,
                         sends, reached, deaths>>
         /\ at'[w] \in {"claim", "idle"} /\ Leaves(w) /\ HistoryTypes'
         /\ \A v \in Workers \ {w} : Stands(v)
<1>1. entry[w] \in 1..cursor
  BY EntryFacts DEF IInv, BatchInv
<1>2. UNCHANGED <<last, event, group, base, cursor, acked, upto, chan, tries,
                  sends, reached, deaths>>
  BY DEF Abandon, stream, provider
<1>3. HistoryTypes'
  BY <1>1, <1>2 DEF Abandon, HistoryTypes, IInv, TypeOK
<1>4. Leaves(w) /\ at'[w] \in {"claim", "idle"}
  BY <1>2 DEF Abandon, Leaves, NextEntry, Goes, IInv, TypeOK
<1>5. \A v \in Workers \ {w} : Stands(v)
  BY <1>2 DEF Abandon, NextEntry, Goes, Stands, IInv, TypeOK
<1>6. QED
  BY <1>2, <1>3, <1>4, <1>5

LEMMA LostWriteKeeps ==
  ASSUME IInv, NEW w \in Workers, at[w] \in Delivering, WriteAnswerLost(w)
  PROVE  IInv'
<1>1. Busy(w) /\ Abandon(w)
  BY DEF Busy, InBatch, WriteAnswerLost
<1>2. /\ UNCHANGED <<last, event, group, base, cursor, acked, upto, chan, tries,
                      sends, reached, deaths>>
      /\ at'[w] \in {"claim", "idle"} /\ Leaves(w) /\ HistoryTypes'
      /\ \A v \in Workers \ {w} : Stands(v)
  BY <1>1, AbandonFacts
<1>3. /\ Others(w) /\ UNCHANGED claimedBy
      /\ row' \in [Events -> [Channels -> Statuses]] /\ dead' \subseteq Events \X Channels
  <2>1. CASE at[w] = "create" /\ CreateRow(w)
    <3>1. SetRow(w, "PENDING") /\ Ev(w) \in Events
      BY <2>1, DeliveryFacts DEF CreateRow
    <3>2. /\ row' \in [Events -> [Channels -> Statuses]]
          /\ \A e \in Events, c \in Channels : e # Ev(w) \/ c # chan[w] => row'[e][c] = row[e][c]
          /\ claimedBy' = claimedBy /\ dead' = dead
      BY <3>1, RowFacts DEF IInv, Statuses
    <3>3. Others(w)
      BY <1>2, <3>2 DEF Others
    <3>4. QED
      BY <3>2, <3>3 DEF IInv, TypeOK
  <2>2. CASE at[w] \in {"delivered", "failed"} /\ UpdateDelivery(w)
    BY <1>2, <2>2, OutcomeFacts DEF provider, IInv, TypeOK
  <2>3. CASE at[w] = "bury" /\ RecordDeadLetter(w)
    BY <1>2, <2>3, DeadLetterFacts DEF provider, IInv, TypeOK
  <2>4. QED
    BY <2>1, <2>2, <2>3 DEF WriteAnswerLost, Delivering
<1>4. BatchMove(w)
  BY <1>1, <1>2, <1>3 DEF BatchMove, ClaimsBy
<1>5. Progress(w)' /\ Finished(w)'
  BY <1>2 DEF Progress, Finished, Delivering
<1>6. at'[w] \notin Delivering \cup {"ack"}
  BY <1>2 DEF Delivering
<1>7. QED
  BY <1>2, <1>3, <1>4, <1>5, <1>6, WriteKeeps DEF IInv, TypeOK

(***************************************************************************)
(* An event is claimed: nobody has touched it, and its claim is by an      *)
(* entry that is not acknowledged.                                         *)
(***************************************************************************)
LEMMA NewClaimKeeps ==
  ASSUME IInv, NEW w \in Workers, at[w] = "claim", MarkProcessed(w),
         BatchMove(w), HistoryTypes', chan' \in [Workers -> Channels],
         UNCHANGED <<tries, acked, sends, reached>>,
         \A v \in Workers \ {w} : Stands(v),
         \/ at'[w] \in {"claim", "idle"}
         \/ at'[w] = "create" /\ entry'[w] = entry[w] /\ chan'[w] = 1
  PROVE  IInv'
<1>1. /\ StreamTypes' /\ BatchInv'
      /\ at' \in [Workers -> Steps] /\ entry' \in [Workers -> 0..MaxEntries]
      /\ claimedBy' \in [Events -> 0..MaxEntries]
  BY BatchKeeps DEF IInv
<1>2. UNCHANGED <<event, upto, row, dead>>
  BY DEF BatchMove, MarkProcessed
<1>3. TypeOK'
  <2>1. WorkerTypes' /\ StoreTypes'
    BY <1>1, <1>2 DEF WorkerTypes, StoreTypes, IInv, TypeOK
  <2>2. QED
    BY <1>1, <2>1, PrimedTypes
<1>4. Ev(w) \in Events /\ entry[w] \in Entries /\ entry[w] \notin acked
  <2>1. Busy(w) /\ Ev(w) \in Events /\ entry[w] \in Entries /\ entry[w] <= upto[w]
        /\ upto[w] \in Entries
    BY EntryFacts DEF BatchMove, IInv, BatchInv
  <2>2. QED
    BY <2>1 DEF IInv, BatchInv, Batches, Entries
<1>5. PICK x \in Events : x = Ev(w)
  BY <1>4
<1>6. /\ claimedBy[x] = 0 /\ claimedBy'[x] = entry[w]
      /\ \A e \in Events : e # x => claimedBy'[e] = claimedBy[e]
      /\ \A c \in Channels : Untouched(x, c)
  BY <1>5 DEF MarkProcessed, IInv, TypeOK, OwnerInv
<1>7. \A v \in Workers : at[v] \in Delivering => Ev(v) # x
  <2>1. ASSUME NEW v \in Workers, at[v] \in Delivering PROVE Ev(v) # x
    <3>1. claimedBy[Ev(v)] = entry[v] /\ entry[v] \in Entries
      BY <2>1, EntryFacts DEF IInv, BatchInv, OwnerInv, Busy, InBatch
    <3>2. QED
      BY <1>6, <3>1 DEF Entries
  <2>2. QED
    BY <2>1
<1>8. OwnerInv'
  <2>1. ASSUME NEW v \in Workers, at'[v] \in Delivering
        PROVE  claimedBy'[event[entry'[v]]] = entry'[v]
    <3>1. CASE v = w
      BY <1>5, <1>6, <2>1, <3>1 DEF Ev, Delivering
    <3>2. CASE v # w
      <4>1. at[v] \in Delivering /\ entry'[v] = entry[v] /\ Ev(v) \in Events
        BY <2>1, <3>2, EntryFacts DEF Stands, IInv, BatchInv, Busy, InBatch
      <4>2. QED
        BY <1>6, <1>7, <4>1 DEF IInv, OwnerInv, Ev
    <3>3. QED
      BY <3>1, <3>2
  <2>2. ASSUME NEW e \in Events, NEW c \in Channels, claimedBy'[e] = 0
        PROVE  Untouched(e, c)'
    BY <1>2, <1>4, <1>6, <2>2 DEF IInv, OwnerInv, Untouched, Entries
  <2>3. QED
    BY <1>2, <2>1, <2>2 DEF OwnerInv, Ev
<1>9. \A e \in Events, c \in Channels : /\ (Closed(e, c)' <=> Closed(e, c))
                                       /\ (Untouched(e, c)' <=> Untouched(e, c))
  BY <1>2 DEF Closed, Untouched
<1>10. AckedIsClosed'
  <2>1. ASSUME NEW e \in Events, claimedBy'[e] \in acked, NEW c \in Channels
        PROVE  Closed(e, c)'
    BY <1>4, <1>6, <1>9, <2>1 DEF IInv, DeliverInv, AckedIsClosed
  <2>2. QED
    BY <2>1 DEF AckedIsClosed
<1>11. ASSUME NEW v \in Workers PROVE Progress(v)' /\ Finished(v)'
  <2>1. CASE v = w /\ at'[w] \in {"claim", "idle"}
    BY <2>1 DEF Progress, Finished, Delivering
  <2>2. CASE v = w /\ at'[w] = "create" /\ entry'[w] = entry[w] /\ chan'[w] = 1
    <3>1. Ev(w)' = x
      BY <1>2, <1>5, <2>2 DEF Ev
    <3>2. ASSUME NEW c \in Channels PROVE ~(c < 1) /\ Untouched(x, c)'
      BY <1>6, <1>9 DEF Channels
    <3>3. 1 \in Channels
      BY DEF Channels
    <3>4. Stage("create", x, 1, tries[w])'
      BY <3>2, <3>3 DEF Stage
    <3>5. QED
      BY <2>2, <3>1, <3>2, <3>4 DEF Progress, Finished, Stage
  <2>3. CASE v # w
    <3>1. Stands(v) /\ Ev(v)' = Ev(v)
      BY <1>2, <2>3 DEF Stands, Ev
    <3>2. Progress(v)'
      BY <1>2, <3>1 DEF IInv, DeliverInv, Progress, Stage, Stands, Closed, Untouched
    <3>3. ASSUME at'[v] = "ack", claimedBy'[event[entry[v]]] = entry[v], NEW c \in Channels
          PROVE  Closed(event[entry[v]], c)
      <4>1. Busy(v) /\ Busy(w) /\ at[v] = "ack"
        BY <3>1, <3>3 DEF Busy, InBatch, Stands, BatchMove
      <4>2. Ev(v) \in Events /\ entry[v] # entry[w]
        BY <2>3, <4>1, EntryFacts DEF IInv, BatchInv, Batches, Entries
      <4>3. Ev(v) # x
        BY <1>6, <3>3, <4>2 DEF Ev
      <4>4. QED
        BY <1>6, <3>3, <4>1, <4>2, <4>3 DEF IInv, DeliverInv, Finished, Ev
    <3>4. Finished(v)'
      BY <1>2, <3>1, <3>3 DEF Finished, Ev, Stands, Closed
    <3>5. QED
      BY <3>2, <3>4
  <2>4. QED
    BY <2>1, <2>2, <2>3
<1>12. QED
  BY <1>1, <1>3, <1>8, <1>10, <1>11 DEF IInv, DeliverInv

LEMMA ClaimKeeps == ASSUME IInv, NEW w \in Workers, Claim(w) PROVE IInv'
<1>1. at[w] = "claim" /\ MarkProcessed(w) /\ Busy(w)
  BY DEF Claim, Busy, InBatch
<1>2. /\ UNCHANGED <<last, event, group, base, cursor, acked, entry, upto, tries, sends, reached,
                      abandoned, deaths>>
      /\ at'[w] = "create" /\ Goes(w, "create")
      /\ chan' \in [Workers -> Channels] /\ chan'[w] = 1
      /\ \A v \in Workers \ {w} : Stands(v)
  BY DEF Claim, Goes, Stands, stream, provider, history, IInv, TypeOK, Channels
<1>3. BatchMove(w)
  BY <1>1, <1>2 DEF BatchMove, Stays, ClaimsBy, InBatch, Delivering
<1>4. HistoryTypes'
  BY <1>2 DEF IInv, TypeOK, HistoryTypes
<1>5. QED
  BY <1>1, <1>2, <1>3, <1>4, NewClaimKeeps

LEMMA LostClaimKeeps ==
  ASSUME IInv, NEW w \in Workers, at[w] \notin Delivering, WriteAnswerLost(w)
  PROVE  IInv'
<1>1. at[w] = "claim" /\ MarkProcessed(w) /\ Busy(w) /\ Abandon(w)
  BY DEF WriteAnswerLost, Busy, InBatch, Delivering
<1>2. /\ UNCHANGED <<last, event, group, base, cursor, acked, upto, chan, tries,
                      sends, reached, deaths>>
      /\ at'[w] \in {"claim", "idle"} /\ Leaves(w) /\ HistoryTypes'
      /\ \A v \in Workers \ {w} : Stands(v)
  BY <1>1, AbandonFacts
<1>3. BatchMove(w)
  BY <1>1, <1>2 DEF BatchMove, ClaimsBy
<1>4. QED
  BY <1>1, <1>2, <1>3, NewClaimKeeps DEF IInv, TypeOK

LEMMA InitHolds == Init => IInv
<1> SUFFICES ASSUME Init PROVE IInv
  OBVIOUS
<1> USE DEF Init
<1>1. TypeOK
  <2>1. StreamTypes /\ HistoryTypes
    <3>1. last \in 0..MaxEntries /\ base \in 0..last /\ cursor \in base..last
      OBVIOUS
    <3>2. acked \subseteq 1..cursor /\ abandoned \subseteq 1..cursor
      OBVIOUS
    <3>3. event \in [Entries -> Events] /\ deaths \in 0..MaxDeaths
      OBVIOUS
    <3>4. group \in BOOLEAN
      BY Zenon
    <3>5. QED
      BY <3>1, <3>2, <3>3, <3>4 DEF StreamTypes, HistoryTypes
  <2>2. WorkerTypes
    BY DEF WorkerTypes, Steps, Channels, MaxAttempts
  <2>3. StoreTypes
    BY DEF StoreTypes, Statuses, Channels, MaxAttempts
  <2>4. QED
    BY <2>1, <2>2, <2>3 DEF TypeOK, StreamTypes, HistoryTypes, WorkerTypes, StoreTypes
<1>2. \A w \in Workers : at[w] = "off"
  OBVIOUS
<1>3. BatchInv
  BY <1>2 DEF BatchInv, Batches, Claims, Busy, InBatch, Delivering
<1>4. OwnerInv
  BY <1>2 DEF OwnerInv, Untouched, Delivering
<1>5. DeliverInv
  BY <1>2 DEF DeliverInv, Progress, Finished, AckedIsClosed, Delivering
<1>6. QED
  BY <1>1, <1>3, <1>4, <1>5 DEF IInv

LEMMA StutterKeeps == ASSUME IInv, UNCHANGED vars PROVE IInv'
<1>1. UNCHANGED <<last, event, group, base, cursor, acked>>
      /\ UNCHANGED <<at, entry, upto, chan, tries>>
      /\ UNCHANGED <<claimedBy, row, dead>>
      /\ UNCHANGED <<sends, reached, abandoned, deaths>>
  BY DEF vars, stream, workers, store, provider, history
<1>2. TypeOK'
  <2>1. StreamTypes' /\ HistoryTypes'
    BY <1>1 DEF StreamTypes, HistoryTypes, IInv, TypeOK
  <2>2. WorkerTypes' /\ StoreTypes'
    BY <1>1 DEF WorkerTypes, StoreTypes, IInv, TypeOK
  <2>3. QED
    BY <2>1, <2>2, PrimedTypes
<1>3. BatchInv'
  BY <1>1, CursorKeeps DEF IInv, TypeOK
<1>4. OwnerInv' /\ DeliverInv'
  BY <1>1, ControlKeeps DEF Stands, store, provider
<1>5. QED
  BY <1>2, <1>3, <1>4 DEF IInv

LEMMA NextKeeps == IInv /\ [Next]_vars => IInv'
<1> SUFFICES ASSUME IInv, [Next]_vars PROVE IInv'
  OBVIOUS
<1>1. CASE Publish
  <2>1. CASE Workers = {}
    <3>1. /\ UNCHANGED <<event, group, base, cursor, acked, store, provider, history, workers>>
          /\ last' \in 0..MaxEntries /\ last <= last'
      BY <1>1 DEF Publish, IInv, TypeOK
    <3>2. TypeOK'
      <4>1. StreamTypes' /\ HistoryTypes'
        BY <3>1 DEF StreamTypes, HistoryTypes, IInv, TypeOK, history
      <4>2. WorkerTypes' /\ StoreTypes'
        BY <3>1 DEF WorkerTypes, StoreTypes, IInv, TypeOK, workers, store, provider
      <4>3. QED
        BY <4>1, <4>2, PrimedTypes
    <3>3. BatchInv'
      BY <3>1, CursorKeeps DEF IInv, TypeOK, workers, store
    <3>4. OwnerInv' /\ DeliverInv'
      BY <3>1, ControlKeeps DEF Stands, workers
    <3>5. QED
      BY <3>2, <3>3, <3>4 DEF IInv
  <2>2. CASE Workers # {}
    <3>1. PICK w \in Workers : TRUE
      BY <2>2
    <3>2. QED
      BY <1>1, <3>1, IdleStepsKeep
  <2>3. QED
    BY <2>1, <2>2
<1>2. ASSUME NEW w \in Workers,
             Start(w) \/ EnsureGroup(w) \/ ReadGroup(w) \/ Handle(w) \/ Fail(w)
      PROVE  IInv'
  <2>1. CASE Start(w) \/ EnsureGroup(w) \/ ReadReplyLost(w)
    BY <2>1, IdleStepsKeep
  <2>2. CASE ReadGroup(w)
    BY <2>2, ReadKeeps
  <2>3. CASE Claim(w)
    BY <2>3, ClaimKeeps
  <2>4. CASE SkipDuplicate(w)
    BY <2>4, SkipKeeps
  <2>5. CASE Create(w)
    BY <2>5, CreateKeeps
  <2>6. CASE SendSucceeds(w) \/ SendFails(w)
    BY <2>6, SendKeeps
  <2>7. CASE Settle(w)
    BY <2>7, SettleKeeps
  <2>8. CASE Bury(w)
    BY <2>8, BuryKeeps
  <2>9. CASE WriteFails(w) \/ Ack(w) \/ AckFails(w)
    BY <2>9, LeaversKeep
  <2>10. CASE WriteAnswerLost(w)
    BY <2>10, LostWriteKeeps, LostClaimKeeps
  <2>11. CASE Dies(w)
    BY <2>11, IdleStepsKeep, LeaversKeep
  <2>12. QED
    BY <1>2, <2>1, <2>2, <2>3, <2>4, <2>5, <2>6, <2>7, <2>8, <2>9, <2>10, <2>11
       DEF Handle, Fail
<1>3. QED
  BY <1>1, <1>2, StutterKeeps DEF Next

(***************************************************************************)
(* The invariant of every run: who has which entries, which claims there   *)
(* are, and how far each delivery has come.                                *)
(***************************************************************************)
THEOREM Invariant == Spec => []IInv
<1>1. QED
  BY InitHolds, NextKeeps, PTL DEF Spec

(***************************************************************************)
(* What is acknowledged is settled, every channel of its event delivered   *)
(* or buried, however many replicas, duplicates, lost answers and crashes  *)
(* there are.  That nothing is delivered twice is ImplementsDelivery.      *)
(***************************************************************************)
THEOREM DeliverySound == Spec => []DeliveryIsSound
<1>1. IInv => DeliveryIsSound
  <2>1. SUFFICES ASSUME IInv, NEW e \in Events, claimedBy[e] \in acked
                 PROVE  e \in Inbox /\ \A c \in Channels : Closed(e, c)
    BY DEF IInv, DeliveryIsSound, AckedIsSettled
  <2>2. \A c \in Channels : Closed(e, c)
    BY <2>1 DEF IInv, DeliverInv, AckedIsClosed
  <2>3. 1 \in Channels
    BY DEF Channels
  <2>4. QED
    BY <2>2, <2>3 DEF Inbox, Closed
<1>2. QED
  BY <1>1, Invariant, PTL

-----------------------------------------------------------------------------
(***************************************************************************)
(* The refinement.  Only the writes of a delivery and its sends show in    *)
(* Delivery, each as a step of the event and the channel of the replica.   *)
(***************************************************************************)
LEMMA Records ==
  ASSUME IInv, NEW w \in Workers, at[w] \in Delivering,
         NEW e \in Events, NEW c \in Channels, e = Ev(w), c = chan[w]
  PROVE  /\ at[w] = "create" => row[e][c] = "NONE"
         /\ at[w] = "send" => /\ row[e][c] = "PENDING" /\ <<e, c>> \notin reached
                              /\ sends[e][c] < MaxAttempts
         /\ at[w] = "delivered" => row[e][c] = "PENDING" /\ <<e, c>> \in reached
         /\ at[w] = "failed" => /\ row[e][c] = "PENDING" /\ <<e, c>> \notin reached
                                /\ sends[e][c] = MaxAttempts
         /\ at[w] = "bury" => row[e][c] = "FAILED" /\ <<e, c>> \notin dead
<1>1. Stage(at[w], e, c, tries[w])
  BY DeliveryFacts
<1>2. QED
  BY <1>1 DEF Stage, Untouched

LEMMA DeliveringStep ==
  ASSUME IInv, NEW w \in Workers, at[w] \in Delivering,
         \/ Create(w) \/ SendSucceeds(w) \/ SendFails(w) \/ Settle(w) \/ Bury(w)
         \/ WriteAnswerLost(w)
  PROVE  Promise!Next
<1>1. PICK e \in Events, c \in Channels : e = Ev(w) /\ c = chan[w]
  BY DeliveryFacts
<1>2. CASE at[w] = "create"
  <2>1. row' = [row EXCEPT ![e][c] = "PENDING"] /\ UNCHANGED <<sends, reached, dead>>
    BY <1>1, <1>2 DEF Create, SendSucceeds, SendFails, Settle, Bury, WriteAnswerLost,
       CreateRow, SetRow, Abandon, provider
  <2>2. Promise!Open(e, c)
    BY <1>1, <1>2, <2>1, Records DEF Promise!Open, Delivering
  <2>3. QED
    BY <2>2 DEF Promise!Next
<1>3. CASE at[w] = "send"
  <2>1. PICK r \in {{}, {<<e, c>>}} :
          /\ sends' = [sends EXCEPT ![e][c] = @ + 1]
          /\ reached' = reached \cup r
          /\ UNCHANGED <<row, dead>>
    BY <1>1, <1>3 DEF Create, SendSucceeds, SendFails, Settle, Bury, WriteAnswerLost, store
  <2>2. Promise!Try(e, c, r)
    BY <1>1, <1>3, <2>1, Records DEF Promise!Try, Delivering
  <2>3. QED
    BY <2>2 DEF Promise!Next
<1>4. CASE at[w] = "delivered"
  <2>1. row' = [row EXCEPT ![e][c] = "DELIVERED"] /\ UNCHANGED <<sends, reached, dead>>
    BY <1>1, <1>4 DEF Create, SendSucceeds, SendFails, Settle, Bury, WriteAnswerLost,
       UpdateDelivery, SetRow, Abandon, provider
  <2>2. Promise!Deliver(e, c)
    BY <1>1, <1>4, <2>1, Records DEF Promise!Deliver, Delivering
  <2>3. QED
    BY <2>2 DEF Promise!Next
<1>5. CASE at[w] = "failed"
  <2>1. row' = [row EXCEPT ![e][c] = "FAILED"] /\ UNCHANGED <<sends, reached, dead>>
    BY <1>1, <1>5 DEF Create, SendSucceeds, SendFails, Settle, Bury, WriteAnswerLost,
       UpdateDelivery, SetRow, Abandon, provider
  <2>2. Promise!GiveUp(e, c)
    BY <1>1, <1>5, <2>1, Records DEF Promise!GiveUp, Delivering
  <2>3. QED
    BY <2>2 DEF Promise!Next
<1>6. CASE at[w] = "bury"
  <2>1. dead' = dead \cup {<<e, c>>} /\ UNCHANGED <<row, sends, reached>>
    BY <1>1, <1>6 DEF Create, SendSucceeds, SendFails, Settle, Bury, WriteAnswerLost,
       RecordDeadLetter, Abandon, provider
  <2>2. Promise!Bury(e, c)
    BY <1>1, <1>6, <2>1, Records DEF Promise!Bury, Delivering
  <2>3. QED
    BY <2>2 DEF Promise!Next
<1>7. QED
  BY <1>2, <1>3, <1>4, <1>5, <1>6 DEF Delivering

LEMMA PromiseStep == IInv /\ [Next]_vars => [Promise!Next]_(Promise!vars)
<1> SUFFICES ASSUME IInv, [Next]_vars
             PROVE  Promise!Next \/ UNCHANGED <<row, sends, reached, dead>>
  BY DEF Promise!vars
<1>1. CASE Publish \/ UNCHANGED vars
  BY <1>1 DEF Publish, vars, store, provider
<1>2. ASSUME NEW w \in Workers,
             Start(w) \/ EnsureGroup(w) \/ ReadGroup(w) \/ Handle(w) \/ Fail(w)
      PROVE  Promise!Next \/ UNCHANGED <<row, sends, reached, dead>>
  <2>1. CASE Start(w) \/ EnsureGroup(w) \/ ReadGroup(w) \/ ReadReplyLost(w) \/ Dies(w)
    BY <2>1 DEF Start, EnsureGroup, ReadGroup, ReadReplyLost, Dies, store, provider
  <2>2. CASE SkipDuplicate(w) \/ Ack(w) \/ AckFails(w) \/ WriteFails(w)
    BY <2>2 DEF SkipDuplicate, Ack, AckFails, WriteFails, Abandon, store, provider
  <2>3. CASE Claim(w) \/ (WriteAnswerLost(w) /\ at[w] = "claim")
    BY <2>3 DEF Claim, WriteAnswerLost, MarkProcessed, Abandon, provider
  <2>4. CASE \/ Create(w) \/ SendSucceeds(w) \/ SendFails(w) \/ Settle(w) \/ Bury(w)
             \/ (WriteAnswerLost(w) /\ at[w] # "claim")
    <3>1. at[w] \in Delivering
      BY <2>4 DEF Create, SendSucceeds, SendFails, Settle, Bury, WriteAnswerLost, Delivering
    <3>2. QED
      BY <2>4, <3>1, DeliveringStep
  <2>5. QED
    BY <1>2, <2>1, <2>2, <2>3, <2>4 DEF Handle, Fail
<1>3. QED
  BY <1>1, <1>2 DEF Next

(***************************************************************************)
(* The replicas together implement Delivery: an event is delivered at most *)
(* once per channel, within the attempts of the policy, and buried only    *)
(* after all of them failed.                                               *)
(***************************************************************************)
THEOREM ImplementsDelivery == Spec => DeliverySpec
<1>1. Init => Promise!Init
  BY DEF Init, Promise!Init
<1>2. QED
  BY <1>1, PromiseStep, Invariant, PTL DEF Spec, DeliverySpec, Promise!Spec
=============================================================================
