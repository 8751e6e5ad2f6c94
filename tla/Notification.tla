---------------------------- MODULE Notification ----------------------------
(***************************************************************************)
(* The notification service: replicas that read the stream of events       *)
(* through one consumer group, mark an event as processed, and deliver it  *)
(* on each channel with retries.  (services/notification/src)              *)
(*                                                                         *)
(* Between two awaits a handler is one action.  Every write to PostgreSQL  *)
(* may fail, or be made and its answer lost; a replica may die anywhere.   *)
(* Redis, PostgreSQL and the providers behind the channels are external.   *)
(* Waiting between two tries, the wording of a message and its language    *)
(* are left out.                                                           *)
(***************************************************************************)
EXTENDS Integers

CONSTANTS
    Events,         \* event ids (eventId, or the id of the stream entry)
    Workers,        \* replicas of the service
    NChannels,      \* delivery channels, the in-app one first
    MaxRetries,     \* BackoffPolicy.maxRetries
    BatchSize,      \* COUNT of XREADGROUP
    MaxEntries,     \* bound: entries of the stream
    MaxDeaths       \* bound: deaths of replicas

ASSUME NChannelsAssumption == NChannels \in Nat \ {0}
ASSUME MaxRetriesAssumption == MaxRetries \in Nat
ASSUME BatchSizeAssumption == BatchSize \in Nat \ {0}
ASSUME BoundsAssumption == MaxEntries \in Nat /\ MaxDeaths \in Nat

VARIABLES
    last,           \* entries added to the stream
    event,          \* event[n]: the event id of entry n
    group,          \* the consumer group exists
    base,           \* the entry the group was created behind
    cursor,         \* last-delivered id of the group
    acked,          \* entries delivered and acknowledged
    at,             \* at[w]: where replica w waits
    entry,          \* entry[w]: the entry w handles
    upto,           \* upto[w]: the last entry of the batch of w
    chan,           \* chan[w]: the channel w delivers on
    tries,          \* tries[w]: attempts of the current delivery
    claimedBy,      \* processed_events: the entry that inserted e, or 0
    row,            \* notifications: status of the record of e on c
    dead,           \* dead_letters: pairs <<e, c>>
    sends,          \* external: tries the provider of c saw for e
    reached,        \* external: pairs <<e, c>> the provider accepted
    abandoned,      \* history: entries whose handling ended without an ack
    deaths          \* deaths of replicas so far

stream == <<last, event, group, base, cursor, acked>>
workers == <<at, entry, upto, chan, tries>>
store == <<claimedBy, row, dead>>
provider == <<sends, reached>>
history == <<abandoned, deaths>>
vars == <<stream, workers, store, provider, history>>

Entries == 1..MaxEntries
Channels == 1..NChannels
MaxAttempts == MaxRetries + 1
Statuses == {"NONE", "PENDING", "DELIVERED", "FAILED"}

(***************************************************************************)
(* Where a replica waits: it is not running, it runs without a consumer,   *)
(* for XGROUP CREATE, for entries; and inside a batch for markProcessed,   *)
(* for the insert of a record, for a send, for the update of the record    *)
(* after a delivery or a failure, for the dead letter, for the ack.        *)
(***************************************************************************)
Delivering == {"create", "send", "delivered", "failed", "bury"}
InBatch == Delivering \cup {"claim", "ack"}
Steps == InBatch \cup {"off", "deaf", "join", "idle"}

Ev(w) == event[entry[w]]
Goes(w, s) == at' = [at EXCEPT ![w] = s]

Init ==
    /\ last = 0
    /\ event \in [Entries -> Events]
    /\ group = FALSE
    /\ base = 0
    /\ cursor = 0
    /\ acked = {}
    /\ at = [w \in Workers |-> "off"]
    /\ entry = [w \in Workers |-> 0]
    /\ upto = [w \in Workers |-> 0]
    /\ chan = [w \in Workers |-> 1]
    /\ tries = [w \in Workers |-> 0]
    /\ claimedBy = [e \in Events |-> 0]
    /\ row = [e \in Events |-> [c \in Channels |-> "NONE"]]
    /\ dead = {}
    /\ sends = [e \in Events |-> [c \in Channels |-> 0]]
    /\ reached = {}
    /\ abandoned = {}
    /\ deaths = 0

(***************************************************************************)
(* XADD by a producer: the payment service never repeats an event id, and  *)
(* gives up when Redis does not answer; another producer may repeat one.   *)
(* What entry n carries is chosen in Init.                                 *)
(***************************************************************************)
Publish ==
    /\ last < MaxEntries
    /\ last' = last + 1
    /\ UNCHANGED <<event, group, base, cursor, acked, workers, store, provider, history>>

(***************************************************************************)
(* main: a replica that cannot connect to Redis serves HTTP and consumes   *)
(* nothing; otherwise consumer.run starts with ensureGroup.                *)
(***************************************************************************)
Start(w) ==
    /\ at[w] = "off"
    /\ \E s \in {"join", "deaf"} : Goes(w, s)
    /\ UNCHANGED <<stream, entry, upto, chan, tries, store, provider, history>>

\* Broken variant of EnsureGroup: a restart creates the group anew.
EnsureGroupAnew(w) ==
    /\ at[w] = "join"
    /\ Goes(w, "idle")
    /\ group' = TRUE
    /\ base' = last
    /\ cursor' = last
    /\ UNCHANGED <<last, event, acked, entry, upto, chan, tries, store, provider, history>>

(***************************************************************************)
(* ensureGroup: the first replica creates the group at "$", behind all the *)
(* entries so far; the others get BUSYGROUP, which is no error.            *)
(***************************************************************************)
EnsureGroup(w) ==
    /\ at[w] = "join"
    /\ Goes(w, "idle")
    /\ group' = TRUE
    /\ base' = IF group THEN base ELSE last
    /\ cursor' = IF group THEN cursor ELSE last
    /\ UNCHANGED <<last, event, acked, entry, upto, chan, tries, store, provider, history>>

BatchEnd == IF last - cursor > BatchSize THEN cursor + BatchSize ELSE last

(***************************************************************************)
(* readGroup with id ">": entries no consumer of the group was given yet.  *)
(* An empty or a failed read changes nothing.                              *)
(***************************************************************************)
ReadGroup(w) ==
    /\ at[w] = "idle"
    /\ cursor < last
    /\ entry' = [entry EXCEPT ![w] = cursor + 1]
    /\ upto' = [upto EXCEPT ![w] = BatchEnd]
    /\ cursor' = BatchEnd
    /\ Goes(w, "claim")
    /\ UNCHANGED <<last, event, group, base, acked, chan, tries, store, provider, history>>

(***************************************************************************)
(* The reply is lost: Redis has given the entries out, the replica logs an *)
(* error and reads on behind them.                                         *)
(***************************************************************************)
ReadReplyLost(w) ==
    /\ at[w] = "idle"
    /\ cursor < last
    /\ cursor' = BatchEnd
    /\ abandoned' = abandoned \cup (cursor + 1)..BatchEnd
    /\ UNCHANGED <<last, event, group, base, acked, workers, store, provider, deaths>>

(***************************************************************************)
(* The loop of processBatch goes on with the next entry, or ends.          *)
(***************************************************************************)
NextEntry(w) ==
    IF entry[w] < upto[w]
    THEN Goes(w, "claim") /\ entry' = [entry EXCEPT ![w] = @ + 1]
    ELSE Goes(w, "idle") /\ UNCHANGED entry

(***************************************************************************)
(* handleEvent threw: the entry is logged, and not acknowledged.           *)
(***************************************************************************)
Abandon(w) ==
    /\ NextEntry(w)
    /\ abandoned' = abandoned \cup {entry[w]}
    /\ UNCHANGED <<stream, upto, chan, tries, provider, deaths>>

NextChannel(w) ==
    IF chan[w] < NChannels
    THEN Goes(w, "create") /\ chan' = [chan EXCEPT ![w] = @ + 1]
    ELSE Goes(w, "ack") /\ UNCHANGED chan

\* Broken variant of MarkProcessed: the insert overwrites on conflict.
MarkAgain(w) ==
    /\ claimedBy' = [claimedBy EXCEPT ![Ev(w)] = entry[w]]
    /\ UNCHANGED <<row, dead>>

(***************************************************************************)
(* The writes of handleEvent: INSERT ... ON CONFLICT DO NOTHING into       *)
(* processed_events, the record of a channel, its outcome, a dead letter.  *)
(***************************************************************************)
MarkProcessed(w) ==
    /\ claimedBy[Ev(w)] = 0
    /\ claimedBy' = [claimedBy EXCEPT ![Ev(w)] = entry[w]]
    /\ UNCHANGED <<row, dead>>

SetRow(w, s) ==
    /\ row' = [row EXCEPT ![Ev(w)][chan[w]] = s]
    /\ UNCHANGED <<claimedBy, dead>>

CreateRow(w) == SetRow(w, "PENDING")

UpdateDelivery(w) ==
    SetRow(w, IF at[w] = "delivered" THEN "DELIVERED" ELSE "FAILED")

RecordDeadLetter(w) ==
    /\ dead' = dead \cup {<<Ev(w), chan[w]>>}
    /\ UNCHANGED <<claimedBy, row>>

Claim(w) ==
    /\ at[w] = "claim"
    /\ MarkProcessed(w)
    /\ Goes(w, "create")
    /\ chan' = [chan EXCEPT ![w] = 1]
    /\ UNCHANGED <<stream, entry, upto, tries, provider, history>>

SkipDuplicate(w) ==
    /\ at[w] = "claim"
    /\ claimedBy[Ev(w)] # 0
    /\ Goes(w, "ack")
    /\ UNCHANGED <<stream, entry, upto, chan, tries, store, provider, history>>

Create(w) ==
    /\ at[w] = "create"
    /\ CreateRow(w)
    /\ tries' = [tries EXCEPT ![w] = 0]
    /\ Goes(w, "send")
    /\ UNCHANGED <<stream, entry, upto, chan, provider, history>>

(***************************************************************************)
(* One turn of the loop of deliverWithRetry.  The in-app channel has       *)
(* nothing to send and succeeds; the provider of another one may refuse.   *)
(***************************************************************************)
SendSucceeds(w) ==
    /\ at[w] = "send"
    /\ tries' = [tries EXCEPT ![w] = @ + 1]
    /\ sends' = [sends EXCEPT ![Ev(w)][chan[w]] = @ + 1]
    /\ reached' = reached \cup {<<Ev(w), chan[w]>>}
    /\ Goes(w, "delivered")
    /\ UNCHANGED <<stream, entry, upto, chan, store, history>>

\* Broken variant of SendFails: one retry too many.
SendFailsOnceMore(w) ==
    /\ at[w] = "send"
    /\ chan[w] # 1
    /\ tries' = [tries EXCEPT ![w] = @ + 1]
    /\ sends' = [sends EXCEPT ![Ev(w)][chan[w]] = @ + 1]
    /\ Goes(w, IF tries[w] < MaxAttempts THEN "send" ELSE "failed")
    /\ UNCHANGED <<stream, entry, upto, chan, store, reached, history>>

SendFails(w) ==
    /\ at[w] = "send"
    /\ chan[w] # 1
    /\ tries' = [tries EXCEPT ![w] = @ + 1]
    /\ sends' = [sends EXCEPT ![Ev(w)][chan[w]] = @ + 1]
    /\ Goes(w, IF tries[w] + 1 < MaxAttempts THEN "send" ELSE "failed")
    /\ UNCHANGED <<stream, entry, upto, chan, store, reached, history>>

\* Broken variant of Settle: a failed channel ends the loop over the channels.
SettleBreaks(w) ==
    /\ at[w] \in {"delivered", "failed"}
    /\ UpdateDelivery(w)
    /\ IF at[w] = "delivered" THEN NextChannel(w) ELSE Goes(w, "ack") /\ UNCHANGED chan
    /\ UNCHANGED <<stream, entry, upto, tries, provider, history>>

Settle(w) ==
    /\ at[w] \in {"delivered", "failed"}
    /\ UpdateDelivery(w)
    /\ IF at[w] = "delivered" THEN NextChannel(w) ELSE Goes(w, "bury") /\ UNCHANGED chan
    /\ UNCHANGED <<stream, entry, upto, tries, provider, history>>

Bury(w) ==
    /\ at[w] = "bury"
    /\ RecordDeadLetter(w)
    /\ NextChannel(w)
    /\ UNCHANGED <<stream, entry, upto, tries, provider, history>>

(***************************************************************************)
(* A query failed: before it was executed, or after, its answer lost.      *)
(***************************************************************************)
WriteFails(w) ==
    /\ at[w] \in InBatch \ {"send", "ack"}
    /\ UNCHANGED store
    /\ Abandon(w)

WriteAnswerLost(w) ==
    /\ \/ at[w] = "claim" /\ MarkProcessed(w)
       \/ at[w] = "create" /\ CreateRow(w)
       \/ at[w] \in {"delivered", "failed"} /\ UpdateDelivery(w)
       \/ at[w] = "bury" /\ RecordDeadLetter(w)
    /\ Abandon(w)

Ack(w) ==
    /\ at[w] = "ack"
    /\ acked' = acked \cup {entry[w]}
    /\ NextEntry(w)
    /\ UNCHANGED <<last, event, group, base, cursor, upto, chan, tries, store, provider, history>>

(***************************************************************************)
(* An ack that fails is not caught in processBatch but in run: the entries *)
(* of the batch behind it are dropped.  Redis may have executed it.        *)
(***************************************************************************)
AckFails(w) ==
    /\ at[w] = "ack"
    /\ acked' \in {acked, acked \cup {entry[w]}}
    /\ abandoned' = abandoned \cup (entry[w]..upto[w])
    /\ Goes(w, "idle")
    /\ UNCHANGED <<last, event, group, base, cursor, entry, upto, chan, tries, store, provider, deaths>>

(***************************************************************************)
(* A crash, a shutdown (which does not wait for the batch), or a failing   *)
(* ensureGroup, whose rejected promise nobody handles.                     *)
(***************************************************************************)
Dies(w) ==
    /\ at[w] # "off"
    /\ deaths < MaxDeaths
    /\ deaths' = deaths + 1
    /\ Goes(w, "off")
    /\ abandoned' = IF at[w] \in InBatch
                    THEN abandoned \cup (entry[w]..upto[w])
                    ELSE abandoned
    /\ UNCHANGED <<stream, entry, upto, chan, tries, store, provider>>

(***************************************************************************)
(* The inbox route shows the records of the in-app channel.                *)
(***************************************************************************)
Inbox == {e \in Events : row[e][1] # "NONE"}

Handle(w) ==
    \/ Claim(w) \/ SkipDuplicate(w) \/ Create(w)
    \/ SendSucceeds(w) \/ SendFails(w)
    \/ Settle(w) \/ Bury(w) \/ Ack(w)

Fail(w) == WriteFails(w) \/ WriteAnswerLost(w) \/ AckFails(w) \/ ReadReplyLost(w) \/ Dies(w)

Next ==
    \/ Publish
    \/ \E w \in Workers :
        Start(w) \/ EnsureGroup(w) \/ ReadGroup(w) \/ Handle(w) \/ Fail(w)

(***************************************************************************)
(* The event loop of a replica that runs goes on: its queries, its sends   *)
(* and its reads return.  Nothing says a replica is started or survives.   *)
(***************************************************************************)
Fairness ==
    \A w \in Workers :
        WF_vars(ReadGroup(w) \/ Handle(w))

Spec == Init /\ [][Next]_vars /\ Fairness

-----------------------------------------------------------------------------

TypeOK ==
    /\ last \in 0..MaxEntries
    /\ event \in [Entries -> Events]
    /\ group \in BOOLEAN
    /\ base \in 0..last
    /\ cursor \in base..last
    /\ acked \subseteq 1..cursor
    /\ at \in [Workers -> Steps]
    /\ entry \in [Workers -> 0..MaxEntries]
    /\ upto \in [Workers -> 0..MaxEntries]
    /\ chan \in [Workers -> Channels]
    /\ tries \in [Workers -> 0..MaxAttempts]
    /\ claimedBy \in [Events -> 0..MaxEntries]
    /\ row \in [Events -> [Channels -> Statuses]]
    /\ dead \subseteq Events \X Channels
    /\ sends \in [Events -> [Channels -> 0..MaxAttempts]]
    /\ reached \subseteq Events \X Channels
    /\ abandoned \subseteq 1..cursor
    /\ deaths \in 0..MaxDeaths

(***************************************************************************)
(* An acknowledged entry leaves nothing behind.  If it is the one that     *)
(* marked its event, the user finds the event in the inbox, and every      *)
(* channel is delivered or has a dead letter.  (handleEvent acknowledges   *)
(* after the loop over all channels, whichever of them failed.)            *)
(***************************************************************************)
Closed(e, c) ==
    \/ row[e][c] = "DELIVERED" /\ <<e, c>> \in reached
    \/ row[e][c] = "FAILED" /\ <<e, c>> \in dead

AckedIsSettled ==
    \A e \in Events :
        claimedBy[e] \in acked => e \in Inbox /\ \A c \in Channels : Closed(e, c)

(***************************************************************************)
(* The values are those of the code, and what is acknowledged is settled.  *)
(***************************************************************************)
DeliveryIsSound ==
    /\ TypeOK
    /\ AckedIsSettled

(***************************************************************************)
(* Whatever replicas, duplicates, lost answers and crashes do, an event is *)
(* delivered at most once per channel, within the attempts of the policy,  *)
(* and buried only after all of them failed.  (dedup by event id, retries) *)
(***************************************************************************)
Promise == INSTANCE Delivery WITH tries <- sends

DeliverySpec == Promise!Spec

(***************************************************************************)
(* While some replica keeps coming back to its read, every entry added     *)
(* behind the group's start is acknowledged, or one of the failures above  *)
(* hit it: no entry is overlooked, and retries end.                        *)
(***************************************************************************)
EntriesAreHandled ==
    []<>(\E w \in Workers : at[w] = "idle") =>
        \A n \in Entries :
            (group /\ base < n /\ n <= last) ~> (n \in acked \cup abandoned)

(***************************************************************************)
(* "Processing errors are logged; the message stays unacked for            *)
(* redelivery" (consumer.ts): an entry whose handling began is, in the     *)
(* end, handled and acknowledged, when some replica keeps reading.         *)
(***************************************************************************)
Handled(n) == \E w \in Workers : at[w] \in InBatch /\ entry[w] = n

UnackedIsRedelivered ==
    []<>(\E w \in Workers : at[w] = "idle") =>
        \A n \in Entries : Handled(n) ~> (n \in acked)
=============================================================================
