----------------------------- MODULE Delivery -----------------------------
(***************************************************************************)
(* What the notification service promises for every event and channel,     *)
(* without streams, replicas or handlers: a record is opened once, sending *)
(* is tried a bounded number of times and never again after it succeeded,  *)
(* the record is settled by what the tries showed, and only a failure      *)
(* leaves a dead letter.  Notification implements this module.             *)
(***************************************************************************)
EXTENDS Integers

CONSTANTS
    Events,         \* event ids
    Channels,       \* delivery channels
    MaxAttempts     \* tries of one delivery, the first included

VARIABLES
    row,            \* row[e][c]: status of the record of event e on channel c
    tries,          \* tries[e][c]: sends that were tried
    reached,        \* pairs <<e, c>> a send of which succeeded
    dead            \* pairs <<e, c>> with a dead letter

vars == <<row, tries, reached, dead>>

Statuses == {"NONE", "PENDING", "DELIVERED", "FAILED"}

Init ==
    /\ row = [e \in Events |-> [c \in Channels |-> "NONE"]]
    /\ tries = [e \in Events |-> [c \in Channels |-> 0]]
    /\ reached = {}
    /\ dead = {}

Open(e, c) ==
    /\ row[e][c] = "NONE"
    /\ row' = [row EXCEPT ![e][c] = "PENDING"]
    /\ UNCHANGED <<tries, reached, dead>>

Try(e, c, r) ==
    /\ row[e][c] = "PENDING"
    /\ <<e, c>> \notin reached
    /\ tries[e][c] < MaxAttempts
    /\ tries' = [tries EXCEPT ![e][c] = @ + 1]
    /\ reached' = reached \cup r
    /\ UNCHANGED <<row, dead>>

Deliver(e, c) ==
    /\ row[e][c] = "PENDING"
    /\ <<e, c>> \in reached
    /\ row' = [row EXCEPT ![e][c] = "DELIVERED"]
    /\ UNCHANGED <<tries, reached, dead>>

GiveUp(e, c) ==
    /\ row[e][c] = "PENDING"
    /\ <<e, c>> \notin reached
    /\ tries[e][c] = MaxAttempts
    /\ row' = [row EXCEPT ![e][c] = "FAILED"]
    /\ UNCHANGED <<tries, reached, dead>>

Bury(e, c) ==
    /\ row[e][c] = "FAILED"
    /\ <<e, c>> \notin dead
    /\ dead' = dead \cup {<<e, c>>}
    /\ UNCHANGED <<row, tries, reached>>

Next ==
    \E e \in Events, c \in Channels :
        \/ Open(e, c)
        \/ \E r \in {{}, {<<e, c>>}} : Try(e, c, r)
        \/ Deliver(e, c)
        \/ GiveUp(e, c)
        \/ Bury(e, c)

Spec == Init /\ [][Next]_vars
=============================================================================
