------------------------------ MODULE Payment ------------------------------
(***************************************************************************)
(* The payment gateway: transactions in PostgreSQL, callback handlers that *)
(* run concurrently and wait at every query and at the call to the         *)
(* inventory service, and the timeout sweep.  (services/payment/src)       *)
(*                                                                         *)
(* A handler is one run of handleCallback.  Between two awaits it is one   *)
(* action; what it keeps across an await is in calls[h].  Providers may    *)
(* deliver a callback again, late, or out of order.  The inventory service *)
(* is external: its confirm endpoint is modelled from inventoryClient.ts,  *)
(* which may miss an answer of a request that is or will be executed.      *)
(***************************************************************************)
EXTENDS Integers, FiniteSets

CONSTANTS
    Txns,         \* transaction ids
    Handlers,     \* runs of handleCallback at one time
    NoCall,       \* calls[h] while h runs nothing
    MaxUnheard    \* bound: confirm requests per transaction without an answer

ASSUME MaxUnheardAssumption == MaxUnheard \in Nat

Verdicts == {"success", "failed"}
Statuses == {"PENDING", "SUCCESS", "FAILED", "TIMED_OUT", "NEEDS_RECONCILIATION"}
Reasons == {"UNKNOWN_TRANSACTION", "PROVIDER_MISMATCH", "INVALID_SIGNATURE"}
Outcomes == {"CONFIRMED", "INSUFFICIENT_STOCK"}

(***************************************************************************)
(* Where a handler waits: for its write of FAILED, for the claim, for the  *)
(* answer of the inventory service, for the write of the final status, for *)
(* the publication of the notifications, for the release of the claim.     *)
(***************************************************************************)
Steps == {"fail", "claim", "confirm", "notify", "release"} \cup Outcomes
Claimed == {"confirm", "notify", "release"} \cup Outcomes
Calls == [at : Steps, txn : Txns]

ASSUME NoCallAssumption == NoCall \notin Calls

VARIABLES
    status,       \* payment_transaction.status, "NONE" without a row
    applied,      \* payment_transaction.applied
    old,          \* transactions created before the timeout window
    rejected,     \* reasons recorded in rejected_callback
    calls,        \* calls[h]: where handler h waits, and its transaction
    said,         \* external: verdicts[t] the provider has reached on t
    confirmed,    \* external: times inventory executed confirm for t
    outstanding,  \* external: confirm requests for t nobody waits for any more
    unheard,      \* history: confirm requests for t that got no answer
    orphaned,     \* history: transactions whose claiming handler died
    acked,        \* history: successes answered with 200 and applied: true
    notified      \* history: times PAYMENT_CONFIRMED was published for t

rows == <<status, applied, old>>
external == <<said, confirmed, outstanding>>
history == <<unheard, orphaned, acked, notified>>
vars == <<rows, rejected, calls, external, history>>

Call(s, t) == [at |-> s, txn |-> t]

Goes(h, s, t) == calls' = [calls EXCEPT ![h] = Call(s, t)]
Ends(h) == calls' = [calls EXCEPT ![h] = NoCall]
At(h, s) == calls[h] # NoCall /\ calls[h].at = s
Txn(h) == calls[h].txn

Init ==
    /\ status = [t \in Txns |-> "NONE"]
    /\ applied = [t \in Txns |-> FALSE]
    /\ old = {}
    /\ rejected = {}
    /\ calls = [h \in Handlers |-> NoCall]
    /\ said = [t \in Txns |-> {}]
    /\ confirmed = [t \in Txns |-> 0]
    /\ outstanding = [t \in Txns |-> 0]
    /\ unheard = [t \in Txns |-> 0]
    /\ orphaned = {}
    /\ acked = {}
    /\ notified = [t \in Txns |-> 0]

(***************************************************************************)
(* initiate: a PENDING row with a new random id; what fails before the     *)
(* insert leaves nothing behind.                                           *)
(***************************************************************************)
Initiate(t) ==
    /\ status[t] = "NONE"
    /\ status' = [status EXCEPT ![t] = "PENDING"]
    /\ UNCHANGED <<applied, old, rejected, calls, external, history>>

(***************************************************************************)
(* The provider reaches a verdict: a payer may fail first and succeed      *)
(* later, not the other way round.                                         *)
(***************************************************************************)
ProviderDecides(t, v) ==
    /\ status[t] # "NONE"
    /\ "success" \notin said[t]
    /\ said' = [said EXCEPT ![t] = @ \cup {v}]
    /\ UNCHANGED <<rows, rejected, calls, confirmed, outstanding, history>>

Ages(t) ==
    /\ status[t] # "NONE"
    /\ old' = old \cup {t}
    /\ UNCHANGED <<status, applied, rejected, calls, external, history>>

(***************************************************************************)
(* handleCallback up to its second await, for an authentic callback:       *)
(* findByTxnId, then classifyCallback on the row it returned.              *)
(***************************************************************************)
ReceiveFailure(h, t) ==
    /\ calls[h] = NoCall
    /\ "failed" \in said[t]
    /\ Goes(h, "fail", t)
    /\ UNCHANGED <<rows, rejected, external, history>>

ReceiveDuplicate(h, t) ==
    /\ calls[h] = NoCall
    /\ "success" \in said[t]
    /\ applied[t]
    /\ acked' = acked \cup {t}
    /\ UNCHANGED <<rows, rejected, calls, external, unheard, orphaned, notified>>

ReceiveSuccess(h, t) ==
    /\ calls[h] = NoCall
    /\ "success" \in said[t]
    /\ ~applied[t]
    /\ Goes(h, "claim", t)
    /\ UNCHANGED <<rows, rejected, external, history>>

(***************************************************************************)
(* A callback with a bad signature, for another provider's transaction or  *)
(* for none: recorded, answered 400.                                       *)
(***************************************************************************)
RejectCallback(h, reason) ==
    /\ calls[h] = NoCall
    /\ rejected' = rejected \cup {reason}
    /\ UNCHANGED <<rows, calls, external, history>>

\* Broken variant of RecordFailure: the provider's word is stored as the status.
RecordRawFailure(h) ==
    /\ At(h, "fail")
    /\ status' = [status EXCEPT ![Txn(h)] = "failed"]
    /\ Ends(h)
    /\ UNCHANGED <<applied, old, rejected, external, history>>

(***************************************************************************)
(* case 'failure': the status is overwritten, whatever it is by now.       *)
(***************************************************************************)
RecordFailure(h) ==
    /\ At(h, "fail")
    /\ status' = [status EXCEPT ![Txn(h)] = "FAILED"]
    /\ Ends(h)
    /\ UNCHANGED <<applied, old, rejected, external, history>>

\* Broken variants of Claim: the UPDATE without "AND applied = FALSE"; the
\* status written together with the claim.
ClaimAnyway(h) ==
    /\ At(h, "claim")
    /\ applied' = [applied EXCEPT ![Txn(h)] = TRUE]
    /\ Goes(h, "confirm", Txn(h))
    /\ UNCHANGED <<status, old, rejected, external, history>>
ClaimSucceeds(h) ==
    /\ At(h, "claim")
    /\ ~applied[Txn(h)]
    /\ applied' = [applied EXCEPT ![Txn(h)] = TRUE]
    /\ status' = [status EXCEPT ![Txn(h)] = "SUCCESS"]
    /\ Goes(h, "confirm", Txn(h))
    /\ UNCHANGED <<old, rejected, external, history>>

(***************************************************************************)
(* applySuccess: claimApplication is one conditional UPDATE.               *)
(***************************************************************************)
Claim(h) ==
    /\ At(h, "claim")
    /\ ~applied[Txn(h)]
    /\ applied' = [applied EXCEPT ![Txn(h)] = TRUE]
    /\ Goes(h, "confirm", Txn(h))
    /\ UNCHANGED <<status, old, rejected, external, history>>

\* Broken variants of LoseClaim: the loser notifies as well; it waits for the
\* winner's result.
LoseClaimNotifies(h) ==
    /\ At(h, "claim")
    /\ applied[Txn(h)]
    /\ Goes(h, "notify", Txn(h))
    /\ UNCHANGED <<rows, rejected, external, history>>
LoseClaimWaits(h) ==
    /\ At(h, "claim")
    /\ applied[Txn(h)]
    /\ status[Txn(h)] # "PENDING"
    /\ acked' = acked \cup {Txn(h)}
    /\ Ends(h)
    /\ UNCHANGED <<rows, rejected, external, unheard, orphaned, notified>>

(***************************************************************************)
(* No row was updated: another success was first.  The row is read once    *)
(* more for the answer; nothing depends on what that read returns.         *)
(***************************************************************************)
LoseClaim(h) ==
    /\ At(h, "claim")
    /\ applied[Txn(h)]
    /\ acked' = acked \cup {Txn(h)}
    /\ Ends(h)
    /\ UNCHANGED <<rows, rejected, external, unheard, orphaned, notified>>

(***************************************************************************)
(* External: the inventory service executes the confirm and answers.       *)
(***************************************************************************)
ConfirmAnswered(h, outcome) ==
    /\ At(h, "confirm")
    /\ confirmed' = [confirmed EXCEPT
                        ![Txn(h)] = IF outcome = "CONFIRMED" THEN @ + 1 ELSE @]
    /\ Goes(h, outcome, Txn(h))
    /\ UNCHANGED <<rows, rejected, said, outstanding, history>>

(***************************************************************************)
(* confirmOrder throws: an error answer, or no answer in time to a request *)
(* that is never executed ...                                              *)
(***************************************************************************)
ConfirmFails(h) ==
    /\ At(h, "confirm")
    /\ Goes(h, "release", Txn(h))
    /\ UNCHANGED <<rows, rejected, external, history>>

(***************************************************************************)
(* ... or no answer in time to one that inventory executes all the same.   *)
(***************************************************************************)
ConfirmUnheard(h) ==
    /\ At(h, "confirm")
    /\ unheard[Txn(h)] < MaxUnheard
    /\ outstanding' = [outstanding EXCEPT ![Txn(h)] = @ + 1]
    /\ unheard' = [unheard EXCEPT ![Txn(h)] = @ + 1]
    /\ Goes(h, "release", Txn(h))
    /\ UNCHANGED <<rows, rejected, said, confirmed, orphaned, acked, notified>>

ConfirmLate(t) ==
    /\ outstanding[t] > 0
    /\ outstanding' = [outstanding EXCEPT ![t] = @ - 1]
    /\ \E n \in {0, 1} : confirmed' = [confirmed EXCEPT ![t] = @ + n]
    /\ UNCHANGED <<rows, rejected, calls, said, history>>

\* Broken variant of ReleaseClaim: only the status is reset.
ReleaseStatusOnly(h) ==
    /\ At(h, "release")
    /\ status' = [status EXCEPT ![Txn(h)] = "PENDING"]
    /\ Ends(h)
    /\ UNCHANGED <<applied, old, rejected, external, history>>

(***************************************************************************)
(* The catch branch: releaseApplication sets both columns whatever they    *)
(* are, and the error goes to the provider as a 5xx.                       *)
(***************************************************************************)
ReleaseClaim(h) ==
    /\ At(h, "release")
    /\ applied' = [applied EXCEPT ![Txn(h)] = FALSE]
    /\ status' = [status EXCEPT ![Txn(h)] = "PENDING"]
    /\ Ends(h)
    /\ UNCHANGED <<old, rejected, external, history>>

FlagReconciliation(h) ==
    /\ At(h, "INSUFFICIENT_STOCK")
    /\ status' = [status EXCEPT ![Txn(h)] = "NEEDS_RECONCILIATION"]
    /\ acked' = acked \cup {Txn(h)}
    /\ Ends(h)
    /\ UNCHANGED <<applied, old, rejected, external, unheard, orphaned, notified>>

RecordSuccess(h) ==
    /\ At(h, "CONFIRMED")
    /\ status' = [status EXCEPT ![Txn(h)] = "SUCCESS"]
    /\ Goes(h, "notify", Txn(h))
    /\ UNCHANGED <<applied, old, rejected, external, history>>

\* Broken variant of EmitNotifications: its failure runs into the catch branch.
EmitOrRelease(h) ==
    /\ At(h, "notify")
    /\ Goes(h, "release", Txn(h))
    /\ UNCHANGED <<rows, rejected, external, history>>

(***************************************************************************)
(* emitSuccessNotifications.  The publisher swallows the errors of XADD.   *)
(***************************************************************************)
EmitNotifications(h) ==
    /\ At(h, "notify")
    /\ \E n \in {0, 1} : notified' = [notified EXCEPT ![Txn(h)] = @ + n]
    /\ acked' = acked \cup {Txn(h)}
    /\ Ends(h)
    /\ UNCHANGED <<rows, rejected, external, unheard, orphaned>>

\* Broken variant of Stale: the age alone decides.
StaleByAge(t) == t \in old /\ status[t] \notin {"NONE", "TIMED_OUT"}

(***************************************************************************)
(* timeoutStale: one UPDATE over all rows.                                 *)
(***************************************************************************)
Stale(t) == status[t] = "PENDING" /\ ~applied[t] /\ t \in old

\* Broken variant of SweepTimeouts: it stands back while callbacks are handled.
SweepWhenIdle ==
    /\ \E t \in Txns : Stale(t)
    /\ \A h \in Handlers : calls[h] = NoCall
    /\ status' = [t \in Txns |-> IF Stale(t) THEN "TIMED_OUT" ELSE status[t]]
    /\ UNCHANGED <<applied, old, rejected, calls, external, history>>

SweepTimeouts ==
    /\ \E t \in Txns : Stale(t)
    /\ status' = [t \in Txns |-> IF Stale(t) THEN "TIMED_OUT" ELSE status[t]]
    /\ UNCHANGED <<applied, old, rejected, calls, external, history>>

(***************************************************************************)
(* The handler is gone: the process died, or the query it waited for       *)
(* failed.  A confirm request it waited for may still be executed.         *)
(***************************************************************************)
Dies(h) ==
    /\ calls[h] # NoCall
    /\ calls[h].at \in {"confirm"} \cup Outcomes => unheard[Txn(h)] < MaxUnheard
    /\ outstanding' = IF At(h, "confirm")
                      THEN [outstanding EXCEPT ![Txn(h)] = @ + 1]
                      ELSE outstanding
    /\ unheard' = IF calls[h].at \in {"confirm"} \cup Outcomes
                  THEN [unheard EXCEPT ![Txn(h)] = @ + 1]
                  ELSE unheard
    /\ orphaned' = IF calls[h].at \in Claimed \ {"notify"}
                   THEN orphaned \cup {Txn(h)}
                   ELSE orphaned
    /\ Ends(h)
    /\ UNCHANGED <<rows, rejected, said, confirmed, acked, notified>>

Receive(h) ==
    \/ \E t \in Txns : ReceiveFailure(h, t) \/ ReceiveDuplicate(h, t) \/ ReceiveSuccess(h, t)
    \/ \E reason \in Reasons : RejectCallback(h, reason)

(***************************************************************************)
(* What a handler that has begun goes on with.  The call to the inventory  *)
(* service ends after inventoryClient's timeout at the latest.             *)
(***************************************************************************)
Continue(h) ==
    \/ RecordFailure(h) \/ Claim(h) \/ LoseClaim(h)
    \/ \E outcome \in Outcomes : ConfirmAnswered(h, outcome)
    \/ ConfirmFails(h) \/ ConfirmUnheard(h)
    \/ ReleaseClaim(h) \/ FlagReconciliation(h) \/ RecordSuccess(h) \/ EmitNotifications(h)

Next ==
    \/ \E t \in Txns : Initiate(t) \/ Ages(t) \/ ConfirmLate(t)
    \/ \E t \in Txns, v \in Verdicts : ProviderDecides(t, v)
    \/ \E h \in Handlers : Receive(h) \/ Continue(h) \/ Dies(h)
    \/ SweepTimeouts

(***************************************************************************)
(* Queries and the inventory call end, so handlers go on; the sweep runs   *)
(* from setInterval.  Nothing obliges anybody to pay or to call back, nor  *)
(* Redis to answer XADD: publish has no handler for a connection that is   *)
(* closed without an answer (publisher.ts:126-145).                        *)
(***************************************************************************)
Fairness ==
    /\ \A h \in Handlers : WF_vars(Continue(h) /\ ~At(h, "notify"))
    /\ WF_vars(SweepTimeouts)

Spec == Init /\ [][Next]_vars
FairSpec == Spec /\ Fairness

-----------------------------------------------------------------------------
(***************************************************************************)
(* Rows, handlers and counters have the values the code gives them.        *)
(***************************************************************************)
TypeOK ==
    /\ status \in [Txns -> Statuses \cup {"NONE"}]
    /\ applied \in [Txns -> BOOLEAN]
    /\ old \subseteq Txns /\ orphaned \subseteq Txns /\ acked \subseteq Txns
    /\ rejected \subseteq Reasons
    /\ calls \in [Handlers -> Calls \cup {NoCall}]
    /\ said \in [Txns -> SUBSET Verdicts]
    /\ confirmed \in [Txns -> Nat] /\ outstanding \in [Txns -> Nat]
    /\ unheard \in [Txns -> 0 .. MaxUnheard] /\ notified \in [Txns -> Nat]

Holds(h, t) == calls[h] # NoCall /\ calls[h].txn = t /\ calls[h].at \in Claimed

(***************************************************************************)
(* However many callbacks for a transaction race, at most one handler is   *)
(* between its claim and its end, and the row stays claimed meanwhile: no  *)
(* release by another handler, no sweep and no failure frees it.           *)
(***************************************************************************)
ClaimIsExclusive ==
    \A t \in Txns : \A h \in Handlers : Holds(h, t) =>
        /\ applied[t]
        /\ \A g \in Handlers : Holds(g, t) => g = h

(***************************************************************************)
(* Inventory executes the confirm of a transaction once, and once more for *)
(* every request that got no answer: repeated, reordered and concurrent    *)
(* callbacks alone never confirm twice (idempotency.ts:15).                *)
(***************************************************************************)
ConfirmsAreAccounted ==
    \A t \in Txns : confirmed[t] + outstanding[t] <= 1 + unheard[t]

(***************************************************************************)
(* The retailer is told of a payment at most once, also when the confirm   *)
(* had to be repeated.                                                     *)
(***************************************************************************)
NotifiedOnce == \A t \in Txns : notified[t] <= 1

(***************************************************************************)
(* SUCCESS says that inventory confirmed, and inventory only ever confirms *)
(* what the provider called a success (types.ts:11).                       *)
(***************************************************************************)
SuccessIsConfirmed ==
    \A t \in Txns :
        /\ status[t] = "SUCCESS" => confirmed[t] > 0
        /\ confirmed[t] > 0 => "success" \in said[t]

(***************************************************************************)
(* A claimed row without a final result is being worked on, unless its     *)
(* handler died: no interleaving of claims, releases and sweeps alone      *)
(* leaves a transaction that neither the sweep nor a callback can move.    *)
(***************************************************************************)
Settled(t) == status[t] \in {"SUCCESS", "NEEDS_RECONCILIATION"}

ClaimHasOwner ==
    \A t \in Txns : applied[t] /\ status[t] \in {"PENDING", "TIMED_OUT"} =>
        t \in orphaned \/ \E h \in Handlers : Holds(h, t)

(***************************************************************************)
(* An applied result is final for the sweep and for every other success    *)
(* callback; only a failure callback can still overwrite it.               *)
(***************************************************************************)
SettledStays ==
    [][\A t \in Txns : Settled(t) => status'[t] \in {status[t], "FAILED"}]_vars

(***************************************************************************)
(* Every callback is answered, or its result is written and only the       *)
(* publication of the notifications is left: no handler waits for another  *)
(* one, not even for one that died holding the claim.                      *)
(***************************************************************************)
CallsEnd ==
    \A h \in Handlers :
        calls[h] # NoCall ~> calls[h] = NoCall \/ At(h, "notify")

(***************************************************************************)
(* No transaction stays PENDING for ever: once it is old and success       *)
(* callbacks no longer come, it gets a final status or is timed out,       *)
(* whatever claims and releases were under way, unless a handler died      *)
(* with the claim.                                                         *)
(***************************************************************************)
UnpaidIsClosed ==
    \A t \in Txns :
        <>[][~ \E h \in Handlers : ReceiveSuccess(h, t)]_vars =>
            (t \in old /\ status[t] = "PENDING"
                ~> status[t] # "PENDING" \/ t \in orphaned)

(***************************************************************************)
(* The claim on a transaction works as a lock: at most one handler has it, *)
(* and no row is left claimed by nobody, but by one that died.             *)
(***************************************************************************)
ClaimIsSound ==
    /\ ClaimIsExclusive
    /\ ClaimHasOwner

(***************************************************************************)
(* Repeated, racing and reordered callbacks have the effect of one: the    *)
(* orders are confirmed once for each answer inventory owes, the retailer  *)
(* is told once, and SUCCESS means that both the provider and inventory    *)
(* said so.                                                                *)
(***************************************************************************)
EffectsHappenOnce ==
    /\ ConfirmsAreAccounted
    /\ NotifiedOnce
    /\ SuccessIsConfirmed

(***************************************************************************)
(* Nothing about a payment waits for ever: every callback is answered, and *)
(* every old transaction is closed, whatever the others do.                *)
(***************************************************************************)
PaymentsEnd ==
    /\ CallsEnd
    /\ UnpaidIsClosed

(***************************************************************************)
(* types.ts:12: a FAILED transaction's sub-orders stay PENDING.  Asked     *)
(* here only where nothing is under way and every confirm was answered.    *)
(***************************************************************************)
FailedStaysPending ==
    \A t \in Txns :
        status[t] = "FAILED" /\ unheard[t] = 0 /\ (\A h \in Handlers : ~Holds(h, t))
            => confirmed[t] = 0

(***************************************************************************)
(* paymentService.ts:123 and :178: a 200 with applied: true is given for a *)
(* success that is applied.                                                *)
(***************************************************************************)
AckedIsApplied == \A t \in acked : applied[t]
=============================================================================
