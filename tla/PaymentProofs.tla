--------------------------- MODULE PaymentProofs ---------------------------
(***************************************************************************)
(* Proofs about Payment, for any number of transactions and handlers.      *)
(***************************************************************************)
EXTENDS Payment, TLAPS

(***************************************************************************)
(* What a handler knows at each place it can wait at.                      *)
(***************************************************************************)
HandlerInv ==
    \A h \in Handlers : calls[h] # NoCall =>
        /\ calls[h].at # "fail" => "success" \in said[Txn(h)]
        /\ calls[h].at \in Claimed => applied[Txn(h)] /\ notified[Txn(h)] = 0
        /\ calls[h].at \in {"confirm", "release", "INSUFFICIENT_STOCK"} =>
                confirmed[Txn(h)] + outstanding[Txn(h)] <= unheard[Txn(h)]
        /\ calls[h].at = "CONFIRMED" => confirmed[Txn(h)] > 0
        /\ calls[h].at \in Claimed \ {"notify"} => ~Settled(Txn(h))
        /\ calls[h].at = "notify" => status[Txn(h)] \in {"SUCCESS", "FAILED"}

(***************************************************************************)
(* One holder of a claim.                                                  *)
(***************************************************************************)
Unique ==
    \A g, h \in Handlers, t \in Txns : Holds(g, t) /\ Holds(h, t) => g = h

(***************************************************************************)
(* What a row says of the world.  An unclaimed row has spent none of the   *)
(* confirms it was answered for.                                           *)
(***************************************************************************)
RowInv ==
    \A t \in Txns :
        /\ ~applied[t] =>
                /\ confirmed[t] + outstanding[t] <= unheard[t]
                /\ notified[t] = 0
                /\ ~Settled(t)
        /\ confirmed[t] + outstanding[t] <= 1 + unheard[t]
        /\ notified[t] <= 1
        /\ status[t] = "SUCCESS" => confirmed[t] > 0
        /\ confirmed[t] > 0 \/ outstanding[t] > 0 \/ applied[t] => "success" \in said[t]
        /\ status[t] = "NONE" => said[t] = {}

IInv == TypeOK /\ HandlerInv /\ Unique /\ RowInv /\ ClaimHasOwner

(***************************************************************************)
(* The place and the transaction of a call, so that the record need not be *)
(* opened anywhere else.                                                   *)
(***************************************************************************)
LEMMA CallMade ==
    ASSUME NEW s \in Steps, NEW t \in Txns
    PROVE  /\ Call(s, t) \in Calls
           /\ Call(s, t) # NoCall
           /\ Call(s, t).at = s
           /\ Call(s, t).txn = t
<1>1. Call(s, t) \in Calls /\ Call(s, t).at = s /\ Call(s, t).txn = t
  BY DEF Call, Calls
<1> QED
  BY <1>1, NoCallAssumption

(***************************************************************************)
(* A handler that runs waits somewhere, for a transaction.                 *)
(***************************************************************************)
LEMMA CallRead ==
    ASSUME TypeOK, NEW h \in Handlers, calls[h] # NoCall
    PROVE  calls[h].at \in Steps /\ Txn(h) \in Txns
  BY DEF TypeOK, Calls, Txn

(***************************************************************************)
(* A new row is unclaimed and nobody has called back for it.               *)
(***************************************************************************)
LEMMA InitiateStep ==
    ASSUME IInv, NEW t \in Txns, Initiate(t)
    PROVE  IInv'
<1> USE CallMade, CallRead, MaxUnheardAssumption DEF IInv, Initiate, At, Goes, Ends, Txn, rows, external, history
<1>1. TypeOK'
  BY DEF TypeOK, Steps, Outcomes, Statuses, Reasons, Verdicts
<1>2. HandlerInv'
  BY DEF TypeOK, HandlerInv, RowInv, Unique, Holds, Settled, Steps, Claimed, Outcomes, Verdicts
<1>3. Unique'
  BY DEF TypeOK, HandlerInv, Unique, Holds, Steps, Claimed, Outcomes
<1>4. RowInv'
  BY DEF TypeOK, HandlerInv, RowInv, Settled, Steps, Claimed, Outcomes, Verdicts
<1>5. ClaimHasOwner'
  BY DEF TypeOK, HandlerInv, RowInv, Unique, ClaimHasOwner, Holds, Settled, Steps, Claimed, Outcomes
<1> QED
  BY <1>1, <1>2, <1>3, <1>4, <1>5

(***************************************************************************)
(* A verdict of the provider changes no row.                               *)
(***************************************************************************)
LEMMA DecidesStep ==
    ASSUME IInv, NEW t \in Txns, NEW v \in Verdicts, ProviderDecides(t, v)
    PROVE  IInv'
<1> USE CallMade, CallRead, MaxUnheardAssumption DEF IInv, ProviderDecides, At, Goes, Ends, Txn, rows, external, history
<1>1. TypeOK'
  BY DEF TypeOK, Steps, Outcomes, Statuses, Reasons, Verdicts
<1>2. HandlerInv'
  BY DEF TypeOK, HandlerInv, RowInv, Unique, Holds, Settled, Steps, Claimed, Outcomes, Verdicts
<1>3. Unique'
  BY DEF TypeOK, HandlerInv, Unique, Holds, Steps, Claimed, Outcomes
<1>4. RowInv'
  BY DEF TypeOK, HandlerInv, RowInv, Settled, Steps, Claimed, Outcomes, Verdicts
<1>5. ClaimHasOwner'
  BY DEF TypeOK, HandlerInv, RowInv, Unique, ClaimHasOwner, Holds, Settled, Steps, Claimed, Outcomes
<1> QED
  BY <1>1, <1>2, <1>3, <1>4, <1>5

(***************************************************************************)
(* Passing the timeout window changes nothing but the age.                 *)
(***************************************************************************)
LEMMA AgesStep ==
    ASSUME IInv, NEW t \in Txns, Ages(t)
    PROVE  IInv'
<1> USE CallMade, CallRead, MaxUnheardAssumption DEF IInv, Ages, At, Goes, Ends, Txn, rows, external, history
<1>1. TypeOK'
  BY DEF TypeOK, Steps, Outcomes, Statuses, Reasons, Verdicts
<1>2. HandlerInv'
  BY DEF TypeOK, HandlerInv, RowInv, Unique, Holds, Settled, Steps, Claimed, Outcomes, Verdicts
<1>3. Unique'
  BY DEF TypeOK, HandlerInv, Unique, Holds, Steps, Claimed, Outcomes
<1>4. RowInv'
  BY DEF TypeOK, HandlerInv, RowInv, Settled, Steps, Claimed, Outcomes, Verdicts
<1>5. ClaimHasOwner'
  BY DEF TypeOK, HandlerInv, RowInv, Unique, ClaimHasOwner, Holds, Settled, Steps, Claimed, Outcomes
<1> QED
  BY <1>1, <1>2, <1>3, <1>4, <1>5

(***************************************************************************)
(* A handler of a failure does not claim to know of a success.             *)
(***************************************************************************)
LEMMA FailureReceivedStep ==
    ASSUME IInv, NEW h \in Handlers, NEW t \in Txns, ReceiveFailure(h, t)
    PROVE  IInv'
<1> USE CallMade, CallRead, MaxUnheardAssumption DEF IInv, ReceiveFailure, At, Goes, Ends, Txn, rows, external, history
<1>1. TypeOK'
  BY DEF TypeOK, Steps, Outcomes, Statuses, Reasons, Verdicts
<1>2. HandlerInv'
  BY DEF TypeOK, HandlerInv, RowInv, Unique, Holds, Settled, Steps, Claimed, Outcomes, Verdicts
<1>3. Unique'
  BY DEF TypeOK, HandlerInv, Unique, Holds, Steps, Claimed, Outcomes
<1>4. RowInv'
  BY DEF TypeOK, HandlerInv, RowInv, Settled, Steps, Claimed, Outcomes, Verdicts
<1>5. ClaimHasOwner'
  BY DEF TypeOK, HandlerInv, RowInv, Unique, ClaimHasOwner, Holds, Settled, Steps, Claimed, Outcomes
<1> QED
  BY <1>1, <1>2, <1>3, <1>4, <1>5

(***************************************************************************)
(* Acknowledging a duplicate touches no row.                               *)
(***************************************************************************)
LEMMA DuplicateReceivedStep ==
    ASSUME IInv, NEW h \in Handlers, NEW t \in Txns, ReceiveDuplicate(h, t)
    PROVE  IInv'
<1> USE CallMade, CallRead, MaxUnheardAssumption DEF IInv, ReceiveDuplicate, At, Goes, Ends, Txn, rows, external, history
<1>1. TypeOK'
  BY DEF TypeOK, Steps, Outcomes, Statuses, Reasons, Verdicts
<1>2. HandlerInv'
  BY DEF TypeOK, HandlerInv, RowInv, Unique, Holds, Settled, Steps, Claimed, Outcomes, Verdicts
<1>3. Unique'
  BY DEF TypeOK, HandlerInv, Unique, Holds, Steps, Claimed, Outcomes
<1>4. RowInv'
  BY DEF TypeOK, HandlerInv, RowInv, Settled, Steps, Claimed, Outcomes, Verdicts
<1>5. ClaimHasOwner'
  BY DEF TypeOK, HandlerInv, RowInv, Unique, ClaimHasOwner, Holds, Settled, Steps, Claimed, Outcomes
<1> QED
  BY <1>1, <1>2, <1>3, <1>4, <1>5

(***************************************************************************)
(* A handler goes for the claim only after a success of the provider.      *)
(***************************************************************************)
LEMMA SuccessReceivedStep ==
    ASSUME IInv, NEW h \in Handlers, NEW t \in Txns, ReceiveSuccess(h, t)
    PROVE  IInv'
<1> USE CallMade, CallRead, MaxUnheardAssumption DEF IInv, ReceiveSuccess, At, Goes, Ends, Txn, rows, external, history
<1>1. TypeOK'
  BY DEF TypeOK, Steps, Outcomes, Statuses, Reasons, Verdicts
<1>2. HandlerInv'
  BY DEF TypeOK, HandlerInv, RowInv, Unique, Holds, Settled, Steps, Claimed, Outcomes, Verdicts
<1>3. Unique'
  BY DEF TypeOK, HandlerInv, Unique, Holds, Steps, Claimed, Outcomes
<1>4. RowInv'
  BY DEF TypeOK, HandlerInv, RowInv, Settled, Steps, Claimed, Outcomes, Verdicts
<1>5. ClaimHasOwner'
  BY DEF TypeOK, HandlerInv, RowInv, Unique, ClaimHasOwner, Holds, Settled, Steps, Claimed, Outcomes
<1> QED
  BY <1>1, <1>2, <1>3, <1>4, <1>5

(***************************************************************************)
(* A rejected callback leaves every transaction alone.                     *)
(***************************************************************************)
LEMMA RejectStep ==
    ASSUME IInv, NEW h \in Handlers, NEW reason \in Reasons, RejectCallback(h, reason)
    PROVE  IInv'
<1> USE CallMade, CallRead, MaxUnheardAssumption DEF IInv, RejectCallback, At, Goes, Ends, Txn, rows, external, history
<1>1. TypeOK'
  BY DEF TypeOK, Steps, Outcomes, Statuses, Reasons, Verdicts
<1>2. HandlerInv'
  BY DEF TypeOK, HandlerInv, RowInv, Unique, Holds, Settled, Steps, Claimed, Outcomes, Verdicts
<1>3. Unique'
  BY DEF TypeOK, HandlerInv, Unique, Holds, Steps, Claimed, Outcomes
<1>4. RowInv'
  BY DEF TypeOK, HandlerInv, RowInv, Settled, Steps, Claimed, Outcomes, Verdicts
<1>5. ClaimHasOwner'
  BY DEF TypeOK, HandlerInv, RowInv, Unique, ClaimHasOwner, Holds, Settled, Steps, Claimed, Outcomes
<1> QED
  BY <1>1, <1>2, <1>3, <1>4, <1>5

(***************************************************************************)
(* FAILED overwrites the status but neither claim nor counters.            *)
(***************************************************************************)
LEMMA FailureRecordedStep ==
    ASSUME IInv, NEW h \in Handlers, RecordFailure(h)
    PROVE  IInv'
<1> USE CallMade, CallRead, MaxUnheardAssumption DEF IInv, RecordFailure, At, Goes, Ends, Txn, rows, external, history
<1>1. TypeOK'
  BY DEF TypeOK, Steps, Outcomes, Statuses, Reasons, Verdicts
<1>2. HandlerInv'
  BY DEF TypeOK, HandlerInv, RowInv, Unique, Holds, Settled, Steps, Claimed, Outcomes, Verdicts
<1>3. Unique'
  BY DEF TypeOK, HandlerInv, Unique, Holds, Steps, Claimed, Outcomes
<1>4. RowInv'
  BY DEF TypeOK, HandlerInv, RowInv, Settled, Steps, Claimed, Outcomes, Verdicts
<1>5. ClaimHasOwner'
  BY DEF TypeOK, HandlerInv, RowInv, Unique, ClaimHasOwner, Holds, Settled, Steps, Claimed, Outcomes
<1> QED
  BY <1>1, <1>2, <1>3, <1>4, <1>5

(***************************************************************************)
(* The conditional UPDATE lets one handler in: the row was unclaimed.      *)
(***************************************************************************)
LEMMA ClaimStep ==
    ASSUME IInv, NEW h \in Handlers, Claim(h)
    PROVE  IInv'
<1> USE CallMade, CallRead, MaxUnheardAssumption DEF IInv, Claim, At, Goes, Ends, Txn, rows, external, history
<1>1. TypeOK'
  BY DEF TypeOK, Steps, Outcomes, Statuses, Reasons, Verdicts
<1>2. HandlerInv'
  BY DEF TypeOK, HandlerInv, RowInv, Unique, Holds, Settled, Steps, Claimed, Outcomes, Verdicts
<1>3. Unique'
  BY DEF TypeOK, HandlerInv, Unique, Holds, Steps, Claimed, Outcomes
<1>4. RowInv'
  BY DEF TypeOK, HandlerInv, RowInv, Settled, Steps, Claimed, Outcomes, Verdicts
<1>5. ClaimHasOwner'
  <2> SUFFICES ASSUME NEW t \in Txns,
                      applied'[t] /\ status'[t] \in {"PENDING", "TIMED_OUT"},
                      t \notin orphaned
               PROVE  \E g \in Handlers : Holds(g, t)'
    BY DEF ClaimHasOwner
  <2>1. CASE t = Txn(h)
    <3>1. Holds(h, t)'
      BY <2>1 DEF TypeOK, Holds, Steps, Claimed, Outcomes
    <3> QED
      BY <3>1
  <2>2. CASE t # Txn(h)
    <3>1. PICK g \in Handlers : Holds(g, t)
      BY <2>2 DEF TypeOK, ClaimHasOwner
    <3>2. Holds(g, t)'
      BY <2>2, <3>1 DEF TypeOK, Holds
    <3> QED
      BY <3>2
  <2> QED
    BY <2>1, <2>2
<1> QED
  BY <1>1, <1>2, <1>3, <1>4, <1>5

(***************************************************************************)
(* The loser of the claim ends without a trace in the row.                 *)
(***************************************************************************)
LEMMA LoseClaimStep ==
    ASSUME IInv, NEW h \in Handlers, LoseClaim(h)
    PROVE  IInv'
<1> USE CallMade, CallRead, MaxUnheardAssumption DEF IInv, LoseClaim, At, Goes, Ends, Txn, rows, external, history
<1>1. TypeOK'
  BY DEF TypeOK, Steps, Outcomes, Statuses, Reasons, Verdicts
<1>2. HandlerInv'
  BY DEF TypeOK, HandlerInv, RowInv, Unique, Holds, Settled, Steps, Claimed, Outcomes, Verdicts
<1>3. Unique'
  BY DEF TypeOK, HandlerInv, Unique, Holds, Steps, Claimed, Outcomes
<1>4. RowInv'
  BY DEF TypeOK, HandlerInv, RowInv, Settled, Steps, Claimed, Outcomes, Verdicts
<1>5. ClaimHasOwner'
  BY DEF TypeOK, HandlerInv, RowInv, Unique, ClaimHasOwner, Holds, Settled, Steps, Claimed, Outcomes
<1> QED
  BY <1>1, <1>2, <1>3, <1>4, <1>5

(***************************************************************************)
(* An answer uses up the one confirm an open claim may still make.         *)
(***************************************************************************)
LEMMA AnsweredStep ==
    ASSUME IInv, NEW h \in Handlers, NEW outcome \in Outcomes, ConfirmAnswered(h, outcome)
    PROVE  IInv'
<1> USE CallMade, CallRead, MaxUnheardAssumption DEF IInv, ConfirmAnswered, At, Goes, Ends, Txn, rows, external, history
<1>1. TypeOK'
  BY DEF TypeOK, Steps, Outcomes, Statuses, Reasons, Verdicts
<1>2. HandlerInv'
  BY DEF TypeOK, HandlerInv, RowInv, Unique, Holds, Settled, Steps, Claimed, Outcomes, Verdicts
<1>3. Unique'
  BY DEF TypeOK, HandlerInv, Unique, Holds, Steps, Claimed, Outcomes
<1>4. RowInv'
  BY DEF TypeOK, HandlerInv, RowInv, Settled, Steps, Claimed, Outcomes, Verdicts
<1>5. ClaimHasOwner'
  BY DEF TypeOK, HandlerInv, RowInv, Unique, ClaimHasOwner, Holds, Settled, Steps, Claimed, Outcomes
<1> QED
  BY <1>1, <1>2, <1>3, <1>4, <1>5

(***************************************************************************)
(* A confirm that was refused may be repeated.                             *)
(***************************************************************************)
LEMMA FailsStep ==
    ASSUME IInv, NEW h \in Handlers, ConfirmFails(h)
    PROVE  IInv'
<1> USE CallMade, CallRead, MaxUnheardAssumption DEF IInv, ConfirmFails, At, Goes, Ends, Txn, rows, external, history
<1>1. TypeOK'
  BY DEF TypeOK, Steps, Outcomes, Statuses, Reasons, Verdicts
<1>2. HandlerInv'
  BY DEF TypeOK, HandlerInv, RowInv, Unique, Holds, Settled, Steps, Claimed, Outcomes, Verdicts
<1>3. Unique'
  BY DEF TypeOK, HandlerInv, Unique, Holds, Steps, Claimed, Outcomes
<1>4. RowInv'
  BY DEF TypeOK, HandlerInv, RowInv, Settled, Steps, Claimed, Outcomes, Verdicts
<1>5. ClaimHasOwner'
  <2> SUFFICES ASSUME NEW t \in Txns,
                      applied'[t] /\ status'[t] \in {"PENDING", "TIMED_OUT"},
                      t \notin orphaned
               PROVE  \E g \in Handlers : Holds(g, t)'
    BY DEF ClaimHasOwner
  <2>1. CASE t = Txn(h)
    <3>1. Holds(h, t)'
      BY <2>1 DEF TypeOK, Holds, Steps, Claimed, Outcomes
    <3> QED
      BY <3>1
  <2>2. CASE t # Txn(h)
    <3>1. PICK g \in Handlers : Holds(g, t)
      BY <2>2 DEF TypeOK, ClaimHasOwner
    <3>2. Holds(g, t)'
      BY <2>2, <3>1 DEF TypeOK, Holds
    <3> QED
      BY <3>2
  <2> QED
    BY <2>1, <2>2
<1> QED
  BY <1>1, <1>2, <1>3, <1>4, <1>5

(***************************************************************************)
(* An unanswered confirm is counted when it is given up.                   *)
(***************************************************************************)
LEMMA UnheardStep ==
    ASSUME IInv, NEW h \in Handlers, ConfirmUnheard(h)
    PROVE  IInv'
<1> USE CallMade, CallRead, MaxUnheardAssumption DEF IInv, ConfirmUnheard, At, Goes, Ends, Txn, rows, external, history
<1>1. TypeOK'
  BY DEF TypeOK, Steps, Outcomes, Statuses, Reasons, Verdicts
<1>2. HandlerInv'
  BY DEF TypeOK, HandlerInv, RowInv, Unique, Holds, Settled, Steps, Claimed, Outcomes, Verdicts
<1>3. Unique'
  BY DEF TypeOK, HandlerInv, Unique, Holds, Steps, Claimed, Outcomes
<1>4. RowInv'
  BY DEF TypeOK, HandlerInv, RowInv, Settled, Steps, Claimed, Outcomes, Verdicts
<1>5. ClaimHasOwner'
  BY DEF TypeOK, HandlerInv, RowInv, Unique, ClaimHasOwner, Holds, Settled, Steps, Claimed, Outcomes
<1> QED
  BY <1>1, <1>2, <1>3, <1>4, <1>5

(***************************************************************************)
(* A request nobody waits for is executed at most once.                    *)
(***************************************************************************)
LEMMA LateStep ==
    ASSUME IInv, NEW t \in Txns, ConfirmLate(t)
    PROVE  IInv'
<1> USE CallMade, CallRead, MaxUnheardAssumption DEF IInv, ConfirmLate, At, Goes, Ends, Txn, rows, external, history
<1>1. TypeOK'
  BY DEF TypeOK, Steps, Outcomes, Statuses, Reasons, Verdicts
<1>2. HandlerInv'
  BY DEF TypeOK, HandlerInv, RowInv, Unique, Holds, Settled, Steps, Claimed, Outcomes, Verdicts
<1>3. Unique'
  BY DEF TypeOK, HandlerInv, Unique, Holds, Steps, Claimed, Outcomes
<1>4. RowInv'
  BY DEF TypeOK, HandlerInv, RowInv, Settled, Steps, Claimed, Outcomes, Verdicts
<1>5. ClaimHasOwner'
  BY DEF TypeOK, HandlerInv, RowInv, Unique, ClaimHasOwner, Holds, Settled, Steps, Claimed, Outcomes
<1> QED
  BY <1>1, <1>2, <1>3, <1>4, <1>5

(***************************************************************************)
(* Only the one holder releases, before anything was recorded.             *)
(***************************************************************************)
LEMMA ReleaseStep ==
    ASSUME IInv, NEW h \in Handlers, ReleaseClaim(h)
    PROVE  IInv'
<1> USE CallMade, CallRead, MaxUnheardAssumption DEF IInv, ReleaseClaim, At, Goes, Ends, Txn, rows, external, history
<1>1. TypeOK'
  BY DEF TypeOK, Steps, Outcomes, Statuses, Reasons, Verdicts
<1>2. HandlerInv'
  BY DEF TypeOK, HandlerInv, RowInv, Unique, Holds, Settled, Steps, Claimed, Outcomes, Verdicts
<1>3. Unique'
  BY DEF TypeOK, HandlerInv, Unique, Holds, Steps, Claimed, Outcomes
<1>4. RowInv'
  BY DEF TypeOK, HandlerInv, RowInv, Settled, Steps, Claimed, Outcomes, Verdicts
<1>5. ClaimHasOwner'
  BY DEF TypeOK, HandlerInv, RowInv, Unique, ClaimHasOwner, Holds, Settled, Steps, Claimed, Outcomes
<1> QED
  BY <1>1, <1>2, <1>3, <1>4, <1>5

(***************************************************************************)
(* Insufficient stock is a final result of the holder.                     *)
(***************************************************************************)
LEMMA FlagStep ==
    ASSUME IInv, NEW h \in Handlers, FlagReconciliation(h)
    PROVE  IInv'
<1> USE CallMade, CallRead, MaxUnheardAssumption DEF IInv, FlagReconciliation, At, Goes, Ends, Txn, rows, external, history
<1>1. TypeOK'
  BY DEF TypeOK, Steps, Outcomes, Statuses, Reasons, Verdicts
<1>2. HandlerInv'
  BY DEF TypeOK, HandlerInv, RowInv, Unique, Holds, Settled, Steps, Claimed, Outcomes, Verdicts
<1>3. Unique'
  BY DEF TypeOK, HandlerInv, Unique, Holds, Steps, Claimed, Outcomes
<1>4. RowInv'
  BY DEF TypeOK, HandlerInv, RowInv, Settled, Steps, Claimed, Outcomes, Verdicts
<1>5. ClaimHasOwner'
  BY DEF TypeOK, HandlerInv, RowInv, Unique, ClaimHasOwner, Holds, Settled, Steps, Claimed, Outcomes
<1> QED
  BY <1>1, <1>2, <1>3, <1>4, <1>5

(***************************************************************************)
(* SUCCESS is written by the holder that heard CONFIRMED.                  *)
(***************************************************************************)
LEMMA SuccessRecordedStep ==
    ASSUME IInv, NEW h \in Handlers, RecordSuccess(h)
    PROVE  IInv'
<1> USE CallMade, CallRead, MaxUnheardAssumption DEF IInv, RecordSuccess, At, Goes, Ends, Txn, rows, external, history
<1>1. TypeOK'
  BY DEF TypeOK, Steps, Outcomes, Statuses, Reasons, Verdicts
<1>2. HandlerInv'
  BY DEF TypeOK, HandlerInv, RowInv, Unique, Holds, Settled, Steps, Claimed, Outcomes, Verdicts
<1>3. Unique'
  BY DEF TypeOK, HandlerInv, Unique, Holds, Steps, Claimed, Outcomes
<1>4. RowInv'
  BY DEF TypeOK, HandlerInv, RowInv, Settled, Steps, Claimed, Outcomes, Verdicts
<1>5. ClaimHasOwner'
  BY DEF TypeOK, HandlerInv, RowInv, Unique, ClaimHasOwner, Holds, Settled, Steps, Claimed, Outcomes
<1> QED
  BY <1>1, <1>2, <1>3, <1>4, <1>5

(***************************************************************************)
(* The holder publishes once and is then done with the claim.              *)
(***************************************************************************)
LEMMA EmitStep ==
    ASSUME IInv, NEW h \in Handlers, EmitNotifications(h)
    PROVE  IInv'
<1> USE CallMade, CallRead, MaxUnheardAssumption DEF IInv, EmitNotifications, At, Goes, Ends, Txn, rows, external, history
<1>1. TypeOK'
  BY DEF TypeOK, Steps, Outcomes, Statuses, Reasons, Verdicts
<1>2. HandlerInv'
  BY DEF TypeOK, HandlerInv, RowInv, Unique, Holds, Settled, Steps, Claimed, Outcomes, Verdicts
<1>3. Unique'
  BY DEF TypeOK, HandlerInv, Unique, Holds, Steps, Claimed, Outcomes
<1>4. RowInv'
  BY DEF TypeOK, HandlerInv, RowInv, Settled, Steps, Claimed, Outcomes, Verdicts
<1>5. ClaimHasOwner'
  <2> SUFFICES ASSUME NEW t \in Txns,
                      applied'[t] /\ status'[t] \in {"PENDING", "TIMED_OUT"},
                      t \notin orphaned
               PROVE  \E g \in Handlers : Holds(g, t)'
    BY DEF ClaimHasOwner
  <2>1. CASE t = Txn(h)
    BY <2>1 DEF TypeOK, HandlerInv, Steps, Claimed, Outcomes
  <2>2. CASE t # Txn(h)
    <3>1. PICK g \in Handlers : Holds(g, t)
      BY <2>2 DEF TypeOK, ClaimHasOwner
    <3>2. Holds(g, t)'
      BY <2>2, <3>1 DEF TypeOK, Holds
    <3> QED
      BY <3>2
  <2> QED
    BY <2>1, <2>2
<1> QED
  BY <1>1, <1>2, <1>3, <1>4, <1>5

(***************************************************************************)
(* The sweep leaves claimed rows alone.                                    *)
(***************************************************************************)
LEMMA SweepStep ==
    ASSUME IInv, SweepTimeouts
    PROVE  IInv'
<1> USE CallMade, CallRead, MaxUnheardAssumption DEF IInv, SweepTimeouts, At, Goes, Ends, Txn, rows, external, history, Stale
<1>1. TypeOK'
  BY DEF TypeOK, Steps, Outcomes, Statuses, Reasons, Verdicts
<1>2. HandlerInv'
  BY DEF TypeOK, HandlerInv, RowInv, Unique, Holds, Settled, Steps, Claimed, Outcomes, Verdicts
<1>3. Unique'
  BY DEF TypeOK, HandlerInv, Unique, Holds, Steps, Claimed, Outcomes
<1>4. RowInv'
  BY DEF TypeOK, HandlerInv, RowInv, Settled, Steps, Claimed, Outcomes, Verdicts
<1>5. ClaimHasOwner'
  BY DEF TypeOK, HandlerInv, RowInv, Unique, ClaimHasOwner, Holds, Settled, Steps, Claimed, Outcomes
<1> QED
  BY <1>1, <1>2, <1>3, <1>4, <1>5

(***************************************************************************)
(* A handler that dies with the claim leaves the row claimed for good.     *)
(***************************************************************************)
LEMMA DiesStep ==
    ASSUME IInv, NEW h \in Handlers, Dies(h)
    PROVE  IInv'
<1> USE CallMade, CallRead, MaxUnheardAssumption DEF IInv, Dies, At, Goes, Ends, Txn, rows, external, history
<1>1. TypeOK'
  BY DEF TypeOK, Steps, Outcomes, Statuses, Reasons, Verdicts
<1>2. HandlerInv'
  BY DEF TypeOK, HandlerInv, RowInv, Unique, Holds, Settled, Steps, Claimed, Outcomes, Verdicts
<1>3. Unique'
  BY DEF TypeOK, HandlerInv, Unique, Holds, Steps, Claimed, Outcomes
<1>4. RowInv'
  BY DEF TypeOK, HandlerInv, RowInv, Settled, Steps, Claimed, Outcomes, Verdicts
<1>5. ClaimHasOwner'
  BY DEF TypeOK, HandlerInv, RowInv, Unique, ClaimHasOwner, Holds, Settled, Steps, Claimed, Outcomes
<1> QED
  BY <1>1, <1>2, <1>3, <1>4, <1>5

(***************************************************************************)
(* The invariant holds throughout.                                         *)
(***************************************************************************)
THEOREM Invariant == Spec => []IInv
<1>1. Init => IInv
  BY MaxUnheardAssumption
     DEF Init, IInv, TypeOK, HandlerInv, Unique, RowInv, ClaimHasOwner, Holds, Settled, Statuses
<1>2. IInv /\ [Next]_vars => IInv'
  <2> SUFFICES ASSUME IInv, [Next]_vars PROVE IInv'
    OBVIOUS
  <2>1. CASE \E t \in Txns : Initiate(t) \/ Ages(t) \/ ConfirmLate(t)
    BY <2>1, InitiateStep, AgesStep, LateStep
  <2>2. CASE \E t \in Txns, v \in Verdicts : ProviderDecides(t, v)
    BY <2>2, DecidesStep
  <2>3. CASE \E h \in Handlers : Receive(h)
    BY <2>3, FailureReceivedStep, DuplicateReceivedStep, SuccessReceivedStep, RejectStep
       DEF Receive
  <2>4. CASE \E h \in Handlers : Continue(h)
    BY <2>4, FailureRecordedStep, ClaimStep, LoseClaimStep, AnsweredStep, FailsStep,
       UnheardStep, ReleaseStep, FlagStep, SuccessRecordedStep, EmitStep
       DEF Continue
  <2>5. CASE \E h \in Handlers : Dies(h)
    BY <2>5, DiesStep
  <2>6. CASE SweepTimeouts
    BY <2>6, SweepStep
  <2>7. CASE UNCHANGED vars
    BY <2>7 DEF vars, rows, external, history, IInv, TypeOK, HandlerInv, Unique, RowInv,
                ClaimHasOwner, Holds, Settled, Txn
  <2> QED
    BY <2>1, <2>2, <2>3, <2>4, <2>5, <2>6, <2>7 DEF Next
<1> QED
  BY <1>1, <1>2, PTL DEF Spec

(***************************************************************************)
(* Rows, handlers and counters are well typed.                             *)
(***************************************************************************)
THEOREM TypeCorrect == Spec => []TypeOK
<1>1. IInv => TypeOK
  BY DEF IInv
<1> QED
  BY <1>1, Invariant, PTL

(***************************************************************************)
(* However many handlers race, one holds the claim.                        *)
(***************************************************************************)
THEOREM OneClaim == Spec => []ClaimIsExclusive
<1>1. IInv => ClaimIsExclusive
  BY CallRead DEF IInv, Unique, HandlerInv, ClaimIsExclusive, Holds, Txn
<1> QED
  BY <1>1, Invariant, PTL

(***************************************************************************)
(* A confirm is repeated only where an earlier one was not answered.       *)
(***************************************************************************)
THEOREM ConfirmsBounded == Spec => []ConfirmsAreAccounted
<1>1. IInv => ConfirmsAreAccounted
  BY DEF IInv, RowInv, ConfirmsAreAccounted
<1> QED
  BY <1>1, Invariant, PTL

(***************************************************************************)
(* The retailer hears of a payment at most once.                           *)
(***************************************************************************)
THEOREM OneNotification == Spec => []NotifiedOnce
<1>1. IInv => NotifiedOnce
  BY DEF IInv, RowInv, NotifiedOnce
<1> QED
  BY <1>1, Invariant, PTL

(***************************************************************************)
(* SUCCESS implies a confirm, and a confirm a payment.                     *)
(***************************************************************************)
THEOREM SuccessMeansConfirmed == Spec => []SuccessIsConfirmed
<1>1. IInv => SuccessIsConfirmed
  BY DEF IInv, RowInv, SuccessIsConfirmed
<1> QED
  BY <1>1, Invariant, PTL

(***************************************************************************)
(* A claimed row without a result has a handler, or had one that died.     *)
(***************************************************************************)
THEOREM ClaimsAreOwned == Spec => []ClaimHasOwner
<1>1. IInv => ClaimHasOwner
  BY DEF IInv
<1> QED
  BY <1>1, Invariant, PTL

(***************************************************************************)
(* The claim in the database is a lock: one handler has it, and it is      *)
(* given back by every handler that lives.                                 *)
(***************************************************************************)
THEOREM ClaimSound == Spec => []ClaimIsSound
  BY OneClaim, ClaimsAreOwned, PTL DEF ClaimIsSound

(***************************************************************************)
(* Any number of repeated and racing callbacks have the effects of one.    *)
(***************************************************************************)
THEOREM EffectsOnce == Spec => []EffectsHappenOnce
  BY ConfirmsBounded, OneNotification, SuccessMeansConfirmed, PTL DEF EffectsHappenOnce

(***************************************************************************)
(* No release, claim or sweep undoes an applied result.                    *)
(***************************************************************************)
THEOREM SettledIsFinal == Spec => SettledStays
<1> DEFINE Stays == \A t \in Txns : Settled(t) => status'[t] \in {status[t], "FAILED"}
<1>1. IInv /\ [Next]_vars => [Stays]_vars
  <2> SUFFICES ASSUME IInv, Next PROVE Stays
    OBVIOUS
  <2> USE CallRead DEF IInv, Settled, rows
  <2>1. CASE \E t \in Txns : Initiate(t) \/ Ages(t) \/ ConfirmLate(t)
    BY <2>1 DEF TypeOK, Initiate, Ages, ConfirmLate
  <2>2. CASE \E t \in Txns, v \in Verdicts : ProviderDecides(t, v)
    BY <2>2 DEF ProviderDecides
  <2>3. CASE \E h \in Handlers : Receive(h)
    BY <2>3 DEF Receive, ReceiveFailure, ReceiveDuplicate, ReceiveSuccess, RejectCallback
  <2>4. CASE \E h \in Handlers : Continue(h)
    BY <2>4 DEF Continue, RecordFailure, Claim, LoseClaim, ConfirmAnswered, ConfirmFails,
       ConfirmUnheard, ReleaseClaim, FlagReconciliation, RecordSuccess, EmitNotifications,
       TypeOK, HandlerInv, Claimed, Outcomes, At
  <2>5. CASE \E h \in Handlers : Dies(h)
    BY <2>5 DEF Dies
  <2>6. CASE SweepTimeouts
    BY <2>6 DEF SweepTimeouts, Stale
  <2> QED
    BY <2>1, <2>2, <2>3, <2>4, <2>5, <2>6 DEF Next
<1>2. Spec => [][Stays]_vars
  BY <1>1, Invariant, PTL DEF Spec
<1> QED
  BY <1>2 DEF SettledStays
=============================================================================
