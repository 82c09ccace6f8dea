---------------------------- MODULE DeliveryProofs -----------------------------
(***************************************************************************)
(* What Delivery promises of a confirmation, for any number of workers,       *)
(* epochs, attempts, shutdowns and faults.  Everything rests on the tokens:   *)
(* a lease token is minted once, so of all the threads that believe they own  *)
(* a row or the handoff at most one is right.                                 *)
(***************************************************************************)
EXTENDS Delivery, TLAPS

(* The parts of the invariant *)

\* A lease token belongs to one thread, one row and one claim of it.
Tokens ==
    /\ \A t \in Thread :
         /\ pc[t] # "idle" => lease[t].token \in 1..minted
         /\ \A u \in Thread : (pc[t] # "idle" /\ pc[u] # "idle"
                               /\ lease[t].token = lease[u].token) => t = u
         /\ \A e \in Epoch : pc[t] # "idle" /\ Holds(job[e], lease[t].token)
                             => lease[t].epoch = e
    /\ \A e \in Epoch :
         /\ job[e].state = "leased" => job[e].token \in 1..minted
         /\ \A d \in Epoch : (job[d].state = "leased" /\ job[e].state = "leased"
                              /\ job[d].token = job[e].token) => d = e
    /\ handoff.token <= minted
    /\ Active => handoff.token # NoToken

\* An epoch that has not begun has neither slot nor job.
Future == \A e \in Epoch : e > run.epoch => slot[e] = NoSlot /\ job[e] = AbsentRow

\* A record-only run never comes near the provider.
Recording ==
    /\ run.recordOnly => ~Active
    /\ \A t \in Thread : /\ pc[t] = "sending" => ~run.recordOnly
                         /\ pc[t] = "settling" /\ result[t] = "recorded" => run.recordOnly

\* A thread that was not granted the handoff does not own it; one whose send was
\* acknowledged has delivered.
Answers ==
    \A t \in Thread :
        /\ pc[t] = "claimed" \/ (pc[t] = "settling" /\ result[t] = "noop")
             => handoff.token # lease[t].token
        /\ pc[t] = "settling" /\ result[t] = "ok" => lease[t].epoch \in arrived

Inv ==
    /\ TypeOK /\ Tokens /\ Future /\ Recording /\ Answers
    /\ HandoffIsCurrent /\ SenderIsCovered /\ DeliveredMeansArrived
    /\ ReviewIsQuiet /\ ReplayCanBeClaimed

-------------------------------------------------------------------------------
(* Types *)

RunRow == [status : Status, review : BOOLEAN, epoch : Epoch, recordOnly : BOOLEAN]
SlotRow == [state : {"none", "reserved", "sent"}, open : BOOLEAN]
Handoff == [epoch : Epoch, token : Nat, expired : BOOLEAN]
Lease == [epoch : Epoch, token : Nat]
Phase == {"idle", "claimed", "sending", "settling"}

\* TypeOK, one name to a domain.
Tables ==
    /\ run \in RunRow /\ slot \in [Epoch -> SlotRow] /\ handoff \in Handoff
    /\ job \in [Epoch -> Row(MaxAttempts)] /\ minted \in Nat
Memory ==
    /\ pc \in [Thread -> Phase] /\ lease \in [Thread -> Lease]
    /\ result \in [Thread -> Result]
Notes ==
    /\ arrived \subseteq Epoch /\ vouched \subseteq Epoch /\ failing \in BOOLEAN
    /\ notice \in {"none", "not_pending", "expired"} /\ licences \in Nat
    /\ releases \in 0..MaxReleases /\ faults \in 0..MaxFaults

\* The single-statement transitions keep a row well formed; a claim, because it looks at
\* the attempts first.
LEMMA RowTransitions ==
    ASSUME NEW max \in Nat, NEW r \in Row(max), NEW token \in Nat,
           NEW due \in BOOLEAN, NEW state \in JobState
    PROVE  /\ Enqueued(r, due) \in Row(max)
           /\ Claimable(r, max) => Claimed(r, token) \in Row(max)
           /\ Settled(r, state) \in Row(max)
           /\ Retried(r) \in Row(max)
           /\ Released(r) \in Row(max)
           /\ LeaseRanOut(r) \in Row(max)
           /\ BackoffElapsed(r) \in Row(max)
  <1>1. Claimable(r, max) => r.attempts + 1 \in 0..max
    BY DEF Row, Claimable
  <1>. QED
    BY <1>1 DEF Row, JobState, NoToken, Enqueued, Claimed, Settled, Retried, Released,
                LeaseRanOut, BackoffElapsed

\* A settlement of any kind leaves the row in the state it says.
LEMMA SettledRow ==
    ASSUME NEW max \in Nat, NEW r \in Row(max), NEW state \in JobState
    PROVE  Settled(r, state) \in Row(max) /\ Settled(r, state).state = state
  BY DEF Settled, Row, NoToken

LEMMA TypeParts == TypeOK <=> Tables /\ Memory /\ Notes
  BY DEF TypeOK, Tables, Memory, Notes, RunRow, SlotRow, Handoff, Lease, Phase

LEMMA Epochs == /\ 0 \in Epoch
                /\ \A e \in Epoch : e \in Nat /\ (e < MaxEpoch => e + 1 \in Epoch)
  BY DeliveryAssumption DEF Epoch

\* The rows under the assignments the actions make.
LEMMA RunRows ==
    ASSUME NEW r \in RunRow
    PROVE  /\ r.status \in Status /\ r.epoch \in Epoch /\ r.recordOnly \in BOOLEAN
           /\ r.review \in BOOLEAN
           /\ \A s \in Status : [r EXCEPT !.status = s] \in RunRow
           /\ \A s \in Status, b \in BOOLEAN :
                [r EXCEPT !.status = s, !.review = b] \in RunRow
           /\ \A s \in Status, e \in Epoch :
                [r EXCEPT !.status = s, !.epoch = e] \in RunRow
  BY DEF RunRow

LEMMA SlotRows ==
    ASSUME NEW r \in SlotRow
    PROVE  /\ r.state \in {"none", "reserved", "sent"} /\ r.open \in BOOLEAN
           /\ [r EXCEPT !.state = "sent"] \in SlotRow /\ [r EXCEPT !.open = FALSE] \in SlotRow
  BY DEF SlotRow

LEMMA Defaults == /\ NoSlot \in SlotRow /\ Reserved \in SlotRow /\ NoHandoff \in Handoff
                  /\ NoLease \in Lease /\ AbsentRow \in Row(MaxAttempts)
  BY Epochs, DeliveryAssumption
  DEF NoSlot, Reserved, NoHandoff, NoLease, AbsentRow, SlotRow, Handoff, Lease, Row,
      JobState, NoToken

LEMMA Handoffs ==
    ASSUME NEW h \in Handoff
    PROVE  [h EXCEPT !.expired = TRUE] \in Handoff /\ h.epoch \in Epoch /\ h.token \in Nat
  BY DEF Handoff

LEMMA Leases ==
    ASSUME Memory, NEW t \in Thread PROVE lease[t].epoch \in Epoch /\ lease[t].token \in Nat
  BY DEF Memory, Lease

\* Every assignment to a job writes a row.
LEMMA Jobs ==
    ASSUME NEW r \in Row(MaxAttempts)
    PROVE  /\ Enqueued(r, TRUE) \in Row(MaxAttempts)
           /\ Settled(r, "done") \in Row(MaxAttempts)
           /\ Settled(r, "dead") \in Row(MaxAttempts)
           /\ Retried(r) \in Row(MaxAttempts) /\ Released(r) \in Row(MaxAttempts)
           /\ LeaseRanOut(r) \in Row(MaxAttempts) /\ BackoffElapsed(r) \in Row(MaxAttempts)
  <1>1. "done" \in JobState /\ "dead" \in JobState /\ MaxAttempts \in Nat /\ 0 \in Nat
    BY DeliveryAssumption DEF JobState
  <1> QED
    BY <1>1, RowTransitions

LEMMA InitTypes == Init => TypeOK
<1> SUFFICES ASSUME Init PROVE Tables /\ Memory /\ Notes
  BY TypeParts
<1>1. run \in RunRow
  BY Epochs DEF Init, RunRow, Status
<1>2. Tables
  BY <1>1, Defaults DEF Init, Tables
<1>3. Memory
  BY Defaults DEF Init, Memory, Phase, Result
<1>4. Notes
  <2>1. releases \in 0..MaxReleases /\ faults \in 0..MaxFaults /\ licences \in Nat
    BY DeliveryAssumption DEF Init
  <2> QED
    BY <2>1 DEF Init, Notes
<1> QED
  BY <1>2, <1>3, <1>4

\* What a settlement writes.
LEMMA SettleTypes ==
    ASSUME Tables, Memory, Notes, NEW t \in Thread, Settle(t)
    PROVE  Tables' /\ Memory' /\ Notes'
<1> DEFINE e == lease[t].epoch
<1>1. e \in Epoch
  BY Leases
<1>2. \A s \in Status : [run EXCEPT !.status = s] \in RunRow
                        /\ [run EXCEPT !.status = s, !.review = TRUE] \in RunRow
  BY RunRows DEF Tables
<1>3. job[e] \in Row(MaxAttempts) /\ slot[e] \in SlotRow
  BY <1>1 DEF Tables
<1>4. Memory'
  BY Defaults DEF Settle, Leave, Memory, Phase, Result
<1>5. Notes' /\ minted' \in Nat
  BY DEF Settle, Notes, Tables, operator, bounds
<1>6. /\ run' \in RunRow /\ slot' \in [Epoch -> SlotRow] /\ handoff' \in Handoff
      /\ job' \in [Epoch -> Row(MaxAttempts)]
  <2>1. CASE SettleLost(t)
    BY <2>1 DEF SettleLost, Tables
  <2>2. CASE SettleInvalid(t)
    BY <1>1, <1>3, <2>2, Jobs DEF SettleInvalid, Finished, Tables
  <2>3. CASE SettleSent(t)
    <3>1. run' \in RunRow /\ handoff' \in Handoff
      BY <1>2, <2>3, Defaults DEF SettleSent, Tables, Status
    <3>2. job' \in [Epoch -> Row(MaxAttempts)]
      BY <1>1, <1>3, <2>3, Jobs DEF SettleSent, Finished, Tables
    <3>3. slot' \in [Epoch -> SlotRow]
      BY <1>1, <1>3, <2>3, SlotRows DEF SettleSent, Tables
    <3> QED
      BY <3>1, <3>2, <3>3
  <2>4. CASE SettleRetry(t)
    BY <1>1, <1>3, <2>4, Jobs, Defaults DEF SettleRetry, Tables
  <2>5. CASE SettleReview(t)
    <3>1. run' \in RunRow /\ handoff' \in Handoff
      BY <1>2, <2>5, Defaults DEF SettleReview, Review, Status
    <3>2. job' \in [Epoch -> Row(MaxAttempts)] /\ slot' = slot
      BY <1>1, <1>3, <2>5, Jobs DEF SettleReview, Finished, Tables
    <3> QED
      BY <3>1, <3>2 DEF Tables
  <2> QED
    BY <2>1, <2>2, <2>3, <2>4, <2>5 DEF Settle
<1> QED
  BY <1>4, <1>5, <1>6 DEF Tables

LEMMA NextTypes == TypeOK /\ [Next]_vars => TypeOK'
<1> SUFFICES ASSUME Tables, Memory, Notes, [Next]_vars PROVE Tables' /\ Memory' /\ Notes'
  BY DEF TypeOK, Tables, Memory, Notes, RunRow, SlotRow, Handoff, Lease, Phase
<1> USE DEF worker, operator, bounds
<1>0. /\ run.epoch \in Epoch /\ run.status \in Status
      /\ \A s \in Status : [run EXCEPT !.status = s] \in RunRow
      /\ \A s \in Status, b \in BOOLEAN : [run EXCEPT !.status = s, !.review = b] \in RunRow
      /\ \A s \in Status, e \in Epoch : [run EXCEPT !.status = s, !.epoch = e] \in RunRow
  BY RunRows DEF Tables
<1>1. CASE Approve
  <2>1. run' \in RunRow /\ job' \in [Epoch -> Row(MaxAttempts)]
    BY <1>0, <1>1, Jobs DEF Approve, Status, Tables
  <2>2. slot' \in [Epoch -> SlotRow]
    BY <1>0, <1>1, Defaults DEF Approve, Tables
  <2> QED
    BY <1>1, <2>1, <2>2 DEF Approve, Tables, Memory, Notes
<1>2. CASE ApproveRollsBack \/ RecordRunError \/ Reject
  <2>1. run' \in RunRow
    BY <1>0, <1>2 DEF ApproveRollsBack, RecordRunError, Reject, Status, Tables
  <2>2. Notes'
    <3>1. faults' \in 0..MaxFaults
      BY <1>2, DeliveryAssumption DEF ApproveRollsBack, RecordRunError, Reject, Notes
    <3> QED
      BY <1>2, <3>1 DEF ApproveRollsBack, RecordRunError, Reject, Notes
  <2> QED
    BY <1>2, <2>1, <2>2 DEF ApproveRollsBack, RecordRunError, Reject, Tables, Memory
<1>3. CASE Retrigger \/ PipelineFinishes
  <2>1. run' \in RunRow
    BY <1>0, <1>3, Epochs DEF Retrigger, NextEpoch, PipelineFinishes, Status
  <2> QED
    BY <1>3, <2>1 DEF Retrigger, PipelineFinishes, Tables, Memory, Notes
<1>4. ASSUME NEW t \in Thread, NEW e \in Epoch, Claim(t, e) PROVE Tables' /\ Memory' /\ Notes'
  <2>1. minted' \in Nat /\ job[e] \in Row(MaxAttempts) /\ Claimable(job[e], MaxAttempts)
    BY <1>4 DEF Claim, Tables
  <2>2. Claimed(job[e], minted') \in Row(MaxAttempts)
    <3>1. "done" \in JobState /\ TRUE \in BOOLEAN /\ MaxAttempts \in Nat
      BY DeliveryAssumption DEF JobState
    <3> QED
      BY <2>1, <3>1, RowTransitions
  <2>3. [epoch |-> e, token |-> minted'] \in Lease
    BY <2>1 DEF Lease
  <2> QED
    BY <1>4, <2>1, <2>2, <2>3 DEF Claim, Tables, Memory, Notes, Phase
<1>5. ASSUME NEW t \in Thread, Authorize(t) PROVE Tables' /\ Memory' /\ Notes'
  <2>1. Authority(t) \in {"noop", "recorded", "expired", "granted"}
    BY DEF Authority
  <2>2. handoff' \in Handoff
    <3>1. [epoch |-> lease[t].epoch, token |-> lease[t].token,
           expired |-> job[lease[t].epoch].expired] \in Handoff
      BY Leases DEF Tables, Handoff, Row
    <3> QED
      BY <1>5, <3>1 DEF Authorize, Tables
  <2> QED
    BY <1>5, <2>1, <2>2 DEF Authorize, Tables, Memory, Notes, Result, Phase
<1>6. ASSUME NEW t \in Thread, Send(t) \/ HandlerRaises(t) PROVE Tables' /\ Memory' /\ Notes'
  <2>1. Notes'
    BY <1>6, Leases, DeliveryAssumption DEF Send, HandlerRaises, Notes
  <2>2. Memory'
    BY <1>6 DEF Send, HandlerRaises, Memory, Result, Phase
  <2> QED
    BY <1>6, <2>1, <2>2 DEF Send, HandlerRaises, Tables
<1>7. ASSUME NEW t \in Thread, Crash(t) PROVE Tables' /\ Memory' /\ Notes'
  BY <1>7, Defaults DEF Crash, Leave, Tables, Memory, Notes, Result, Phase
<1>8. ASSUME NEW e \in Epoch, Reap(e) PROVE Tables' /\ Memory' /\ Notes'
  <2>1. job' \in [Epoch -> Row(MaxAttempts)]
    BY <1>8, Jobs DEF Reap, Finished, Tables
  <2>2. run' \in RunRow /\ handoff' \in Handoff
    BY <1>0, <1>8, Defaults DEF Reap, Review, Status, Tables
  <2> QED
    BY <1>8, <2>1, <2>2 DEF Reap, Tables, Memory, Notes
<1>9. ASSUME NEW e \in Epoch, ReleaseLease(e) PROVE Tables' /\ Memory' /\ Notes'
  <2>1. job' \in [Epoch -> Row(MaxAttempts)]
    BY <1>9, Jobs DEF ReleaseLease, Tables
  <2>2. Notes'
    BY <1>9, DeliveryAssumption DEF ReleaseLease, Notes
  <2> QED
    BY <1>9, <2>1, <2>2 DEF ReleaseLease, Tables, Memory
<1>10. ASSUME NEW e \in Epoch, LeaseExpires(e) \/ BackoffElapses(e)
       PROVE  Tables' /\ Memory' /\ Notes'
  <2>1. job' \in [Epoch -> Row(MaxAttempts)]
    BY <1>10, Jobs DEF LeaseExpires, BackoffElapses, Tables
  <2>2. handoff' \in Handoff
    BY <1>10, Handoffs DEF LeaseExpires, BackoffElapses, Tables
  <2> QED
    BY <1>10, <2>1, <2>2 DEF LeaseExpires, BackoffElapses, Tables, Memory, Notes
<1>11. ASSUME NEW e \in Epoch, WindowCloses(e) PROVE Tables' /\ Memory' /\ Notes'
  <2>1. slot' \in [Epoch -> SlotRow]
    BY <1>11, SlotRows DEF WindowCloses, Tables
  <2> QED
    BY <1>11, <2>1 DEF WindowCloses, Tables, Memory, Notes
<1>12. CASE HandoffExpires
  BY <1>12, Handoffs DEF HandoffExpires, Tables, Memory, Notes
<1>13. CASE RetryNow
  <2>1. job' \in [Epoch -> Row(MaxAttempts)]
    BY <1>0, <1>13, Jobs DEF RetryNow, Tables
  <2>2. Notes'
    BY <1>13 DEF RetryNow, Notes
  <2> QED
    BY <1>13, <2>1, <2>2 DEF RetryNow, Tables, Memory
<1>14. CASE MarkDelivered
  <2>1. run' \in RunRow /\ handoff' \in Handoff
    BY <1>0, <1>14, Defaults DEF MarkDelivered, Status
  <2> QED
    BY <1>0, <1>14, <2>1 DEF MarkDelivered, Tables, Memory, Notes
<1>15. CASE AuthorizeNewConfirmation
  <2>1. run' = [run EXCEPT !.status = "approved", !.epoch = run.epoch + 1]
        /\ run.epoch + 1 \in Epoch
    BY <1>0, <1>15, Epochs DEF AuthorizeNewConfirmation
  <2>2. run' \in RunRow /\ run'.epoch \in Epoch /\ handoff' \in Handoff
    BY <1>0, <1>15, <2>1, Defaults, RunRows DEF AuthorizeNewConfirmation, Status
  <2>3. job' \in [Epoch -> Row(MaxAttempts)]
    BY <1>15, <2>2, Jobs DEF AuthorizeNewConfirmation, Tables
  <2>4. slot' \in [Epoch -> SlotRow]
    BY <1>15, <2>2, Defaults DEF AuthorizeNewConfirmation, Tables
  <2>5. Notes'
    BY <1>15 DEF AuthorizeNewConfirmation, Notes
  <2> QED
    BY <1>15, <2>2, <2>3, <2>4, <2>5 DEF AuthorizeNewConfirmation, Tables, Memory
<1>16. CASE UNCHANGED vars
  BY <1>16 DEF vars, Tables, Memory, Notes
<1> QED
  BY <1>1, <1>2, <1>3, <1>4, <1>5, <1>6, <1>7, <1>8, <1>9, <1>10, <1>11, <1>12,
     <1>13, <1>14, <1>15, <1>16, SettleTypes DEF Next, Operator, Clock, WorkerStep
-------------------------------------------------------------------------------
(* Tokens *)

\* A row is not leased after a step, or it is leased as before.
Keeps(r, s) == s.state = "leased" => r.state = "leased" /\ s.token = r.token

LEMMA RowsKeep ==
    ASSUME NEW r \in Row(MaxAttempts)
    PROVE  /\ Keeps(r, r) /\ Keeps(r, Enqueued(r, TRUE))
           /\ Keeps(r, Settled(r, "done")) /\ Keeps(r, Settled(r, "dead"))
           /\ Keeps(r, Retried(r)) /\ Keeps(r, Released(r))
           /\ Keeps(r, LeaseRanOut(r)) /\ Keeps(r, BackoffElapsed(r))
<1>1. Keeps(r, r) /\ Keeps(r, Enqueued(r, TRUE)) /\ Keeps(r, LeaseRanOut(r))
      /\ Keeps(r, BackoffElapsed(r))
  BY DEF Keeps, Enqueued, LeaseRanOut, BackoffElapsed, Row
<1>2. "pending" \in JobState /\ "done" \in JobState /\ "dead" \in JobState
      /\ TRUE \in BOOLEAN /\ 0 \in Nat /\ MaxAttempts \in Nat
  BY DeliveryAssumption DEF JobState
<1>3. /\ Settled(r, "done").state = "done" /\ Settled(r, "dead").state = "dead"
      /\ Settled(r, "pending").state = "pending" /\ Settled(r, "pending") \in Row(MaxAttempts)
  BY <1>2, SettledRow
<1>4. Retried(r).state = "pending" /\ Released(r).state = "pending"
  BY <1>3 DEF Retried, Released, Row
<1> QED
  BY <1>1, <1>3, <1>4 DEF Keeps

Claims == \E t \in Thread, e \in Epoch : Claim(t, e)

\* Only a claim starts a lease; every other step keeps or ends the leases there are.
LEMMA OnlyClaimsLease ==
    ASSUME Tables, Memory, [Next]_vars, ~Claims
    PROVE  /\ minted' = minted
           /\ \A e \in Epoch : Keeps(job[e], job'[e])
           /\ \A t \in Thread : pc'[t] # "idle" => pc[t] # "idle" /\ lease'[t] = lease[t]
<1> USE DEF worker, operator, bounds
<1>0. /\ run.epoch \in Epoch /\ job \in [Epoch -> Row(MaxAttempts)]
      /\ pc \in [Thread -> Phase] /\ lease \in [Thread -> Lease]
      /\ \A e \in Epoch : Keeps(job[e], job[e])
  BY RunRows, RowsKeep DEF Tables, Memory
<1>1. CASE Approve \/ RetryNow
  <2>1. \/ job' = job \/ job' = [job EXCEPT ![run.epoch] = Enqueued(@, TRUE)]
        \/ job' = [job EXCEPT ![run.epoch] = BackoffElapsed(@)]
    BY <1>0, <1>1 DEF Approve, RetryNow
  <2>2. \A e \in Epoch : Keeps(job[e], job'[e])
    BY <1>0, <2>1, RowsKeep
  <2> QED
    BY <1>0, <1>1, <2>2 DEF Approve, RetryNow
<1>2. CASE ApproveRollsBack \/ RecordRunError \/ Reject \/ Retrigger \/ PipelineFinishes
           \/ HandoffExpires \/ MarkDelivered
  BY <1>0, <1>2 DEF ApproveRollsBack, RecordRunError, Reject, Retrigger, PipelineFinishes,
     HandoffExpires, MarkDelivered
<1>3. ASSUME NEW t \in Thread, Authorize(t) \/ Send(t) \/ HandlerRaises(t) \/ Crash(t)
      PROVE  /\ minted' = minted /\ job' = job
             /\ \A u \in Thread : pc'[u] # "idle" => pc[u] # "idle" /\ lease'[u] = lease[u]
  BY <1>0, <1>3 DEF Authorize, Send, HandlerRaises, Crash, Leave
<1>4. ASSUME NEW t \in Thread, Settle(t)
      PROVE  /\ minted' = minted /\ \A e \in Epoch : Keeps(job[e], job'[e])
             /\ \A u \in Thread : pc'[u] # "idle" => pc[u] # "idle" /\ lease'[u] = lease[u]
  <2>1. minted' = minted
        /\ \A u \in Thread : pc'[u] # "idle" => pc[u] # "idle" /\ lease'[u] = lease[u]
    BY <1>0, <1>4 DEF Settle, Leave
  <2>2. \/ job' = job \/ job' = [job EXCEPT ![lease[t].epoch] = Settled(@, "done")]
        \/ job' = [job EXCEPT ![lease[t].epoch] = Retried(@)]
    BY <1>4 DEF Settle, SettleLost, SettleInvalid, SettleSent, SettleRetry, SettleReview,
       Finished
  <2>3. \A e \in Epoch : Keeps(job[e], job'[e])
    <3>1. \A e \in Epoch : /\ Keeps(job[e], job[e]) /\ Keeps(job[e], Retried(job[e]))
                           /\ Keeps(job[e], Settled(job[e], "done"))
      BY <1>0, RowsKeep
    <3>2. \A e \in Epoch : \/ job'[e] = job[e] \/ job'[e] = Settled(job[e], "done")
                           \/ job'[e] = Retried(job[e])
      BY <1>0, <2>2
    <3> QED
      BY <3>1, <3>2
  <2> QED
    BY <2>1, <2>3
<1>5. ASSUME NEW e \in Epoch,
             Reap(e) \/ ReleaseLease(e) \/ LeaseExpires(e) \/ BackoffElapses(e) \/ WindowCloses(e)
      PROVE  /\ minted' = minted /\ \A d \in Epoch : Keeps(job[d], job'[d])
             /\ UNCHANGED <<pc, lease>>
  BY <1>0, <1>5, RowsKeep DEF Reap, Finished, ReleaseLease, LeaseExpires, BackoffElapses,
     WindowCloses
<1>6. CASE AuthorizeNewConfirmation
  BY <1>0, <1>6, RowsKeep DEF AuthorizeNewConfirmation
<1>7. CASE UNCHANGED vars
  BY <1>0, <1>7 DEF vars
<1> QED
  BY <1>0, <1>1, <1>2, <1>3, <1>4, <1>5, <1>6, <1>7
  DEF Next, Operator, Clock, WorkerStep, Claims

Granted(t) == Authorize(t) /\ Authority(t) = "granted"

\* The handoff goes, keeps its owner, or is granted.
LEMMA HandoffSteps ==
    ASSUME Tables, Memory, [Next]_vars
    PROVE  \/ handoff' = NoHandoff
           \/ handoff'.token = handoff.token /\ handoff'.epoch = handoff.epoch
              /\ (handoff' = NoHandoff <=> handoff = NoHandoff)
           \/ \E t \in Thread : Granted(t)
<1> USE DEF operator, bounds, worker
<1>0. handoff \in [epoch : Epoch, token : Nat, expired : BOOLEAN]
  BY DEF Tables, Handoff
<1>1. CASE Approve \/ ApproveRollsBack \/ Reject \/ Retrigger \/ RecordRunError \/ RetryNow
           \/ PipelineFinishes \/ UNCHANGED vars
  BY <1>1 DEF Approve, ApproveRollsBack, Reject, Retrigger, RecordRunError, PipelineFinishes,
     RetryNow, vars
<1>2. CASE MarkDelivered \/ AuthorizeNewConfirmation
  BY <1>2 DEF MarkDelivered, AuthorizeNewConfirmation
<1>3. ASSUME NEW t \in Thread, (\E e \in Epoch : Claim(t, e)) \/ Send(t) \/ HandlerRaises(t) \/ Crash(t)
      PROVE  handoff' = handoff
  BY <1>3 DEF Claim, Send, HandlerRaises, Crash
<1>4. ASSUME NEW t \in Thread, Authorize(t) PROVE handoff' = handoff \/ Granted(t)
  BY <1>4 DEF Authorize, Granted
<1>5. ASSUME NEW t \in Thread, Settle(t) PROVE handoff' = handoff \/ handoff' = NoHandoff
  BY <1>5 DEF Settle, SettleLost, SettleInvalid, SettleSent, SettleRetry, SettleReview, Review
<1>6. ASSUME NEW e \in Epoch, Reap(e) \/ ReleaseLease(e) \/ BackoffElapses(e) \/ WindowCloses(e)
      PROVE  handoff' = handoff \/ handoff' = NoHandoff
  BY <1>6 DEF Reap, ReleaseLease, BackoffElapses, WindowCloses, Review
<1>7. ASSUME NEW e \in Epoch, LeaseExpires(e) \/ HandoffExpires
      PROVE  handoff' = handoff \/ (Active /\ handoff' = [handoff EXCEPT !.expired = TRUE])
  BY <1>7 DEF LeaseExpires, HandoffExpires
<1>8. [handoff EXCEPT !.expired = TRUE] # NoHandoff
  BY <1>0 DEF NoHandoff
<1>9. CASE handoff' = handoff \/ (Active /\ handoff' = [handoff EXCEPT !.expired = TRUE])
  BY <1>0, <1>8, <1>9 DEF Active
<1>10. 0 \in Epoch
  BY Epochs
<1> QED
  BY <1>1, <1>2, <1>3, <1>4, <1>5, <1>6, <1>7, <1>9, <1>10
  DEF Next, Operator, Clock, WorkerStep

LEMMA InitTokens == Init => Tokens
  BY DEF Init, Tokens, Active, NoHandoff, AbsentRow, NoToken, Holds

\* A claim mints a token nobody has.
LEMMA ClaimTokens ==
    ASSUME Tables, Memory, Tokens, NEW t \in Thread, NEW e \in Epoch, Claim(t, e)
    PROVE  Tokens'
<1>1. /\ minted \in Nat /\ minted' = minted + 1 /\ handoff' = handoff
      /\ job' = [job EXCEPT ![e] = Claimed(@, minted')]
      /\ lease' = [lease EXCEPT ![t] = [epoch |-> e, token |-> minted']]
      /\ pc' = [pc EXCEPT ![t] = "claimed"]
  BY DEF Claim, Tables
<1>2. /\ lease'[t].epoch = e /\ lease'[t].token = minted' /\ pc'[t] # "idle"
      /\ \A u \in Thread \ {t} : lease'[u] = lease[u] /\ pc'[u] = pc[u]
  BY <1>1 DEF Memory
<1>3. /\ job'[e].token = minted' /\ \A d \in Epoch \ {e} : job'[d] = job[d]
  BY <1>1 DEF Tables, Claimed, Row
<1>4. \A u \in Thread : pc[u] # "idle" => lease[u].token \in 1..minted /\ lease[u].token # minted'
  BY <1>1 DEF Tokens
<1>5. \A d \in Epoch : job[d].state = "leased" => job[d].token \in 1..minted /\ job[d].token # minted'
  BY <1>1 DEF Tokens
<1>6. ASSUME NEW u \in Thread
      PROVE  /\ pc'[u] # "idle" => lease'[u].token \in 1..minted'
             /\ \A v \in Thread : (pc'[u] # "idle" /\ pc'[v] # "idle"
                                   /\ lease'[u].token = lease'[v].token) => u = v
             /\ \A d \in Epoch : pc'[u] # "idle" /\ Holds(job'[d], lease'[u].token)
                                 => lease'[u].epoch = d
  <2>1. /\ pc'[u] # "idle" => lease'[u].token \in 1..minted'
        /\ \A v \in Thread : (pc'[u] # "idle" /\ pc'[v] # "idle"
                              /\ lease'[u].token = lease'[v].token) => u = v
    BY <1>1, <1>2, <1>4 DEF Tokens
  <2>2. ASSUME NEW d \in Epoch, pc'[u] # "idle", Holds(job'[d], lease'[u].token)
        PROVE  lease'[u].epoch = d
    <3>1. CASE u = t
      BY <1>2, <1>3, <1>5, <2>2, <3>1 DEF Holds
    <3>2. CASE u # t
      BY <1>2, <1>3, <1>4, <2>2, <3>2 DEF Holds, Tokens
    <3> QED
      BY <3>1, <3>2
  <2> QED
    BY <2>1, <2>2
<1>7. ASSUME NEW d \in Epoch
      PROVE  /\ job'[d].state = "leased" => job'[d].token \in 1..minted'
             /\ \A c \in Epoch : (job'[c].state = "leased" /\ job'[d].state = "leased"
                                  /\ job'[c].token = job'[d].token) => c = d
  BY <1>1, <1>3, <1>5 DEF Tokens
<1>8. handoff'.token <= minted' /\ (Active' => handoff'.token # NoToken)
  BY <1>1 DEF Tokens, Active, Tables, Handoff
<1> QED
  BY <1>6, <1>7, <1>8 DEF Tokens

LEMMA NextTokens == Tables /\ Memory /\ Tokens /\ [Next]_vars => Tokens'
<1> SUFFICES ASSUME Tables, Memory, Tokens, [Next]_vars PROVE Tokens'
  OBVIOUS
<1>1. CASE Claims
  BY <1>1, ClaimTokens DEF Claims
<1>2. CASE ~Claims
  <2>1. /\ minted' = minted
        /\ \A e \in Epoch : Keeps(job[e], job'[e])
        /\ \A t \in Thread : pc'[t] # "idle" => pc[t] # "idle" /\ lease'[t] = lease[t]
    BY <1>2, OnlyClaimsLease
  <2>2. handoff'.token <= minted' /\ (Active' => handoff'.token # NoToken)
    <3>1. CASE handoff' = NoHandoff
      BY <2>1, <3>1 DEF Tables, NoHandoff, NoToken, Active
    <3>2. CASE handoff'.token = handoff.token /\ (handoff' = NoHandoff <=> handoff = NoHandoff)
      BY <2>1, <3>2 DEF Tokens, Active
    <3>3. ASSUME NEW t \in Thread, Granted(t)
          PROVE  handoff'.token <= minted' /\ handoff'.token # NoToken
      <4>1. handoff'.token = lease[t].token /\ pc[t] # "idle"
        BY <3>3 DEF Granted, Authorize
      <4>2. lease[t].token \in 1..minted
        BY <4>1 DEF Tokens
      <4> QED
        BY <2>1, <4>1, <4>2 DEF NoToken, Tables
    <3> QED
      BY <3>1, <3>2, <3>3, HandoffSteps
  <2> QED
    BY <2>1, <2>2 DEF Tokens, Keeps, Holds
<1> QED
  BY <1>1, <1>2
-------------------------------------------------------------------------------
(* What a step may do to each table *)

LEMMA RunSteps ==
    ASSUME Tables, [Next]_vars
    PROVE  /\ run'.recordOnly = run.recordOnly
           /\ \/ run'.epoch = run.epoch
              \/ run'.epoch = run.epoch + 1 /\ run'.epoch \in Epoch /\ ~Active'
           /\ run.status \in {"reconciled", "rejected"} => run' = run
           /\ run'.status = "reconciled" => \/ run' = run
                                            \/ slot'[run'.epoch].state = "sent"
                                            \/ run'.epoch \in vouched'
           /\ run'.status = "needs_operator" => \/ run' = run
                                                \/ ~Active' /\ ~Open(job'[run'.epoch])
<1> USE DEF operator, bounds, worker
<1>0. /\ run \in [status : Status, review : BOOLEAN, epoch : Epoch, recordOnly : BOOLEAN]
      /\ run.epoch \in Epoch /\ slot \in [Epoch -> SlotRow]
      /\ job \in [Epoch -> Row(MaxAttempts)]
  BY DEF Tables, RunRow
<1>1. CASE Approve
  <2>1. run' = [run EXCEPT !.status = IF slot[run.epoch].state = "sent"
                                      THEN "reconciled" ELSE "approved"]
    BY <1>1 DEF Approve
  <2>2. slot[run.epoch].state = "sent" => slot'[run.epoch].state = "sent"
    BY <1>0, <1>1 DEF Approve
  <2> QED
    BY <1>0, <1>1, <2>1, <2>2 DEF Approve
<1>2. CASE ApproveRollsBack \/ Reject \/ RetryNow \/ PipelineFinishes
  BY <1>0, <1>2 DEF ApproveRollsBack, Reject, RetryNow, PipelineFinishes
<1>3. CASE RecordRunError
  <2>1. \/ run' = run
        \/ /\ run.status \notin {"sent", "reconciled", "rejected", "error"}
           /\ run' = [run EXCEPT !.status = "error", !.review = FALSE]
    BY <1>3 DEF RecordRunError, TerminalStatus
  <2> QED
    BY <1>0, <2>1
<1>4. CASE Retrigger
  <2>1. /\ run' = [run EXCEPT !.status = "received", !.epoch = run.epoch + 1]
        /\ run.epoch + 1 \in Epoch /\ ~Active' /\ run.status \notin {"reconciled", "rejected"}
    BY <1>0, <1>4, Epochs DEF Retrigger, NextEpoch, Active
  <2> QED
    BY <1>0, <2>1
<1>5. ASSUME NEW t \in Thread,
             (\E e \in Epoch : Claim(t, e)) \/ Authorize(t) \/ Send(t) \/ HandlerRaises(t) \/ Crash(t)
      PROVE  run' = run
  BY <1>5 DEF Claim, Authorize, Send, HandlerRaises, Crash
<1>6. ASSUME NEW e \in Epoch,
             ReleaseLease(e) \/ LeaseExpires(e) \/ BackoffElapses(e) \/ WindowCloses(e)
             \/ HandoffExpires
      PROVE  run' = run
  BY <1>6 DEF ReleaseLease, LeaseExpires, BackoffElapses, WindowCloses, HandoffExpires
<1>7. ASSUME NEW e \in Epoch, run.epoch = e, run.status = "approved",
             Review, job' = [job EXCEPT ![e] = Settled(@, "done")]
                     \/ job' = [job EXCEPT ![e] = Settled(@, "dead")]
      PROVE  /\ run'.recordOnly = run.recordOnly /\ run'.epoch = run.epoch
             /\ run'.status = "needs_operator" /\ ~Active' /\ ~Open(job'[run'.epoch])
  <2>1. Settled(job[e], "done").state = "done" /\ Settled(job[e], "dead").state = "dead"
    BY <1>0, SettledRow, DeliveryAssumption DEF JobState
  <2> QED
    BY <1>0, <1>7, <2>1 DEF Review, Active, Open
<1>8. ASSUME NEW t \in Thread, SettleSent(t)
      PROVE  /\ run'.recordOnly = run.recordOnly /\ run'.epoch = run.epoch
             /\ run.status = "approved" /\ run'.status = "reconciled"
             /\ slot'[run'.epoch].state = "sent"
  BY <1>0, <1>8 DEF SettleSent, Wanted, SlotRow
<1>9. ASSUME NEW t \in Thread, Settle(t)
      PROVE  \/ run' = run \/ SettleSent(t)
             \/ run.epoch \in Epoch /\ run.status = "approved" /\ Review
                /\ job' = [job EXCEPT ![run.epoch] = Settled(@, "done")]
  BY <1>0, <1>9 DEF Settle, SettleLost, SettleInvalid, SettleRetry, SettleReview, Finished, Wanted
<1>10. ASSUME NEW e \in Epoch, Reap(e)
       PROVE  \/ run' = run
              \/ run.epoch \in Epoch /\ run.status = "approved" /\ Review
                 /\ job' = [job EXCEPT ![run.epoch] = Settled(@, "dead")]
  BY <1>0, <1>10 DEF Reap, Finished, Wanted
<1>11. CASE MarkDelivered
  BY <1>0, <1>11 DEF MarkDelivered, UnderReview
<1>12. CASE AuthorizeNewConfirmation
  <2>1. /\ run' = [run EXCEPT !.status = "approved", !.epoch = run.epoch + 1]
        /\ run.epoch + 1 \in Epoch /\ ~Active' /\ run.status = "needs_operator"
    BY <1>0, <1>12, Epochs DEF AuthorizeNewConfirmation, Active, UnderReview
  <2> QED
    BY <1>0, <2>1
<1>13. CASE run' = run
  <2>1. run'.epoch = run.epoch
    BY <1>13
  <2> QED
    BY <1>13, <2>1
<1>14. CASE run.status = "approved" /\ Review
            /\ (job' = [job EXCEPT ![run.epoch] = Settled(@, "done")]
                \/ job' = [job EXCEPT ![run.epoch] = Settled(@, "dead")])
  BY <1>0, <1>7, <1>14
<1>15. CASE \E t \in Thread : SettleSent(t)
  BY <1>8, <1>15
<1>16. CASE UNCHANGED vars
  BY <1>13, <1>16 DEF vars
<1> QED
  BY <1>1, <1>2, <1>3, <1>4, <1>5, <1>6, <1>9, <1>10, <1>11, <1>12, <1>13, <1>14, <1>15,
     <1>16, Epochs
  DEF Next, Operator, Clock, WorkerStep

\* A slot is reserved when its epoch is approved, and sent by a settlement.
LEMMA SlotSteps ==
    ASSUME Tables, Memory, Future, [Next]_vars, NEW e \in Epoch
    PROVE  \/ slot'[e] = slot[e]
           \/ /\ slot[e].state = "none" /\ e = run'.epoch /\ run'.status = "approved"
              /\ slot'[e] = Reserved
           \/ slot[e].state = "reserved" /\ slot'[e].state = "reserved"
           \/ \E t \in Thread : /\ pc[t] = "settling" /\ SettleSent(t) /\ lease[t].epoch = e
                                /\ slot[e].state = "reserved"
<1> USE DEF operator, bounds, worker
<1>0. /\ run \in [status : Status, review : BOOLEAN, epoch : Epoch, recordOnly : BOOLEAN]
      /\ run.epoch \in Epoch /\ slot \in [Epoch -> SlotRow]
  BY DEF Tables, RunRow
<1>1. CASE Approve
  BY <1>0, <1>1 DEF Approve
<1>2. CASE ApproveRollsBack \/ Reject \/ RetryNow \/ PipelineFinishes \/ RecordRunError
           \/ Retrigger \/ HandoffExpires \/ MarkDelivered \/ UNCHANGED vars
  BY <1>2 DEF ApproveRollsBack, Reject, RetryNow, PipelineFinishes, RecordRunError, Retrigger,
     HandoffExpires, MarkDelivered, vars
<1>3. ASSUME NEW t \in Thread,
             (\E d \in Epoch : Claim(t, d)) \/ Authorize(t) \/ Send(t) \/ HandlerRaises(t) \/ Crash(t)
      PROVE  slot' = slot
  BY <1>3 DEF Claim, Authorize, Send, HandlerRaises, Crash
<1>4. ASSUME NEW d \in Epoch, ReleaseLease(d) \/ LeaseExpires(d) \/ BackoffElapses(d) \/ Reap(d)
      PROVE  slot' = slot
  BY <1>4 DEF ReleaseLease, LeaseExpires, BackoffElapses, Reap
<1>5. ASSUME NEW d \in Epoch, WindowCloses(d)
      PROVE  slot'[e] = slot[e] \/ (slot[e].state = "reserved" /\ slot'[e].state = "reserved")
  BY <1>0, <1>5 DEF WindowCloses, SlotRow
<1>6. ASSUME NEW t \in Thread, Settle(t)
      PROVE  \/ slot'[e] = slot[e]
             \/ /\ pc[t] = "settling" /\ SettleSent(t) /\ lease[t].epoch = e
                /\ slot[e].state = "reserved"
  <2>1. CASE SettleSent(t)
    BY <1>0, <1>6, <2>1, Leases DEF Settle, SettleSent, Wanted
  <2>2. CASE ~SettleSent(t)
    BY <1>6, <2>2 DEF Settle, SettleLost, SettleInvalid, SettleRetry, SettleReview
  <2> QED
    BY <2>1, <2>2
<1>7. CASE AuthorizeNewConfirmation
  <2>1. /\ run' = [run EXCEPT !.status = "approved", !.epoch = run.epoch + 1]
        /\ slot' = [slot EXCEPT ![run'.epoch] = Reserved] /\ run.epoch + 1 \in Epoch
    BY <1>0, <1>7, Epochs DEF AuthorizeNewConfirmation
  <2>2. run'.epoch = run.epoch + 1 /\ run'.status = "approved" /\ run.epoch \in Nat
    BY <1>0, <2>1, Epochs
  <2>3. slot[run'.epoch].state = "none"
    BY <2>1, <2>2 DEF Future, NoSlot
  <2> QED
    BY <1>0, <2>1, <2>2, <2>3
<1> QED
  BY <1>1, <1>2, <1>3, <1>4, <1>5, <1>6, <1>7 DEF Next, Operator, Clock, WorkerStep

\* After a step a row that waits for its time is the row that waited.
SameWait(r, s) == s.state = "pending" /\ ~s.due => s = r

LEMMA WaitRows ==
    ASSUME NEW r \in Row(MaxAttempts)
    PROVE  /\ SameWait(r, r) /\ SameWait(r, Enqueued(r, TRUE))
           /\ SameWait(r, Settled(r, "done")) /\ SameWait(r, Settled(r, "dead"))
           /\ SameWait(r, BackoffElapsed(r)) /\ SameWait(r, Released(r))
           /\ r.state = "leased" => SameWait(r, LeaseRanOut(r))
           /\ \A n \in Nat : SameWait(r, Claimed(r, n))
           /\ Retried(r).attempts = r.attempts
           /\ Open(r) \/ Enqueued(r, TRUE) = r \/ r.state = "absent"
<1>1. "pending" \in JobState /\ "done" \in JobState /\ "dead" \in JobState
      /\ MaxAttempts \in Nat
  BY DeliveryAssumption DEF JobState
<1>2. /\ Settled(r, "done").state = "done" /\ Settled(r, "dead").state = "dead"
      /\ Settled(r, "pending") \in Row(MaxAttempts)
  BY <1>1, SettledRow
<1>3. SameWait(r, Settled(r, "done")) /\ SameWait(r, Settled(r, "dead")) /\ SameWait(r, r)
  BY <1>2 DEF SameWait
<1>4. /\ SameWait(r, Enqueued(r, TRUE)) /\ SameWait(r, BackoffElapsed(r))
      /\ Open(r) \/ Enqueued(r, TRUE) = r \/ r.state = "absent"
      /\ r.state = "leased" => SameWait(r, LeaseRanOut(r))
  BY DEF SameWait, Enqueued, BackoffElapsed, LeaseRanOut, Row
<1>5. \A n \in Nat : SameWait(r, Claimed(r, n))
  BY DEF SameWait, Claimed, Row
<1>6. SameWait(r, Released(r))
  BY <1>2 DEF SameWait, Released, Row
<1>7. Retried(r).attempts = r.attempts
  <2>1. Settled(r, "pending").attempts = r.attempts
    BY DEF Settled, Row
  <2> QED
    BY <1>2, <2>1 DEF Retried, Row
<1> QED
  BY <1>3, <1>4, <1>5, <1>6, <1>7

\* A job is opened only with its epoch, and only a replay waits for its time.
LEMMA JobSteps ==
    ASSUME Tables, Memory, [Next]_vars, NEW e \in Epoch
    PROVE  /\ ~Open(job[e]) => job'[e] = job[e] \/ (e = run'.epoch /\ run'.status = "approved")
           /\ SameWait(job[e], job'[e]) \/ job'[e].attempts < Slots
<1> USE DEF operator, bounds, worker
<1>0. /\ run \in [status : Status, review : BOOLEAN, epoch : Epoch, recordOnly : BOOLEAN]
      /\ run.epoch \in Epoch /\ job \in [Epoch -> Row(MaxAttempts)]
  BY DEF Tables, RunRow
<1>10. LET r == job[e] IN
        /\ SameWait(r, r) /\ SameWait(r, Enqueued(r, TRUE))
        /\ SameWait(r, Settled(r, "done")) /\ SameWait(r, Settled(r, "dead"))
        /\ SameWait(r, BackoffElapsed(r)) /\ SameWait(r, Released(r))
        /\ r.state = "leased" => SameWait(r, LeaseRanOut(r))
        /\ \A n \in Nat : SameWait(r, Claimed(r, n))
        /\ Retried(r).attempts = r.attempts
        /\ Open(r) \/ Enqueued(r, TRUE) = r \/ r.state = "absent"
  BY <1>0, WaitRows
<1> DEFINE Goal == /\ ~Open(job[e]) => job'[e] = job[e]
                   /\ SameWait(job[e], job'[e]) \/ job'[e].attempts < Slots
<1>1. CASE job'[e] = job[e]
  BY <1>1, <1>10
<1>2. CASE Approve
  <2>1. job' = job \/ (job' = [job EXCEPT ![run.epoch] = Enqueued(@, TRUE)]
                       /\ run'.epoch = run.epoch /\ run'.status = "approved")
    BY <1>0, <1>2 DEF Approve
  <2>2. CASE e = run.epoch
    <3>1. job'[e] = job[e] \/ job'[e] = Enqueued(job[e], TRUE)
      BY <1>0, <2>1, <2>2
    <3> QED
      BY <1>1, <1>10, <2>1, <2>2, <3>1
  <2>3. CASE e # run.epoch
    BY <1>0, <1>1, <2>1, <2>3
  <2> QED
    BY <2>2, <2>3
<1>3. CASE RetryNow
  <2>1. job' = job \/ (job' = [job EXCEPT ![run.epoch] = BackoffElapsed(@)]
                       /\ Open(job[run.epoch]))
    BY <1>0, <1>3 DEF RetryNow, Open
  <2>2. CASE e = run.epoch
    <3>1. job'[e] = job[e] \/ (job'[e] = BackoffElapsed(job[e]) /\ Open(job[e]))
      BY <1>0, <2>1, <2>2
    <3> QED
      BY <1>1, <1>10, <3>1
  <2>3. CASE e # run.epoch
    BY <1>0, <1>1, <2>1, <2>3
  <2> QED
    BY <2>2, <2>3
<1>4. CASE ApproveRollsBack \/ Reject \/ PipelineFinishes \/ RecordRunError
           \/ Retrigger \/ HandoffExpires \/ MarkDelivered \/ UNCHANGED vars
  BY <1>1, <1>4 DEF ApproveRollsBack, Reject, PipelineFinishes, RecordRunError, Retrigger,
     HandoffExpires, MarkDelivered, vars
<1>5. ASSUME NEW t \in Thread, Authorize(t) \/ Send(t) \/ HandlerRaises(t) \/ Crash(t)
      PROVE  job' = job
  BY <1>5 DEF Authorize, Send, HandlerRaises, Crash
<1>6. ASSUME NEW t \in Thread, NEW d \in Epoch, Claim(t, d) PROVE Goal
  <2>1. /\ minted' \in Nat /\ job' = [job EXCEPT ![d] = Claimed(@, minted')] /\ Open(job[d])
    BY <1>6 DEF Claim, Claimable, Open, Tables
  <2> QED
    BY <1>0, <1>1, <1>10, <2>1
<1>7. ASSUME NEW d \in Epoch, ReleaseLease(d) \/ LeaseExpires(d) \/ BackoffElapses(d)
             \/ WindowCloses(d) \/ Reap(d)
      PROVE  Goal
  <2>1. \/ job' = job
        \/ Open(job[d]) /\ \/ job' = [job EXCEPT ![d] = Released(@)]
                           \/ job' = [job EXCEPT ![d] = LeaseRanOut(@)] /\ job[d].state = "leased"
                           \/ job' = [job EXCEPT ![d] = BackoffElapsed(@)]
                           \/ job' = [job EXCEPT ![d] = Settled(@, "dead")]
    BY <1>7 DEF ReleaseLease, LeaseExpires, BackoffElapses, WindowCloses, Reap, Finished,
       ExpiredFinal, Open
  <2>2. CASE d = e
    <3>1. \/ job'[e] = job[e]
          \/ Open(job[e]) /\ \/ job'[e] = Released(job[e]) \/ job'[e] = BackoffElapsed(job[e])
                             \/ job'[e] = Settled(job[e], "dead")
                             \/ job'[e] = LeaseRanOut(job[e]) /\ job[e].state = "leased"
      BY <1>0, <2>1, <2>2
    <3> QED
      BY <1>1, <1>10, <3>1
  <2>3. CASE d # e
    BY <1>0, <1>1, <2>1, <2>3
  <2> QED
    BY <2>2, <2>3
<1>8. ASSUME NEW t \in Thread, Settle(t) PROVE Goal
  <2> DEFINE d == lease[t].epoch
  <2>1. \/ job' = job
        \/ /\ Open(job[d])
           /\ \/ job' = [job EXCEPT ![d] = Settled(@, "done")]
              \/ job' = [job EXCEPT ![d] = Retried(@)] /\ job[d].attempts < Slots
    BY <1>8 DEF Settle, SettleLost, SettleInvalid, SettleSent, SettleRetry, SettleReview,
       Finished, Mine, Holds, Open, Replayable
  <2>2. d \in Epoch
    BY Leases
  <2>3. CASE d = e
    <3>1. \/ job'[e] = job[e]
          \/ Open(job[e]) /\ \/ job'[e] = Settled(job[e], "done")
                             \/ job'[e] = Retried(job[e]) /\ job[e].attempts < Slots
      BY <1>0, <2>1, <2>2, <2>3
    <3> QED
      BY <1>1, <1>10, <3>1
  <2>4. CASE d # e
    BY <1>0, <1>1, <2>1, <2>2, <2>4
  <2> QED
    BY <2>3, <2>4
<1>9. CASE AuthorizeNewConfirmation
  <2>1. /\ run' = [run EXCEPT !.status = "approved", !.epoch = run.epoch + 1]
        /\ job' = [job EXCEPT ![run'.epoch] = Enqueued(@, TRUE)]
    BY <1>9 DEF AuthorizeNewConfirmation
  <2>2. run'.status = "approved"
    BY <1>0, <2>1
  <2>3. CASE e = run'.epoch
    <3>1. job'[e] = Enqueued(job[e], TRUE)
      BY <1>0, <2>1, <2>3
    <3> QED
      BY <1>10, <2>2, <2>3, <3>1
  <2>4. CASE e # run'.epoch
    BY <1>0, <1>1, <2>1, <2>4
  <2> QED
    BY <2>3, <2>4
<1> QED
  BY <1>1, <1>2, <1>3, <1>4, <1>5, <1>6, <1>7, <1>8, <1>9 DEF Next, Operator, Clock, WorkerStep

\* A thread that is not idle after a step has not moved, or made the step.
LEMMA PhaseSteps ==
    ASSUME Memory, [Next]_vars, NEW t \in Thread
    PROVE  \/ pc'[t] = "idle"
           \/ pc'[t] = pc[t] /\ lease'[t] = lease[t] /\ result'[t] = result[t]
           \/ (\E e \in Epoch : Claim(t, e)) \/ Authorize(t) \/ Send(t) \/ HandlerRaises(t)
<1> USE DEF operator, bounds, worker
<1>1. CASE Operator \/ RecordRunError \/ PipelineFinishes \/ UNCHANGED vars
  BY <1>1 DEF Operator, Approve, ApproveRollsBack, Reject, Retrigger, RetryNow, MarkDelivered,
     AuthorizeNewConfirmation, RecordRunError, PipelineFinishes, vars
<1>2. ASSUME NEW u \in Thread, WorkerStep(u) \/ HandlerRaises(u) \/ Crash(u)
      PROVE  \/ pc'[t] = "idle"
             \/ pc'[t] = pc[t] /\ lease'[t] = lease[t] /\ result'[t] = result[t]
             \/ (\E e \in Epoch : Claim(t, e)) \/ Authorize(t) \/ Send(t) \/ HandlerRaises(t)
  BY <1>2 DEF WorkerStep, Claim, Authorize, Send, HandlerRaises, Crash, Settle, Leave, Memory
<1>3. ASSUME NEW e \in Epoch, Reap(e) \/ ReleaseLease(e) PROVE UNCHANGED worker
  BY <1>3 DEF Reap, ReleaseLease
<1>4. CASE Clock
  BY <1>4 DEF Clock, LeaseExpires, BackoffElapses, WindowCloses, HandoffExpires
<1> QED
  BY <1>1, <1>2, <1>3, <1>4 DEF Next
\* Whoever owns the handoff of an undecided run is interrupted by its own
\* settlement, or by the reaper of its row.
LEMMA CoverEnds ==
    ASSUME Tables, Memory, Tokens, Recording, [Next]_vars, Active, run.status \in {"approved", "error"}
    PROVE  \/ Active' /\ run'.status \in {"approved", "error"}
           \/ \E t \in Thread : pc[t] = "settling" /\ Mine(t) /\ Owns(t)
           \/ \E e \in Epoch : /\ job[e].state = "leased" /\ handoff.token = job[e].token
                               /\ job'[e].state = "dead"
<1> USE DEF operator, bounds, worker
<1>0. /\ run \in [status : Status, review : BOOLEAN, epoch : Epoch, recordOnly : BOOLEAN]
      /\ handoff \in [epoch : Epoch, token : Nat, expired : BOOLEAN]
      /\ job \in [Epoch -> Row(MaxAttempts)]
  BY DEF Tables, RunRow, Handoff
<1>1. CASE Approve \/ ApproveRollsBack \/ Reject \/ PipelineFinishes \/ RecordRunError
           \/ Retrigger \/ RetryNow \/ MarkDelivered \/ AuthorizeNewConfirmation
  BY <1>0, <1>1 DEF Approve, ApproveRollsBack, Reject, PipelineFinishes, RecordRunError,
     Retrigger, NextEpoch, RetryNow, MarkDelivered, AuthorizeNewConfirmation, UnderReview, Active
<1>2. ASSUME NEW t \in Thread,
             (\E e \in Epoch : Claim(t, e)) \/ Send(t) \/ HandlerRaises(t) \/ Crash(t)
      PROVE  Active' /\ run' = run
  BY <1>2 DEF Claim, Send, HandlerRaises, Crash, Active
<1>3. ASSUME NEW e \in Epoch, ReleaseLease(e) \/ BackoffElapses(e) \/ WindowCloses(e)
      PROVE  Active' /\ run' = run
  BY <1>3 DEF ReleaseLease, BackoffElapses, WindowCloses, Active
<1>4. ASSUME NEW e \in Epoch, LeaseExpires(e) \/ HandoffExpires
      PROVE  Active' /\ run' = run
  BY <1>0, <1>4 DEF LeaseExpires, HandoffExpires, Active, NoHandoff
<1>5. ASSUME NEW t \in Thread, Authorize(t) PROVE run' = run /\ (handoff' = handoff \/ Granted(t))
  BY <1>5 DEF Authorize, Granted
<1>6. ASSUME NEW t \in Thread, Granted(t) PROVE Active'
  <2>1. handoff'.token = lease[t].token /\ pc[t] # "idle"
    BY <1>6 DEF Granted, Authorize
  <2>2. lease[t].token \in 1..minted
    BY <2>1 DEF Tokens
  <2> QED
    BY <2>1, <2>2 DEF Active, NoHandoff, NoToken, Tables
<1>7. ASSUME NEW t \in Thread, Settle(t)
      PROVE  (run' = run /\ handoff' = handoff) \/ (pc[t] = "settling" /\ Mine(t) /\ Owns(t))
  <2>1. pc[t] = "settling"
    BY <1>7 DEF Settle
  <2>2. ~(SettleSent(t) /\ result[t] = "recorded")
    BY <2>1 DEF Recording, SettleSent, Wanted
  <2> QED
    BY <1>7, <2>1, <2>2 DEF Settle, SettleLost, SettleInvalid, SettleSent, SettleRetry,
       SettleReview, ExpiredBeforeHandoff
<1>8. ASSUME NEW e \in Epoch, Reap(e)
      PROVE  \/ run' = run /\ handoff' = handoff
             \/ /\ job[e].state = "leased" /\ handoff.token = job[e].token
                /\ job'[e].state = "dead"
  <2>1. Settled(job[e], "dead").state = "dead"
    BY <1>0, SettledRow, DeliveryAssumption DEF JobState
  <2> QED
    BY <1>0, <1>8, <2>1 DEF Reap, ExpiredFinal, Finished
<1>9. CASE UNCHANGED vars
  BY <1>9 DEF vars, Active
<1>10. CASE run' = run /\ handoff' = handoff
  BY <1>10 DEF Active
<1>11. CASE run' = run /\ Active'
  BY <1>11
<1>12. 0 \in Epoch
  BY Epochs
<1> QED
  BY <1>1, <1>2, <1>3, <1>4, <1>5, <1>6, <1>7, <1>8, <1>9, <1>10, <1>11, <1>12
  DEF Next, Operator, Clock, WorkerStep

-------------------------------------------------------------------------------
(* The invariant *)

LEMMA InitInv == Init => Inv
<1> SUFFICES ASSUME Init PROVE Inv
  OBVIOUS
<1>1. TypeOK /\ Tokens
  BY InitTypes, InitTokens
<1>2. Future /\ Recording /\ Answers /\ HandoffIsCurrent /\ SenderIsCovered
  BY DEF Init, Future, Recording, Answers, HandoffIsCurrent, SenderIsCovered, Active
<1>3. DeliveredMeansArrived /\ ReviewIsQuiet
  BY DEF Init, DeliveredMeansArrived, ReviewIsQuiet, UnderReview, NoSlot
<1>4. ReplayCanBeClaimed
  BY DEF Init, ReplayCanBeClaimed, AbsentRow
<1> QED
  BY <1>1, <1>2, <1>3, <1>4 DEF Inv

\* A later step forgets neither a delivery nor the operator's word.
LEMMA NothingIsForgotten ==
    ASSUME [Next]_vars
    PROVE  /\ arrived \subseteq arrived' /\ vouched \subseteq vouched'
           /\ arrived' = arrived \/ \E t \in Thread : pc[t] = "sending"
<1> USE DEF operator, bounds, worker
<1>1. ASSUME NEW t \in Thread, Send(t)
      PROVE  arrived \subseteq arrived' /\ vouched' = vouched /\ pc[t] = "sending"
  BY <1>1 DEF Send
<1>2. ASSUME NEW t \in Thread,
             (\E e \in Epoch : Claim(t, e)) \/ Authorize(t) \/ Settle(t) \/ HandlerRaises(t) \/ Crash(t)
      PROVE  arrived' = arrived /\ vouched' = vouched
  BY <1>2 DEF Claim, Authorize, Settle, HandlerRaises, Crash
<1>3. ASSUME NEW e \in Epoch, Reap(e) \/ ReleaseLease(e)
      PROVE  arrived' = arrived /\ vouched' = vouched
  BY <1>3 DEF Reap, ReleaseLease
<1>4. CASE Clock \/ RecordRunError \/ PipelineFinishes \/ UNCHANGED vars
  BY <1>4 DEF Clock, LeaseExpires, BackoffElapses, WindowCloses, HandoffExpires, RecordRunError,
     PipelineFinishes, vars
<1>5. CASE Operator
  BY <1>5 DEF Operator, Approve, ApproveRollsBack, Reject, Retrigger, RetryNow, MarkDelivered,
     AuthorizeNewConfirmation
<1> QED
  BY <1>1, <1>2, <1>3, <1>4, <1>5 DEF Next, WorkerStep

LEMMA NextFuture ==
    ASSUME Tables, Memory, Future, [Next]_vars PROVE Future'
<1> SUFFICES ASSUME NEW e \in Epoch, e > run'.epoch PROVE slot'[e] = NoSlot /\ job'[e] = AbsentRow
  BY DEF Future
<1>1. run.epoch \in Epoch /\ (run'.epoch = run.epoch \/ run'.epoch = run.epoch + 1)
  BY RunSteps, RunRows DEF Tables
<1>2. e > run.epoch /\ e # run'.epoch
  <2>1. e \in Nat /\ run.epoch \in Nat
    BY <1>1, Epochs
  <2> QED
    BY <1>1, <2>1
<1>3. slot[e] = NoSlot /\ job[e] = AbsentRow
  BY <1>2 DEF Future
<1>4. slot[e].state = "none" /\ ~Open(job[e])
  BY <1>3 DEF NoSlot, AbsentRow, Open
<1> QED
  BY <1>2, <1>3, <1>4, SlotSteps, JobSteps

LEMMA NextRecording ==
    ASSUME Tables, Memory, Recording, [Next]_vars PROVE Recording'
<1>1. run'.recordOnly = run.recordOnly
  BY RunSteps
<1>2. ASSUME NEW t \in Thread, Authorize(t)
      PROVE  /\ pc'[t] = "sending" => ~run.recordOnly
             /\ pc'[t] = "settling" /\ result'[t] = "recorded" => run.recordOnly
  BY <1>2 DEF Authorize, Authority, Memory
<1>3. run'.recordOnly => ~Active'
  <2>1. ASSUME NEW t \in Thread, Granted(t) PROVE ~run.recordOnly
    BY <2>1 DEF Granted, Authority
  <2> QED
    BY <1>1, <2>1, HandoffSteps DEF Recording, Active
<1>4. ASSUME NEW t \in Thread
      PROVE  /\ pc'[t] = "sending" => ~run'.recordOnly
             /\ pc'[t] = "settling" /\ result'[t] = "recorded" => run'.recordOnly
  <2>1. ASSUME NEW e \in Epoch, Claim(t, e) PROVE pc'[t] = "claimed"
    BY <2>1 DEF Claim, Memory
  <2>2. CASE Send(t) \/ HandlerRaises(t)
    BY <2>2 DEF Send, HandlerRaises, Memory, Recording
  <2> QED
    BY <1>1, <1>2, <2>1, <2>2, PhaseSteps DEF Recording
<1> QED
  BY <1>3, <1>4 DEF Recording

LEMMA NextAnswers ==
    ASSUME Tables, Memory, Tokens, Answers, [Next]_vars PROVE Answers'
<1> SUFFICES ASSUME NEW t \in Thread
             PROVE  /\ pc'[t] = "claimed" \/ (pc'[t] = "settling" /\ result'[t] = "noop")
                         => handoff'.token # lease'[t].token
                    /\ pc'[t] = "settling" /\ result'[t] = "ok" => lease'[t].epoch \in arrived'
  BY DEF Answers
<1>1. CASE pc'[t] = pc[t] /\ lease'[t] = lease[t] /\ result'[t] = result[t]
  <2>1. arrived \subseteq arrived'
    BY NothingIsForgotten
  <2>2. ASSUME pc[t] = "claimed" \/ (pc[t] = "settling" /\ result[t] = "noop")
        PROVE  handoff'.token # lease[t].token
    <3>1. lease[t].token \in 1..minted /\ handoff.token # lease[t].token
      BY <2>2 DEF Tokens, Answers
    <3>2. CASE handoff' = NoHandoff
      BY <3>1, <3>2 DEF NoHandoff, NoToken, Tables
    <3>3. ASSUME NEW u \in Thread, Granted(u) PROVE handoff'.token # lease[t].token
      <4>1. handoff'.token = lease[u].token /\ pc[u] = "claimed" /\ pc'[u] = "sending"
        BY <3>3 DEF Granted, Authorize, Memory
      <4>2. u # t
        BY <1>1, <2>2, <4>1
      <4> QED
        BY <2>2, <4>1, <4>2 DEF Tokens
    <3> QED
      BY <3>1, <3>2, <3>3, HandoffSteps
  <2> QED
    BY <1>1, <2>1, <2>2 DEF Answers
<1>2. ASSUME NEW e \in Epoch, Claim(t, e)
      PROVE  pc'[t] = "claimed" /\ handoff'.token # lease'[t].token
  <2>1. lease'[t].token = minted + 1 /\ handoff' = handoff /\ pc'[t] = "claimed"
    BY <1>2 DEF Claim, Memory
  <2> QED
    BY <2>1 DEF Tokens, Tables, Handoff
<1>3. CASE Authorize(t)
  <2>1. pc[t] = "claimed" /\ lease'[t] = lease[t] /\ pc'[t] \in {"sending", "settling"}
        /\ (pc'[t] = "settling" => handoff' = handoff /\ result'[t] = Authority(t))
    BY <1>3 DEF Authorize, Memory
  <2>2. Authority(t) # "ok"
    BY DEF Authority
  <2> QED
    BY <2>1, <2>2 DEF Answers
<1>4. CASE Send(t) \/ HandlerRaises(t)
  BY <1>4 DEF Send, HandlerRaises, Memory
<1> QED
  BY <1>1, <1>2, <1>3, <1>4, PhaseSteps

LEMMA NextHandoff ==
    ASSUME Tables, Memory, Future, Recording, HandoffIsCurrent, [Next]_vars
    PROVE  HandoffIsCurrent'
<1> SUFFICES ASSUME Active' PROVE handoff'.epoch = run'.epoch /\ slot'[handoff'.epoch].state = "reserved"
  BY DEF HandoffIsCurrent
<1>1. ASSUME NEW t \in Thread, Granted(t)
      PROVE  handoff'.epoch = run'.epoch /\ slot'[handoff'.epoch].state = "reserved"
  <2>1. Wanted(lease[t].epoch)
    BY <1>1 DEF Granted, Authority
  <2> QED
    BY <1>1, <2>1 DEF Granted, Authorize, Wanted
<1>2. CASE Active /\ handoff'.epoch = handoff.epoch
  <2>1. run'.epoch = run.epoch /\ handoff.epoch = run.epoch /\ run.epoch \in Epoch
        /\ slot[run.epoch].state = "reserved"
    BY <1>2, RunSteps, RunRows DEF HandoffIsCurrent, Tables
  <2>2. ASSUME NEW t \in Thread, pc[t] = "settling", SettleSent(t) PROVE FALSE
    <3>1. result[t] # "recorded"
      BY <1>2, <2>2 DEF Recording
    <3>2. handoff' = NoHandoff
      BY <2>2, <3>1 DEF SettleSent
    <3> QED
      BY <3>2 DEF Active
  <2>3. slot'[run.epoch] = slot[run.epoch] \/ slot'[run.epoch].state = "reserved"
    BY <2>1, <2>2, SlotSteps
  <2> QED
    BY <1>2, <2>1, <2>3
<1> QED
  BY <1>1, <1>2, HandoffSteps DEF Active

LEMMA NextSender ==
    ASSUME Tables, Memory, Tokens, Recording, SenderIsCovered, [Next]_vars
    PROVE  SenderIsCovered'
<1> SUFFICES ASSUME NEW u \in Thread, pc'[u] = "sending", Mine(u)'
             PROVE  Owns(u)' /\ run'.status \in {"approved", "error"}
  BY DEF SenderIsCovered
<1>1. CASE Authorize(u)
  <2>1. Granted(u)
    BY <1>1 DEF Granted, Authorize, Memory
  <2>2. Wanted(lease[u].epoch)
    BY <2>1 DEF Granted, Authority
  <2> QED
    BY <2>1, <2>2 DEF Granted, Authorize, Owns, Wanted
<1>2. CASE pc'[u] = pc[u] /\ lease'[u] = lease[u]
  <2>1. pc[u] = "sending" /\ lease[u].epoch \in Epoch /\ lease[u].token \in 1..minted
    BY <1>2, Leases DEF Tokens
  <2>2. Mine(u)
    <3>1. ASSUME NEW t \in Thread, NEW e \in Epoch, Claim(t, e) PROVE Mine(u)
      <4>1. job' = [job EXCEPT ![e] = Claimed(@, minted + 1)]
        BY <3>1 DEF Claim
      <4>2. Claimed(job[e], minted + 1).token = minted + 1
        BY DEF Claimed, Tables, Row
      <4>3. lease[u].epoch # e
        BY <1>2, <2>1, <4>1, <4>2 DEF Mine, Holds, Tables
      <4> QED
        BY <1>2, <2>1, <4>1, <4>3 DEF Mine, Holds, Tables
    <3>2. CASE ~Claims
      <4>1. Keeps(job[lease[u].epoch], job'[lease[u].epoch])
        BY <2>1, <3>2, OnlyClaimsLease
      <4> QED
        BY <1>2, <4>1 DEF Mine, Holds, Keeps
    <3> QED
      BY <3>1, <3>2 DEF Claims
  <2>3. Owns(u) /\ run.status \in {"approved", "error"}
    BY <2>1, <2>2 DEF SenderIsCovered
  <2>4. Active
    BY <2>1, <2>3 DEF Owns, Active, NoHandoff, NoToken, Tables
  <2>5. ASSUME NEW t \in Thread, pc[t] = "settling", Owns(t) PROVE FALSE
    BY <2>1, <2>3, <2>5 DEF Owns, Tokens
  <2>6. ASSUME NEW e \in Epoch, job[e].state = "leased", handoff.token = job[e].token,
               job'[e].state = "dead"
        PROVE  FALSE
    <3>1. lease[u].epoch = e
      BY <2>1, <2>2, <2>3, <2>6 DEF Mine, Holds, Owns, Tokens
    <3> QED
      BY <1>2, <2>6, <3>1 DEF Mine, Holds
  <2>7. Active' /\ run'.status \in {"approved", "error"}
    BY <2>3, <2>4, <2>5, <2>6, CoverEnds
  <2>8. ASSUME NEW t \in Thread, Granted(t) PROVE FALSE
    <3>1. Mine(t) /\ MayOwn(t) /\ pc[t] = "claimed"
      BY <2>8 DEF Granted, Authority, Authorize
    <3>2. lease[t].token # lease[u].token
      BY <2>1, <3>1 DEF Tokens
    <3>3. handoff.epoch = lease[t].epoch /\ handoff.epoch = lease[u].epoch
      BY <2>3, <2>4, <3>1 DEF MayOwn, Owns
    <3> QED
      BY <2>2, <3>1, <3>2, <3>3 DEF Mine, Holds
  <2>9. handoff'.token = handoff.token /\ handoff'.epoch = handoff.epoch
    BY <2>7, <2>8, HandoffSteps DEF Active
  <2> QED
    BY <1>2, <2>3, <2>7, <2>9 DEF Owns
<1>3. ~(\E e \in Epoch : Claim(u, e)) /\ ~Send(u) /\ ~HandlerRaises(u)
  BY DEF Claim, Send, HandlerRaises, Memory
<1> QED
  BY <1>1, <1>2, <1>3, PhaseSteps

LEMMA NextDelivered ==
    ASSUME Tables, Memory, Future, Recording, Answers, DeliveredMeansArrived, [Next]_vars
    PROVE  DeliveredMeansArrived'
<1>1. /\ arrived \subseteq arrived' /\ vouched \subseteq vouched'
      /\ arrived' = arrived \/ \E t \in Thread : pc[t] = "sending"
  BY NothingIsForgotten
<1>2. run'.recordOnly = run.recordOnly
  BY RunSteps
<1>3. run'.recordOnly => arrived' = {}
  BY <1>1, <1>2 DEF Recording, DeliveredMeansArrived
<1>4. ASSUME NEW e \in Epoch, slot'[e].state = "sent"
      PROVE  e \in arrived' \/ run'.recordOnly
  <2>1. CASE slot[e].state = "sent"
    BY <1>1, <1>2, <2>1 DEF DeliveredMeansArrived
  <2>2. ASSUME NEW t \in Thread, pc[t] = "settling", SettleSent(t), lease[t].epoch = e
        PROVE  e \in arrived \/ run.recordOnly
    BY <2>2 DEF SettleSent, Owns, Answers, Recording
  <2>3. ASSUME slot'[e] = Reserved PROVE FALSE
    BY <1>4, <2>3 DEF Reserved
  <2> QED
    BY <1>1, <1>2, <1>4, <2>1, <2>2, <2>3, SlotSteps
<1>5. ASSUME run'.status = "reconciled"
      PROVE  slot'[run'.epoch].state = "sent" \/ run'.epoch \in vouched'
  <2>1. CASE run' = run
    <3>1. slot[run.epoch].state = "sent" => slot'[run.epoch].state = "sent"
      <4>1. run.epoch \in Epoch
        BY RunRows DEF Tables
      <4> QED
        BY <4>1, SlotSteps
    <3> QED
      BY <1>1, <1>5, <2>1, <3>1 DEF DeliveredMeansArrived
  <2> QED
    BY <1>5, <2>1, RunSteps
<1> QED
  BY <1>3, <1>4, <1>5 DEF DeliveredMeansArrived

LEMMA NextReview ==
    ASSUME Tables, Memory, Future, ReviewIsQuiet, [Next]_vars PROVE ReviewIsQuiet'
<1> SUFFICES ASSUME run'.status = "needs_operator", run'.review,
                    slot'[run'.epoch].state = "reserved"
             PROVE  ~Active' /\ ~Open(job'[run'.epoch])
  BY DEF ReviewIsQuiet, UnderReview
<1>1. run.epoch \in Epoch /\ run'.status # "approved"
  BY RunRows DEF Tables
<1>2. CASE run' = run
  <2>1. UnderReview
    <3>1. slot[run.epoch].state = "reserved"
      BY <1>1, <1>2, SlotSteps
    <3> QED
      BY <1>2, <3>1 DEF UnderReview
  <2>2. ~Active /\ ~Open(job[run.epoch])
    BY <2>1 DEF ReviewIsQuiet
  <2>3. ~Open(job'[run.epoch])
    BY <1>1, <1>2, <2>2, JobSteps
  <2>4. ASSUME NEW t \in Thread, Granted(t) PROVE FALSE
    BY <1>2, <2>4 DEF Granted, Authority, Wanted
  <2>5. ~Active'
    BY <2>2, <2>4, HandoffSteps DEF Active
  <2> QED
    BY <1>2, <2>3, <2>5
<1> QED
  BY <1>2, RunSteps

LEMMA NextReplay ==
    ASSUME TypeOK, Tables, Memory, ReplayCanBeClaimed, [Next]_vars PROVE ReplayCanBeClaimed'
<1> SUFFICES ASSUME NEW e \in Epoch, job'[e].state = "pending", ~job'[e].due
             PROVE  job'[e].attempts < MaxAttempts
  BY DEF ReplayCanBeClaimed
<1>1. CASE job'[e] = job[e]
  BY <1>1 DEF ReplayCanBeClaimed
<1>2. CASE job'[e].attempts < Slots
  <2>1. job'[e].attempts \in Nat
    <3>1. TypeOK'
      BY NextTypes, TypeParts
    <3> QED
      BY <3>1 DEF TypeOK, Row
  <2> QED
    BY <1>2, <2>1, DeliveryAssumption
<1> QED
  BY <1>1, <1>2, JobSteps DEF SameWait

LEMMA NextInv == Inv /\ [Next]_vars => Inv'
<1> SUFFICES ASSUME Inv, [Next]_vars PROVE Inv'
  OBVIOUS
<1>1. Tables /\ Memory
  BY TypeParts DEF Inv
<1> QED
  BY <1>1, NextTypes, NextTokens, NextFuture, NextRecording, NextAnswers, NextHandoff,
     NextSender, NextDelivered, NextReview, NextReplay
  DEF Inv

\* A final run is left alone, and so is a sent slot: a new confirmation takes the
\* slot of an epoch that has not begun.
LEMMA FinalStep ==
    ASSUME Inv, [Next]_vars
    PROVE  /\ run.status \in {"reconciled", "rejected"} => run' = run
           /\ \A e \in Epoch : slot[e].state = "sent" => slot'[e] = slot[e]
<1>1. Tables /\ Memory /\ Future
  BY TypeParts DEF Inv
<1> QED
  BY <1>1, RunSteps, SlotSteps

-------------------------------------------------------------------------------
(* The promise: a send job is a job of the queue *)

\* What a single statement does to the state and the attempts of a row.
LEMMA Outcomes ==
    ASSUME NEW r \in Row(MaxAttempts)
    PROVE  /\ Settled(r, "done").state = "done" /\ Settled(r, "done").attempts = r.attempts
           /\ Settled(r, "dead").state = "dead" /\ Settled(r, "dead").attempts = r.attempts
           /\ Retried(r).state = "pending" /\ Retried(r).attempts = r.attempts
           /\ Released(r).state = "pending" /\ Released(r).attempts = r.attempts
<1>1. \A s \in JobState : /\ Settled(r, s) \in Row(MaxAttempts) /\ Settled(r, s).state = s
                          /\ Settled(r, s).attempts = r.attempts
  BY DEF Settled, Row, NoToken
<1>2. /\ Settled(r, "pending") \in Row(MaxAttempts)
      /\ Settled(r, "pending").attempts = r.attempts /\ Settled(r, "pending").state = "pending"
  BY <1>1 DEF JobState
<1>3. /\ Retried(r).state = "pending" /\ Retried(r).attempts = r.attempts
      /\ Released(r).state = "pending" /\ Released(r).attempts = r.attempts
  BY <1>2 DEF Retried, Released, Row
<1> QED
  BY <1>1, <1>3 DEF JobState

\* A row keeps its state, its token and its attempts.
Same(r, s) == s.state = r.state /\ s.token = r.token /\ s.attempts = r.attempts

LEMMA SameRows ==
    ASSUME NEW r \in Row(MaxAttempts)
    PROVE  /\ Same(r, r) /\ Same(r, LeaseRanOut(r)) /\ Same(r, BackoffElapsed(r))
           /\ r.state # "absent" => Same(r, Enqueued(r, TRUE))
           /\ r.state = "absent" => /\ Enqueued(r, TRUE).state = "pending"
                                    /\ Enqueued(r, TRUE).attempts = r.attempts
  BY DEF Same, LeaseRanOut, BackoffElapsed, Enqueued, Row

\* Busy workers keep what they carry; some become idle, at most.
OnlyLeave == \A t \in Thread : pc'[t] # "idle" => pc[t] # "idle" /\ lease'[t] = lease[t]

LEMMA HoldersVanish ==
    ASSUME OnlyLeave, Memory, \A e \in Epoch : Same(job[e], job'[e])
    PROVE  \E W \in SUBSET Thread : Promise!Vanish(W)
<1> DEFINE W == {t \in Thread : pc'[t] = "idle"}
<1>0. \A t \in Thread : lease[t].epoch \in Epoch
  BY Leases
<1>1. \A e \in Epoch : Holders(e)' \subseteq Holders(e) \ W
  BY DEF Same, OnlyLeave, Holders, Mine, Holds
<1>2. ASSUME NEW e \in Epoch, NEW t \in Holders(e) \ W PROVE t \in Holders(e)'
  <2>1. /\ pc'[t] # "idle" /\ lease'[t] = lease[t] /\ lease[t].epoch = e
        /\ Holds(job[e], lease[t].token)
    BY <1>2 DEF OnlyLeave, Holders, Mine
  <2> QED
    BY <1>2, <2>1 DEF Same, Holders, Mine, Holds
<1>3. \A e \in Epoch : Holders(e)' = Holders(e) \ W
  BY <1>1, <1>2
<1>4. \A e \in Epoch : Promised(job[e])' = Promised(job[e]) /\ job'[e].attempts = job[e].attempts
  BY DEF Same, Promised
<1>5. Promise!Vanish(W)
  BY <1>3, <1>4 DEF Promise!Vanish
<1> QED
  BY <1>5

\* A row that is not leased after the step has no holder; the holders of the others are
\* those that do not leave.
LEMMA LeaseEnds ==
    ASSUME Memory, NEW e \in Epoch, job'[e].state # "leased",
           \A d \in Epoch : d # e => job'[d] = job[d],
           OnlyLeave, \A t \in Thread : pc'[t] = "idle" /\ pc[t] # "idle" => lease[t].epoch = e
    PROVE  Holders(e)' = {} /\ \A d \in Epoch : d # e => Holders(d)' = Holders(d)
<1>1. Holders(e)' = {}
  BY DEF Holders, Mine, Holds
<1>2. ASSUME NEW d \in Epoch, d # e PROVE Holders(d)' = Holders(d)
  BY <1>2 DEF Holders, Mine, Holds, OnlyLeave
<1> QED
  BY <1>1, <1>2

\* A step that ends the lease of one row, or enqueues it, and what it is to the promise.
LEMMA RowMoves ==
    ASSUME Tables, Memory, NEW e \in Epoch, job'[e].attempts = job[e].attempts,
           \A d \in Epoch : d # e => job'[d] = job[d],
           OnlyLeave, \A t \in Thread : pc'[t] = "idle" /\ pc[t] # "idle" => lease[t].epoch = e
    PROVE  /\ job[e].state = "absent" /\ job'[e].state = "pending" => Promise!Accept(e)
           /\ job[e].state = "leased" /\ job'[e].state = "pending" => Promise!PutBack({e})
           /\ job[e].state = "leased" /\ job'[e].state = "dead" /\ job[e].attempts = MaxAttempts
                => Promise!GiveUp(e)
           /\ \A t \in Thread :
                /\ job[e].state = "leased" /\ Holders(e) = {t}
                /\ \/ job'[e].state = "done"
                   \/ job[e].attempts < MaxAttempts /\ job'[e].state = "pending"
                => Promise!Conclude(t, e)
<1>1. \A d \in Epoch : job'[d].attempts = job[d].attempts
  OBVIOUS
<1>2. \A d \in Epoch : d # e => Promised(job[d])' = Promised(job[d])
  BY DEF Promised
<1>3. job'[e].state # "leased" =>
        Holders(e)' = {} /\ \A d \in Epoch : d # e => Holders(d)' = Holders(d)
  BY LeaseEnds
<1>4. ASSUME job[e].state = "absent", job'[e].state = "pending" PROVE Promise!Accept(e)
  <2>1. Promised(job[e]) = "absent" /\ Promised(job[e])' = "queued"
    BY <1>4 DEF Promised
  <2>2. Holders(e) = {}
    BY <1>4 DEF Holders, Mine, Holds
  <2>3. \A d \in Epoch : Holders(d)' = Holders(d)
    BY <1>3, <1>4, <2>2
  <2> QED
    BY <1>1, <1>2, <2>1, <2>3 DEF Promise!Accept
<1>5. ASSUME job[e].state = "leased", job'[e].state = "pending" PROVE Promise!PutBack({e})
  <2>1. Promised(job[e]) = "held" /\ Promised(job[e])' = "queued"
    BY <1>5 DEF Promised
  <2> QED
    BY <1>1, <1>2, <1>3, <1>5, <2>1 DEF Promise!PutBack
<1>6. ASSUME job[e].state = "leased", job'[e].state = "dead", job[e].attempts = MaxAttempts
      PROVE  Promise!GiveUp(e)
  <2>1. Promised(job[e]) = "held" /\ Promised(job[e])' = "dead"
    BY <1>6 DEF Promised
  <2>2. /\ [d \in Epoch |-> Promised(job[d])]'
             = [[d \in Epoch |-> Promised(job[d])] EXCEPT ![e] = "dead"]
        /\ [d \in Epoch |-> Holders(d)]' = [[d \in Epoch |-> Holders(d)] EXCEPT ![e] = {}]
        /\ [d \in Epoch |-> job[d].attempts]' = [d \in Epoch |-> job[d].attempts]
    BY <1>1, <1>2, <1>3, <1>6, <2>1
  <2> QED
    BY <1>6, <2>1, <2>2 DEF Promise!GiveUp
<1>7. ASSUME NEW t \in Thread, job[e].state = "leased", Holders(e) = {t},
             \/ job'[e].state = "done"
             \/ job[e].attempts < MaxAttempts /\ job'[e].state = "pending"
      PROVE  Promise!Conclude(t, e)
  <2>1. /\ Promised(job[e]) = "held"
        /\ job'[e].state = "done" => Promised(job[e])' = "done"
        /\ job'[e].state = "pending" => Promised(job[e])' = "queued"
    BY <1>7 DEF Promised
  <2> QED
    BY <1>1, <1>2, <1>3, <1>7, <2>1 DEF Promise!Conclude
<1> QED
  BY <1>4, <1>5, <1>6, <1>7

LEMMA PromiseInit == Init => Promise!Init
<1> SUFFICES ASSUME Init PROVE Promise!Init
  OBVIOUS
<1>1. \A e \in Epoch : Promised(job[e]) = "absent" /\ job[e].attempts = 0 /\ Holders(e) = {}
  BY DEF Init, AbsentRow, Promised, Holders
<1> QED
  BY <1>1 DEF Promise!Init

LEMMA ClaimIsGrant ==
    ASSUME Tables, Memory, Tokens, NEW t \in Thread, NEW e \in Epoch, Claim(t, e)
    PROVE  Promise!Grant(t, e)
<1>1. /\ minted \in Nat /\ minted' = minted + 1
      /\ job' = [job EXCEPT ![e] = Claimed(@, minted')]
      /\ lease' = [lease EXCEPT ![t] = [epoch |-> e, token |-> minted']]
      /\ pc' = [pc EXCEPT ![t] = "claimed"] /\ pc[t] = "idle"
      /\ job[e].state \in {"pending", "leased"} /\ job[e].attempts < MaxAttempts
  BY DEF Claim, Claimable, Tables
<1>2. /\ lease'[t].epoch = e /\ lease'[t].token = minted' /\ pc'[t] = "claimed"
      /\ \A u \in Thread : u # t => lease'[u] = lease[u] /\ pc'[u] = pc[u]
  BY <1>1 DEF Memory
<1>3. /\ job'[e].state = "leased" /\ job'[e].token = minted'
      /\ job'[e].attempts = job[e].attempts + 1
      /\ \A d \in Epoch : d # e => job'[d] = job[d]
  <2>1. job[e] \in Row(MaxAttempts) /\ job \in [Epoch -> Row(MaxAttempts)]
    BY DEF Tables
  <2>2. /\ Claimed(job[e], minted').state = "leased" /\ Claimed(job[e], minted').token = minted'
        /\ Claimed(job[e], minted').attempts = job[e].attempts + 1
    BY <2>1 DEF Claimed, Row
  <2> QED
    BY <1>1, <2>1, <2>2
<1>4. \A u \in Thread : pc[u] # "idle" => lease[u].token # minted'
  BY <1>1 DEF Tokens
<1>5. Holders(e)' = {t}
  BY <1>2, <1>3, <1>4 DEF Holders, Mine, Holds
<1>6. ASSUME NEW d \in Epoch, d # e PROVE Holders(d)' = Holders(d)
  BY <1>1, <1>2, <1>3, <1>6 DEF Holders, Mine, Holds
<1>7. /\ Promised(job[e]) \in {"queued", "held"} /\ Promised(job[e])' = "held"
      /\ \A d \in Epoch : d # e => Promised(job[d])' = Promised(job[d])
  BY <1>1, <1>3 DEF Promised
<1>8. /\ [d \in Epoch |-> Promised(job[d])]'
           = [[d \in Epoch |-> Promised(job[d])] EXCEPT ![e] = "held"]
      /\ [d \in Epoch |-> Holders(d)]' = [[d \in Epoch |-> Holders(d)] EXCEPT ![e] = {t}]
      /\ [d \in Epoch |-> job[d].attempts]' = [[d \in Epoch |-> job[d].attempts] EXCEPT ![e] = @ + 1]
  BY <1>3, <1>5, <1>6, <1>7
<1> QED
  BY <1>1, <1>7, <1>8 DEF Promise!Grant

\* A settlement that passes the fence concludes the try of the one holder; one that does
\* not is a holder gone.
LEMMA SettleConcludes ==
    ASSUME Tables, Memory, Tokens, OnlyLeave, NEW t \in Thread, Settle(t) PROVE Promise!Next
<1>e. PICK e \in Epoch : e = lease[t].epoch
  BY Leases
<1>0. job \in [Epoch -> Row(MaxAttempts)] /\ job[e] \in Row(MaxAttempts)
  BY DEF Tables
<1>1. /\ pc[t] = "settling"
      /\ \A u \in Thread : pc'[u] = "idle" /\ pc[u] # "idle" => lease[u].epoch = e
  BY <1>e DEF Settle, Leave, Memory
<1>2. \/ job' = job
      \/ /\ Mine(t)
         /\ \/ job' = [job EXCEPT ![e] = Settled(@, "done")]
            \/ job[e].attempts < Slots /\ job' = [job EXCEPT ![e] = Retried(@)]
  BY <1>e DEF Settle, SettleLost, SettleInvalid, SettleSent, SettleRetry, SettleReview,
     Finished, Replayable
<1>3. CASE job' = job
  <2>1. \A d \in Epoch : Same(job[d], job'[d])
    BY <1>3 DEF Same
  <2> QED
    BY <2>1, HoldersVanish DEF Promise!Next
<1>4. CASE Mine(t) /\ job' # job
  <2>1. job[e].state = "leased" /\ Holders(e) = {t}
    BY <1>e, <1>1, <1>4 DEF Holders, Mine, Holds, Tokens
  <2>2. job[e].attempts < Slots => job[e].attempts < MaxAttempts
    <3>1. job[e].attempts \in Nat
      BY <1>0 DEF Row
    <3> QED
      BY <3>1, DeliveryAssumption
  <2>3. /\ job'[e].attempts = job[e].attempts
        /\ \A d \in Epoch : d # e => job'[d] = job[d]
        /\ \/ job'[e].state = "done"
           \/ job[e].attempts < MaxAttempts /\ job'[e].state = "pending"
    <3>1. /\ Settled(job[e], "done").state = "done"
          /\ Settled(job[e], "done").attempts = job[e].attempts
          /\ Retried(job[e]).state = "pending" /\ Retried(job[e]).attempts = job[e].attempts
      BY <1>0, Outcomes
    <3> QED
      BY <1>0, <1>2, <1>4, <2>2, <3>1
  <2>4. Promise!Conclude(t, e)
    BY <1>1, <2>1, <2>3, RowMoves
  <2> QED
    BY <2>4 DEF Promise!Next
<1> QED
  BY <1>2, <1>3, <1>4

\* The operator's steps enqueue a job that was not there, or find one that was.
LEMMA EnqueueAccepts ==
    ASSUME Tables, Memory, OnlyLeave, UNCHANGED <<pc, lease>>, NEW e \in Epoch,
           job' = [job EXCEPT ![e] = Enqueued(@, TRUE)]
    PROVE  Promise!Next
<1>0. job \in [Epoch -> Row(MaxAttempts)] /\ job[e] \in Row(MaxAttempts)
  BY DEF Tables
<1>1. job'[e] = Enqueued(job[e], TRUE) /\ \A d \in Epoch : d # e => job'[d] = job[d]
  BY <1>0
<1>2. CASE job[e].state = "absent"
  <2>1. job'[e].state = "pending" /\ job'[e].attempts = job[e].attempts
    BY <1>0, <1>1, <1>2, SameRows
  <2>2. Promise!Accept(e)
    BY <1>1, <1>2, <2>1, RowMoves
  <2> QED
    BY <2>2 DEF Promise!Next
<1>3. CASE job[e].state # "absent"
  <2>1. \A d \in Epoch : Same(job[d], job'[d])
    BY <1>0, <1>1, <1>3, SameRows
  <2> QED
    BY <2>1, HoldersVanish DEF Promise!Next
<1> QED
  BY <1>2, <1>3

LEMMA PromiseStep ==
    Tables /\ Memory /\ Tokens /\ [Next]_vars => [Promise!Next]_(Promise!service)
<1> SUFFICES ASSUME Tables, Memory, Tokens, [Next]_vars PROVE Promise!Next
  OBVIOUS
<1> USE DEF worker
<1>0. /\ run.epoch \in Epoch /\ job \in [Epoch -> Row(MaxAttempts)]
      /\ \A e \in Epoch : job[e] \in Row(MaxAttempts)
  BY RunRows DEF Tables
<1>1. CASE Claims
  BY <1>1, ClaimIsGrant DEF Claims, Promise!Next
<1>2. CASE ~Claims
  <2>0. OnlyLeave
    BY <1>2, OnlyClaimsLease DEF OnlyLeave
  <2>1. ASSUME \A e \in Epoch : Same(job[e], job'[e]) PROVE Promise!Next
    BY <2>0, <2>1, HoldersVanish DEF Promise!Next
  <2>2. ASSUME UNCHANGED job PROVE Promise!Next
    BY <2>1, <2>2 DEF Same
  <2>3. CASE Approve
    <3>1. \/ UNCHANGED job
          \/ job' = [job EXCEPT ![run.epoch] = Enqueued(@, TRUE)] /\ UNCHANGED <<pc, lease>>
      BY <1>0, <2>3 DEF Approve
    <3> QED
      BY <1>0, <2>0, <2>2, <3>1, EnqueueAccepts
  <2>4. CASE AuthorizeNewConfirmation
    <3>1. run'.epoch \in Epoch
      BY <1>0, <2>4, Epochs DEF AuthorizeNewConfirmation, Tables, RunRow
    <3>2. job' = [job EXCEPT ![run'.epoch] = Enqueued(@, TRUE)] /\ UNCHANGED <<pc, lease>>
      BY <2>4 DEF AuthorizeNewConfirmation
    <3> QED
      BY <2>0, <3>1, <3>2, EnqueueAccepts
  <2>5. CASE \/ ApproveRollsBack \/ RecordRunError \/ Reject \/ Retrigger \/ PipelineFinishes
             \/ HandoffExpires \/ MarkDelivered
    BY <2>2, <2>5 DEF ApproveRollsBack, RecordRunError, Reject, Retrigger, PipelineFinishes,
       HandoffExpires, MarkDelivered
  <2>6. CASE RetryNow
    <3>1. \A e \in Epoch : job'[e] = job[e] \/ job'[e] = BackoffElapsed(job[e])
      BY <1>0, <2>6 DEF RetryNow
    <3> QED
      BY <1>0, <2>1, <3>1, SameRows
  <2>7. ASSUME NEW t \in Thread, Authorize(t) \/ Send(t) \/ HandlerRaises(t) \/ Crash(t)
        PROVE  Promise!Next
    BY <2>2, <2>7 DEF Authorize, Send, HandlerRaises, Crash
  <2>8. ASSUME NEW t \in Thread, Settle(t) PROVE Promise!Next
    BY <2>0, <2>8, SettleConcludes
  <2>9. ASSUME NEW e \in Epoch, Reap(e) \/ ReleaseLease(e) PROVE Promise!Next
    <3>0. job[e] \in Row(MaxAttempts) /\ UNCHANGED <<pc, lease>>
      BY <1>0, <2>9 DEF Reap, ReleaseLease
    <3>1. /\ job[e].state = "leased"
          /\ \/ job' = [job EXCEPT ![e] = Settled(@, "dead")] /\ job[e].attempts = MaxAttempts
             \/ job' = [job EXCEPT ![e] = Released(@)]
      BY <2>9 DEF Reap, ReleaseLease, ExpiredFinal, Finished
    <3>2. /\ job'[e].attempts = job[e].attempts
          /\ \A d \in Epoch : d # e => job'[d] = job[d]
          /\ \/ job'[e].state = "dead" /\ job[e].attempts = MaxAttempts
             \/ job'[e].state = "pending"
      BY <1>0, <3>0, <3>1, Outcomes
    <3>3. Promise!GiveUp(e) \/ Promise!PutBack({e})
      BY <2>0, <3>0, <3>1, <3>2, RowMoves
    <3> QED
      BY <3>3 DEF Promise!Next
  <2>10. ASSUME NEW e \in Epoch, LeaseExpires(e) \/ BackoffElapses(e) \/ WindowCloses(e)
         PROVE  Promise!Next
    <3>1. \A d \in Epoch : \/ job'[d] = job[d] \/ job'[d] = LeaseRanOut(job[d])
                           \/ job'[d] = BackoffElapsed(job[d])
      BY <1>0, <2>10 DEF LeaseExpires, BackoffElapses, WindowCloses
    <3> QED
      BY <1>0, <2>1, <3>1, SameRows
  <2>11. CASE UNCHANGED vars
    BY <2>2, <2>11 DEF vars
  <2> QED
    BY <1>2, <2>3, <2>4, <2>5, <2>6, <2>7, <2>8, <2>9, <2>10, <2>11
    DEF Next, Operator, Clock, WorkerStep, Claims
<1> QED
  BY <1>1, <1>2

-------------------------------------------------------------------------------
(* Theorems *)

\* Run, slots, jobs and handoff keep their domains, whatever the operator, the
\* workers, the reaper and the clock do in which order.
THEOREM DeliveryTypes == Spec => []TypeOK
<1>1. Inv => TypeOK
  BY DEF Inv
<1> QED
  BY <1>1, InitInv, NextInv, PTL DEF Spec

\* authorize_outbound_provider_handoff() and clear_reply_context() keep the active
\* handoff in the run's own epoch, on a slot that is still unsent.
THEOREM FenceHolds == Spec => []HandoffIsCurrent
<1>1. Inv => HandoffIsCurrent
  BY DEF Inv
<1> QED
  BY <1>1, InitInv, NextInv, PTL DEF Spec

\* A worker at the provider call whose lease is valid owns the handoff, and the run
\* was not decided behind its back.
THEOREM SenderOwnsHandoff == Spec => []SenderIsCovered
<1>1. Inv => SenderIsCovered
  BY DEF Inv
<1> QED
  BY <1>1, InitInv, NextInv, PTL DEF Spec

\* "sent" and "reconciled" are written only for an email the provider took, or on the
\* operator's word, or for a record-only run.
THEOREM SentWasDelivered == Spec => []DeliveredMeansArrived
<1>1. Inv => DeliveredMeansArrived
  BY DEF Inv
<1> QED
  BY <1>1, InitInv, NextInv, PTL DEF Spec

\* No worker holds anything of the epoch a delivery review is about.
THEOREM ReviewRacesNothing == Spec => []ReviewIsQuiet
<1>1. Inv => ReviewIsQuiet
  BY DEF Inv
<1> QED
  BY <1>1, InitInv, NextInv, PTL DEF Spec

\* A replay that _settle_retryable() schedules is below max_attempts when its time
\* comes, for any number of offsets up to max_attempts.
THEOREM ReplaysAreClaimable == Spec => []ReplayCanBeClaimed
<1>1. Inv => ReplayCanBeClaimed
  BY DEF Inv
<1> QED
  BY <1>1, InitInv, NextInv, PTL DEF Spec

\* A reconciled or rejected run, and a sent slot, are never written again.
THEOREM DeliveredIsFinal == Spec => FinalIsFinal
<1>1. Inv /\ [Next]_vars =>
        [/\ run.status \in {"reconciled", "rejected"} => run' = run
         /\ \A e \in Epoch : slot[e].state = "sent" => slot'[e] = slot[e]]_vars
  BY FinalStep
<1> QED
  BY <1>1, InitInv, NextInv, PTL DEF Spec, FinalIsFinal

\* The send jobs, under approvals, reviews, replays, shutdowns, zombies and crashes,
\* implement the promise of the queue for any number of epochs and threads: one holder
\* at a time, a try per claim, no send given up with tries left.
THEOREM DeliveryKeepsPromise == Spec => KeepsPromise
<1>1. Inv => Tables /\ Memory /\ Tokens
  BY TypeParts DEF Inv
<1> QED
  BY <1>1, InitInv, NextInv, PromiseInit, PromiseStep, PTL DEF Spec, KeepsPromise, Promise!Spec
===============================================================================
