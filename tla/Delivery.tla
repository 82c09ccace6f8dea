------------------------------- MODULE Delivery -------------------------------
(***************************************************************************)
(* The confirmation email of one payroll run: the operator's approval        *)
(* reserves a frozen slot and queues one SEND_OUTBOUND job; a worker obtains  *)
(* the provider handoff, calls the provider and settles; what cannot be told  *)
(* is handed to the operator as a delivery review.                            *)
(*                                                                            *)
(* An epoch (payroll_runs.reply_epoch) has at most one confirmation slot, so  *)
(* slots and their jobs are indexed by epoch.  The provider is idempotent in  *)
(* the slot's Message-ID: `arrived` is the set of epochs whose email it took. *)
(***************************************************************************)
EXTENDS JobRow, FiniteSets

CONSTANTS Thread,       \* worker threads, pump requests included
          MaxEpoch,     \* bound on re-runs and new authorizations
          MaxAttempts,  \* jobs.max_attempts of a SEND_OUTBOUND job
          Slots,        \* how many offsets _DELIVERY_REPLAY_OFFSETS has
          MaxReleases,  \* bound on graceful shutdowns during a send
          MaxFaults     \* bound on exceptions out of the handler

ASSUME DeliveryAssumption ==
    /\ MaxEpoch \in Nat
    /\ MaxAttempts \in Nat \ {0}
    /\ Slots \in 1..MaxAttempts
    /\ MaxReleases \in Nat /\ MaxFaults \in Nat

Epoch == 0..MaxEpoch

VARIABLES run,       \* the payroll_runs row: status, reply_epoch, record_only, and
                     \* whether error_reason is 'DeliveryReview'
          slot,      \* email_messages + outbound_email_snapshots of each epoch
          job,       \* its SEND_OUTBOUND row
          handoff,   \* the active row of outbound_provider_handoffs
          minted,    \* lease tokens handed out
          pc, lease, result,  \* each thread, its Job and its PipelineResult
          arrived,   \* what the provider accepted
          failing,   \* a rolled-back approve() that has yet to record its error
          notice,    \* the notice code of the operator's last retry-now
          vouched,   \* epochs the operator declared delivered
          licences,  \* how many second confirmations the operator ordered as such
          releases, faults

worker == <<pc, lease, result>>
operator == <<failing, notice, vouched, licences>>
bounds == <<releases, faults>>
vars == <<run, slot, job, handoff, minted, worker, arrived, operator, bounds>>

Status == {"received", "awaiting_approval", "approved", "reconciled",
           "needs_operator", "error", "rejected"}

NoHandoff == [epoch |-> 0, token |-> NoToken, expired |-> FALSE]
Active == handoff # NoHandoff

NoSlot == [state |-> "none", open |-> FALSE]
Reserved == [state |-> "reserved", open |-> TRUE]

NoLease == [epoch |-> 0, token |-> NoToken]

Init ==
    /\ run \in [status : {"awaiting_approval"}, review : {FALSE}, epoch : {0},
                recordOnly : BOOLEAN]
    /\ slot = [e \in Epoch |-> NoSlot]
    /\ job = [e \in Epoch |-> AbsentRow]
    /\ handoff = NoHandoff
    /\ minted = 0
    /\ pc = [t \in Thread |-> "idle"]
    /\ lease = [t \in Thread |-> NoLease]
    /\ result = [t \in Thread |-> "none"]
    /\ arrived = {}
    /\ failing = FALSE /\ notice = "none" /\ vouched = {} /\ licences = 0
    /\ releases = 0 /\ faults = 0

-------------------------------------------------------------------------------
(* The operator before the send *)

\* approve() -> deliver(): status, slot and job commit together.
Approve ==
    LET e == run.epoch
        sent == slot[e].state = "sent"
    IN  /\ run.status = "awaiting_approval"
        /\ run' = [run EXCEPT !.status = IF sent THEN "reconciled" ELSE "approved"]
        /\ slot' = [slot EXCEPT ![e] = IF @.state = "none" THEN Reserved ELSE @]
        /\ job' = [job EXCEPT ![e] = IF sent THEN @ ELSE Enqueued(@, TRUE)]
        /\ UNCHANGED <<handoff, minted, worker, arrived, operator, bounds>>

\* deliver() raised: the transaction is gone, the error is recorded in another.
ApproveRollsBack ==
    /\ run.status = "awaiting_approval" /\ faults < MaxFaults
    /\ failing' = TRUE
    /\ faults' = faults + 1
    /\ UNCHANGED <<run, slot, job, handoff, minted, worker, arrived,
                   notice, vouched, licences, releases>>

\* Variant of TerminalStatus: an error may overwrite the end of a delivery.
TerminalButReconciled == {"sent", "rejected", "error"}

TerminalStatus == {"sent", "reconciled", "rejected", "error"}

RecordRunError ==
    /\ failing
    /\ failing' = FALSE
    /\ run' = IF run.status \in TerminalStatus THEN run
              ELSE [run EXCEPT !.status = "error", !.review = FALSE]
    /\ UNCHANGED <<slot, job, handoff, minted, worker, arrived,
                   notice, vouched, licences, bounds>>

Reject ==
    /\ run.status \in {"awaiting_approval", "needs_operator"}
    /\ run' = [run EXCEPT !.status = "rejected"]
    /\ notice' = "none"
    /\ UNCHANGED <<slot, job, handoff, minted, worker, arrived, failing, vouched,
                   licences, bounds>>

\* Variant of NextEpoch: the reply context is cleared whatever the handoff does.
NextEpochUnfenced(status) ==
    /\ run.epoch < MaxEpoch
    /\ run' = [run EXCEPT !.status = status, !.epoch = @ + 1]

\* clear_reply_context(): refused while a handoff is active.
NextEpoch(status) ==
    /\ run.epoch < MaxEpoch
    /\ ~Active
    /\ run' = [run EXCEPT !.status = status, !.epoch = @ + 1]

\* From ERROR, APPROVED or a stale RECEIVED; the re-run starts from the inbound email.
Retrigger ==
    /\ run.status \in {"error", "approved", "received"}
    /\ NextEpoch("received")
    /\ UNCHANGED <<slot, job, handoff, minted, worker, arrived, operator, bounds>>

\* The pipeline's run_pipeline job, which this module sees from outside.
PipelineFinishes ==
    /\ run.status = "received"
    /\ run' \in {[run EXCEPT !.status = s] : s \in {"awaiting_approval", "error"}}
    /\ UNCHANGED <<slot, job, handoff, minted, worker, arrived, operator, bounds>>

-------------------------------------------------------------------------------
(* A worker *)

Mine(t) == Holds(job[lease[t].epoch], lease[t].token)

Claim(t, e) ==
    /\ pc[t] = "idle"
    /\ Claimable(job[e], MaxAttempts)
    /\ minted' = minted + 1
    /\ job' = [job EXCEPT ![e] = Claimed(@, minted')]
    /\ lease' = [lease EXCEPT ![t] = [epoch |-> e, token |-> minted']]
    /\ pc' = [pc EXCEPT ![t] = "claimed"]
    /\ UNCHANGED <<run, slot, handoff, result, arrived, operator, bounds>>

\* The slot and the run still want exactly this email.
Wanted(e) ==
    /\ slot[e].state = "reserved"
    /\ run.epoch = e /\ run.status = "approved"

\* No handoff, or one of a predecessor whose lease has run out: adopt it.
MayOwn(t) ==
    \/ ~Active
    \/ /\ handoff.epoch = lease[t].epoch
       /\ handoff.token = lease[t].token \/ handoff.expired

\* Variant of Authority: the job is found by its id, the lease token is not compared.
AuthorityUnfenced(t) ==
    LET e == lease[t].epoch IN
    IF slot[e].state # "reserved" THEN "noop"
    ELSE IF run.recordOnly THEN "recorded"
    ELSE IF ~Wanted(e) THEN "noop"
    ELSE IF ~slot[e].open THEN "expired"
    ELSE IF MayOwn(t) THEN "granted" ELSE "noop"

\* What authorize_outbound_provider_handoff answers, as the handler reads it.
Authority(t) ==
    LET e == lease[t].epoch IN
    IF ~Mine(t) \/ slot[e].state # "reserved" THEN "noop"
    ELSE IF run.recordOnly THEN "recorded"
    ELSE IF ~Wanted(e) THEN "noop"
    ELSE IF ~slot[e].open THEN "expired"
    ELSE IF MayOwn(t) THEN "granted" ELSE "noop"

Authorize(t) ==
    LET answer == Authority(t) IN
    /\ pc[t] = "claimed"
    /\ IF answer = "granted"
       THEN /\ handoff' = [epoch |-> lease[t].epoch, token |-> lease[t].token,
                           expired |-> job[lease[t].epoch].expired]
            /\ pc' = [pc EXCEPT ![t] = "sending"]
            /\ UNCHANGED result
       ELSE /\ pc' = [pc EXCEPT ![t] = "settling"]
            /\ result' = [result EXCEPT ![t] = answer]
            /\ UNCHANGED handoff
    /\ UNCHANGED <<run, slot, job, minted, lease, arrived, operator, bounds>>

\* The provider call, or its refusal when the deadline is too near.  A timeout, a
\* 5xx or an unclassified answer leaves open whether the email arrived.
Send(t) ==
    LET e == lease[t].epoch IN
    /\ pc[t] = "sending"
    /\ \/ /\ slot[e].open
          /\ \/ arrived' = arrived \cup {e} /\ result' = [result EXCEPT ![t] = "ok"]
             \/ /\ arrived' \in {arrived, arrived \cup {e}}
                /\ \E r \in {"retryable", "terminal"} : result' = [result EXCEPT ![t] = r]
       \/ ~slot[e].open /\ result' = [result EXCEPT ![t] = "expired"] /\ UNCHANGED arrived
    /\ pc' = [pc EXCEPT ![t] = "settling"]
    /\ UNCHANGED <<run, slot, job, handoff, minted, lease, operator, bounds>>

\* The handler raised before the provider was called: drain_once settles with a
\* default (terminal) result.
HandlerRaises(t) ==
    /\ pc[t] \in {"claimed", "sending"} /\ faults < MaxFaults
    /\ faults' = faults + 1
    /\ pc' = [pc EXCEPT ![t] = "settling"]
    /\ result' = [result EXCEPT ![t] = "terminal"]
    /\ UNCHANGED <<run, slot, job, handoff, minted, lease, arrived, operator, releases>>

Leave(t) ==
    /\ pc' = [pc EXCEPT ![t] = "idle"]
    /\ lease' = [lease EXCEPT ![t] = NoLease]
    /\ result' = [result EXCEPT ![t] = "none"]

Finished(e, state) == job' = [job EXCEPT ![e] = Settled(@, state)]

\* Variant of Owns: any active handoff of the epoch will do.
OwnsAny(t) == handoff.epoch = lease[t].epoch /\ Active

\* _lock_current_provider_handoff: the settling lease owns the active handoff.
Owns(t) == handoff.epoch = lease[t].epoch /\ handoff.token = lease[t].token

\* The window closed before any handoff existed.
ExpiredBeforeHandoff(t) ==
    result[t] = "expired" /\ ~slot[lease[t].epoch].open /\ ~Active

\* Variant of Review: the fence is left for someone else to release.
ReviewKeepsHandoff ==
    /\ run' = [run EXCEPT !.status = "needs_operator", !.review = TRUE]
    /\ UNCHANGED handoff

\* _settle_delivery_review: the run goes to the operator, no fence stays behind.
Review ==
    /\ run' = [run EXCEPT !.status = "needs_operator", !.review = TRUE]
    /\ handoff' = NoHandoff

SettleLost(t) ==
    /\ ~Mine(t)
    /\ UNCHANGED <<run, slot, job, handoff>>

SettleInvalid(t) ==
    LET e == lease[t].epoch IN
    /\ Mine(t)
    /\ \/ ~Wanted(e)
       \/ ~Owns(t) /\ result[t] # "recorded" /\ ~ExpiredBeforeHandoff(t)
    /\ Finished(e, "done")
    /\ UNCHANGED <<run, slot, handoff>>

\* Sent, reconciled and done in one transaction.
SettleSent(t) ==
    LET e == lease[t].epoch IN
    /\ Mine(t) /\ Wanted(e)
    /\ \/ result[t] = "recorded" /\ UNCHANGED handoff
       \/ result[t] \in {"ok", "noop"} /\ Owns(t) /\ handoff' = NoHandoff
    /\ slot' = [slot EXCEPT ![e].state = "sent"]
    /\ run' = [run EXCEPT !.status = "reconciled"]
    /\ Finished(e, "done")

\* A next replay slot exists inside the window.
Replayable(t) ==
    LET e == lease[t].epoch IN
    result[t] = "retryable" /\ slot[e].open /\ job[e].attempts < Slots

SettleRetry(t) ==
    LET e == lease[t].epoch IN
    /\ Mine(t) /\ Wanted(e) /\ Owns(t) /\ Replayable(t)
    /\ handoff' = NoHandoff
    /\ job' = [job EXCEPT ![e] = Retried(@)]
    /\ UNCHANGED <<run, slot>>

SettleReview(t) ==
    LET e == lease[t].epoch IN
    /\ Mine(t) /\ Wanted(e)
    /\ \/ ExpiredBeforeHandoff(t)
       \/ Owns(t) /\ result[t] \in {"retryable", "terminal", "expired"} /\ ~Replayable(t)
    /\ Review
    /\ Finished(e, "done")
    /\ UNCHANGED slot

Settle(t) ==
    /\ pc[t] = "settling"
    /\ \/ SettleLost(t) \/ SettleInvalid(t) \/ SettleSent(t)
       \/ SettleRetry(t) \/ SettleReview(t)
    /\ Leave(t)
    /\ UNCHANGED <<minted, arrived, operator, bounds>>

\* An idle drain that found nothing to claim settles one dead final attempt.
Reap(e) ==
    /\ \E t \in Thread : pc[t] = "idle"
    /\ \A d \in Epoch : ~Claimable(job[d], MaxAttempts)
    /\ ExpiredFinal(job[e], MaxAttempts)
    /\ IF Wanted(e) /\ handoff.epoch = e /\ handoff.token = job[e].token
       THEN Review ELSE UNCHANGED <<run, handoff>>
    /\ Finished(e, "dead")
    /\ UNCHANGED <<slot, minted, worker, arrived, operator, bounds>>

-------------------------------------------------------------------------------
(* Time, crashes and shutdowns *)

\* The handoff copied leased_until from its owner's lease: they run out together.
LeaseExpires(e) ==
    /\ job[e].state = "leased" /\ ~job[e].expired
    /\ job' = [job EXCEPT ![e] = LeaseRanOut(@)]
    /\ handoff' = IF Active /\ handoff.token = job[e].token
                  THEN [handoff EXCEPT !.expired = TRUE] ELSE handoff
    /\ UNCHANGED <<run, slot, minted, worker, arrived, operator, bounds>>

\* The lease it was copied from is gone, its own clock goes on.
HandoffExpires ==
    /\ Active /\ ~handoff.expired
    /\ ~Holds(job[handoff.epoch], handoff.token)
    /\ handoff' = [handoff EXCEPT !.expired = TRUE]
    /\ UNCHANGED <<run, slot, job, minted, worker, arrived, operator, bounds>>

BackoffElapses(e) ==
    /\ job[e].state = "pending" /\ ~job[e].due
    /\ job' = [job EXCEPT ![e] = BackoffElapsed(@)]
    /\ UNCHANGED <<run, slot, handoff, minted, worker, arrived, operator, bounds>>

\* Twenty hours after the reservation.
WindowCloses(e) ==
    /\ slot[e].state = "reserved" /\ slot[e].open
    /\ slot' = [slot EXCEPT ![e].open = FALSE]
    /\ UNCHANGED <<run, job, handoff, minted, worker, arrived, operator, bounds>>

Crash(t) ==
    /\ pc[t] # "idle"
    /\ Leave(t)
    /\ UNCHANGED <<run, slot, job, handoff, minted, arrived, operator, bounds>>

\* stop() hands the lease back; its thread may live on as a zombie or crash.
ReleaseLease(e) ==
    /\ job[e].state = "leased" /\ releases < MaxReleases
    /\ job' = [job EXCEPT ![e] = Released(@)]
    /\ releases' = releases + 1
    /\ UNCHANGED <<run, slot, handoff, minted, worker, arrived, operator, faults>>

-------------------------------------------------------------------------------
(* The operator's delivery review *)

\* _load_delivery_review: the review is shown while its reservation stands.
UnderReview ==
    /\ run.status = "needs_operator" /\ run.review
    /\ slot[run.epoch].state = "reserved"

\* advance_existing_send_job_due_now.
RetryNow ==
    LET e == run.epoch
        pending == job[e].state = "pending"
    IN  /\ UnderReview
        /\ notice' = IF ~pending THEN "not_pending"
                     ELSE IF ~slot[e].open THEN "expired" ELSE "none"
        /\ job' = IF pending /\ slot[e].open
                  THEN [job EXCEPT ![e] = BackoffElapsed(@)] ELSE job
        /\ UNCHANGED <<run, slot, handoff, minted, worker, arrived, failing, vouched,
                       licences, bounds>>

\* resolve_outbound_provider_handoff_for_delivery_review.
Resolvable == Active => handoff.epoch = run.epoch

MarkDelivered ==
    /\ UnderReview /\ Resolvable
    /\ run' = [run EXCEPT !.status = "reconciled"]
    /\ handoff' = NoHandoff
    /\ vouched' = vouched \cup {run.epoch}
    /\ notice' = "none"
    /\ UNCHANGED <<slot, job, minted, worker, arrived, failing, licences, bounds>>

\* A second confirmation in a new epoch, cloned from the frozen one.
AuthorizeNewConfirmation ==
    /\ UnderReview /\ Resolvable /\ run.epoch < MaxEpoch
    /\ run' = [run EXCEPT !.status = "approved", !.epoch = @ + 1]
    /\ handoff' = NoHandoff
    /\ slot' = [slot EXCEPT ![run'.epoch] = Reserved]
    /\ job' = [job EXCEPT ![run'.epoch] = Enqueued(@, TRUE)]
    /\ licences' = licences + 1
    /\ notice' = "none"
    /\ UNCHANGED <<minted, worker, arrived, failing, vouched, bounds>>

-------------------------------------------------------------------------------

WorkerStep(t) ==
    (\E e \in Epoch : Claim(t, e)) \/ Authorize(t) \/ Send(t) \/ Settle(t)

Clock ==
    \/ \E e \in Epoch : LeaseExpires(e) \/ BackoffElapses(e) \/ WindowCloses(e)
    \/ HandoffExpires

Operator ==
    \/ Approve \/ ApproveRollsBack \/ Reject \/ Retrigger
    \/ RetryNow \/ MarkDelivered \/ AuthorizeNewConfirmation

Next ==
    \/ Operator \/ RecordRunError \/ PipelineFinishes
    \/ \E t \in Thread : WorkerStep(t) \/ HandlerRaises(t) \/ Crash(t)
    \/ \E e \in Epoch : Reap(e) \/ ReleaseLease(e)
    \/ Clock

Spec == Init /\ [][Next]_vars

-------------------------------------------------------------------------------
(* Properties *)

Result == {"none", "noop", "recorded", "expired", "ok", "retryable", "terminal"}

\* Every variable keeps its type.
TypeOK ==
    /\ run \in [status : Status, review : BOOLEAN, epoch : Epoch, recordOnly : BOOLEAN]
    /\ slot \in [Epoch -> [state : {"none", "reserved", "sent"}, open : BOOLEAN]]
    /\ job \in [Epoch -> Row(MaxAttempts)]
    /\ handoff \in [epoch : Epoch, token : Nat, expired : BOOLEAN]
    /\ minted \in Nat
    /\ pc \in [Thread -> {"idle", "claimed", "sending", "settling"}]
    /\ lease \in [Thread -> [epoch : Epoch, token : Nat]]
    /\ result \in [Thread -> Result]
    /\ arrived \subseteq Epoch /\ vouched \subseteq Epoch
    /\ failing \in BOOLEAN
    /\ notice \in {"none", "not_pending", "expired"}
    /\ licences \in Nat
    /\ releases \in 0..MaxReleases /\ faults \in 0..MaxFaults

\* No epoch begins while a provider call may be under way: an active handoff
\* always belongs to the epoch the run is in, and its slot is still unsent.
HandoffIsCurrent ==
    Active => handoff.epoch = run.epoch /\ slot[handoff.epoch].state = "reserved"

\* A thread about to call the provider under a valid lease is the owner of the
\* active handoff, so there is one of them at a time, and neither a review nor a
\* final status of the run was reached behind its back.
SenderIsCovered ==
    \A t \in Thread :
        pc[t] = "sending" /\ Mine(t)
        => /\ Owns(t)
           /\ run.status \in {"approved", "error"}

\* A confirmation is recorded as sent, and a run as reconciled, only if the
\* provider took the email of that very epoch, whoever settles and however many
\* workers died on the way.  The exceptions are the operator's word and a
\* record-only run, which sends nothing.
DeliveredMeansArrived ==
    /\ run.recordOnly => arrived = {}
    /\ \A e \in Epoch : slot[e].state = "sent" => e \in arrived \/ run.recordOnly
    /\ run.status = "reconciled" =>
         slot[run.epoch].state = "sent" \/ run.epoch \in vouched

\* Whatever the replay ladder schedules can be claimed when its time comes.
ReplayCanBeClaimed ==
    \A e \in Epoch : job[e].state = "pending" /\ ~job[e].due
                     => job[e].attempts < MaxAttempts

\* While the operator decides a delivery review, no worker holds anything of the
\* epoch under review: the decision cannot race a send.
ReviewIsQuiet ==
    UnderReview => ~Active /\ ~Open(job[run.epoch])

\* A reconciled or rejected run is never reopened, a settled slot never unsent.
FinalIsFinal ==
    [][/\ run.status \in {"reconciled", "rejected"} => run' = run
       /\ \A e \in Epoch : slot[e].state = "sent" => slot'[e] = slot[e]]_vars

\* What approve() says of an approved run: while delivery is owed, the queue has it.
OwedDeliveryIsQueued ==
    run.status = "approved" => Open(job[run.epoch])

\* What retrigger() says of itself: the client never gets a second confirmation
\* unless the operator orders a new one as such.
NoUnorderedDuplicate == Cardinality(arrived) <= 1 + licences

\* What runs.py says of a failed delivery: the operator can retrigger the run.
ErrorIsRecoverable ==
    run.status = "error" /\ Active => Open(job[handoff.epoch])

\* What the review's retry says of itself: while the replay window is open, the
\* existing job is reopened.
RetryReopens == UnderReview /\ slot[run.epoch].open => notice # "not_pending"

-------------------------------------------------------------------------------
(* The promise of the queue to the send jobs *)

\* The threads whose settlement would find the fence of e intact.
Holders(e) == {t \in Thread : pc[t] # "idle" /\ lease[t].epoch = e /\ Mine(t)}

Promise == INSTANCE JobPromise WITH
    Job <- Epoch, Worker <- Thread, Limit <- MaxAttempts,
    status <- [e \in Epoch |-> Promised(job[e])],
    holder <- [e \in Epoch |-> Holders(e)],
    tries <- [e \in Epoch |-> job[e].attempts]

\* Whatever the run, its slot and the operator do to a send job, it stays a job of the
\* queue: one holder at a time, who alone concludes it, a try for every claim, and
\* none given up before the last.
KeepsPromise == Promise!Spec
===============================================================================
