------------------------------- MODULE PayrollRun -------------------------------
(***************************************************************************)
(* One payroll run from its inbound email to the operator's approval: the    *)
(* run_pipeline, resume_reply and operator_resume jobs that drive it, the     *)
(* clarification rounds, the client's replies, the operator, and the crashes  *)
(* and reclaims of the workers.                                               *)
(*                                                                            *)
(* The LLM and the pure stages are a choice: each pass through the gate        *)
(* either has everything it needs or asks the client.  The delivery of a      *)
(* question is the send_outbound job seen from here; module Delivery has the  *)
(* detail of one such job.                                                    *)
(***************************************************************************)
EXTENDS JobRow, FiniteSets

CONSTANTS Thread,        \* worker threads
          Reply,         \* emails the client may send in answer
          Resolution,    \* operator_resolution_ids
          Purpose,       \* purposes of a clarification, InitialPurpose among them
          MaxEpoch,      \* bound on retriggers
          MaxRounds,     \* MAX_CLARIFICATION_ROUNDS
          MaxAttempts,   \* jobs.max_attempts
          MaxFaults,     \* bound on crashes and on failures beside a stage of the pipeline
          MaxOverruns,   \* bound on leases that run out under a living worker
          PromptReplies  \* may an answer arrive before its question is settled

InitialPurpose == "clarification"

ASSUME RunAssumption ==
    /\ InitialPurpose \in Purpose
    /\ MaxEpoch \in Nat /\ MaxRounds \in Nat /\ MaxAttempts \in Nat \ {0}
    /\ MaxFaults \in Nat /\ MaxOverruns \in Nat
    /\ PromptReplies \in BOOLEAN

Epoch == 0..MaxEpoch

\* dedup keys, one per row of jobs this module looks at.
Key == ({"run"} \X Epoch) \cup ({"reply"} \X Reply) \cup ({"resolve"} \X Resolution)

\* uq_email_run_purpose: a question is its epoch, purpose and round; the last round is
\* one the cap forbids.
Question == Epoch \X Purpose \X (0..MaxRounds)
NoQuestion == <<0, InitialPurpose, MaxRounds + 1>>

VARIABLES run,        \* the payroll_runs row; `marker`: error_reason says the run is
                      \* under a clarification delivery review
          question,   \* each question's email_messages row and send job
          handoff,    \* the run's active provider handoff
          arrived,    \* questions the provider accepted
          reply,      \* the inbound row of each reply
          authority,  \* the authoritative operator resolution
          job, minted,
          pc, carry, result, draft,  \* each worker: its Job, result, question in hand
          passes,     \* history: times a reply took the run to its next rest
          faults, overruns

business == <<run, question, handoff, arrived>>
inbox == <<reply, passes>>
queue == <<job, minted>>
worker == <<pc, carry, result, draft>>
bounds == <<faults, overruns>>
vars == <<business, inbox, authority, queue, worker, bounds>>

RunStatus == {"received", "extracting", "awaiting_reply", "awaiting_approval", "approved",
              "reconciled", "rejected", "error", "needs_operator"}

NoReply == [state |-> "none", to |-> NoQuestion]
NoLease == [key |-> <<"run", 0>>, token |-> NoToken, attempts |-> 0]
NoDraft == [purpose |-> InitialPurpose, round |-> 0]

Init ==
    /\ run = [status |-> "received", epoch |-> 0, round |-> 0, marker |-> FALSE]
    /\ question = [q \in Question |-> "none"]
    /\ handoff = NoQuestion /\ arrived = {}
    /\ reply = [r \in Reply |-> NoReply]
    /\ passes = [r \in Reply |-> 0]
    /\ authority = {}
    /\ job = [k \in Key |-> IF k = <<"run", 0>> THEN Enqueued(AbsentRow, TRUE) ELSE AbsentRow]
    /\ minted = 0
    /\ pc = [t \in Thread |-> "idle"]
    /\ carry = [t \in Thread |-> NoLease]
    /\ result = [t \in Thread |-> "none"]
    /\ draft = [t \in Thread |-> NoDraft]
    /\ faults = 0 /\ overruns = 0

-------------------------------------------------------------------------------
(* Claim and dispatch *)

Kind(t) == carry[t].key[1]
Again(t) == carry[t].attempts > 1

Goto(t, label) == pc' = [pc EXCEPT ![t] = label]

\* The handler returns a PipelineResult.
Return(t, r) ==
    /\ Goto(t, "settling")
    /\ result' = [result EXCEPT ![t] = r]

SetStatus(s) == run' = [run EXCEPT !.status = s]

\* claim_status(), the compare-and-swap of every contended step.
ClaimStatus(expected, s) == run.status = expected /\ SetStatus(s)

Claim(t, k) ==
    /\ pc[t] = "idle"
    /\ Claimable(job[k], MaxAttempts)
    /\ minted' = minted + 1
    /\ job' = [job EXCEPT ![k] = Claimed(@, minted')]
    /\ carry' = [carry EXCEPT ![t] = [key |-> k, token |-> minted',
                                      attempts |-> job'[k].attempts]]
    /\ Goto(t, "opened")
    /\ UNCHANGED <<business, inbox, authority, result, draft, bounds>>

\* rewind_for_reclaim(): the round goes, the epoch stays.  COMPUTED and SENT are never
\* visible outside the transactions that pass through them.
Rewound ==
    IF run.status = "extracting"
    THEN [run EXCEPT !.status = "received", !.round = 0] ELSE run

\* handle_run_pipeline: a reclaim rewinds first.
OpenRun(t) ==
    /\ pc[t] = "opened" /\ Kind(t) = "run"
    /\ run' = IF Again(t) THEN Rewound ELSE run
    /\ Goto(t, "entering")
    /\ UNCHANGED <<question, handoff, arrived, inbox, authority, queue, carry, result,
                   draft, bounds>>

\* The forward CAS of the handler; a lost one is a finished job.
EnterRun(t) ==
    /\ pc[t] = "entering"
    /\ \/ ClaimStatus("received", "extracting") /\ Goto(t, "loading") /\ UNCHANGED result
       \/ run.status # "received" /\ Return(t, "ok") /\ UNCHANGED run
    /\ UNCHANGED <<question, handoff, arrived, inbox, authority, queue, carry, draft, bounds>>

\* _run(): loads the email and writes EXTRACTING again, unconditionally.
Load(t) ==
    /\ pc[t] = "loading"
    /\ SetStatus("extracting")
    /\ Goto(t, "extracting")
    /\ UNCHANGED <<question, handoff, arrived, inbox, authority, queue, carry, result,
                   draft, bounds>>

\* The status gate of both resume handlers.  The status is read, then claimed: a first
\* attempt claims RECEIVED from its resting status, a reclaim also takes over a run its
\* predecessor left on the way.
LookForResume(t, resting) ==
    \/ run.status = resting /\ Goto(t, "taking") /\ UNCHANGED result
    \/ run.status = "received" /\ Again(t) /\ Goto(t, "resuming") /\ UNCHANGED result
    \/ run.status = "extracting" /\ Again(t) /\ Goto(t, "rewinding") /\ UNCHANGED result
    \/ /\ run.status # resting
       /\ ~(run.status \in {"received", "extracting"} /\ Again(t))
       /\ Return(t, "ok")

Resting(t) == IF Kind(t) = "reply" THEN "awaiting_reply" ELSE "needs_operator"

\* Variant of TakeRun: the status just read is taken for the status now.
TakeRunBlindly(t) ==
    /\ pc[t] \in {"taking", "rewinding"}
    /\ SetStatus("received") /\ Goto(t, "resuming")
    /\ UNCHANGED <<question, handoff, arrived, inbox, authority, queue, carry, result,
                   draft, bounds>>

\* The CAS that follows; a lost one is a finished job.
TakeRun(t) ==
    /\ pc[t] \in {"taking", "rewinding"}
    /\ IF run.status = IF pc[t] = "taking" THEN Resting(t) ELSE "extracting"
       THEN /\ run' = IF pc[t] = "taking" THEN [run EXCEPT !.status = "received"] ELSE Rewound
            /\ Goto(t, "resuming") /\ UNCHANGED result
       ELSE Return(t, "ok") /\ UNCHANGED run
    /\ UNCHANGED <<question, handoff, arrived, inbox, authority, queue, carry, draft, bounds>>

OpenReply(t) ==
    /\ pc[t] = "opened" /\ Kind(t) = "reply"
    /\ LookForResume(t, "awaiting_reply")
    /\ UNCHANGED <<business, inbox, authority, queue, carry, draft, bounds>>

\* A superseded generation is drained without effect.
OpenResolution(t) ==
    /\ pc[t] = "opened" /\ Kind(t) = "resolve"
    /\ IF carry[t].key[2] \in authority
       THEN LookForResume(t, "needs_operator")
       ELSE Return(t, "ok")
    /\ UNCHANGED <<business, inbox, authority, queue, carry, draft, bounds>>

-------------------------------------------------------------------------------
(* The pipeline *)

\* resume_pipeline(): the CAS on from_status, RECEIVED for both handlers.
Resume(t) ==
    /\ pc[t] = "resuming"
    /\ \/ /\ ClaimStatus("received", "extracting")
          /\ Goto(t, IF Kind(t) = "reply" THEN "consuming" ELSE "extracting")
          /\ UNCHANGED result
       \/ run.status # "received" /\ Return(t, "ok") /\ UNCHANGED run
    /\ UNCHANGED <<question, handoff, arrived, inbox, authority, queue, carry, draft, bounds>>

\* mark_reply_consumed(), write-once.
MarkConsumed(r) == reply' = [reply EXCEPT ![r].state = "consumed"]

Consume(t) ==
    /\ pc[t] = "consuming"
    /\ MarkConsumed(carry[t].key[2])
    /\ Goto(t, "extracting")
    /\ UNCHANGED <<business, passes, authority, queue, carry, result, draft, bounds>>

\* The reply took the run to its next rest.
Passed(t) ==
    passes' = IF Kind(t) = "reply" THEN [passes EXCEPT ![carry[t].key[2]] = @ + 1] ELSE passes

\* A pass that came to rest; what a resume does after that, binding alias candidates,
\* can still fail.
Rests(t) ==
    /\ \/ Return(t, "ok") /\ UNCHANGED faults
       \/ /\ Kind(t) # "run" /\ faults < MaxFaults
          /\ faults' = faults + 1
          /\ \E r \in {"retryable", "terminal"} : Return(t, r)
    /\ Passed(t)

\* _run_stages(): final_action = process, the status advances with the data.
Process(t) ==
    /\ pc[t] = "extracting"
    /\ SetStatus("awaiting_approval")
    /\ Rests(t)
    /\ UNCHANGED <<question, handoff, arrived, reply, authority, queue, carry, draft, overruns>>

\* _run_stages(): final_action = request_clarification; a first run has nothing to
\* regress from, so only a resume can ask under another purpose.
RequestClarification(t, p) ==
    /\ pc[t] = "extracting"
    /\ p = InitialPurpose \/ Kind(t) # "run"
    /\ draft' = [draft EXCEPT ![t].purpose = p]
    /\ Goto(t, "asking")
    /\ UNCHANGED <<business, inbox, authority, queue, carry, result, bounds>>

\* Variant of Slot: a question is looked up by its purpose alone.
FirstSlot(t) == <<run.epoch, draft[t].purpose, 0>>

Slot(t) == <<run.epoch, draft[t].purpose, run.round>>

\* Variant of CapReached: one question more than allowed.
CapReachedLate == run.round > MaxRounds

CapReached == run.round >= MaxRounds

\* The run pauses for the client; the snapshot and the round commit with the status.
PauseAfter(round) == run' = [run EXCEPT !.status = "awaiting_reply", !.round = round + 1]

\* clarify(): the cap, then a question already sent or reserved in this slot.
Ask(t) ==
    /\ pc[t] = "asking"
    /\ \/ /\ CapReached
          /\ SetStatus("needs_operator")
          /\ Rests(t) /\ UNCHANGED draft
       \/ /\ ~CapReached /\ question[Slot(t)] # "none"
          /\ PauseAfter(run.round)
          /\ Rests(t) /\ UNCHANGED draft
       \/ /\ ~CapReached /\ question[Slot(t)] = "none"
          /\ draft' = [draft EXCEPT ![t].round = run.round]
          /\ Goto(t, "drafting")
          /\ UNCHANGED <<run, result, passes, faults>>
    /\ UNCHANGED <<question, handoff, arrived, reply, authority, queue, carry, overruns>>

\* reserve_outbound_snapshot(): an existing slot is returned as it stands.
ReserveSnapshot(q) == question' = [question EXCEPT ![q] = IF @ = "none" THEN "owed" ELSE @]

\* clarify(): after two LLM calls, reserve and queue the question in one transaction.
Reserve(t) ==
    LET q == <<run.epoch, draft[t].purpose, draft[t].round>> IN
    /\ pc[t] = "drafting"
    /\ ReserveSnapshot(q)
    /\ PauseAfter(draft[t].round)
    /\ Rests(t)
    /\ UNCHANGED <<handoff, arrived, reply, authority, queue, carry, draft, overruns>>

InPipeline == {"loading", "consuming", "extracting", "asking", "drafting"}

\* A stage fails: _run and resume_pipeline classify what they catch.
StageFails(t) ==
    /\ pc[t] \in InPipeline
    /\ \E r \in {"retryable", "terminal"} : Return(t, r)
    /\ UNCHANGED <<business, inbox, authority, queue, carry, draft, bounds>>

\* The handler itself raises, which drain_once settles as a retryable result.
HandlerRaises(t) ==
    /\ pc[t] \in {"opened", "entering", "taking", "rewinding", "resuming"} /\ faults < MaxFaults
    /\ faults' = faults + 1
    /\ Return(t, "retryable")
    /\ UNCHANGED <<business, inbox, authority, queue, carry, draft, overruns>>

-------------------------------------------------------------------------------
(* Settlement *)

Leave(t) ==
    /\ pc' = [pc EXCEPT ![t] = "idle"]
    /\ carry' = [carry EXCEPT ![t] = NoLease]
    /\ result' = [result EXCEPT ![t] = "none"]
    /\ draft' = [draft EXCEPT ![t] = NoDraft]

\* The CAS of _rewind_run and _set_run_error.
InFlight == run.status = "extracting"

\* Variant of Failed: the error is recorded and the status forgotten.
FailedQuietly == [run EXCEPT !.marker = FALSE]

Failed == [run EXCEPT !.status = "error", !.marker = FALSE]

\* settle_pipeline_job; when the run is not in flight a failure is answered FENCED
\* and the lease is left to run out.
Settle(t) ==
    LET k == carry[t].key
        done(state) == job' = [job EXCEPT ![k] = Settled(@, state)]
    IN
    /\ pc[t] = "settling"
    /\ \/ /\ ~Holds(job[k], carry[t].token)
          /\ UNCHANGED <<run, job>>
       \/ /\ Holds(job[k], carry[t].token)
          /\ \/ result[t] = "ok" /\ done("done") /\ UNCHANGED run
             \/ /\ result[t] = "retryable" /\ job[k].attempts < MaxAttempts /\ InFlight
                /\ SetStatus("received")
                /\ job' = [job EXCEPT ![k] = Retried(@)]
             \/ /\ result[t] = "retryable" /\ job[k].attempts = MaxAttempts /\ InFlight
                /\ run' = Failed /\ done("dead")
             \/ result[t] = "terminal" /\ InFlight /\ run' = Failed /\ done("done")
             \/ result[t] # "ok" /\ ~InFlight /\ UNCHANGED <<run, job>>
    /\ Leave(t)
    /\ UNCHANGED <<question, handoff, arrived, inbox, authority, minted, bounds>>

\* Variant of ReaperErrs: the reaper settles the job and never the run.
ReaperErrsNever == {}

\* _FINAL_LEASE_ERROR_STATUSES.
ReaperErrs == {"received", "extracting", "approved"}

\* reap_expired_final_attempt, whatever job of the run it is.
Reap(k) ==
    /\ \E t \in Thread : pc[t] = "idle"
    /\ \A l \in Key : ~Claimable(job[l], MaxAttempts)
    /\ ExpiredFinal(job[k], MaxAttempts)
    /\ run' = IF run.status \in ReaperErrs THEN Failed ELSE run
    /\ job' = [job EXCEPT ![k] = Settled(@, "dead")]
    /\ UNCHANGED <<question, handoff, arrived, inbox, authority, minted, worker, bounds>>

Crash(t) ==
    /\ pc[t] # "idle" /\ faults < MaxFaults
    /\ faults' = faults + 1
    /\ Leave(t)
    /\ UNCHANGED <<business, inbox, authority, queue, overruns>>

LeaseExpires(k) ==
    LET alive == \E t \in Thread : pc[t] # "idle" /\ carry[t].token = job[k].token IN
    /\ job[k].state = "leased" /\ ~job[k].expired
    /\ alive => overruns < MaxOverruns
    /\ overruns' = IF alive THEN overruns + 1 ELSE overruns
    /\ job' = [job EXCEPT ![k] = LeaseRanOut(@)]
    /\ UNCHANGED <<business, inbox, authority, minted, worker, faults>>

BackoffElapses(k) ==
    /\ job[k].state = "pending" /\ ~job[k].due
    /\ job' = [job EXCEPT ![k] = BackoffElapsed(@)]
    /\ UNCHANGED <<business, inbox, authority, minted, worker, bounds>>

-------------------------------------------------------------------------------
(* The question's send_outbound job *)

Wanted(q) == run.status = "awaiting_reply" /\ q[1] = run.epoch

\* Authority over the provider, or a no-op that settlement retires.
AuthorizeQuestion(q) ==
    /\ question[q] = "owed"
    /\ IF Wanted(q) /\ handoff = NoQuestion
       THEN question' = [question EXCEPT ![q] = "sending"] /\ handoff' = q
       ELSE question' = [question EXCEPT ![q] = "retired"] /\ UNCHANGED handoff
    /\ UNCHANGED <<run, arrived, inbox, authority, queue, worker, bounds>>

QuestionArrives(q) ==
    /\ question[q] = "sending" /\ q \notin arrived
    /\ arrived' = arrived \cup {q}
    /\ UNCHANGED <<run, question, handoff, inbox, authority, queue, worker, bounds>>

\* settle_outbound_delivery_job: sent, to be replayed, or under review; for a run that
\* has moved on the job is retired and the handoff stays.
SettleQuestion(q) ==
    /\ question[q] = "sending"
    /\ \/ /\ Wanted(q) /\ handoff' = NoQuestion
          /\ \/ q \in arrived /\ question' = [question EXCEPT ![q] = "sent"] /\ UNCHANGED run
             \/ question' = [question EXCEPT ![q] = "owed"] /\ UNCHANGED run
             \/ /\ question' = [question EXCEPT ![q] = "retired"]
                /\ run' = [run EXCEPT !.status = "needs_operator", !.marker = TRUE]
       \/ /\ ~Wanted(q) /\ question' = [question EXCEPT ![q] = "retired"]
          /\ UNCHANGED <<run, handoff>>
    /\ UNCHANGED <<arrived, inbox, authority, queue, worker, bounds>>

-------------------------------------------------------------------------------
(* The client *)

\* _ingest_email() of an answer: matched by its header to an awaiting run of the
\* question's epoch it gets a job, otherwise it is a late reply.
Answer(r, q) ==
    /\ reply[r] = NoReply /\ q \in arrived
    /\ PromptReplies \/ question[q] \in {"sent", "retired", "handled"}
    /\ reply' = [reply EXCEPT ![r] = [state |-> "linked", to |-> q]]
    /\ job' = IF Wanted(q) THEN [job EXCEPT ![<<"reply", r>>] = Enqueued(@, TRUE)] ELSE job
    /\ UNCHANGED <<business, passes, authority, minted, worker, bounds>>

\* Variant of Redeliver: every delivery of an email gets a job of its own.
RedeliverAlways(r) ==
    /\ reply[r].state # "none" /\ run.status = "awaiting_reply"
    /\ ~Open(job[<<"reply", r>>])
    /\ job' = [job EXCEPT ![<<"reply", r>>] = Enqueued(AbsentRow, TRUE)]
    /\ UNCHANGED <<business, inbox, authority, minted, worker, bounds>>

\* The same email again: an unconsumed reply to an awaiting run gets its job now.
Redeliver(r) ==
    /\ reply[r].state = "linked" /\ run.status = "awaiting_reply"
    /\ job[<<"reply", r>>].state = "absent"
    /\ job' = [job EXCEPT ![<<"reply", r>>] = Enqueued(@, TRUE)]
    /\ UNCHANGED <<business, inbox, authority, minted, worker, bounds>>

-------------------------------------------------------------------------------
(* The operator *)

Approve ==
    /\ ClaimStatus("awaiting_approval", "approved")
    /\ UNCHANGED <<question, handoff, arrived, inbox, authority, queue, worker, bounds>>

\* The confirmation goes out under a handoff of its own.
Deliver ==
    /\ run.status = "approved" /\ handoff = NoQuestion
    /\ SetStatus("reconciled")
    /\ UNCHANGED <<question, handoff, arrived, inbox, authority, queue, worker, bounds>>

Reject ==
    /\ run.status \in {"awaiting_approval", "needs_operator", "awaiting_reply"}
    /\ SetStatus("rejected")
    /\ UNCHANGED <<question, handoff, arrived, inbox, authority, queue, worker, bounds>>

\* _claim_stale_in_flight: nothing wrote the row for STALE_THRESHOLD, so no worker that
\* still has its lease is at it.
Stale ==
    /\ run.status \in {"received", "extracting"}
    /\ \A t \in Thread : pc[t] = "idle" \/ ~Holds(job[carry[t].key], carry[t].token)

\* Variant of RunJob: the epoch is not part of the dedup key.
RunJobOfAnyEpoch(e) == <<"run", 0>>

RunJob(e) == <<"run", e>>

\* retrigger(): the CAS, clear_reply_context and the new job in one transaction.
Retrigger ==
    LET k == RunJob(run.epoch + 1) IN
    /\ run.status \in {"error", "approved"} \/ Stale
    /\ handoff = NoQuestion /\ run.epoch < MaxEpoch
    /\ run' = [run EXCEPT !.status = "received", !.epoch = @ + 1, !.round = 0]
    /\ job' = [job EXCEPT ![k] = Enqueued(@, TRUE)]
    /\ UNCHANGED <<question, handoff, arrived, inbox, authority, minted, worker, bounds>>

\* resolve(): the first generation ever committed for the run is the authority.
Resolve(g) ==
    /\ run.status = "needs_operator" /\ ~run.marker
    /\ job[<<"resolve", g>>].state = "absent"
    /\ authority' = IF authority = {} THEN {g} ELSE authority
    /\ job' = [job EXCEPT ![<<"resolve", g>>] = Enqueued(@, TRUE)]
    /\ UNCHANGED <<business, inbox, minted, worker, bounds>>

\* mark_outbound_operator_acknowledged(): the send state stays what it was.
Acknowledge(q) == question' = [question EXCEPT ![q] = "handled"]

\* mark_clarification_delivery_handled(): the operator vouches for the frozen question;
\* the review is looked up at round 0.
MarkHandled ==
    /\ run.status = "needs_operator" /\ run.marker
    /\ \E p \in Purpose :
          LET q == <<run.epoch, p, 0>> IN
          /\ question[q] \in {"owed", "sending", "retired", "handled"}
          /\ Acknowledge(q)
    /\ SetStatus("awaiting_reply")
    /\ UNCHANGED <<handoff, arrived, inbox, authority, queue, worker, bounds>>

-------------------------------------------------------------------------------

WorkerStep(t) ==
    \/ \E k \in Key : Claim(t, k)
    \/ OpenRun(t) \/ EnterRun(t) \/ Load(t)
    \/ OpenReply(t) \/ OpenResolution(t) \/ TakeRun(t) \/ Resume(t) \/ Consume(t)
    \/ Process(t) \/ \E p \in Purpose : RequestClarification(t, p)
    \/ Ask(t) \/ Reserve(t) \/ StageFails(t) \/ Settle(t)

Clock(k) == LeaseExpires(k) \/ BackoffElapses(k)

Sender(q) == AuthorizeQuestion(q) \/ QuestionArrives(q) \/ SettleQuestion(q)

Client == \E r \in Reply : (\E q \in Question : Answer(r, q)) \/ Redeliver(r)

Operator ==
    \/ Approve \/ Reject \/ Retrigger \/ MarkHandled
    \/ \E g \in Resolution : Resolve(g)

Next ==
    \/ \E t \in Thread : WorkerStep(t) \/ HandlerRaises(t) \/ Crash(t)
    \/ \E k \in Key : Clock(k) \/ Reap(k)
    \/ \E q \in Question : Sender(q)
    \/ Client \/ Operator \/ Deliver

Spec == Init /\ [][Next]_vars

\* Workers, clocks and the reaper go on.  Client and operator owe nothing.
Fairness ==
    /\ \A t \in Thread : WF_vars(WorkerStep(t))
    /\ \A k \in Key : WF_vars(Clock(k)) /\ WF_vars(Reap(k))

FairSpec == Spec /\ Fairness

-------------------------------------------------------------------------------
(* Properties *)

Label == {"idle", "opened", "entering", "taking", "rewinding", "resuming", "settling"} \cup InPipeline

\* Every variable keeps its type.
TypeOK ==
    /\ run \in [status : RunStatus, epoch : Epoch, round : 0..MaxRounds, marker : BOOLEAN]
    /\ question \in [Question -> {"none", "owed", "sending", "sent", "retired", "handled"}]
    /\ handoff \in Question \cup {NoQuestion}
    /\ arrived \subseteq Question
    /\ reply \in [Reply -> [state : {"none", "linked", "consumed"},
                            to : Question \cup {NoQuestion}]]
    /\ passes \in [Reply -> Nat]
    /\ authority \subseteq Resolution
    /\ job \in [Key -> Row(MaxAttempts)] /\ minted \in Nat
    /\ pc \in [Thread -> Label]
    /\ carry \in [Thread -> [key : Key, token : Nat, attempts : 0..MaxAttempts]]
    /\ result \in [Thread -> {"none", "ok", "retryable", "terminal"}]
    /\ draft \in [Thread -> [purpose : Purpose, round : 0..MaxRounds]]
    /\ faults \in 0..MaxFaults /\ overruns \in 0..MaxOverruns

\* Workers that run the pipeline under a valid lease.
Executors == {t \in Thread : pc[t] \in InPipeline /\ Holds(job[carry[t].key], carry[t].token)}

\* Whatever crashes, fails or is reclaimed, a run on its way always has a job that will
\* pick it up, so it never rests in RECEIVED or EXTRACTING unseen.
NoRunIsLost ==
    run.status \in {"received", "extracting"} => \E k \in Key : Open(job[k])

\* At most one worker with a valid lease drives the run at a time.
SingleSpine == Cardinality(Executors) <= 1

\* A rejected or reconciled run is never touched again: no late reply, no reclaimed or
\* reaped job and no resolution revives it.
FinalIsFinal ==
    [][run.status \in {"rejected", "reconciled"} => run' = run]_vars

\* Only the operator's reject, retrigger and the delivery end an approval.
ApprovalStands ==
    [][run.status = "approved" =>
         run'.status \in {"approved", "reconciled"} \/ run'.epoch # run.epoch]_vars

\* Never more questions in a conversation than the cap allows.
QuestionBudget ==
    \A e \in Epoch :
        Cardinality({q \in Question : q[1] = e /\ question[q] # "none"}) <= MaxRounds

\* A provider handoff that is active belongs to a send that will still settle, unless
\* the operator rejected the run under it.
ActiveHandoffWillSettle ==
    handoff # NoQuestion /\ run.status # "rejected" => question[handoff] = "sending"

Answered(q) == \E r \in Reply : reply[r].state = "consumed" /\ reply[r].to = q

\* A run that awaits a reply has a question of the current conversation that reached the
\* client, or still will, and that no reply has answered; the operator's word for a
\* question counts for it.  An active handoff nobody will settle blocks every later
\* question, so where ActiveHandoffWillSettle fails this one can too.
WaitsForAnOpenQuestion ==
    /\ run.status = "awaiting_reply"
    /\ \A q \in Question : question[q] # "handled"
    /\ ActiveHandoffWillSettle
    =>  \E q \in Question :
            /\ q[1] = run.epoch
            /\ question[q] \in {"owed", "sending", "sent"} \/ q \in arrived
            /\ ~Answered(q)

\* "Mark handled" closes the question under review: the last one asked.
HandledIsTheReview ==
    [][run.marker /\ run.status = "needs_operator" /\ run'.status = "awaiting_reply" =>
         \A q \in Question : question'[q] = "handled" => q[3] = run.round - 1]_vars

\* A reply goes through the gate once: it is not read as the answer to a second
\* question.
RepliesPassOnce == \A r \in Reply : passes[r] <= 1

\* A reply is only ever processed in the conversation it answers.
RepliesStayInEpoch ==
    \A t \in Thread : pc[t] = "consuming" /\ Holds(job[carry[t].key], carry[t].token)
                      => reply[carry[t].key[2]].to[1] = run.epoch

\* The internal EXTRACTING write of _run changes nothing.
InternalWriteIsRedundant ==
    \A t \in Thread : pc[t] = "loading" => run.status = "extracting"

\* A resolution the operator commits is applied, by its own job or in favour of an earlier
\* one that is not yet done.
ResolutionsApply ==
    [][\A g \in Resolution :
         job[<<"resolve", g>>].state = "absent" /\ job'[<<"resolve", g>>].state # "absent"
         => g \in authority' \/ \E h \in authority : Open(job[<<"resolve", h>>])]_vars

\* A run the pipeline hands to the operator is one that resolve() will take.
EscalationIsResolvable ==
    [][run.status = "extracting" /\ run'.status = "needs_operator" => ~run'.marker]_vars

\* Every run comes to rest, however its workers fail.
RunComesToRest ==
    run.status \in {"received", "extracting"} ~> run.status \notin {"received", "extracting"}

-------------------------------------------------------------------------------
(* The promise of the queue to the jobs of a run *)

\* The threads whose settlement would find the fence of k intact.
Holders(k) ==
    {t \in Thread : pc[t] # "idle" /\ carry[t].key = k /\ Holds(job[k], carry[t].token)}

Promise == INSTANCE JobPromise WITH
    Job <- Key, Worker <- Thread, Limit <- MaxAttempts,
    status <- [k \in Key |-> Promised(job[k])],
    holder <- [k \in Key |-> Holders(k)],
    tries <- [k \in Key |-> job[k].attempts]

\* Whatever happens to the run they drive, its jobs stay jobs of the queue: accepted
\* once, held by one worker at a time, who alone concludes them, and given up only when
\* their tries are spent.
KeepsPromise == Promise!Spec
===============================================================================
