--------------------------- MODULE PayrollRunProofs ---------------------------
(***************************************************************************)
(* What PayrollRun guarantees for any number of workers, replies, purposes,   *)
(* rounds and attempts, and within which bounds of failure.                   *)
(***************************************************************************)
EXTENDS PayrollRun, FiniteSetTheorems, TLAPS

USE RunAssumption

-------------------------------------------------------------------------------
(* Rows and keys *)

\* The single-statement transitions keep a row well formed; a claim, because it looks at
\* the attempts first.
LEMMA RowTransitions ==
    ASSUME NEW max \in Nat, NEW r \in Row(max), NEW token \in Nat,
           NEW due \in BOOLEAN, NEW state \in JobState
    PROVE  /\ Enqueued(r, due) \in Row(max)
           /\ Claimable(r, max) => Claimed(r, token) \in Row(max)
           /\ Settled(r, state) \in Row(max)
           /\ Retried(r) \in Row(max)
           /\ Released(r) \in Row(max)
           /\ LeaseRanOut(r) \in Row(max)
           /\ BackoffElapsed(r) \in Row(max)
  <1>1. Claimable(r, max) => r.attempts + 1 \in 0..max
    BY DEF Row, Claimable
  <1>. QED
    BY <1>1 DEF Row, JobState, NoToken, Enqueued, Claimed, Settled, Retried, Released,
                LeaseRanOut, BackoffElapsed

\* A transition decides the state of the row.
LEMMA RowStates ==
    ASSUME NEW max \in Nat, NEW r \in Row(max), NEW token \in Nat,
           NEW due \in BOOLEAN, NEW state \in JobState
    PROVE  /\ Enqueued(r, due).state = (IF r.state = "absent" THEN "pending" ELSE r.state)
           /\ Claimed(r, token).state = "leased"
           /\ Settled(r, state).state = state
           /\ Retried(r).state = "pending" /\ Released(r).state = "pending"
           /\ LeaseRanOut(r).state = r.state /\ BackoffElapsed(r).state = r.state
  BY DEF Row, JobState, NoToken, Enqueued, Claimed, Settled, Retried, Released,
         LeaseRanOut, BackoffElapsed

\* A key is of one kind, and names its epoch, reply or resolution.
LEMMA KeyParts ==
    ASSUME NEW k \in Key
    PROVE  \/ k[1] = "run" /\ k[2] \in Epoch /\ k = <<"run", k[2]>>
           \/ k[1] = "reply" /\ k[2] \in Reply /\ k = <<"reply", k[2]>>
           \/ k[1] = "resolve" /\ k[2] \in Resolution /\ k = <<"resolve", k[2]>>
  BY DEF Key

LEMMA KeysAreKeys ==
    /\ \A e \in Epoch : <<"run", e>> \in Key
    /\ \A r \in Reply : <<"reply", r>> \in Key
    /\ \A g \in Resolution : <<"resolve", g>> \in Key
  BY DEF Key

LEMMA Defaults ==
    /\ 0 \in Epoch
    /\ NoLease \in [key : Key, token : Nat, attempts : 0..MaxAttempts]
    /\ NoDraft \in [purpose : Purpose, round : 0..MaxRounds]
    /\ AbsentRow \in Row(MaxAttempts)
    /\ NoQuestion \notin Question
  <1>1. 0 \in Epoch
    BY DEF Epoch
  <1>2. AbsentRow \in Row(MaxAttempts)
    BY DEF AbsentRow, Row, JobState, NoToken
  <1>3. NoLease \in [key : Key, token : Nat, attempts : 0..MaxAttempts]
    BY <1>1, KeysAreKeys DEF NoLease, NoToken
  <1>4. NoQuestion \notin Question
    BY DEF NoQuestion, Question
  <1>. QED
    BY <1>1, <1>2, <1>3, <1>4 DEF NoDraft

-------------------------------------------------------------------------------
(* Types *)

\* A worker past the cap's check drafts a question the cap allows.
DraftsFit == \A t \in Thread : pc[t] = "drafting" => draft[t].round < MaxRounds

Typed == TypeOK /\ DraftsFit

RunRow == [status : RunStatus, epoch : Epoch, round : 0..MaxRounds, marker : BOOLEAN]

\* What the statements on payroll_runs make of the row.
LEMMA RunUpdates ==
    ASSUME NEW r \in RunRow, NEW s \in RunStatus, NEW e \in Epoch, NEW n \in 0..MaxRounds,
           NEW b \in BOOLEAN
    PROVE  /\ [r EXCEPT !.status = s] \in RunRow
           /\ [r EXCEPT !.status = s, !.marker = b] \in RunRow
           /\ [r EXCEPT !.status = s, !.round = n] \in RunRow
           /\ [r EXCEPT !.status = s, !.epoch = e, !.round = n] \in RunRow
  BY DEF RunRow

LEMMA RunTransitions ==
    ASSUME TypeOK
    PROVE  /\ run \in RunRow /\ Rewound \in RunRow /\ Failed \in RunRow
           /\ \A s \in RunStatus : [run EXCEPT !.status = s] \in RunRow
           /\ \A n \in 0..MaxRounds : n < MaxRounds =>
                [run EXCEPT !.status = "awaiting_reply", !.round = n + 1] \in RunRow
  <1>1. run \in RunRow
    BY DEF TypeOK, RunRow
  <1>2. {"received", "error", "awaiting_reply"} \subseteq RunStatus /\ 0 \in 0..MaxRounds /\ 0 \in Epoch
    BY DEF RunStatus, Epoch
  <1>3. Rewound \in RunRow
    BY <1>1, <1>2, RunUpdates DEF Rewound
  <1>4. Failed \in RunRow
    BY <1>1, <1>2, RunUpdates DEF Failed
  <1>5. \A s \in RunStatus : [run EXCEPT !.status = s] \in RunRow
    BY <1>1, <1>2, RunUpdates
  <1>6. ASSUME NEW n \in 0..MaxRounds, n < MaxRounds
        PROVE  [run EXCEPT !.status = "awaiting_reply", !.round = n + 1] \in RunRow
    <2>1. n + 1 \in 0..MaxRounds
      BY <1>6
    <2>. QED BY <1>1, <1>2, <2>1, RunUpdates
  <1>. QED BY <1>1, <1>3, <1>4, <1>5, <1>6

LEMMA TypedInit == Init => Typed
  <1>. SUFFICES ASSUME Init PROVE Typed
    OBVIOUS
  <1>1. Enqueued(AbsentRow, TRUE) \in Row(MaxAttempts)
    BY Defaults DEF Enqueued, AbsentRow, Row, JobState, NoToken
  <1>2. job \in [Key -> Row(MaxAttempts)]
    BY <1>1, Defaults DEF Init
  <1>3. run \in [status : RunStatus, epoch : Epoch, round : 0..MaxRounds, marker : BOOLEAN]
    BY Defaults DEF Init, RunStatus
  <1>4. reply \in [Reply -> [state : {"none", "linked", "consumed"},
                              to : Question \cup {NoQuestion}]]
    BY DEF Init, NoReply
  <1>5. /\ pc \in [Thread -> Label]
        /\ carry \in [Thread -> [key : Key, token : Nat, attempts : 0..MaxAttempts]]
        /\ draft \in [Thread -> [purpose : Purpose, round : 0..MaxRounds]]
        /\ DraftsFit
    BY Defaults DEF Init, Label, DraftsFit
  <1>6. /\ question \in [Question -> {"none", "owed", "sending", "sent", "retired", "handled"}]
        /\ handoff \in Question \cup {NoQuestion} /\ arrived \subseteq Question
    BY DEF Init
  <1>7. /\ passes \in [Reply -> Nat] /\ authority \subseteq Resolution /\ minted \in Nat
        /\ result \in [Thread -> {"none", "ok", "retryable", "terminal"}]
        /\ faults \in 0..MaxFaults /\ overruns \in 0..MaxOverruns
    BY DEF Init
  <1>. QED
    BY <1>2, <1>3, <1>4, <1>5, <1>6, <1>7 DEF Typed, TypeOK

\* A pass that rests: the worker has its result, and the reply one pass more.
LEMMA RestsTyped ==
    ASSUME TypeOK, NEW t \in Thread, Rests(t)
    PROVE  /\ passes' \in [Reply -> Nat] /\ faults' \in 0..MaxFaults
           /\ pc' = [pc EXCEPT ![t] = "settling"]
           /\ result' \in [Thread -> {"none", "ok", "retryable", "terminal"}]
  <1>. USE DEF TypeOK
  <1>1. \A r \in Reply : [passes EXCEPT ![r] = @ + 1] \in [Reply -> Nat]
    OBVIOUS
  <1>2. Kind(t) = "reply" => carry[t].key[2] \in Reply
    BY KeyParts DEF Kind
  <1>3. passes' \in [Reply -> Nat]
    BY <1>1, <1>2 DEF Rests, Passed
  <1>. QED BY <1>3 DEF Rests, Return, Goto

LEMMA RestedTyped ==
    ASSUME Typed, NEW t \in Thread, Rests(t), run' \in RunRow,
           UNCHANGED <<question, handoff, arrived, reply, authority, queue, carry, draft,
                       overruns>>
    PROVE  Typed'
  <1>. USE DEF Typed, TypeOK
  <1>1. pc' = [pc EXCEPT ![t] = "settling"]
    BY RestsTyped
  <1>2. pc' \in [Thread -> Label]
    BY <1>1 DEF Label, InPipeline
  <1>3. DraftsFit'
    BY <1>1 DEF DraftsFit
  <1>4. /\ passes' \in [Reply -> Nat] /\ faults' \in 0..MaxFaults
        /\ result' \in [Thread -> {"none", "ok", "retryable", "terminal"}]
    BY RestsTyped
  <1>. QED BY <1>2, <1>3, <1>4 DEF RunRow, queue

\* A worker goes on to a label, or its handler returns.
Moves(t, l) ==
    /\ pc' = [pc EXCEPT ![t] = l]
    /\ result' = result \/ result' = [result EXCEPT ![t] = "ok"]

LEMMA MovesTyped ==
    ASSUME Typed, NEW t \in Thread, NEW l \in Label \ {"drafting"}, Moves(t, l),
           run' \in RunRow,
           UNCHANGED <<question, handoff, arrived, inbox, authority, queue, carry, draft, bounds>>
    PROVE  Typed'
  <1>. USE DEF Typed, TypeOK, Moves
  <1>1. pc' \in [Thread -> Label]
    OBVIOUS
  <1>2. DraftsFit'
    BY DEF DraftsFit
  <1>3. result' \in [Thread -> {"none", "ok", "retryable", "terminal"}]
    OBVIOUS
  <1>. QED BY <1>1, <1>2, <1>3 DEF RunRow, inbox, queue, bounds

LEMMA ConsumedReply ==
    ASSUME TypeOK, NEW r, MarkConsumed(r)
    PROVE  reply' \in [Reply -> [state : {"none", "linked", "consumed"},
                                 to : Question \cup {NoQuestion}]]
  <1>1. \A s \in Reply : reply'[s] = reply[s] \/ reply'[s] = [reply[s] EXCEPT !.state = "consumed"]
    BY DEF TypeOK, MarkConsumed
  <1>2. reply' = [s \in Reply |-> reply'[s]]
    BY DEF TypeOK, MarkConsumed
  <1>3. \A s \in Reply : reply[s] \in [state : {"none", "linked", "consumed"},
                                      to : Question \cup {NoQuestion}]
    BY DEF TypeOK
  <1>. QED BY <1>1, <1>2, <1>3

LEMMA TypedStep == Typed /\ [Next]_vars => Typed'
  <1>. SUFFICES ASSUME Typed, [Next]_vars PROVE Typed'
    OBVIOUS
  <1>. USE DEF Typed, TypeOK, DraftsFit, business, inbox, queue, worker, bounds
  <1>. USE DEF Goto, Return, SetStatus, ClaimStatus, Label, InPipeline, RunStatus, RunRow
  <1>a. \A k \in Key : job[k] \in Row(MaxAttempts)
    OBVIOUS
  <1>1. ASSUME NEW t \in Thread, NEW k \in Key, Claim(t, k) PROVE Typed'
    <2>0. minted' \in Nat /\ Claimable(job[k], MaxAttempts)
      BY <1>1 DEF Claim
    <2>1. minted' \in Nat /\ Claimed(job[k], minted') \in Row(MaxAttempts)
      <3>. HIDE DEF Typed
      <3>. QED BY <2>0, <1>a, RowTransitions DEF JobState
    <2>2. job' \in [Key -> Row(MaxAttempts)] /\ job'[k].attempts \in 0..MaxAttempts
      BY <1>1, <2>1 DEF Claim, Row
    <2>3. carry' \in [Thread -> [key : Key, token : Nat, attempts : 0..MaxAttempts]]
      BY <1>1, <2>1, <2>2 DEF Claim
    <2>. QED BY <1>1, <2>1, <2>2, <2>3 DEF Claim
  <1>2. ASSUME NEW t \in Thread, OpenRun(t) PROVE Typed'
    <2>1. run' \in RunRow
      <3>. HIDE DEF Typed, RunRow
      <3>. QED BY <1>2, RunTransitions DEF OpenRun, Typed, SetStatus
    <2>. QED BY <1>2, <2>1 DEF OpenRun
  <1>3. ASSUME NEW t \in Thread, EnterRun(t) PROVE Typed'
    BY <1>3 DEF EnterRun
  <1>4. ASSUME NEW t \in Thread, Load(t) PROVE Typed'
    BY <1>4 DEF Load
  <1>5. ASSUME NEW t \in Thread, OpenReply(t) PROVE Typed'
    BY <1>5 DEF OpenReply, LookForResume
  <1>6. ASSUME NEW t \in Thread, OpenResolution(t) PROVE Typed'
    <2>1. \E l \in Label \ {"drafting"} : Moves(t, l)
      BY <1>6 DEF OpenResolution, LookForResume, Moves
    <2>2. run' \in RunRow /\ UNCHANGED <<business, inbox, authority, queue, carry, draft, bounds>>
      BY <1>6 DEF OpenResolution
    <2>. HIDE DEF Typed, RunRow, inbox, queue, bounds, Label
    <2>. QED BY <2>1, <2>2, MovesTyped
  <1>7. ASSUME NEW t \in Thread, TakeRun(t) PROVE Typed'
    <2>1. run' \in RunRow
      <3>. HIDE DEF Typed, RunRow
      <3>. QED BY <1>7, RunTransitions DEF TakeRun, Typed, SetStatus
    <2>2. \E l \in Label \ {"drafting"} : Moves(t, l)
      BY <1>7 DEF TakeRun, Moves
    <2>3. UNCHANGED <<question, handoff, arrived, inbox, authority, queue, carry, draft, bounds>>
      BY <1>7 DEF TakeRun
    <2>. HIDE DEF Typed, RunRow, inbox, queue, bounds, Label
    <2>. QED BY <2>1, <2>2, <2>3, MovesTyped
  <1>8. ASSUME NEW t \in Thread, Resume(t) PROVE Typed'
    BY <1>8 DEF Resume
  <1>9. ASSUME NEW t \in Thread, Consume(t) PROVE Typed'
    <2>1. reply' \in [Reply -> [state : {"none", "linked", "consumed"},
                                to : Question \cup {NoQuestion}]]
      <3>. HIDE DEF Typed
      <3>. QED BY <1>9, ConsumedReply DEF Consume, Typed
    <2>2. pc' = [pc EXCEPT ![t] = "extracting"]
      BY <1>9 DEF Consume
    <2>. QED BY <1>9, <2>1, <2>2 DEF Consume
  <1>10. ASSUME NEW t \in Thread, Process(t) PROVE Typed'
    <2>1. run' \in RunRow
      BY <1>10 DEF Process
    <2>. HIDE DEF Typed, RunRow, queue
    <2>. QED BY <1>10, <2>1, RestedTyped DEF Process
  <1>11. ASSUME NEW t \in Thread, NEW p \in Purpose, RequestClarification(t, p) PROVE Typed'
    BY <1>11 DEF RequestClarification
  <1>12. ASSUME NEW t \in Thread, Ask(t) PROVE Typed'
    <2>1. ASSUME Rests(t), UNCHANGED draft,
                 SetStatus("needs_operator") \/ (run.round < MaxRounds /\ PauseAfter(run.round))
          PROVE  Typed'
      <3>1. run' \in RunRow
        <4>1. run.round \in 0..MaxRounds /\ "needs_operator" \in RunStatus
          OBVIOUS
        <4>. HIDE DEF Typed, TypeOK, RunRow, RunStatus
        <4>. QED BY <2>1, <4>1, RunTransitions DEF PauseAfter, Typed
      <3>. HIDE DEF Typed, RunRow, queue
      <3>. QED BY <1>12, <2>1, <3>1, RestedTyped DEF Ask
    <2>2. ASSUME run.round < MaxRounds, draft' = [draft EXCEPT ![t].round = run.round],
                 Goto(t, "drafting"), UNCHANGED <<run, result, passes, faults>>
          PROVE  Typed'
      BY <1>12, <2>2 DEF Ask
    <2>. HIDE DEF Typed, Goto, SetStatus
    <2>. QED BY <1>12, <2>1, <2>2 DEF Ask, CapReached, Typed, TypeOK, Epoch
  <1>13. ASSUME NEW t \in Thread, Reserve(t) PROVE Typed'
    <2>. DEFINE n == draft[t].round
    <2>1. n \in 0..MaxRounds /\ n < MaxRounds /\ run' = [run EXCEPT !.status = "awaiting_reply", !.round = n + 1]
      BY <1>13 DEF Reserve, PauseAfter
    <2>2. run' \in RunRow
      <3>. HIDE DEF Typed, RunRow, n
      <3>. QED BY <2>1, RunTransitions DEF Typed
    <2>. QED BY <1>13, <2>2, RestsTyped DEF Reserve, ReserveSnapshot
  <1>14. ASSUME NEW t \in Thread, StageFails(t) PROVE Typed'
    BY <1>14 DEF StageFails
  <1>15. ASSUME NEW t \in Thread, HandlerRaises(t) PROVE Typed'
    BY <1>15 DEF HandlerRaises
  <1>16. ASSUME NEW t \in Thread, Settle(t) PROVE Typed'
    <2>. DEFINE k == carry[t].key
    <2>1. k \in Key
      OBVIOUS
    <2>2. /\ Settled(job[k], "done") \in Row(MaxAttempts)
          /\ Settled(job[k], "dead") \in Row(MaxAttempts)
          /\ Retried(job[k]) \in Row(MaxAttempts)
      BY <2>1, <1>a, RowTransitions DEF JobState
    <2>3. job' \in [Key -> Row(MaxAttempts)]
      BY <1>16, <2>1, <2>2 DEF Settle
    <2>4. run' \in [status : RunStatus, epoch : Epoch, round : 0..MaxRounds, marker : BOOLEAN]
      BY <1>16 DEF Settle, Failed
    <2>. QED BY <1>16, <2>3, <2>4, Defaults DEF Settle, Leave
  <1>17. ASSUME NEW t \in Thread, Crash(t) PROVE Typed'
    BY <1>17, Defaults DEF Crash, Leave
  <1>18. ASSUME NEW k \in Key, LeaseExpires(k) PROVE Typed'
    <2>1. LeaseRanOut(job[k]) \in Row(MaxAttempts)
      BY <1>a, RowTransitions DEF JobState
    <2>. QED BY <1>18, <2>1 DEF LeaseExpires
  <1>19. ASSUME NEW k \in Key, BackoffElapses(k) PROVE Typed'
    <2>1. BackoffElapsed(job[k]) \in Row(MaxAttempts)
      BY <1>a, RowTransitions DEF JobState
    <2>. QED BY <1>19, <2>1 DEF BackoffElapses
  <1>20. ASSUME NEW k \in Key, Reap(k) PROVE Typed'
    <2>1. Settled(job[k], "dead") \in Row(MaxAttempts)
      BY <1>a, RowTransitions DEF JobState
    <2>. QED BY <1>20, <2>1 DEF Reap, Failed
  <1>21. ASSUME NEW q \in Question, Sender(q) PROVE Typed'
    BY <1>21 DEF Sender, AuthorizeQuestion, QuestionArrives, SettleQuestion
  <1>22. ASSUME NEW r \in Reply, NEW q \in Question, Answer(r, q) PROVE Typed'
    <2>1. <<"reply", r>> \in Key /\ Enqueued(job[<<"reply", r>>], TRUE) \in Row(MaxAttempts)
      BY <1>a, KeysAreKeys, RowTransitions DEF JobState
    <2>2. job' \in [Key -> Row(MaxAttempts)]
      BY <1>22, <2>1 DEF Answer
    <2>. QED BY <1>22, <2>2 DEF Answer
  <1>23. ASSUME NEW r \in Reply, Redeliver(r) PROVE Typed'
    <2>1. <<"reply", r>> \in Key /\ Enqueued(job[<<"reply", r>>], TRUE) \in Row(MaxAttempts)
      BY <1>a, KeysAreKeys, RowTransitions DEF JobState
    <2>2. job' \in [Key -> Row(MaxAttempts)]
      BY <1>23, <2>1 DEF Redeliver
    <2>3. UNCHANGED <<business, inbox, authority, minted, worker, bounds>>
      BY <1>23 DEF Redeliver
    <2>. QED BY <2>2, <2>3
  <1>24. CASE Approve \/ Reject \/ Deliver
    <2>1. CASE Approve
      BY <2>1 DEF Approve
    <2>2. CASE Reject
      BY <2>2 DEF Reject
    <2>3. CASE Deliver
      BY <2>3 DEF Deliver
    <2>. QED BY <1>24, <2>1, <2>2, <2>3
  <1>25. CASE Retrigger
    <2>. DEFINE k == RunJob(run.epoch + 1)
    <2>1. run.epoch + 1 \in Epoch
      BY <1>25 DEF Retrigger, Epoch
    <2>2. k \in Key /\ Enqueued(job[k], TRUE) \in Row(MaxAttempts)
      BY <1>a, <2>1, KeysAreKeys, RowTransitions DEF JobState, RunJob
    <2>3. job' \in [Key -> Row(MaxAttempts)]
      BY <1>25, <2>2 DEF Retrigger
    <2>4. run' \in [status : RunStatus, epoch : Epoch, round : 0..MaxRounds, marker : BOOLEAN]
      <3>. DEFINE e == run.epoch + 1
      <3>. HIDE DEF e
      <3>1. e \in Epoch /\ run' = [run EXCEPT !.status = "received", !.epoch = e, !.round = 0]
        BY <1>25, <2>1 DEF Retrigger, e
      <3>2. run \in RunRow /\ "received" \in RunStatus /\ 0 \in 0..MaxRounds
        OBVIOUS
      <3>. HIDE DEF RunRow
      <3>3. run' \in RunRow
        BY <3>1, <3>2, RunUpdates
      <3>. QED BY <3>3 DEF RunRow
    <2>. QED BY <1>25, <2>3, <2>4 DEF Retrigger
  <1>26. CASE MarkHandled
    BY <1>26 DEF MarkHandled, Acknowledge
  <1>27. ASSUME NEW g \in Resolution, Resolve(g) PROVE Typed'
    <2>1. <<"resolve", g>> \in Key /\ Enqueued(job[<<"resolve", g>>], TRUE) \in Row(MaxAttempts)
      BY <1>a, KeysAreKeys, RowTransitions DEF JobState
    <2>. QED BY <1>27, <2>1 DEF Resolve
  <1>28. CASE UNCHANGED vars
    BY <1>28 DEF vars
  <1>. QED
    BY <1>1, <1>2, <1>3, <1>4, <1>5, <1>6, <1>7, <1>8, <1>9, <1>10, <1>11, <1>12, <1>13,
       <1>14, <1>15, <1>16, <1>17, <1>18, <1>19, <1>20, <1>21, <1>22, <1>23, <1>24, <1>25,
       <1>26, <1>27, <1>28
    DEF Next, WorkerStep, Clock, Client, Operator

\* Every variable keeps its type, whatever crashes, fails, expires or is retriggered: the
\* round never passes the cap and no row counts more attempts than max_attempts.
THEOREM RunTypes == Spec => []TypeOK
  <1>1. Spec => []Typed
    BY TypedInit, TypedStep, PTL DEF Spec
  <1>. QED BY <1>1, PTL DEF Typed

-------------------------------------------------------------------------------
(* Leases, as long as none runs out under a living worker *)

Busy(t) == pc[t] # "idle"

\* A worker at a job has the job's lease.
Leases ==
    \A t \in Thread : Busy(t) =>
        LET r == job[carry[t].key] IN
        /\ Holds(r, carry[t].token) /\ ~r.expired
        /\ r.attempts = carry[t].attempts

Apart ==
    \A t, u \in Thread : Busy(t) /\ Busy(u) /\ carry[t].key = carry[u].key => t = u

\* A lease is an attempt.
Counted == \A k \in Key : job[k].state = "leased" => job[k].attempts > 0

Leased == Typed /\ Leases /\ Apart /\ Counted

\* A worker moves on inside its handler.
Inner(t) ==
    /\ Busy(t)
    /\ pc' = [pc EXCEPT ![t] = pc'[t]] /\ pc'[t] # "idle"
    /\ result' = [result EXCEPT ![t] = result'[t]]
    /\ UNCHANGED <<carry, queue, authority>>

Joins(k) ==
    /\ job' = [job EXCEPT ![k] = Enqueued(@, TRUE)]
    /\ UNCHANGED <<minted, worker>>

Handles(t) ==
    \/ OpenRun(t) \/ EnterRun(t) \/ Load(t)
    \/ OpenReply(t) \/ OpenResolution(t) \/ TakeRun(t) \/ Resume(t) \/ Consume(t)
    \/ Process(t) \/ \E p \in Purpose : RequestClarification(t, p)
    \/ Ask(t) \/ Reserve(t) \/ StageFails(t) \/ HandlerRaises(t)

LEMMA HandlesInside ==
    ASSUME Typed, NEW t \in Thread, Handles(t)
    PROVE  Inner(t)
  <1>. USE DEF Typed, TypeOK, Inner, Busy, queue, Goto, Return, inbox
  <1>1. CASE OpenRun(t)
    BY <1>1 DEF OpenRun
  <1>2. CASE EnterRun(t)
    BY <1>2 DEF EnterRun
  <1>3. CASE Load(t)
    BY <1>3 DEF Load
  <1>4. CASE OpenReply(t)
    BY <1>4 DEF OpenReply, LookForResume
  <1>5. CASE OpenResolution(t)
    BY <1>5 DEF OpenResolution, LookForResume
  <1>6. CASE TakeRun(t)
    BY <1>6 DEF TakeRun
  <1>7. CASE Resume(t)
    BY <1>7 DEF Resume
  <1>8. CASE Consume(t)
    BY <1>8 DEF Consume
  <1>9. CASE Process(t)
    BY <1>9 DEF Process, Rests
  <1>10. CASE \E p \in Purpose : RequestClarification(t, p)
    BY <1>10 DEF RequestClarification
  <1>11. CASE Ask(t)
    BY <1>11 DEF Ask, Rests
  <1>12. CASE Reserve(t)
    BY <1>12 DEF Reserve, Rests
  <1>13. CASE StageFails(t)
    BY <1>13 DEF StageFails, InPipeline
  <1>14. CASE HandlerRaises(t)
    BY <1>14 DEF HandlerRaises
  <1>. QED
    BY <1>1, <1>2, <1>3, <1>4, <1>5, <1>6, <1>7, <1>8, <1>9, <1>10, <1>11, <1>12, <1>13,
       <1>14 DEF Handles

\* A step that enqueues: an answer, a redelivery, a resolution, a retrigger.
Enqueues(k) ==
    \/ \E r \in Reply : k = <<"reply", r>> /\ ((\E q \in Question : Answer(r, q)) \/ Redeliver(r))
    \/ \E g \in Resolution : k = <<"resolve", g>> /\ Resolve(g)
    \/ k = RunJob(run.epoch + 1) /\ Retrigger

\* A step that neither job nor worker takes part in.
Elsewhere ==
    \/ \E q \in Question : Sender(q)
    \/ Approve \/ Reject \/ MarkHandled \/ Deliver
    \/ UNCHANGED vars

\* Every step is of one of these kinds.
LEMMA StepKinds ==
    ASSUME Typed, [Next]_vars
    PROVE  \/ \E t \in Thread : (\E k \in Key : Claim(t, k)) \/ Handles(t) \/ Settle(t) \/ Crash(t)
           \/ \E k \in Key : LeaseExpires(k) \/ BackoffElapses(k) \/ Reap(k) \/ Enqueues(k)
           \/ Elsewhere
  <1>1. Retrigger => RunJob(run.epoch + 1) \in Key
    BY KeysAreKeys DEF Retrigger, RunJob, Epoch, Typed, TypeOK
  <1>2. Retrigger => \E k \in Key : Enqueues(k)
    BY <1>1 DEF Enqueues
  <1>3. Client => \E k \in Key : Enqueues(k)
    BY KeysAreKeys DEF Client, Enqueues
  <1>4. ASSUME NEW g \in Resolution, Resolve(g) PROVE \E k \in Key : Enqueues(k)
    BY <1>4, KeysAreKeys DEF Enqueues
  <1>. QED
    BY <1>2, <1>3, <1>4 DEF Next, WorkerStep, Handles, Elsewhere, Clock, Operator

LEMMA EnqueuesJoin ==
    ASSUME NEW k \in Key, Enqueues(k)
    PROVE  Joins(k) \/ UNCHANGED <<queue, worker>>
  BY DEF Enqueues, Joins, Answer, Redeliver, Resolve, Retrigger, queue, worker

LEMMA ElsewhereUntouched ==
    ASSUME Elsewhere
    PROVE  UNCHANGED <<queue, worker, authority>>
  BY DEF Elsewhere, Sender, AuthorizeQuestion, QuestionArrives, SettleQuestion, Approve,
         Reject, MarkHandled, Deliver, vars

LEMMA LeasedInit == Init => Leased
  <1>1. Init => Leases /\ Apart
    BY DEF Init, Leases, Apart, Busy
  <1>2. Init => Counted
    BY DEF Init, Counted, Enqueued, AbsentRow
  <1>. QED BY <1>1, <1>2, TypedInit DEF Leased

LEMMA LeasedStep ==
    ASSUME MaxOverruns = 0, Leased, [Next]_vars
    PROVE  Leased'
  <1>. Typed /\ Typed'
    BY TypedStep DEF Leased
  <1>. USE DEF Leased, Leases, Apart, Counted
  <1>1. ASSUME NEW t \in Thread, NEW k \in Key, Claim(t, k) PROVE Leased'
    <2>. DEFINE r == Claimed(job[k], minted')
    <2>1. r.state = "leased" /\ ~r.expired /\ r.token = minted' /\ r.attempts > 0
      BY <1>1 DEF Claimed, Row, Typed, TypeOK
    <2>2. \A u \in Thread : Busy(u) => carry[u].key # k
      BY <1>1 DEF Claim, Claimable, Holds
    <2>3. /\ job' = [job EXCEPT ![k] = r] /\ ~Busy(t)
          /\ carry' = [carry EXCEPT ![t] = [key |-> k, token |-> minted',
                                            attempts |-> job'[k].attempts]]
          /\ pc' = [pc EXCEPT ![t] = "opened"]
      BY <1>1 DEF Claim, Goto, Busy
    <2>. HIDE DEF r
    <2>4. job'[k] = r /\ \A l \in Key : l # k => job'[l] = job[l]
      BY <2>3 DEF Typed, TypeOK
    <2>5. \A u \in Thread : u # t => carry'[u] = carry[u] /\ (Busy(u)' <=> Busy(u))
      BY <2>3 DEF Busy, Typed, TypeOK
    <2>6. carry'[t] = [key |-> k, token |-> minted', attempts |-> job'[k].attempts]
      BY <2>3 DEF Typed, TypeOK
    <2>7. Leases'
      <3>. SUFFICES ASSUME NEW u \in Thread, Busy(u)'
                    PROVE  LET x == job'[carry'[u].key] IN
                           /\ Holds(x, carry'[u].token) /\ ~x.expired
                           /\ x.attempts = carry'[u].attempts
        OBVIOUS
      <3>1. CASE u = t
        BY <2>1, <2>4, <2>6, <3>1 DEF Holds
      <3>2. CASE u # t
        BY <2>2, <2>4, <2>5, <3>2 DEF Typed, TypeOK
      <3>. QED BY <3>1, <3>2
    <2>8. Apart'
      BY <2>2, <2>5, <2>6
    <2>9. Counted'
      BY <2>1, <2>4
    <2>. QED BY <2>7, <2>8, <2>9
  <1>2. ASSUME NEW t \in Thread, Handles(t) PROVE Leased'
    <2>1. Inner(t)
      BY <1>2, HandlesInside
    <2>2. \A u \in Thread : Busy(u)' => Busy(u)
      BY <2>1 DEF Inner, Busy, Typed, TypeOK
    <2>. QED BY <2>1, <2>2 DEF Inner, queue
  <1>3. ASSUME NEW t \in Thread, Settle(t) \/ Crash(t) PROVE Leased'
    <2>. DEFINE k == carry[t].key
    <2>1. Busy(t) /\ k \in Key
      BY <1>3 DEF Settle, Crash, Busy, Typed, TypeOK
    <2>2. \A u \in Thread : Busy(u)' => u # t /\ Busy(u) /\ carry'[u] = carry[u]
      BY <1>3 DEF Settle, Crash, Leave, Busy, Typed, TypeOK
    <2>3. \A l \in Key : l # k => job'[l] = job[l]
      BY <1>3 DEF Settle, Crash, queue, Typed, TypeOK
    <2>4. job'[k].state = "leased" => job'[k] = job[k]
      <3>1. /\ Settled(job[k], "done").state = "done" /\ Settled(job[k], "dead").state = "dead"
            /\ Retried(job[k]).state = "pending"
        BY <2>1, RowStates DEF Typed, TypeOK, JobState
      <3>2. \/ job' = job
            \/ \E r : job' = [job EXCEPT ![k] = r] /\ r.state # "leased"
        BY <1>3, <3>1 DEF Settle, Crash, queue
      <3>. QED BY <2>1, <3>2 DEF Typed, TypeOK
    <2>5. \A u \in Thread : Busy(u)' => carry[u].key # k
      BY <2>1, <2>2
    <2>6. Leases'
      BY <2>2, <2>3, <2>5 DEF Typed, TypeOK
    <2>7. Apart'
      BY <2>2
    <2>8. Counted'
      BY <2>3, <2>4
    <2>. QED BY <2>6, <2>7, <2>8
  <1>4. ASSUME NEW k \in Key, LeaseExpires(k) PROVE Leased'
    <2>1. \A u \in Thread : Busy(u) => carry[u].key # k
      <3>1. ~(\E u \in Thread : pc[u] # "idle" /\ carry[u].token = job[k].token)
        BY <1>4 DEF LeaseExpires, Typed, TypeOK
      <3>. QED BY <3>1 DEF Busy, Holds
    <2>2. \A l \in Key : l # k => job'[l] = job[l]
      BY <1>4 DEF LeaseExpires, Typed, TypeOK
    <2>3. job'[k].state = job[k].state /\ job'[k].attempts = job[k].attempts
      BY <1>4 DEF LeaseExpires, LeaseRanOut, Typed, TypeOK, Row
    <2>. QED BY <1>4, <2>1, <2>2, <2>3 DEF LeaseExpires, worker, Busy, Typed, TypeOK
  <1>5. ASSUME NEW k \in Key, BackoffElapses(k) PROVE Leased'
    <2>1. \A u \in Thread : Busy(u) => carry[u].key # k
      BY <1>5 DEF BackoffElapses, Busy, Holds
    <2>2. \A l \in Key : l # k => job'[l] = job[l]
      BY <1>5 DEF BackoffElapses, Typed, TypeOK
    <2>3. job'[k].state = job[k].state /\ job'[k].attempts = job[k].attempts
      BY <1>5 DEF BackoffElapses, BackoffElapsed, Typed, TypeOK, Row
    <2>. QED BY <1>5, <2>1, <2>2, <2>3 DEF BackoffElapses, worker, Busy, Typed, TypeOK
  <1>6. ASSUME NEW k \in Key, Reap(k) PROVE Leased'
    <2>1. \A u \in Thread : Busy(u) => carry[u].key # k
      BY <1>6 DEF Reap, ExpiredFinal, Busy, Holds
    <2>2. \A l \in Key : l # k => job'[l] = job[l]
      BY <1>6 DEF Reap, Typed, TypeOK
    <2>3. job'[k].state = "dead"
      BY <1>6, RowStates DEF Reap, Typed, TypeOK, JobState
    <2>. QED BY <1>6, <2>1, <2>2, <2>3 DEF Reap, worker, Busy, Typed, TypeOK
  <1>7. ASSUME NEW k \in Key, Enqueues(k) PROVE Leased'
    <2>1. CASE Joins(k)
      <3>1. job[k].state # "absent" => job' = job
        BY <2>1 DEF Joins, Enqueued, Typed, TypeOK
      <3>2. \A l \in Key : l # k => job'[l] = job[l]
        BY <2>1 DEF Joins, Typed, TypeOK
      <3>3. job[k].state = "absent" => job'[k].state = "pending"
        <4>1. job[k] \in Row(MaxAttempts) /\ job' = [job EXCEPT ![k] = Enqueued(@, TRUE)]
          BY <2>1 DEF Joins, Typed, TypeOK
        <4>2. job[k].state = "absent" => Enqueued(job[k], TRUE).state = "pending"
          BY <4>1 DEF Enqueued, Row
        <4>. QED BY <4>1, <4>2 DEF Typed, TypeOK
      <3>4. job[k].state = "absent" => \A u \in Thread : Busy(u) => carry[u].key # k
        BY DEF Holds
      <3>5. UNCHANGED <<pc, carry>>
        BY <2>1 DEF Joins, worker
      <3>6. Leases'
        BY <3>1, <3>2, <3>4, <3>5 DEF Busy, Typed, TypeOK
      <3>7. Apart'
        BY <3>5 DEF Busy
      <3>8. Counted'
        BY <3>1, <3>2, <3>3
      <3>. QED BY <3>6, <3>7, <3>8
    <2>2. CASE UNCHANGED <<queue, worker>>
      BY <2>2 DEF queue, worker, Busy
    <2>. QED BY <1>7, <2>1, <2>2, EnqueuesJoin
  <1>8. CASE Elsewhere
    BY <1>8, ElsewhereUntouched DEF queue, worker, Busy
  <1>. HIDE DEF Leased
  <1>. QED
    BY <1>1, <1>2, <1>3, <1>4, <1>5, <1>6, <1>7, <1>8, StepKinds

-------------------------------------------------------------------------------
(* No run is lost *)

\* A resolution the authority has passed over.
Superseded(k) == k[1] = "resolve" /\ k[2] \notin authority

\* The handler of a superseded resolution does not raise before it finds that out.
SupersededNeverRaises ==
    \A t \in Thread : HandlerRaises(t) => ~Superseded(carry[t].key)

\* A superseded resolution never gets past its handler's gate.
Gate ==
    \A t \in Thread : Busy(t) /\ Superseded(carry[t].key) =>
        pc[t] = "opened" \/ (pc[t] = "settling" /\ result[t] = "ok")

\* Jobs of conversations to come have no row yet.
Ahead == \A e \in Epoch : e > run.epoch => job[<<"run", e>>].state = "absent"

OnItsWay == run.status \in {"received", "extracting"}

\* The worker will take the run on from where it is, or fail with it in hand.
Drives(t) ==
    \/ pc[t] = "opened" /\ (Again(t) \/ (Kind(t) = "run" /\ run.status = "received"))
    \/ pc[t] \in {"entering", "resuming"} /\ run.status = "received"
    \/ pc[t] = "rewinding" /\ run.status = "extracting"
    \/ pc[t] \in InPipeline
    \/ pc[t] = "settling" /\ result[t] # "ok"

\* The job will not end before the run is off its way, unless another job minds it then:
\* waiting it will be claimed by a worker that drives the run, abandoned it will be
\* claimed again or reaped, and held it is held by such a worker.
Minds(k) ==
    /\ ~Superseded(k)
    /\ \/ /\ job[k].state = "pending"
          /\ job[k].attempts > 0 \/ (k[1] = "run" /\ run.status = "received")
       \/ job[k].state = "leased" /\ \A t \in Thread : Busy(t) => carry[t].key # k
       \/ \E t \in Thread : Busy(t) /\ carry[t].key = k /\ Drives(t)

Minded == OnItsWay => \E k \in Key : Minds(k)

Kept == Leased /\ Gate /\ Ahead /\ Minded

LEMMA KeptInit == Init => Kept
  <1>. SUFFICES ASSUME Init PROVE Kept
    OBVIOUS
  <1>1. Gate
    BY DEF Init, Gate, Busy
  <1>2. Ahead
    <2>1. run.epoch = 0 /\ \A e \in Epoch : e > 0 => job[<<"run", e>>] = AbsentRow
      <3>1. \A e \in Epoch : e > 0 => <<"run", e>> \in Key /\ <<"run", e>> # <<"run", 0>>
        BY KeysAreKeys DEF Epoch
      <3>. QED BY <3>1 DEF Init
    <2>. QED BY <2>1 DEF Ahead, AbsentRow
  <1>3. Minds(<<"run", 0>>) /\ <<"run", 0>> \in Key
    <2>1. job[<<"run", 0>>] = Enqueued(AbsentRow, TRUE) /\ <<"run", 0>> \in Key
      BY KeysAreKeys, Defaults DEF Init
    <2>2. job[<<"run", 0>>].state = "pending"
      BY <2>1 DEF Enqueued, AbsentRow
    <2>. QED BY <2>1, <2>2 DEF Init, Minds, Superseded
  <1>. QED
    BY <1>1, <1>2, <1>3, LeasedInit DEF Kept, Minded

\* Who is at a leased job that minds the run drives it.
LEMMA HolderDrives ==
    ASSUME Leased, NEW t \in Thread, Busy(t), Minds(carry[t].key)
    PROVE  Drives(t)
  BY DEF Leased, Leases, Apart, Minds, Holds

LEMMA MindsIsOpen ==
    ASSUME Leased, NEW k \in Key, Minds(k)
    PROVE  Open(job[k])
  BY DEF Leased, Leases, Minds, Holds, Open

\* A job nobody touches goes on minding a run whose status stays.
LEMMA MindsOn ==
    ASSUME NEW k \in Key, Minds(k),
           job'[k].state = job[k].state, job'[k].attempts = job[k].attempts,
           run'.status = run.status, authority \subseteq authority',
           \A t \in Thread : (Busy(t) /\ carry[t].key = k) \/ (Busy(t)' /\ carry'[t].key = k)
               => pc'[t] = pc[t] /\ carry'[t] = carry[t] /\ result'[t] = result[t]
    PROVE  Minds(k)'
  <1>1. ~Superseded(k)'
    BY DEF Minds, Superseded
  <1>2. CASE job[k].state = "pending" /\ (job[k].attempts > 0 \/ (k[1] = "run" /\ run.status = "received"))
    BY <1>1, <1>2 DEF Minds
  <1>3. CASE job[k].state = "leased" /\ \A t \in Thread : Busy(t) => carry[t].key # k
    BY <1>1, <1>3 DEF Minds, Busy
  <1>4. ASSUME NEW t \in Thread, Busy(t), carry[t].key = k, Drives(t) PROVE Minds(k)'
    <2>1. pc'[t] = pc[t] /\ carry'[t] = carry[t] /\ result'[t] = result[t]
      BY <1>4
    <2>2. Busy(t)' /\ carry'[t].key = k
      BY <1>4, <2>1 DEF Busy
    <2>3. Drives(t)'
      BY <1>4, <2>1 DEF Drives, Again, Kind
    <2>. QED BY <1>1, <2>2, <2>3 DEF Minds
  <1>. QED BY <1>2, <1>3, <1>4 DEF Minds

\* A step of the worker at one job: a run it finds or puts on its way, it drives.
LEMMA InnerMinded ==
    ASSUME Kept, NEW t \in Thread, Inner(t),
           OnItsWay' /\ run'.status # run.status
               => Drives(t)' /\ ~Superseded(carry[t].key),
           OnItsWay' /\ run'.status = run.status /\ Drives(t) /\ ~Superseded(carry[t].key)
               => Drives(t)'
    PROVE  Minded'
  <1>. DEFINE c == carry[t].key
  <1>0. c \in Key /\ Busy(t) /\ Busy(t)' /\ carry' = carry /\ job' = job /\ authority' = authority
    BY DEF Kept, Leased, Typed, TypeOK, Inner, Busy, queue
  <1>1. \A u \in Thread : u # t => pc'[u] = pc[u] /\ result'[u] = result[u]
    BY DEF Kept, Leased, Typed, TypeOK, Inner
  <1>. SUFFICES ASSUME OnItsWay' PROVE \E k \in Key : Minds(k)'
    BY DEF Minded
  <1>2. Drives(t)' /\ ~Superseded(c) => Minds(c)'
    BY <1>0 DEF Minds, Superseded
  <1>3. CASE run'.status = run.status
    <2>1. PICK k \in Key : Minds(k)
      BY <1>3 DEF Kept, Minded, OnItsWay
    <2>2. CASE k = c
      <3>1. Drives(t) /\ ~Superseded(c)
        BY <1>0, <2>1, <2>2, HolderDrives DEF Kept, Minds
      <3>. QED BY <1>0, <1>2, <1>3, <3>1
    <2>3. CASE k # c
      <3>1. Minds(k)'
        BY <1>0, <1>1, <1>3, <2>1, <2>3, MindsOn DEF Busy
      <3>. QED BY <3>1
    <2>. QED BY <2>2, <2>3
  <1>. QED BY <1>0, <1>2, <1>3

LEMMA HandlesMinded ==
    ASSUME Kept, NEW t \in Thread, Handles(t)
    PROVE  Minded'
  <1>. Inner(t) /\ Typed
    BY HandlesInside DEF Kept, Leased
  <1>. DEFINE c == carry[t].key
  <1>0. c \in Key /\ carry' = carry
    BY DEF Inner, Typed, TypeOK
  <1>1. pc[t] \notin {"idle", "opened", "settling"} => ~Superseded(c)
    BY DEF Kept, Gate, Busy
  <1>2. Kind(t)' = Kind(t) /\ (Again(t)' <=> Again(t))
    BY <1>0 DEF Kind, Again
  <1>. USE DEF Goto, Return, SetStatus, ClaimStatus
  <1>3. ASSUME pc'[t] \in InPipeline, ~Superseded(c) PROVE Minded'
    BY <1>3, InnerMinded DEF Drives
  <1>4. ASSUME run'.status \notin {"received", "extracting"} PROVE Minded'
    BY <1>4 DEF Minded, OnItsWay
  <1>5. CASE OpenRun(t)
    <2>1. Kind(t) = "run" /\ ~Superseded(c) /\ pc[t] = "opened" /\ pc'[t] = "entering"
      BY <1>5 DEF OpenRun, Kind, Superseded, Typed, TypeOK
    <2>2. run'.status = IF Again(t) /\ run.status = "extracting" THEN "received" ELSE run.status
      BY <1>5 DEF OpenRun, Rewound, Typed, TypeOK
    <2>3. OnItsWay' /\ run'.status # run.status => Drives(t)' /\ ~Superseded(carry[t].key)
      BY <2>1, <2>2 DEF Drives
    <2>4. OnItsWay' /\ run'.status = run.status /\ Drives(t) => Drives(t)'
      BY <2>1, <2>2 DEF Drives, InPipeline, OnItsWay
    <2>. QED BY <2>3, <2>4, InnerMinded
  <1>6. CASE EnterRun(t)
    <2>1. CASE pc'[t] = "loading"
      BY <1>1, <1>3, <1>6, <2>1 DEF EnterRun, InPipeline
    <2>2. CASE pc'[t] # "loading"
      <3>1. pc[t] = "entering" /\ run.status # "received" /\ run' = run
        BY <1>6, <2>2 DEF EnterRun, Typed, TypeOK
      <3>2. ~Drives(t)
        BY <3>1 DEF Drives, InPipeline
      <3>. QED BY <3>1, <3>2, InnerMinded
    <2>. QED BY <2>1, <2>2
  <1>7. CASE Load(t)
    BY <1>1, <1>3, <1>7 DEF Load, InPipeline, Typed, TypeOK
  <1>8. ASSUME OpenReply(t) \/ OpenResolution(t) PROVE Minded'
    <2>1. pc[t] = "opened" /\ Kind(t) # "run" /\ run' = run
      BY <1>8 DEF OpenReply, OpenResolution, business
    <2>2. ASSUME OnItsWay, Drives(t), ~Superseded(c) PROVE Drives(t)'
      <3>1. Again(t)
        BY <2>1, <2>2 DEF Drives, InPipeline
      <3>2. \E rest \in {"awaiting_reply", "needs_operator"} : LookForResume(t, rest)
        BY <1>8, <2>2 DEF OpenReply, OpenResolution, Superseded, Kind
      <3>3. \/ run.status = "received" /\ pc'[t] = "resuming"
            \/ run.status = "extracting" /\ pc'[t] = "rewinding"
        BY <2>2, <3>1, <3>2 DEF LookForResume, OnItsWay, Typed, TypeOK
      <3>. QED BY <2>1, <3>3 DEF Drives
    <2>. QED BY <2>1, <2>2, InnerMinded DEF OnItsWay
  <1>9. CASE TakeRun(t)
    <2>1. pc[t] \in {"taking", "rewinding"} /\ ~Superseded(c)
      BY <1>1, <1>9 DEF TakeRun
    <2>2. CASE run' = run
      <3>1. Drives(t) => run.status = "extracting" /\ pc[t] = "rewinding"
        BY <2>1 DEF Drives, InPipeline
      <3>2. Drives(t) => FALSE
        BY <1>9, <2>2, <3>1 DEF TakeRun, Rewound, Typed, TypeOK
      <3>. QED BY <2>2, <3>2, InnerMinded
    <2>3. CASE run' # run
      <3>1. run'.status = "received" /\ pc'[t] = "resuming"
        BY <1>9, <2>1, <2>3 DEF TakeRun, Rewound, Typed, TypeOK
      <3>. QED BY <2>1, <3>1, InnerMinded DEF Drives
    <2>. QED BY <2>2, <2>3
  <1>10. CASE Resume(t)
    <2>1. CASE run.status = "received"
      BY <1>1, <1>3, <1>10, <2>1 DEF Resume, InPipeline, Typed, TypeOK
    <2>2. CASE run.status # "received"
      <3>1. pc[t] = "resuming" /\ run' = run
        BY <1>10, <2>2 DEF Resume
      <3>. QED BY <2>2, <3>1, InnerMinded DEF Drives, InPipeline
    <2>. QED BY <2>1, <2>2
  <1>11. CASE Consume(t)
    BY <1>1, <1>3, <1>11 DEF Consume, InPipeline, Typed, TypeOK
  <1>12. CASE Process(t)
    BY <1>4, <1>12 DEF Process, Typed, TypeOK
  <1>13. CASE \E p \in Purpose : RequestClarification(t, p)
    BY <1>1, <1>3, <1>13 DEF RequestClarification, InPipeline, Typed, TypeOK
  <1>14. CASE Ask(t)
    <2>1. run'.status \in {"needs_operator", "awaiting_reply"} \/ pc'[t] = "drafting"
      BY <1>14 DEF Ask, PauseAfter, Typed, TypeOK
    <2>. QED BY <1>1, <1>3, <1>4, <1>14, <2>1 DEF Ask, InPipeline
  <1>15. CASE Reserve(t)
    BY <1>4, <1>15 DEF Reserve, PauseAfter, Typed, TypeOK
  <1>16. ASSUME StageFails(t) \/ HandlerRaises(t) PROVE Minded'
    <2>1. pc'[t] = "settling" /\ result'[t] # "ok" /\ run' = run
      BY <1>16 DEF StageFails, HandlerRaises, business, Typed, TypeOK
    <2>. QED BY <2>1, InnerMinded DEF Drives
  <1>. QED
    BY <1>5, <1>6, <1>7, <1>8, <1>9, <1>10, <1>11, <1>12, <1>13, <1>14, <1>15, <1>16
    DEF Handles

LEMMA SettleMinded ==
    ASSUME Kept, NEW t \in Thread, Settle(t)
    PROVE  Minded'
  <1>. PICK c \in Key : c = carry[t].key
    BY DEF Kept, Leased, Typed, TypeOK
  <1>0. /\ Typed /\ Leased /\ c \in Key /\ Busy(t) /\ pc[t] = "settling"
        /\ Holds(job[c], carry[t].token) /\ job[c].attempts > 0
    BY DEF Kept, Leased, Leases, Counted, Holds, Settle, Busy, Typed, TypeOK
  <1>1. \A u \in Thread : /\ u # t => /\ pc'[u] = pc[u] /\ result'[u] = result[u]
                                      /\ carry'[u] = carry[u]
                          /\ Busy(u)' => u # t
    BY <1>0 DEF Settle, Leave, Busy, Typed, TypeOK
  <1>2. \A k \in Key : k # c => job'[k] = job[k]
    BY <1>0 DEF Settle, Typed, TypeOK
  <1>3. authority' = authority
    BY DEF Settle, inbox
  <1>4. ASSUME run' = run PROVE \A k \in Key : k # c /\ Minds(k) => Minds(k)'
    <2>. TAKE k \in Key
    <2>. HAVE k # c /\ Minds(k)
    <2>1. \A u \in Thread : (Busy(u) /\ carry[u].key = k) \/ (Busy(u)' /\ carry'[u].key = k)
              => pc'[u] = pc[u] /\ carry'[u] = carry[u] /\ result'[u] = result[u]
      BY <1>1
    <2>. QED BY <1>2, <1>3, <1>4, <2>1, MindsOn
  <1>5. result[t] # "ok" => ~Superseded(c)
    BY <1>0 DEF Kept, Gate
  <1>6. ASSUME run' = run, ~Drives(t) PROVE Minded'
    <2>1. Minds(c) => Drives(t)
      BY <1>0, HolderDrives
    <2>. QED BY <1>4, <1>6, <2>1 DEF Kept, Minded, OnItsWay
  <1>7. CASE result[t] = "ok"
    <2>1. run' = run /\ ~Drives(t)
      BY <1>0, <1>7 DEF Settle, Drives, InPipeline
    <2>. QED BY <1>6, <2>1
  <1>8. CASE result[t] # "ok" /\ run.status # "extracting"
    <2>1. run' = run /\ job' = job
      BY <1>0, <1>8 DEF Settle, InFlight
    <2>2. Minds(c)'
      <3>1. \A u \in Thread : Busy(u)' => carry'[u].key # c
        <4>1. \A u \in Thread : u # t /\ Busy(u) => carry[u].key # c
          BY <1>0 DEF Leased, Apart
        <4>. QED BY <1>1, <4>1 DEF Busy
      <3>. QED BY <1>0, <1>3, <1>5, <1>8, <2>1, <3>1 DEF Minds, Superseded, Holds
    <2>. QED BY <1>0, <2>2 DEF Minded
  <1>9. CASE result[t] # "ok" /\ run.status = "extracting"
    <2>1. CASE run'.status = "error"
      BY <2>1 DEF Minded, OnItsWay
    <2>2. CASE run'.status # "error"
      <3>1. job' = [job EXCEPT ![c] = Retried(@)]
        BY <1>0, <1>9, <2>2 DEF Settle, InFlight, Failed, Typed, TypeOK
      <3>2. Retried(job[c]).state = "pending" /\ Retried(job[c]).attempts = job[c].attempts
        BY <1>0 DEF Retried, Settled, Row, Typed, TypeOK
      <3>3. Minds(c)'
        BY <1>0, <1>3, <1>5, <1>9, <3>1, <3>2 DEF Minds, Superseded, Typed, TypeOK
      <3>. QED BY <1>0, <3>3 DEF Minded
    <2>. QED BY <2>1, <2>2
  <1>. QED BY <1>7, <1>8, <1>9

LEMMA ClaimMinded ==
    ASSUME Kept, NEW t \in Thread, NEW c \in Key, Claim(t, c)
    PROVE  Minded'
  <1>0. Typed /\ Leased /\ run' = run /\ authority' = authority /\ pc[t] = "idle"
    BY DEF Kept, Leased, Claim, business
  <1>1. \A k \in Key : k # c => job'[k] = job[k]
    BY <1>0 DEF Claim, Typed, TypeOK
  <1>2. /\ pc' = [pc EXCEPT ![t] = "opened"] /\ result' = result
        /\ \A u \in Thread : u # t => carry'[u] = carry[u]
        /\ carry'[t].key = c /\ carry'[t].attempts = job'[c].attempts
    BY <1>0 DEF Claim, Goto, Typed, TypeOK
  <1>3. job'[c].attempts = job[c].attempts + 1 /\ job[c].attempts \in Nat
    BY <1>0 DEF Claim, Claimed, Row, Typed, TypeOK
  <1>. SUFFICES ASSUME NEW k \in Key, Minds(k), OnItsWay PROVE Minds(k)'
    BY <1>0 DEF Kept, Minded, OnItsWay
  <1>4. CASE k # c
    <2>1. \A u \in Thread : (Busy(u) /\ carry[u].key = k) \/ (Busy(u)' /\ carry'[u].key = k)
              => pc'[u] = pc[u] /\ carry'[u] = carry[u] /\ result'[u] = result[u]
      BY <1>0, <1>2, <1>4 DEF Busy, Typed, TypeOK
    <2>. QED BY <1>0, <1>1, <1>4, <2>1, MindsOn
  <1>5. CASE k = c
    <2>1. \A u \in Thread : Busy(u) => carry[u].key # c
      BY <1>0 DEF Claim, Claimable, Leased, Leases, Holds
    <2>2. job[c].attempts > 0 \/ (c[1] = "run" /\ run.status = "received")
      BY <1>0, <1>5, <2>1 DEF Minds, Leased, Counted
    <2>3. Busy(t)' /\ pc'[t] = "opened"
      BY <1>0, <1>2 DEF Busy, Typed, TypeOK
    <2>4. Drives(t)'
      BY <1>0, <1>2, <1>3, <2>2, <2>3 DEF Drives, Again, Kind
    <2>. QED BY <1>0, <1>2, <1>5, <2>3, <2>4 DEF Minds, Superseded
  <1>. QED BY <1>4, <1>5

LEMMA CrashMinded ==
    ASSUME Kept, NEW t \in Thread, Crash(t)
    PROVE  Minded'
  <1>. DEFINE c == carry[t].key
  <1>0. /\ Typed /\ Leased /\ run' = run /\ authority' = authority /\ job' = job /\ c \in Key
        /\ Busy(t) /\ job[c].state = "leased"
    BY DEF Kept, Leased, Leases, Holds, Crash, business, queue, Busy, Typed, TypeOK
  <1>1. \A u \in Thread : /\ u # t => /\ pc'[u] = pc[u] /\ result'[u] = result[u]
                                      /\ carry'[u] = carry[u]
                          /\ Busy(u)' => u # t
    BY <1>0 DEF Crash, Leave, Busy, Typed, TypeOK
  <1>. SUFFICES ASSUME NEW k \in Key, Minds(k) PROVE Minds(k)'
    BY <1>0 DEF Kept, Minded, OnItsWay
  <1>2. CASE k # c
    <2>1. \A u \in Thread : (Busy(u) /\ carry[u].key = k) \/ (Busy(u)' /\ carry'[u].key = k)
              => pc'[u] = pc[u] /\ carry'[u] = carry[u] /\ result'[u] = result[u]
      BY <1>1, <1>2
    <2>. QED BY <1>0, <2>1, MindsOn
  <1>3. CASE k = c
    <2>1. \A u \in Thread : u # t /\ Busy(u) => carry[u].key # c
      BY <1>0 DEF Leased, Apart
    <2>2. \A u \in Thread : Busy(u)' => carry'[u].key # c
      BY <1>1, <2>1 DEF Busy
    <2>. QED BY <1>0, <1>3, <2>2 DEF Minds, Superseded
  <1>. QED BY <1>2, <1>3

LEMMA RowMinded ==
    ASSUME Kept, NEW c \in Key, LeaseExpires(c) \/ BackoffElapses(c) \/ Reap(c) \/ Enqueues(c)
    PROVE  Minded'
  <1>0. Typed /\ Leased
    BY DEF Kept, Leased
  <1>1. UNCHANGED worker /\ authority \subseteq authority'
    BY DEF LeaseExpires, BackoffElapses, Reap, Enqueues, Answer, Redeliver, Resolve, Retrigger
  <1>2. CASE run'.status = run.status /\ job'[c].state = job[c].state /\ job'[c].attempts = job[c].attempts
             /\ \A k \in Key : k # c => job'[k] = job[k]
    <2>1. ASSUME NEW k \in Key, Minds(k) PROVE Minds(k)'
      BY <1>1, <1>2, <2>1, MindsOn DEF worker
    <2>. QED BY <1>2, <2>1 DEF Kept, Minded, OnItsWay
  <1>3. CASE LeaseExpires(c)
    BY <1>0, <1>2, <1>3 DEF LeaseExpires, LeaseRanOut, business, Row, Typed, TypeOK
  <1>4. CASE BackoffElapses(c)
    BY <1>0, <1>2, <1>4 DEF BackoffElapses, BackoffElapsed, business, Row, Typed, TypeOK
  <1>5. CASE Reap(c)
    <2>1. run'.status \notin {"received", "extracting"}
      BY <1>0, <1>5 DEF Reap, ReaperErrs, Failed, Typed, TypeOK
    <2>. QED BY <2>1 DEF Minded, OnItsWay
  <1>6. CASE Enqueues(c)
    <2>1. CASE Retrigger /\ c = RunJob(run.epoch + 1)
      <3>1. run.epoch + 1 \in Epoch /\ run.epoch + 1 > run.epoch
        BY <1>0, <2>1 DEF Retrigger, Epoch, Typed, TypeOK
      <3>2. job[c].state = "absent"
        BY <2>1, <3>1 DEF Kept, Ahead, RunJob
      <3>3. job'[c].state = "pending"
        BY <1>0, <2>1, <3>2 DEF Retrigger, Enqueued, Row, Typed, TypeOK
      <3>4. run'.status = "received" /\ c[1] = "run"
        BY <1>0, <2>1 DEF Retrigger, RunJob, Typed, TypeOK
      <3>5. Minds(c)'
        BY <3>3, <3>4 DEF Minds, Superseded
      <3>. QED BY <3>5 DEF Minded
    <2>2. CASE ~(Retrigger /\ c = RunJob(run.epoch + 1))
      <3>1. run' = run
        BY <1>6, <2>2 DEF Enqueues, Answer, Redeliver, Resolve, business
      <3>2. CASE UNCHANGED <<queue, worker>>
        BY <1>2, <3>1, <3>2 DEF queue
      <3>3. CASE Joins(c) /\ job[c].state # "absent"
        <4>1. job' = job
          BY <1>0, <3>3 DEF Joins, Enqueued, Typed, TypeOK
        <4>. QED BY <1>2, <3>1, <4>1
      <3>4. CASE Joins(c) /\ job[c].state = "absent"
        <4>1. \A k \in Key : Minds(k) => k # c
          BY <1>0, <3>4, MindsIsOpen DEF Open
        <4>2. \A k \in Key : k # c => job'[k] = job[k]
          BY <1>0, <3>4 DEF Joins, Typed, TypeOK
        <4>3. ASSUME NEW k \in Key, Minds(k) PROVE Minds(k)'
          BY <1>1, <3>1, <4>1, <4>2, <4>3, MindsOn DEF worker
        <4>. QED BY <3>1, <4>3 DEF Kept, Minded, OnItsWay
      <3>. QED BY <1>6, <3>2, <3>3, <3>4, EnqueuesJoin
    <2>. QED BY <2>1, <2>2
  <1>. QED BY <1>3, <1>4, <1>5, <1>6

LEMMA ElsewhereMinded ==
    ASSUME Kept, Elsewhere
    PROVE  Minded'
  <1>0. Typed
    BY DEF Kept, Leased
  <1>1. run'.status \in {"received", "extracting"} => run'.status = run.status
    BY <1>0 DEF Elsewhere, Sender, AuthorizeQuestion, QuestionArrives, SettleQuestion, Approve,
         Reject, MarkHandled, Deliver, ClaimStatus, SetStatus, vars, business, Typed, TypeOK
  <1>2. UNCHANGED <<queue, worker, authority>>
    BY ElsewhereUntouched
  <1>3. ASSUME OnItsWay', NEW k \in Key, Minds(k) PROVE Minds(k)'
    BY <1>1, <1>2, <1>3, MindsOn DEF queue, worker, OnItsWay
  <1>. QED BY <1>1, <1>3 DEF Kept, Minded, OnItsWay

LEMMA GateStep ==
    ASSUME Kept, [Next]_vars, [SupersededNeverRaises]_vars
    PROVE  Gate'
  <1>. Typed /\ Leased
    BY DEF Kept, Leased
  <1>1. authority \subseteq authority'
    <2>1. ASSUME NEW t \in Thread, (\E k \in Key : Claim(t, k)) \/ Handles(t) \/ Settle(t) \/ Crash(t)
          PROVE  authority' = authority
      BY <2>1, HandlesInside DEF Claim, Inner, Settle, Crash
    <2>2. ASSUME NEW k \in Key, LeaseExpires(k) \/ BackoffElapses(k) \/ Reap(k) \/ Enqueues(k)
          PROVE  authority \subseteq authority'
      BY <2>2 DEF LeaseExpires, BackoffElapses, Reap, Enqueues, Answer, Redeliver, Resolve, Retrigger
    <2>. QED BY <2>1, <2>2, StepKinds, ElsewhereUntouched
  <1>2. ASSUME NEW t \in Thread, Busy(t)', pc'[t] = pc[t], carry'[t] = carry[t],
               result'[t] = result[t], Superseded(carry[t].key)'
        PROVE  pc'[t] = "opened" \/ (pc'[t] = "settling" /\ result'[t] = "ok")
    BY <1>1, <1>2 DEF Kept, Gate, Busy, Superseded
  <1>3. ASSUME NEW t \in Thread, NEW k \in Key, Claim(t, k) PROVE Gate'
    <2>1. pc'[t] = "opened" /\ result' = result
      BY <1>3 DEF Claim, Goto, Typed, TypeOK
    <2>2. \A u \in Thread : u # t => pc'[u] = pc[u] /\ carry'[u] = carry[u]
      BY <1>3 DEF Claim, Goto, Typed, TypeOK
    <2>. QED BY <1>2, <2>1, <2>2 DEF Gate
  <1>4. ASSUME NEW t \in Thread, Handles(t) PROVE Gate'
    <2>1. /\ Inner(t) /\ carry' = carry
          /\ \A u \in Thread : u # t => pc'[u] = pc[u] /\ result'[u] = result[u]
      BY <1>4, HandlesInside DEF Inner, Typed, TypeOK
    <2>2. ASSUME Superseded(carry[t].key)'
          PROVE  pc'[t] = "settling" /\ result'[t] = "ok"
      <3>1. Superseded(carry[t].key)
        BY <1>1, <2>1, <2>2 DEF Superseded
      <3>2. pc[t] = "opened" \/ (pc[t] = "settling" /\ result[t] = "ok")
        BY <2>1, <3>1 DEF Kept, Gate, Inner
      <3>3. ~HandlerRaises(t)
        <4>1. vars' # vars \/ pc' = pc
          BY DEF vars, worker
        <4>2. CASE vars' = vars
          BY <4>2 DEF HandlerRaises, Return, Goto, vars, worker, Typed, TypeOK
        <4>. QED BY <3>1, <4>2 DEF SupersededNeverRaises
      <3>4. CASE OpenResolution(t)
        BY <3>1, <3>4 DEF OpenResolution, Superseded, Return, Goto, Typed, TypeOK
      <3>5. ~OpenRun(t) /\ ~OpenReply(t)
        BY <3>1 DEF OpenRun, OpenReply, Superseded, Kind
      <3>. QED
        BY <1>4, <3>2, <3>3, <3>4, <3>5 DEF Handles, EnterRun, Load, TakeRun, Resume, Consume, Process,
           RequestClarification, Ask, Reserve, StageFails, InPipeline
    <2>. QED BY <1>2, <2>1, <2>2 DEF Gate
  <1>5. ASSUME NEW t \in Thread, Settle(t) \/ Crash(t) PROVE Gate'
    <2>1. \A u \in Thread : Busy(u)' => pc'[u] = pc[u] /\ carry'[u] = carry[u] /\ result'[u] = result[u]
      BY <1>5 DEF Settle, Crash, Leave, Busy, Typed, TypeOK
    <2>. QED BY <1>2, <2>1 DEF Gate
  <1>6. ASSUME NEW k \in Key, LeaseExpires(k) \/ BackoffElapses(k) \/ Reap(k) \/ Enqueues(k)
        PROVE  Gate'
    <2>1. UNCHANGED <<pc, carry, result>>
      BY <1>6 DEF LeaseExpires, BackoffElapses, Reap, Enqueues, Answer, Redeliver, Resolve,
         Retrigger, worker
    <2>. QED BY <1>2, <2>1 DEF Gate
  <1>7. CASE Elsewhere
    <2>1. UNCHANGED <<pc, carry, result>>
      BY <1>7, ElsewhereUntouched DEF worker
    <2>. QED BY <1>2, <2>1 DEF Gate
  <1>. QED BY <1>3, <1>4, <1>5, <1>6, <1>7, StepKinds

\* Only an enqueue gives a job its row.
LEMMA AbsentStays ==
    ASSUME Leased, [Next]_vars, NEW k \in Key, job[k].state = "absent", ~Enqueues(k)
    PROVE  job'[k] = job[k]
  <1>. Typed
    BY DEF Leased
  <1>1. ASSUME NEW t \in Thread, NEW c \in Key, Claim(t, c) PROVE job'[k] = job[k]
    BY <1>1 DEF Claim, Claimable, Typed, TypeOK
  <1>2. ASSUME NEW t \in Thread, Handles(t) PROVE job'[k] = job[k]
    BY <1>2, HandlesInside DEF Inner, queue
  <1>3. ASSUME NEW t \in Thread, Settle(t) \/ Crash(t) PROVE job'[k] = job[k]
    <2>1. carry[t].key # k
      BY <1>3 DEF Leased, Leases, Holds, Busy, Settle, Crash
    <2>. QED BY <1>3, <2>1 DEF Settle, Crash, queue, Typed, TypeOK
  <1>4. ASSUME NEW c \in Key, LeaseExpires(c) \/ BackoffElapses(c) \/ Reap(c) PROVE job'[k] = job[k]
    <2>1. c # k
      BY <1>4 DEF LeaseExpires, BackoffElapses, Reap, ExpiredFinal
    <2>. QED BY <1>4, <2>1 DEF LeaseExpires, BackoffElapses, Reap, Typed, TypeOK
  <1>5. ASSUME NEW c \in Key, Enqueues(c) PROVE job'[k] = job[k]
    <2>1. c # k
      BY <1>5
    <2>. QED BY <1>5, <2>1, EnqueuesJoin DEF Joins, queue, Typed, TypeOK
  <1>6. CASE Elsewhere
    BY <1>6, ElsewhereUntouched DEF queue
  <1>. QED BY <1>1, <1>2, <1>3, <1>4, <1>5, <1>6, StepKinds

LEMMA EpochGrows ==
    ASSUME Typed, [Next]_vars
    PROVE  run'.epoch = run.epoch \/ (Retrigger /\ run'.epoch = run.epoch + 1)
  <1>. USE DEF Typed, TypeOK
  <1>1. ASSUME NEW t \in Thread, (\E k \in Key : Claim(t, k)) \/ Settle(t) \/ Crash(t)
        PROVE  run'.epoch = run.epoch
    BY <1>1 DEF Claim, Settle, Crash, SetStatus, Failed, business
  <1>2. ASSUME NEW t \in Thread, Handles(t) PROVE run'.epoch = run.epoch
    <2>1. run'.epoch = run.epoch \/ run'.epoch = Rewound.epoch
      BY <1>2 DEF Handles, OpenRun, EnterRun, Load, OpenReply, OpenResolution, TakeRun, Resume,
         Consume, Process, RequestClarification, Ask, Reserve, PauseAfter, StageFails, HandlerRaises,
         ClaimStatus, SetStatus, business
    <2>. QED BY <2>1 DEF Rewound
  <1>3. ASSUME NEW k \in Key, LeaseExpires(k) \/ BackoffElapses(k) \/ Reap(k)
        PROVE  run'.epoch = run.epoch
    BY <1>3 DEF LeaseExpires, BackoffElapses, Reap, Failed, business
  <1>4. ASSUME NEW k \in Key, Enqueues(k)
        PROVE  run'.epoch = run.epoch \/ (Retrigger /\ run'.epoch = run.epoch + 1)
    BY <1>4 DEF Enqueues, Answer, Redeliver, Resolve, Retrigger, business
  <1>5. CASE Elsewhere
    BY <1>5 DEF Elsewhere, Sender, AuthorizeQuestion, QuestionArrives, SettleQuestion, Approve,
         Reject, MarkHandled, Deliver, ClaimStatus, SetStatus, vars, business
  <1>. QED BY <1>1, <1>2, <1>3, <1>4, <1>5, StepKinds

LEMMA AheadStep ==
    ASSUME Leased, Ahead, [Next]_vars
    PROVE  Ahead'
  <1>. Typed /\ Typed'
    BY TypedStep DEF Leased
  <1>. SUFFICES ASSUME NEW e \in Epoch, e > run'.epoch
                PROVE  job'[<<"run", e>>].state = "absent"
    BY DEF Ahead
  <1>0. run.epoch \in Nat /\ e \in Nat
    BY DEF Epoch, Typed, TypeOK
  <1>1. e > run.epoch /\ (Retrigger => e # run.epoch + 1)
    <2>1. Retrigger => run'.epoch = run.epoch + 1
      BY DEF Retrigger, Typed, TypeOK
    <2>. QED BY <1>0, <2>1, EpochGrows
  <1>2. <<"run", e>> \in Key /\ job[<<"run", e>>].state = "absent"
    BY <1>1, KeysAreKeys DEF Ahead
  <1>3. ~Enqueues(<<"run", e>>)
    BY <1>1 DEF Enqueues, RunJob
  <1>. QED BY <1>2, <1>3, AbsentStays

LEMMA KeptStep ==
    ASSUME MaxOverruns = 0, Kept, [Next]_vars, [SupersededNeverRaises]_vars
    PROVE  Kept'
  <1>1. Leased' /\ Gate' /\ Ahead'
    BY LeasedStep, GateStep, AheadStep DEF Kept
  <1>2. Minded'
    BY StepKinds, HandlesMinded, SettleMinded, ClaimMinded, CrashMinded, RowMinded, ElsewhereMinded
       DEF Kept, Leased
  <1>. QED BY <1>1, <1>2 DEF Kept

\* As long as no lease runs out under a living worker, and the handler of a superseded
\* resolution does not fail before it sees that it is superseded, a run in RECEIVED or
\* EXTRACTING has an open job, whatever else crashes, fails, is reclaimed or retriggered.
THEOREM NoneIsLost ==
    ASSUME MaxOverruns = 0
    PROVE  Spec /\ [][SupersededNeverRaises]_vars => []NoRunIsLost
  <1>1. Kept => NoRunIsLost
    BY MindsIsOpen DEF Kept, Minded, OnItsWay, NoRunIsLost
  <1>2. Kept /\ [Next]_vars /\ [SupersededNeverRaises]_vars => Kept'
    BY KeptStep
  <1>. QED BY KeptInit, <1>1, <1>2, PTL DEF Spec

\* A resolution that has a job has an authority, its own or another's.
Vouched == \A g \in Resolution : job[<<"resolve", g>>].state # "absent" => authority # {}

LEMMA VouchedInit == Init => Vouched
  <1>. SUFFICES ASSUME Init, NEW g \in Resolution
                PROVE  job[<<"resolve", g>>].state = "absent"
    BY DEF Vouched
  <1>1. <<"resolve", g>> \in Key /\ <<"resolve", g>> # <<"run", 0>>
    BY KeysAreKeys
  <1>2. job[<<"resolve", g>>] = AbsentRow
    BY <1>1 DEF Init
  <1>. QED BY <1>2 DEF AbsentRow

LEMMA VouchedStep ==
    ASSUME Leased, Vouched, [Next]_vars
    PROVE  Vouched'
  <1>. Typed
    BY DEF Leased
  <1>1. authority # {} => authority' # {}
    <2>1. ASSUME NEW t \in Thread, (\E k \in Key : Claim(t, k)) \/ Handles(t) \/ Settle(t) \/ Crash(t)
          PROVE  authority' = authority
      BY <2>1, HandlesInside DEF Claim, Inner, Settle, Crash
    <2>2. ASSUME NEW k \in Key, LeaseExpires(k) \/ BackoffElapses(k) \/ Reap(k) \/ Enqueues(k)
          PROVE  authority \subseteq authority'
      BY <2>2 DEF LeaseExpires, BackoffElapses, Reap, Enqueues, Answer, Redeliver, Resolve, Retrigger
    <2>. QED BY <2>1, <2>2, StepKinds, ElsewhereUntouched
  <1>. SUFFICES ASSUME NEW g \in Resolution, job'[<<"resolve", g>>].state # "absent"
                PROVE  authority' # {}
    BY DEF Vouched
  <1>. DEFINE k == <<"resolve", g>>
  <1>2. CASE job[k].state # "absent"
    BY <1>1, <1>2 DEF Vouched
  <1>3. CASE job[k].state = "absent"
    <2>1. Enqueues(k)
      BY <1>3, AbsentStays, KeysAreKeys
    <2>2. \E h \in Resolution : Resolve(h)
      BY <2>1 DEF Enqueues, RunJob
    <2>. QED BY <2>2 DEF Resolve
  <1>. QED BY <1>2, <1>3

\* Where at most one resolution is ever committed for a run, or nothing fails beside a
\* stage of the pipeline, no handler of a superseded resolution raises.
LEMMA LoneNeverRaises ==
    ASSUME (\A g, h \in Resolution : g = h) \/ MaxFaults = 0
    PROVE  Leased /\ Vouched => SupersededNeverRaises
  <1>. SUFFICES ASSUME Leased, Vouched, NEW t \in Thread, HandlerRaises(t),
                       Superseded(carry[t].key)
                PROVE  FALSE
    BY DEF SupersededNeverRaises
  <1>1. \A g, h \in Resolution : g = h
    BY DEF HandlerRaises, Leased, Typed, TypeOK
  <1>2. carry[t].key \in Key /\ job[carry[t].key].state = "leased"
    BY DEF HandlerRaises, Leased, Leases, Busy, Holds, Typed, TypeOK
  <1>3. PICK g \in Resolution : carry[t].key = <<"resolve", g>> /\ g \notin authority
    BY <1>2, KeyParts DEF Superseded
  <1>4. authority # {} /\ authority \subseteq Resolution
    BY <1>2, <1>3 DEF Vouched, Leased, Typed, TypeOK
  <1>. QED BY <1>1, <1>3, <1>4

\* So no run is lost to crashes, failures, reclaims and retriggers where the operator
\* resolves it at most once.
THEOREM NoneIsLostOnce ==
    ASSUME MaxOverruns = 0, (\A g, h \in Resolution : g = h) \/ MaxFaults = 0
    PROVE  Spec => []NoRunIsLost
  <1>1. Spec => [](Leased /\ Vouched)
    <2>1. Leased /\ Vouched /\ [Next]_vars => Leased' /\ Vouched'
      BY LeasedStep, VouchedStep
    <2>. QED BY LeasedInit, VouchedInit, <2>1, PTL DEF Spec
  <1>2. Leased /\ Vouched => [SupersededNeverRaises]_vars
    BY LoneNeverRaises
  <1>3. Spec => [][SupersededNeverRaises]_vars
    BY <1>1, <1>2, PTL DEF Spec
  <1>. QED BY <1>3, NoneIsLost, PTL

-------------------------------------------------------------------------------
(* The question budget *)

\* Every question that was ever asked has a round below the cap.
QuestionsFit == \A q \in Question : question[q] # "none" => q[3] < MaxRounds

LEMMA QuestionParts ==
    ASSUME NEW q \in Question
    PROVE  /\ q = <<q[1], q[2], q[3]>>
           /\ q[1] \in Epoch /\ q[2] \in Purpose /\ q[3] \in 0..MaxRounds
  BY DEF Question

\* Only Reserve asks a question.
LEMMA AskedByReserve ==
    ASSUME Typed, [Next]_vars, NEW q \in Question, question[q] = "none", question'[q] # "none"
    PROVE  \E t \in Thread :
               Reserve(t) /\ q = <<run.epoch, draft[t].purpose, draft[t].round>>
  <1>. USE DEF Typed, TypeOK
  <1>1. ASSUME NEW t \in Thread, Reserve(t)
        PROVE  q = <<run.epoch, draft[t].purpose, draft[t].round>>
    BY <1>1 DEF Reserve, ReserveSnapshot
  <1>2. ASSUME NEW t \in Thread, Handles(t), ~Reserve(t) PROVE FALSE
    BY <1>2 DEF Handles, OpenRun, EnterRun, Load, OpenReply, OpenResolution, TakeRun, Resume,
       Consume, Process, RequestClarification, Ask, StageFails, HandlerRaises, business
  <1>3. ASSUME NEW t \in Thread, (\E k \in Key : Claim(t, k)) \/ Settle(t) \/ Crash(t) PROVE FALSE
    BY <1>3 DEF Claim, Settle, Crash, business
  <1>4. ASSUME NEW k \in Key, LeaseExpires(k) \/ BackoffElapses(k) \/ Reap(k) \/ Enqueues(k)
        PROVE  FALSE
    BY <1>4 DEF LeaseExpires, BackoffElapses, Reap, Enqueues, Answer, Redeliver, Resolve,
       Retrigger, business
  <1>5. ASSUME Elsewhere PROVE FALSE
    <2>1. CASE \E p \in Question : Sender(p)
      BY <2>1 DEF Sender, AuthorizeQuestion, QuestionArrives, SettleQuestion
    <2>2. CASE MarkHandled
      BY <2>2 DEF MarkHandled, Acknowledge
    <2>3. CASE Approve \/ Reject \/ Deliver \/ UNCHANGED vars
      BY <2>3 DEF Approve, Reject, Deliver, vars, business
    <2>. QED BY <1>5, <2>1, <2>2, <2>3 DEF Elsewhere
  <1>. QED BY <1>1, <1>2, <1>3, <1>4, <1>5, StepKinds

LEMMA QuestionsFitStep ==
    ASSUME Typed, QuestionsFit, [Next]_vars
    PROVE  QuestionsFit'
  <1>. SUFFICES ASSUME NEW q \in Question, question[q] = "none", question'[q] # "none"
                PROVE  q[3] < MaxRounds
    BY DEF QuestionsFit
  <1>1. PICK t \in Thread : Reserve(t) /\ q = <<run.epoch, draft[t].purpose, draft[t].round>>
    BY AskedByReserve
  <1>. QED BY <1>1 DEF Reserve, Typed, DraftsFit

\* What is told apart by a number below n counts at most n.
LEMMA AtMost ==
    ASSUME NEW n \in Nat, NEW S, NEW f \in [S -> 0..(n - 1)],
           \A a, b \in S : f[a] = f[b] => a = b
    PROVE  Cardinality(S) <= n
  <1>1. IsFiniteSet(0..(n - 1)) /\ Cardinality(0..(n - 1)) = n
    BY FS_Interval
  <1>2. f \in Injection(S, 0..(n - 1))
    BY DEF Injection, IsInjective
  <1>. QED BY <1>1, <1>2, FS_Injection

Asked(e, p) == {q \in Question : q[1] = e /\ q[2] = p /\ question[q] # "none"}

PurposeBudget == \A e \in Epoch, p \in Purpose : Cardinality(Asked(e, p)) <= MaxRounds

\* Whatever crashes, fails, is reclaimed, answered or retriggered, a conversation asks no
\* more questions of one purpose than the cap allows.
THEOREM PurposesHaveBudgets == Spec => []PurposeBudget
  <1>1. Init => QuestionsFit
    BY DEF Init, QuestionsFit
  <1>2. Spec => [](Typed /\ QuestionsFit)
    <2>1. Typed /\ QuestionsFit /\ [Next]_vars => Typed' /\ QuestionsFit'
      BY TypedStep, QuestionsFitStep
    <2>. QED BY <1>1, TypedInit, <2>1, PTL DEF Spec
  <1>3. QuestionsFit => PurposeBudget
    <2>. SUFFICES ASSUME QuestionsFit, NEW e \in Epoch, NEW p \in Purpose
                  PROVE  Cardinality(Asked(e, p)) <= MaxRounds
      BY DEF PurposeBudget
    <2>. DEFINE S == Asked(e, p)
                f == [q \in S |-> q[3]]
    <2>1. \A q \in S : q = <<e, p, q[3]>> /\ q[3] \in 0..(MaxRounds - 1)
      BY QuestionParts DEF QuestionsFit, Asked
    <2>2. f \in [S -> 0..(MaxRounds - 1)] /\ \A a, b \in S : f[a] = f[b] => a = b
      BY <2>1
    <2>. HIDE DEF S, f
    <2>3. Cardinality(S) <= MaxRounds
      BY <2>2, AtMost
    <2>. QED BY <2>3 DEF S
  <1>. QED BY <1>2, <1>3, PTL

\* So the whole conversation keeps the budget where no resume asks under a purpose of its
\* own.
THEOREM OnePurposeOneBudget ==
    ASSUME Purpose = {InitialPurpose}
    PROVE  Spec => []QuestionBudget
  <1>1. PurposeBudget => QuestionBudget
    <2>1. \A e \in Epoch : Asked(e, InitialPurpose)
              = {q \in Question : q[1] = e /\ question[q] # "none"}
      BY QuestionParts DEF Asked
    <2>. QED BY <2>1 DEF PurposeBudget, QuestionBudget
  <1>. QED BY <1>1, PurposesHaveBudgets, PTL

-------------------------------------------------------------------------------
(* One driver: nothing crashes, no lease runs out under a living worker, and the     *)
(* operator retriggers no run that is on its way.                                   *)

RetriggersAtRest == Retrigger => run.status \in {"error", "approved"}

\* The worker is in the pipeline, or about to settle what went wrong there.
Spine(t) == pc[t] \in InPipeline \/ (pc[t] = "settling" /\ result[t] # "ok")

\* The worker is on its way to the pipeline, with a run that waits for it.
Waits(t) ==
    \/ pc[t] = "opened" /\ (Again(t) \/ Kind(t) = "run")
    \/ pc[t] \in {"entering", "resuming"}

\* The job will take the run into the pipeline when a worker claims it.
Ready(k) == job[k].state = "pending" /\ (job[k].attempts > 0 \/ k[1] = "run")

Driver(k) ==
    \/ Ready(k)
    \/ \E t \in Thread : Busy(t) /\ carry[t].key = k /\ (Spine(t) \/ Waits(t))

OneDriver == \A k, l \in Key : Driver(k) /\ Driver(l) => k = l

\* The status says how far the driver is, and no worker finds a run to rewind.
Agree ==
    /\ \A t \in Thread : /\ Spine(t) => run.status = "extracting"
                         /\ Waits(t) => run.status = "received"
                         /\ pc[t] # "rewinding"
    /\ \A k \in Key : Ready(k) => run.status = "received"

Held == \A k \in Key : job[k].state = "leased" => \E t \in Thread : Busy(t) /\ carry[t].key = k

Blank == \A k \in Key : job[k].state = "absent" => job[k].attempts = 0

Driven == Leased /\ Ahead /\ OneDriver /\ Agree /\ Held /\ Blank

LEMMA DrivenInit == Init => Driven
  <1>. SUFFICES ASSUME Init PROVE Driven
    OBVIOUS
  <1>1. \A k \in Key : job[k] = IF k = <<"run", 0>> THEN Enqueued(AbsentRow, TRUE) ELSE AbsentRow
    BY DEF Init
  <1>2. \A k \in Key : /\ job[k].state = IF k = <<"run", 0>> THEN "pending" ELSE "absent"
                       /\ job[k].attempts = 0
    <2>1. /\ Enqueued(AbsentRow, TRUE).state = "pending" /\ Enqueued(AbsentRow, TRUE).attempts = 0
          /\ AbsentRow.state = "absent" /\ AbsentRow.attempts = 0
      BY DEF Enqueued, AbsentRow
    <2>. QED BY <1>1, <2>1
  <1>3. Held /\ Blank
    BY <1>2 DEF Held, Blank
  <1>4. Ahead
    <2>1. run.epoch = 0 /\ \A e \in Epoch : e > 0 => <<"run", e>> \in Key /\ <<"run", e>> # <<"run", 0>>
      BY KeysAreKeys DEF Init, Epoch
    <2>. QED BY <1>2, <2>1 DEF Ahead
  <1>5. /\ run.status = "received"
        /\ \A t \in Thread : ~Busy(t) /\ pc[t] = "idle"
    BY DEF Init, Busy
  <1>6. Agree
    BY <1>5 DEF Agree, Spine, Waits, InPipeline
  <1>7. OneDriver
    BY <1>2, <1>5 DEF OneDriver, Driver, Ready
  <1>. QED BY <1>3, <1>4, <1>6, <1>7, LeasedInit DEF Driven

\* A run at rest has no driver.
LEMMA DriverIsOnItsWay ==
    ASSUME Agree, NEW k \in Key, Driver(k)
    PROVE  OnItsWay
  BY DEF Agree, Driver, OnItsWay

\* Who is driving is alone with it.
LEMMA DriverAlone ==
    ASSUME Driven, NEW t \in Thread, Busy(t), Spine(t) \/ Waits(t)
    PROVE  /\ \A u \in Thread : Busy(u) /\ (Spine(u) \/ Waits(u)) => u = t
           /\ \A k \in Key : ~Ready(k)
  <1>. Typed /\ carry[t].key \in Key /\ Driver(carry[t].key)
    BY DEF Driven, Leased, Typed, TypeOK, Driver
  <1>1. ASSUME NEW u \in Thread, Busy(u), Spine(u) \/ Waits(u) PROVE u = t
    <2>1. carry[u].key \in Key /\ Driver(carry[u].key)
      BY <1>1 DEF Typed, TypeOK, Driver
    <2>. QED BY <1>1, <2>1 DEF Driven, OneDriver, Leased, Apart
  <1>2. ASSUME NEW k \in Key, Ready(k) PROVE FALSE
    <2>1. k = carry[t].key
      BY <1>2 DEF Driver, Driven, OneDriver
    <2>. QED BY <1>2, <2>1 DEF Driven, Leased, Leases, Holds, Ready
  <1>. QED BY <1>1, <1>2

LEMMA SpineIsBusy ==
    ASSUME NEW t \in Thread, Spine(t) \/ Waits(t)
    PROVE  Busy(t)
  BY DEF Spine, Waits, Busy, InPipeline

\* A step of the worker at one job, which is the driver if it moves the run on its way.
LEMMA InnerDriven ==
    ASSUME Driven, NEW t \in Thread, Inner(t),
           run'.status # run.status => Spine(t) \/ Waits(t) \/ ~OnItsWay,
           (Spine(t) \/ Waits(t))' => Spine(t) \/ Waits(t) \/ ~OnItsWay,
           Spine(t)' => run'.status = "extracting",
           Waits(t)' => run'.status = "received",
           pc'[t] # "rewinding"
    PROVE  OneDriver' /\ Agree' /\ Held' /\ Blank'
  <1>0. PICK c \in Key : c = carry[t].key
    BY DEF Driven, Leased, Typed, TypeOK
  <1>1. /\ Typed /\ Busy(t) /\ Busy(t)' /\ job' = job /\ carry' = carry
        /\ \A u \in Thread : u # t => pc'[u] = pc[u] /\ result'[u] = result[u]
    BY DEF Driven, Leased, Inner, Busy, queue, Typed, TypeOK
  <1>2. \A u \in Thread : u # t => /\ Spine(u)' <=> Spine(u)
                                   /\ Waits(u)' <=> Waits(u)
                                   /\ Busy(u)' <=> Busy(u)
    BY <1>1 DEF Spine, Waits, Busy, Again, Kind
  <1>3. \A k \in Key : Ready(k)' <=> Ready(k)
    BY <1>1 DEF Ready
  <1>4. Held' /\ Blank'
    BY <1>1, <1>2 DEF Driven, Held, Blank
  <1>5. ASSUME NEW k \in Key, Driver(k)' PROVE Driver(k) \/ (k = c /\ ~OnItsWay)
    <2>1. CASE Ready(k)'
      BY <1>3, <2>1 DEF Driver
    <2>2. ASSUME NEW u \in Thread, Busy(u)', carry'[u].key = k, (Spine(u) \/ Waits(u))'
          PROVE  Driver(k) \/ (k = c /\ ~OnItsWay)
      BY <1>0, <1>1, <1>2, <2>2 DEF Driver
    <2>. QED BY <1>5, <2>1, <2>2 DEF Driver
  <1>6. OneDriver'
    <2>. SUFFICES ASSUME NEW k \in Key, NEW l \in Key, Driver(k)', Driver(l)' PROVE k = l
      BY DEF OneDriver
    <2>. QED BY <1>5, DriverIsOnItsWay DEF Driven, OneDriver
  <1>7. ASSUME run'.status # run.status
        PROVE  /\ \A u \in Thread : u # t => ~Spine(u) /\ ~Waits(u)
               /\ \A k \in Key : ~Ready(k)
    <2>1. CASE ~OnItsWay
      BY <2>1 DEF Driven, Agree, OnItsWay
    <2>2. CASE Spine(t) \/ Waits(t)
      BY <1>1, <2>2, DriverAlone, SpineIsBusy
    <2>. QED BY <1>7, <2>1, <2>2
  <1>8. Agree'
    <2>1. CASE run'.status = run.status
      BY <1>1, <1>2, <1>3, <2>1 DEF Driven, Agree
    <2>2. CASE run'.status # run.status
      BY <1>1, <1>2, <1>3, <1>7, <2>2 DEF Driven, Agree
    <2>. QED BY <2>1, <2>2
  <1>. QED BY <1>4, <1>6, <1>8

LEMMA HandlesDriven ==
    ASSUME MaxFaults = 0, Driven, NEW t \in Thread, Handles(t)
    PROVE  OneDriver' /\ Agree' /\ Held' /\ Blank'
  <1>. Inner(t) /\ Typed
    BY HandlesInside DEF Driven, Leased
  <1>0. /\ Kind(t)' = Kind(t) /\ (Again(t)' <=> Again(t)) /\ faults = 0
        /\ Spine(t) => run.status = "extracting"
        /\ Waits(t) => run.status = "received"
    BY DEF Inner, Kind, Again, Driven, Agree, Typed, TypeOK
  <1>. USE DEF Goto, Return, SetStatus, ClaimStatus
  <1>1. ASSUME Spine(t), run'.status = "extracting", pc'[t] \in InPipeline
        PROVE  OneDriver' /\ Agree' /\ Held' /\ Blank'
    BY <1>0, <1>1, InnerDriven DEF Spine, Waits, InPipeline
  <1>2. ASSUME pc'[t] = "settling", result'[t] = "ok",
               run' = run \/ Spine(t)
        PROVE  OneDriver' /\ Agree' /\ Held' /\ Blank'
    BY <1>2, InnerDriven DEF Spine, Waits, InPipeline
  <1>3. Rests(t) => pc'[t] = "settling" /\ result'[t] = "ok"
    BY <1>0 DEF Rests, Typed, TypeOK
  <1>4. CASE OpenRun(t)
    <2>1. Waits(t) /\ run' = run /\ pc'[t] = "entering"
      BY <1>0, <1>4 DEF OpenRun, Waits, Rewound, Typed, TypeOK
    <2>. QED BY <1>0, <2>1, InnerDriven DEF Spine, Waits, InPipeline
  <1>5. CASE EnterRun(t)
    <2>1. Waits(t)
      BY <1>5 DEF EnterRun, Waits
    <2>2. run'.status = "extracting" /\ pc'[t] = "loading"
      BY <1>0, <1>5, <2>1 DEF EnterRun, Typed, TypeOK
    <2>. QED BY <2>1, <2>2, InnerDriven DEF Spine, Waits, InPipeline
  <1>6. CASE Load(t)
    BY <1>1, <1>6 DEF Load, Spine, InPipeline, Typed, TypeOK
  <1>7. ASSUME OpenReply(t) \/ OpenResolution(t)
        PROVE  OneDriver' /\ Agree' /\ Held' /\ Blank'
    <2>1. /\ run' = run /\ pc[t] = "opened" /\ Kind(t) # "run"
          /\ \/ pc'[t] = "settling" /\ result'[t] = "ok"
             \/ \E rest : LookForResume(t, rest)
      BY <1>7 DEF OpenReply, OpenResolution, business, Typed, TypeOK
    <2>2. Again(t) => Waits(t)
      BY <2>1 DEF Waits
    <2>3. ASSUME NEW rest, LookForResume(t, rest)
          PROVE  \/ pc'[t] = "taking"
                 \/ pc'[t] = "resuming" /\ Again(t)
                 \/ pc'[t] = "settling" /\ result'[t] = "ok"
      BY <1>0, <2>2, <2>3 DEF LookForResume, Typed, TypeOK
    <2>4. CASE pc'[t] = "settling" /\ result'[t] = "ok"
      BY <1>2, <2>1, <2>4
    <2>5. CASE pc'[t] = "taking"
      BY <2>1, <2>5, InnerDriven DEF Spine, Waits, InPipeline
    <2>6. CASE pc'[t] = "resuming" /\ Again(t)
      BY <1>0, <2>1, <2>2, <2>6, InnerDriven DEF Spine, Waits, InPipeline
    <2>. QED BY <2>1, <2>3, <2>4, <2>5, <2>6
  <1>8. CASE TakeRun(t)
    <2>1. pc[t] = "taking"
      BY <1>8 DEF TakeRun, Driven, Agree
    <2>2. CASE run.status = Resting(t)
      <3>1. run'.status = "received" /\ pc'[t] = "resuming" /\ ~OnItsWay
        BY <1>8, <2>1, <2>2 DEF TakeRun, Resting, OnItsWay, Typed, TypeOK
      <3>. QED BY <3>1, InnerDriven DEF Spine, Waits, InPipeline
    <2>3. CASE run.status # Resting(t)
      BY <1>2, <1>8, <2>1, <2>3 DEF TakeRun, Typed, TypeOK
    <2>. QED BY <2>2, <2>3
  <1>9. CASE Resume(t)
    <2>1. Waits(t)
      BY <1>9 DEF Resume, Waits
    <2>2. run'.status = "extracting" /\ pc'[t] \in {"consuming", "extracting"}
      BY <1>0, <1>9, <2>1 DEF Resume, Typed, TypeOK
    <2>. QED BY <2>1, <2>2, InnerDriven DEF Spine, Waits, InPipeline
  <1>10. CASE Consume(t)
    BY <1>0, <1>1, <1>10 DEF Consume, Spine, InPipeline, business, Typed, TypeOK
  <1>11. CASE Process(t)
    BY <1>2, <1>3, <1>11 DEF Process, Spine, InPipeline
  <1>12. CASE \E p \in Purpose : RequestClarification(t, p)
    BY <1>0, <1>1, <1>12 DEF RequestClarification, Spine, InPipeline, business, Typed, TypeOK
  <1>13. CASE Ask(t)
    <2>1. Spine(t)
      BY <1>13 DEF Ask, Spine, InPipeline
    <2>2. Rests(t) \/ (run' = run /\ pc'[t] = "drafting")
      BY <1>13 DEF Ask, Typed, TypeOK
    <2>. QED BY <1>0, <1>1, <1>2, <1>3, <2>1, <2>2 DEF InPipeline
  <1>14. CASE Reserve(t)
    BY <1>2, <1>3, <1>14 DEF Reserve, Spine, InPipeline
  <1>15. CASE StageFails(t)
    <2>1. Spine(t) /\ run' = run /\ pc'[t] = "settling" /\ result'[t] # "ok"
      BY <1>15 DEF StageFails, Spine, business, Typed, TypeOK
    <2>. QED BY <1>0, <2>1, InnerDriven DEF Spine, Waits, InPipeline
  <1>16. ~HandlerRaises(t)
    BY <1>0 DEF HandlerRaises
  <1>. QED
    BY <1>4, <1>5, <1>6, <1>7, <1>8, <1>9, <1>10, <1>11, <1>12, <1>13, <1>14, <1>15, <1>16
    DEF Handles

\* A lease is held by a worker, so no claim takes one over and no reaper finds one.
LEMMA NoneAbandoned ==
    ASSUME Driven, NEW k \in Key, job[k].state = "leased"
    PROVE  \E t \in Thread : /\ Busy(t) /\ carry[t].key = k
                             /\ carry[t].token = job[k].token /\ ~job[k].expired
  BY DEF Driven, Held, Leased, Leases, Holds

LEMMA ClaimDriven ==
    ASSUME Driven, NEW t \in Thread, NEW c \in Key, Claim(t, c)
    PROVE  OneDriver' /\ Agree' /\ Held' /\ Blank'
  <1>0. /\ Typed /\ Leased /\ run' = run /\ pc[t] = "idle"
        /\ job[c].state = "pending"
    BY NoneAbandoned DEF Driven, Leased, Claim, Claimable, business
  <1>1. job' = [job EXCEPT ![c] = Claimed(@, minted')]
        /\ \A k \in Key : k # c => job'[k] = job[k]
    BY <1>0 DEF Claim, Typed, TypeOK
  <1>2. job'[c].state = "leased" /\ job'[c].attempts = job[c].attempts + 1 /\ job[c].attempts \in Nat
    BY <1>0, <1>1 DEF Claimed, Row, Typed, TypeOK
  <1>3. /\ pc' = [pc EXCEPT ![t] = "opened"] /\ result' = result
        /\ \A u \in Thread : u # t => carry'[u] = carry[u]
        /\ carry'[t].key = c /\ carry'[t].attempts = job'[c].attempts
    BY <1>0 DEF Claim, Goto, Typed, TypeOK
  <1>4. \A u \in Thread : u # t => /\ Spine(u)' <=> Spine(u)
                                   /\ Waits(u)' <=> Waits(u)
                                   /\ Busy(u)' <=> Busy(u)
                                   /\ pc'[u] = pc[u] /\ carry'[u] = carry[u]
    BY <1>0, <1>3 DEF Spine, Waits, Busy, Again, Kind, Typed, TypeOK
  <1>5. pc'[t] = "opened" /\ Busy(t)' /\ ~Spine(t)' /\ (Waits(t)' => Ready(c))
    BY <1>0, <1>2, <1>3 DEF Waits, Spine, InPipeline, Busy, Again, Kind, Ready, Typed, TypeOK
  <1>6. \A k \in Key : Ready(k)' => Ready(k)
    BY <1>1, <1>2 DEF Ready
  <1>7. ASSUME NEW k \in Key, Driver(k)' PROVE Driver(k)
    <2>1. CASE Ready(k)'
      BY <1>6, <2>1 DEF Driver
    <2>2. ASSUME NEW u \in Thread, Busy(u)', carry'[u].key = k, (Spine(u) \/ Waits(u))'
          PROVE  Driver(k)
      BY <1>3, <1>4, <1>5, <2>2 DEF Driver
    <2>. QED BY <1>7, <2>1, <2>2 DEF Driver
  <1>8. OneDriver'
    BY <1>7 DEF OneDriver, Driven
  <1>9. Agree'
    BY <1>0, <1>4, <1>5, <1>6 DEF Agree, Driven
  <1>10. Held'
    BY <1>0, <1>1, <1>3, <1>4, <1>5 DEF Held, Driven, Busy
  <1>11. Blank'
    BY <1>1, <1>2 DEF Blank, Driven
  <1>. QED BY <1>8, <1>9, <1>10, <1>11

LEMMA SettleDriven ==
    ASSUME Driven, NEW t \in Thread, Settle(t)
    PROVE  OneDriver' /\ Agree' /\ Held' /\ Blank'
  <1>. PICK c \in Key : c = carry[t].key
    BY DEF Driven, Leased, Typed, TypeOK
  <1>0. /\ Typed /\ Leased /\ Busy(t) /\ pc[t] = "settling"
        /\ Holds(job[c], carry[t].token) /\ job[c].attempts > 0
    BY DEF Driven, Leased, Leases, Counted, Holds, Settle, Busy, Typed, TypeOK
  <1>1. \A k \in Key : k # c => job'[k] = job[k]
    BY <1>0 DEF Settle, Typed, TypeOK
  <1>2. /\ ~Busy(t)' /\ ~Spine(t)' /\ ~Waits(t)' /\ pc'[t] = "idle"
        /\ \A u \in Thread : u # t => /\ Spine(u)' <=> Spine(u)
                                      /\ Waits(u)' <=> Waits(u)
                                      /\ Busy(u)' <=> Busy(u)
                                      /\ pc'[u] = pc[u] /\ carry'[u] = carry[u]
    BY <1>0 DEF Settle, Leave, Spine, Waits, InPipeline, Busy, Again, Kind, Typed, TypeOK
  <1>3. \/ result[t] = "ok" /\ run' = run /\ job' = [job EXCEPT ![c] = Settled(@, "done")]
        \/ /\ Spine(t) /\ run'.status = "received" /\ job' = [job EXCEPT ![c] = Retried(@)]
        \/ /\ Spine(t) /\ run'.status = "error"
           /\ \E s \in {"done", "dead"} : job' = [job EXCEPT ![c] = Settled(@, s)]
    <2>1. result[t] # "ok" => Spine(t) /\ InFlight
      BY <1>0 DEF Spine, InFlight, Driven, Agree
    <2>. QED BY <1>0, <2>1 DEF Settle, Failed, SetStatus, Typed, TypeOK
  <1>4. job'[c].state # "leased" /\ job'[c].state # "absent"
        /\ (job'[c].state = "pending" => Spine(t) /\ run'.status = "received")
    <2>1. /\ Settled(job[c], "done").state = "done" /\ Settled(job[c], "dead").state = "dead"
          /\ Retried(job[c]).state = "pending"
      BY <1>0, RowStates DEF Typed, TypeOK, JobState
    <2>. QED BY <1>0, <1>3, <2>1 DEF Typed, TypeOK
  <1>5. \A k \in Key : Ready(k)' => Ready(k) \/ (k = c /\ Spine(t) /\ run'.status = "received")
    BY <1>1, <1>4 DEF Ready
  <1>6. ASSUME NEW k \in Key, Driver(k)' PROVE Driver(k)
    <2>1. CASE Ready(k)'
      BY <1>0, <1>5, <2>1 DEF Driver
    <2>2. ASSUME NEW u \in Thread, Busy(u)', carry'[u].key = k, (Spine(u) \/ Waits(u))'
          PROVE  Driver(k)
      BY <1>2, <2>2 DEF Driver
    <2>. QED BY <1>6, <2>1, <2>2 DEF Driver
  <1>7. OneDriver'
    BY <1>6 DEF OneDriver, Driven
  <1>8. Agree'
    <2>1. CASE Spine(t)
      <3>1. /\ \A u \in Thread : u # t => ~Spine(u) /\ ~Waits(u)
            /\ \A k \in Key : ~Ready(k)
        BY <1>0, <2>1, DriverAlone, SpineIsBusy
      <3>. QED BY <1>2, <1>5, <3>1 DEF Agree, Driven
    <2>2. CASE ~Spine(t)
      BY <1>2, <1>3, <1>5, <2>2 DEF Agree, Driven
    <2>. QED BY <2>1, <2>2
  <1>9. Held'
    BY <1>1, <1>2, <1>4 DEF Held, Driven
  <1>10. Blank'
    BY <1>1, <1>4 DEF Blank, Driven
  <1>. QED BY <1>7, <1>8, <1>9, <1>10

\* The clock and the reaper: only a backoff elapses.
LEMMA ClockDriven ==
    ASSUME MaxOverruns = 0, Driven, NEW c \in Key, LeaseExpires(c) \/ BackoffElapses(c) \/ Reap(c)
    PROVE  /\ BackoffElapses(c)
           /\ OneDriver' /\ Agree' /\ Held' /\ Blank'
  <1>0. Typed
    BY DEF Driven, Leased
  <1>1. ~LeaseExpires(c)
    BY <1>0, NoneAbandoned DEF LeaseExpires, Busy, Typed, TypeOK
  <1>2. ~Reap(c)
    BY NoneAbandoned DEF Reap, ExpiredFinal
  <1>3. /\ UNCHANGED <<business, worker>> /\ job[c].state = "pending"
        /\ \A k \in Key : job'[k].state = job[k].state /\ job'[k].attempts = job[k].attempts
    <2>1. BackoffElapsed(job[c]).state = job[c].state /\ BackoffElapsed(job[c]).attempts = job[c].attempts
      BY <1>0 DEF BackoffElapsed, Row, Typed, TypeOK
    <2>. QED BY <1>0, <1>1, <1>2, <2>1 DEF BackoffElapses, Typed, TypeOK
  <1>4. \A k \in Key : Driver(k)' <=> Driver(k)
    BY <1>3 DEF Driver, Ready, Spine, Waits, Busy, Again, Kind, worker
  <1>5. OneDriver'
    BY <1>4 DEF OneDriver, Driven
  <1>6. Agree'
    BY <1>3 DEF Agree, Ready, Spine, Waits, Again, Kind, worker, business, Driven
  <1>7. Held' /\ Blank'
    BY <1>3 DEF Held, Blank, Busy, worker, Driven
  <1>. QED BY <1>1, <1>2, <1>5, <1>6, <1>7

LEMMA EnqueuesDriven ==
    ASSUME Driven, NEW c \in Key, Enqueues(c), RetriggersAtRest
    PROVE  OneDriver' /\ Agree' /\ Held' /\ Blank'
  <1>0. Typed
    BY DEF Driven, Leased
  <1>1. UNCHANGED worker
    BY DEF Enqueues, Answer, Redeliver, Resolve, Retrigger
  <1>2. \A k \in Key : k # c => job'[k] = job[k]
    BY <1>0, EnqueuesJoin DEF Joins, queue, Typed, TypeOK
  <1>3. \/ job'[c] = job[c]
        \/ job[c].state = "absent" /\ job'[c].state = "pending" /\ job'[c].attempts = 0
    <2>1. Joins(c) \/ job' = job
      BY EnqueuesJoin DEF queue
    <2>2. ASSUME Joins(c), job[c].state # "absent" PROVE job'[c] = job[c]
      BY <1>0, <2>2 DEF Joins, Enqueued, Typed, TypeOK
    <2>3. ASSUME Joins(c), job[c].state = "absent"
          PROVE  job'[c].state = "pending" /\ job'[c].attempts = 0
      <3>1. job'[c] = [job[c] EXCEPT !.state = "pending", !.due = TRUE]
        BY <1>0, <2>3 DEF Joins, Enqueued, Typed, TypeOK
      <3>2. job[c] \in Row(MaxAttempts) /\ job[c].attempts = 0
        BY <1>0, <2>3 DEF Typed, TypeOK, Driven, Blank
      <3>. QED BY <3>1, <3>2 DEF Row
    <2>. QED BY <2>1, <2>2, <2>3
  <1>4. Held' /\ Blank'
    BY <1>1, <1>2, <1>3 DEF Held, Blank, Busy, worker, Driven
  <1>5. \A t \in Thread : /\ Spine(t)' <=> Spine(t)
                          /\ Waits(t)' <=> Waits(t)
                          /\ Busy(t)' <=> Busy(t)
    BY <1>1 DEF Spine, Waits, Busy, Again, Kind, worker
  <1>6. CASE Retrigger /\ c = RunJob(run.epoch + 1)
    <2>1. ~OnItsWay
      BY <1>6 DEF RetriggersAtRest, OnItsWay
    <2>2. \A k \in Key : ~Driver(k)
      BY <2>1, DriverIsOnItsWay DEF Driven
    <2>3. run'.status = "received"
      BY <1>0, <1>6 DEF Retrigger, Typed, TypeOK
    <2>4. \A k \in Key : Ready(k)' => k = c
      BY <1>2, <2>2 DEF Ready, Driver
    <2>5. \A t \in Thread : /\ ~Spine(t) /\ ~Waits(t) /\ pc[t] # "rewinding"
      BY <2>1 DEF Driven, Agree, OnItsWay
    <2>6. Agree'
      BY <1>1, <1>5, <2>3, <2>4, <2>5 DEF Agree, worker
    <2>7. \A k \in Key : Driver(k)' => k = c
      BY <1>5, <2>4, <2>5 DEF Driver
    <2>. QED BY <1>4, <2>6, <2>7 DEF OneDriver
  <1>7. CASE ~(Retrigger /\ c = RunJob(run.epoch + 1))
    <2>1. run' = run /\ c[1] # "run"
      <3>1. CASE \E r \in Reply : c = <<"reply", r>> /\ ((\E q \in Question : Answer(r, q)) \/ Redeliver(r))
        <4>1. c[1] = "reply"
          BY <3>1
        <4>2. run' = run
          BY <3>1 DEF Answer, Redeliver, business
        <4>. QED BY <4>1, <4>2
      <3>2. CASE \E g \in Resolution : c = <<"resolve", g>> /\ Resolve(g)
        BY <3>2 DEF Resolve, business
      <3>. QED BY <1>7, <3>1, <3>2 DEF Enqueues
    <2>2. \A k \in Key : Ready(k)' => Ready(k)
      BY <1>2, <1>3, <2>1 DEF Ready
    <2>3. \A k \in Key : Driver(k)' => Driver(k)
      BY <1>1, <1>5, <2>2 DEF Driver, worker
    <2>4. OneDriver'
      BY <2>3 DEF OneDriver, Driven
    <2>5. Agree'
      BY <1>1, <1>5, <2>1, <2>2 DEF Agree, Driven, worker
    <2>. QED BY <1>4, <2>4, <2>5
  <1>. QED BY <1>6, <1>7

LEMMA ElsewhereDriven ==
    ASSUME Driven, Elsewhere
    PROVE  OneDriver' /\ Agree' /\ Held' /\ Blank'
  <1>0. Typed
    BY DEF Driven, Leased
  <1>1. UNCHANGED <<job, pc, carry, result>>
    BY ElsewhereUntouched DEF queue, worker
  <1>2. run'.status = run.status \/ ~OnItsWay
    BY <1>0 DEF Elsewhere, Sender, AuthorizeQuestion, QuestionArrives, SettleQuestion, Approve,
         Reject, MarkHandled, Deliver, ClaimStatus, SetStatus, vars, business, Typed, TypeOK,
         Wanted, OnItsWay
  <1>3. \A k \in Key : Driver(k)' <=> Driver(k)
    BY <1>1 DEF Driver, Ready, Spine, Waits, Busy, Again, Kind
  <1>4. OneDriver'
    BY <1>3 DEF OneDriver, Driven
  <1>5. Agree'
    BY <1>1, <1>2 DEF Agree, Ready, Spine, Waits, Again, Kind, OnItsWay, Driven
  <1>6. Held' /\ Blank'
    BY <1>1 DEF Held, Blank, Busy, Driven
  <1>. QED BY <1>4, <1>5, <1>6

LEMMA DrivenStep ==
    ASSUME MaxFaults = 0, MaxOverruns = 0, Driven, [Next]_vars, [RetriggersAtRest]_vars
    PROVE  Driven'
  <1>1. Leased' /\ Ahead'
    BY LeasedStep, AheadStep DEF Driven
  <1>2. Typed /\ faults = 0
    BY DEF Driven, Leased, Typed, TypeOK
  <1>3. \A t \in Thread : ~Crash(t)
    BY <1>2 DEF Crash
  <1>4. RetriggersAtRest \/ UNCHANGED vars
    OBVIOUS
  <1>5. UNCHANGED vars => Elsewhere
    BY DEF Elsewhere
  <1>6. OneDriver' /\ Agree' /\ Held' /\ Blank'
    BY <1>2, <1>3, <1>4, <1>5, StepKinds, ClaimDriven, HandlesDriven, SettleDriven, ClockDriven,
       EnqueuesDriven, ElsewhereDriven
  <1>. QED BY <1>1, <1>6 DEF Driven

CalmSpec == Spec /\ [][RetriggersAtRest]_vars

LEMMA AlwaysDriven ==
    ASSUME MaxFaults = 0, MaxOverruns = 0
    PROVE  CalmSpec => []Driven
  <1>1. Driven /\ [Next]_vars /\ [RetriggersAtRest]_vars => Driven'
    BY DrivenStep
  <1>. QED BY <1>1, DrivenInit, PTL DEF Spec, CalmSpec

\* Without retriggers this is the specification.
LEMMA NoRetriggers ==
    ASSUME MaxEpoch = 0
    PROVE  Spec => CalmSpec
  <1>1. TypeOK => ~Retrigger
    <2>1. TypeOK => run.epoch \in 0..0
      BY DEF TypeOK, Epoch
    <2>2. Retrigger => run.epoch < MaxEpoch
      BY DEF Retrigger
    <2>. QED BY <2>1, <2>2
  <1>2. TypeOK => [RetriggersAtRest]_vars
    BY <1>1 DEF RetriggersAtRest
  <1>3. Spec => [][RetriggersAtRest]_vars
    BY <1>2, RunTypes, PTL
  <1>. QED BY <1>3 DEF CalmSpec

\* As long as nothing crashes, no lease runs out under a living worker and no run on its
\* way is retriggered, one worker at a time drives the run, however many answers,
\* resolutions, failed stages and retries it has.
THEOREM OneSpine ==
    ASSUME MaxFaults = 0, MaxOverruns = 0
    PROVE  CalmSpec => []SingleSpine
  <1>1. Driven => SingleSpine
    <2>. SUFFICES ASSUME Driven PROVE Cardinality(Executors) <= 1
      BY DEF SingleSpine
    <2>1. \A t, u \in Executors : t = u
      <3>1. \A t \in Executors : t \in Thread /\ Busy(t) /\ Spine(t)
        BY DEF Executors, Spine, Busy, InPipeline
      <3>. QED BY <3>1, DriverAlone
    <2>. DEFINE f == [t \in Executors |-> 0]
    <2>2. f \in [Executors -> 0..(1 - 1)] /\ \A t, u \in Executors : f[t] = f[u] => t = u
      BY <2>1
    <2>. HIDE DEF f
    <2>. QED BY <2>2, AtMost
  <1>. QED BY <1>1, AlwaysDriven, PTL

LEMMA UnderDriver ==
    ASSUME Driven, NEW t \in Thread, Spine(t) \/ Waits(t)
    PROVE  OnItsWay
  BY DEF Driven, Agree, OnItsWay

\* What was decided is touched by the delivery and by a retrigger of an approval alone.
LEMMA DecidedStays ==
    ASSUME MaxFaults = 0, MaxOverruns = 0, Driven, [Next]_vars,
           run.status \in {"approved", "rejected", "reconciled"}
    PROVE  run' = run \/ (run.status = "approved" /\ (Deliver \/ Retrigger))
  <1>0. Typed /\ ~OnItsWay /\ faults = 0
    BY DEF Driven, Leased, Typed, TypeOK, OnItsWay
  <1>1. ASSUME NEW t \in Thread, NEW k \in Key, Claim(t, k) PROVE run' = run
    BY <1>1 DEF Claim, business
  <1>2. ASSUME NEW t \in Thread, Handles(t) PROVE run' = run
    <2>1. ~Spine(t) /\ ~Waits(t) /\ pc[t] # "rewinding"
      BY <1>0, UnderDriver DEF Driven, Agree
    <2>2. pc[t] \notin InPipeline \cup {"entering", "resuming"}
      BY <2>1 DEF Spine, Waits
    <2>3. CASE OpenRun(t) \/ OpenReply(t) \/ OpenResolution(t)
      BY <1>0, <2>3 DEF OpenRun, OpenReply, OpenResolution, Rewound, OnItsWay, business
    <2>4. CASE TakeRun(t)
      <3>1. pc[t] = "taking" /\ run.status # Resting(t)
        BY <2>1, <2>4 DEF TakeRun, Resting
      <3>. QED BY <2>4, <3>1 DEF TakeRun
    <2>5. ~HandlerRaises(t)
      BY <1>0 DEF HandlerRaises
    <2>. QED
      BY <1>2, <2>2, <2>3, <2>4, <2>5 DEF Handles, EnterRun, Load, Resume, Consume, Process,
         RequestClarification, Ask, Reserve, StageFails, InPipeline
  <1>3. ASSUME NEW t \in Thread, Settle(t) PROVE run' = run
    <2>1. ~InFlight
      BY DEF InFlight
    <2>. QED BY <1>3, <2>1 DEF Settle
  <1>4. ASSUME NEW k \in Key, LeaseExpires(k) \/ BackoffElapses(k) \/ Reap(k) PROVE run' = run
    BY <1>4, ClockDriven DEF BackoffElapses, business
  <1>5. ASSUME NEW k \in Key, Enqueues(k) PROVE run' = run \/ (run.status = "approved" /\ Retrigger)
    <2>1. Retrigger => run.status = "approved"
      BY DEF Retrigger, Stale
    <2>. QED BY <1>5, <2>1 DEF Enqueues, Answer, Redeliver, Resolve, business
  <1>6. CASE Elsewhere
    <2>1. ASSUME NEW q \in Question, Sender(q) PROVE run' = run
      BY <2>1 DEF Sender, AuthorizeQuestion, QuestionArrives, SettleQuestion, Wanted
    <2>2. ~Approve /\ ~Reject /\ ~MarkHandled /\ (Deliver => run.status = "approved")
      BY DEF Approve, Reject, MarkHandled, Deliver, ClaimStatus
    <2>. QED BY <1>6, <2>1, <2>2 DEF Elsewhere, vars, business
  <1>7. \A t \in Thread : ~Crash(t)
    BY <1>0 DEF Crash
  <1>. QED BY <1>0, <1>1, <1>2, <1>3, <1>4, <1>5, <1>6, <1>7, StepKinds

\* There, no worker takes an approval back.
THEOREM ApprovalsStand ==
    ASSUME MaxFaults = 0, MaxOverruns = 0
    PROVE  CalmSpec => ApprovalStands
  <1>1. ASSUME Driven, [Next]_vars, run.status = "approved"
        PROVE  run'.status \in {"approved", "reconciled"} \/ run'.epoch # run.epoch
    <2>0. Typed
      BY <1>1 DEF Driven, Leased
    <2>1. Deliver => run'.status = "reconciled"
      BY <2>0 DEF Deliver, SetStatus, Typed, TypeOK
    <2>2. Retrigger => run'.epoch # run.epoch
      <3>1. Retrigger => run'.epoch = run.epoch + 1
        BY <2>0 DEF Retrigger, Typed, TypeOK
      <3>. QED BY <2>0, <3>1 DEF Typed, TypeOK, Epoch
    <2>. QED BY <1>1, <2>1, <2>2, DecidedStays
  <1>2. Driven /\ [Next]_vars
          => [run.status = "approved" =>
                run'.status \in {"approved", "reconciled"} \/ run'.epoch # run.epoch]_vars
    BY <1>1
  <1>. QED BY <1>2, AlwaysDriven, PTL DEF Spec, CalmSpec, ApprovalStands

\* Nor does any step touch a run that was rejected or delivered.
THEOREM FinalStays ==
    ASSUME MaxFaults = 0, MaxOverruns = 0
    PROVE  CalmSpec => FinalIsFinal
  <1>1. Driven /\ [Next]_vars
          => [run.status \in {"rejected", "reconciled"} => run' = run]_vars
    BY DecidedStays
  <1>. QED BY <1>1, AlwaysDriven, PTL DEF Spec, CalmSpec, FinalIsFinal

-------------------------------------------------------------------------------
(* A reply is read once *)

Finished(t) == pc[t] = "settling" /\ result[t] = "ok"

\* Until its job is through, a reply has taken the run nowhere.
Unread(r) ==
    \/ job[<<"reply", r>>].state \in {"absent", "pending"}
    \/ \E t \in Thread : Busy(t) /\ carry[t].key = <<"reply", r>> /\ ~Finished(t)

PassedOnce == \A r \in Reply : passes[r] <= 1 /\ (Unread(r) => passes[r] = 0)

LEMMA PassedOnceStep ==
    ASSUME MaxFaults = 0, MaxOverruns = 0, Driven, PassedOnce, [Next]_vars
    PROVE  PassedOnce'
  <1>0. Typed /\ faults = 0 /\ \A r \in Reply : <<"reply", r>> \in Key /\ passes[r] \in Nat
    BY KeysAreKeys DEF Driven, Leased, Typed, TypeOK
  <1>1. ASSUME UNCHANGED passes, \A r \in Reply : Unread(r)' => Unread(r)
        PROVE  PassedOnce'
    BY <1>1 DEF PassedOnce
  <1>2. ASSUME NEW t \in Thread, NEW k \in Key, Claim(t, k) PROVE PassedOnce'
    <2>1. ASSUME NEW r \in Reply, Unread(r)' PROVE Unread(r)
      <3>1. job[k].state = "pending"
        BY <1>2, NoneAbandoned DEF Claim, Claimable
      <3>2. CASE k = <<"reply", r>>
        BY <3>1, <3>2 DEF Unread
      <3>3. CASE k # <<"reply", r>>
        <4>1. job'[<<"reply", r>>] = job[<<"reply", r>>]
          BY <1>0, <1>2, <3>3 DEF Claim, Typed, TypeOK
        <4>2. \A u \in Thread : carry'[u].key = <<"reply", r>> => u # t
          BY <1>0, <1>2, <3>3 DEF Claim, Typed, TypeOK
        <4>3. \A u \in Thread : u # t => /\ pc'[u] = pc[u] /\ carry'[u] = carry[u]
                                         /\ result'[u] = result[u]
          BY <1>0, <1>2 DEF Claim, Goto, Typed, TypeOK
        <4>. QED BY <2>1, <4>1, <4>2, <4>3 DEF Unread, Busy, Finished
      <3>. QED BY <3>2, <3>3
    <2>. QED BY <1>1, <1>2, <2>1 DEF Claim, inbox
  <1>3. ASSUME NEW t \in Thread, Handles(t) PROVE PassedOnce'
    <2>1. Inner(t) /\ job' = job /\ carry' = carry /\ Busy(t)
      BY <1>0, <1>3, HandlesInside DEF Inner, queue
    <2>2. \A u \in Thread : u # t => pc'[u] = pc[u] /\ result'[u] = result[u]
      BY <1>0, <2>1 DEF Inner, Typed, TypeOK
    <2>3. ~Finished(t)
      BY <1>3 DEF Handles, OpenRun, EnterRun, Load, OpenReply, OpenResolution, TakeRun, Resume,
         Consume, Process, RequestClarification, Ask, Reserve, StageFails, HandlerRaises,
         InPipeline, Finished
    <2>4. \A r \in Reply : Unread(r)' => Unread(r)
      BY <2>1, <2>2, <2>3 DEF Unread, Busy, Finished
    <2>5. CASE UNCHANGED passes
      BY <1>1, <2>4, <2>5
    <2>6. CASE Rests(t)
      <3>1. pc'[t] = "settling" /\ result'[t] = "ok" /\ Passed(t)
        BY <1>0, <2>6 DEF Rests, Return, Goto, Typed, TypeOK
      <3>2. CASE Kind(t) # "reply"
        BY <1>1, <2>4, <3>1, <3>2 DEF Passed
      <3>3. CASE Kind(t) = "reply"
        <4>1. PICK r \in Reply : carry[t].key = <<"reply", r>>
          BY <1>0, <3>3, KeyParts DEF Kind, Typed, TypeOK
        <4>2. passes' = [passes EXCEPT ![r] = @ + 1]
          BY <3>1, <3>3, <4>1 DEF Passed
        <4>3. passes[r] = 0
          BY <2>1, <2>3, <4>1 DEF PassedOnce, Unread
        <4>4. ~Unread(r)'
          <5>1. job[<<"reply", r>>].state = "leased"
            BY <2>1, <4>1 DEF Driven, Leased, Leases, Holds
          <5>2. \A u \in Thread : Busy(u)' /\ carry'[u].key = <<"reply", r>> => u = t
            BY <2>1, <2>2, <4>1 DEF Busy, Driven, Leased, Apart
          <5>. QED BY <2>1, <3>1, <5>1, <5>2 DEF Unread, Finished
        <4>5. \A s \in Reply : passes'[s] = IF s = r THEN 1 ELSE passes[s]
          BY <1>0, <4>2, <4>3 DEF Typed, TypeOK
        <4>. QED BY <2>4, <4>4, <4>5 DEF PassedOnce
      <3>. QED BY <3>2, <3>3
    <2>. QED
      BY <1>3, <2>5, <2>6 DEF Handles, OpenRun, EnterRun, Load, OpenReply, OpenResolution, TakeRun,
         Resume, Consume, Process, RequestClarification, Ask, Reserve, StageFails, HandlerRaises, inbox
  <1>4. ASSUME NEW t \in Thread, Settle(t) PROVE PassedOnce'
    <2>1. PICK c \in Key : c = carry[t].key
      BY <1>0 DEF Typed, TypeOK
    <2>2. \A u \in Thread : Busy(u)' => /\ u # t /\ Busy(u) /\ carry'[u] = carry[u]
                                        /\ pc'[u] = pc[u] /\ result'[u] = result[u]
      BY <1>0, <1>4 DEF Settle, Leave, Busy, Typed, TypeOK
    <2>3. \A k \in Key : k # c => job'[k] = job[k]
      BY <1>0, <1>4, <2>1 DEF Settle, Typed, TypeOK
    <2>4. result[t] = "ok" => job'[c].state = "done"
      <3>1. Holds(job[c], carry[t].token)
        BY <1>4, <2>1 DEF Driven, Leased, Leases, Busy, Settle
      <3>2. Settled(job[c], "done").state = "done"
        BY <1>0, RowStates DEF JobState, Typed, TypeOK
      <3>. QED BY <1>0, <1>4, <2>1, <3>1, <3>2 DEF Settle, Typed, TypeOK
    <2>5. ASSUME NEW r \in Reply, Unread(r)' PROVE Unread(r)
      <3>1. CASE c = <<"reply", r>> /\ ~Finished(t)
        BY <1>4, <2>1, <3>1 DEF Unread, Busy, Settle
      <3>2. CASE c = <<"reply", r>> /\ Finished(t)
        BY <2>2, <2>4, <2>5, <3>2 DEF Unread, Finished
      <3>3. CASE c # <<"reply", r>>
        BY <1>0, <2>2, <2>3, <2>5, <3>3 DEF Unread, Finished
      <3>. QED BY <3>1, <3>2, <3>3
    <2>. QED BY <1>1, <1>4, <2>5 DEF Settle, inbox
  <1>5. ASSUME NEW k \in Key, LeaseExpires(k) \/ BackoffElapses(k) \/ Reap(k) PROVE PassedOnce'
    <2>1. BackoffElapses(k)
      BY <1>5, ClockDriven
    <2>2. \A l \in Key : job'[l].state = job[l].state
      BY <1>0, <2>1 DEF BackoffElapses, BackoffElapsed, Row, Typed, TypeOK
    <2>3. UNCHANGED <<passes, pc, carry, result>>
      BY <2>1 DEF BackoffElapses, inbox, worker
    <2>. QED BY <1>0, <1>1, <2>2, <2>3 DEF Unread, Busy, Finished
  <1>6. ASSUME NEW k \in Key, Enqueues(k) PROVE PassedOnce'
    <2>1. UNCHANGED <<passes, pc, carry, result>>
      BY <1>6 DEF Enqueues, Answer, Redeliver, Resolve, Retrigger, inbox, worker
    <2>2. \A l \in Key : job'[l] = job[l] \/ job[l].state = "absent"
      BY <1>0, <1>6, EnqueuesJoin DEF Joins, Enqueued, queue, Typed, TypeOK
    <2>. QED BY <1>0, <1>1, <2>1, <2>2 DEF Unread, Busy, Finished
  <1>7. CASE Elsewhere
    <2>1. UNCHANGED passes
      BY <1>7 DEF Elsewhere, Sender, AuthorizeQuestion, QuestionArrives, SettleQuestion, Approve,
         Reject, MarkHandled, Deliver, vars, inbox
    <2>2. UNCHANGED <<job, pc, carry, result>>
      BY <1>7, ElsewhereUntouched DEF queue, worker
    <2>. QED BY <1>1, <2>1, <2>2 DEF Unread, Busy, Finished
  <1>8. \A t \in Thread : ~Crash(t)
    BY <1>0 DEF Crash
  <1>. QED BY <1>0, <1>2, <1>3, <1>4, <1>5, <1>6, <1>7, <1>8, StepKinds

\* And no reply is read as the answer to two questions.
THEOREM RepliesPass ==
    ASSUME MaxFaults = 0, MaxOverruns = 0
    PROVE  CalmSpec => []RepliesPassOnce
  <1>1. Init => PassedOnce
    BY DEF Init, PassedOnce
  <1>2. Driven /\ PassedOnce /\ [Next]_vars => PassedOnce'
    BY PassedOnceStep
  <1>3. PassedOnce => RepliesPassOnce
    BY DEF PassedOnce, RepliesPassOnce
  <1>. QED BY <1>1, <1>2, <1>3, AlwaysDriven, PTL DEF Spec, CalmSpec

-------------------------------------------------------------------------------
(* One question a round *)

Fresh ==
    /\ \A q \in Question : question[q] # "none" =>
          q[1] <= run.epoch /\ (q[1] = run.epoch => q[3] < run.round)
    /\ \A q, h \in Question : /\ question[q] # "none" /\ question[h] # "none"
                              /\ q[1] = h[1] /\ q[3] = h[3]
                              => q = h
    /\ \A t \in Thread : pc[t] = "drafting" => draft[t].round = run.round

\* A worker drafts for the round it read when it asked.
LEMMA DraftsKept ==
    ASSUME Typed, [Next]_vars, NEW u \in Thread, pc'[u] = "drafting"
    PROVE  \/ pc[u] = "drafting" /\ draft'[u] = draft[u]
           \/ run' = run /\ draft'[u].round = run.round
  <1>. USE DEF Typed, TypeOK
  <1>1. ASSUME NEW t \in Thread, NEW k \in Key, Claim(t, k) PROVE pc[u] = "drafting" /\ draft'[u] = draft[u]
    BY <1>1 DEF Claim, Goto
  <1>2. ASSUME NEW t \in Thread, Handles(t), t # u PROVE pc[u] = "drafting" /\ draft'[u] = draft[u]
    <2>1. pc'[u] = pc[u]
      BY <1>2, HandlesInside DEF Inner
    <2>2. draft'[u] = draft[u]
      BY <1>2 DEF Handles, OpenRun, EnterRun, Load, OpenReply, OpenResolution, TakeRun, Resume,
         Consume, Process, RequestClarification, Ask, Reserve, StageFails, HandlerRaises
    <2>. QED BY <2>1, <2>2
  <1>3. ASSUME Handles(u) PROVE run' = run /\ draft'[u].round = run.round
    <2>1. CASE Ask(u)
      <3>1. ~Rests(u)
        BY DEF Rests, Return, Goto
      <3>. QED BY <2>1, <3>1 DEF Ask
    <2>2. CASE Process(u) \/ Reserve(u)
      BY <2>2 DEF Process, Reserve, Rests, Return, Goto
    <2>. QED
      BY <1>3, <2>1, <2>2 DEF Handles, OpenRun, EnterRun, Load, OpenReply, OpenResolution, LookForResume,
         TakeRun, Resume, Consume, RequestClarification, StageFails, HandlerRaises, Goto, Return
  <1>4. ASSUME NEW t \in Thread, Settle(t) \/ Crash(t) PROVE pc[u] = "drafting" /\ draft'[u] = draft[u]
    BY <1>4 DEF Settle, Crash, Leave
  <1>5. ASSUME NEW k \in Key, LeaseExpires(k) \/ BackoffElapses(k) \/ Reap(k) \/ Enqueues(k)
        PROVE  pc[u] = "drafting" /\ draft'[u] = draft[u]
    BY <1>5 DEF LeaseExpires, BackoffElapses, Reap, Enqueues, Answer, Redeliver, Resolve, Retrigger, worker
  <1>6. CASE Elsewhere
    BY <1>6, ElsewhereUntouched DEF worker
  <1>. QED BY <1>1, <1>2, <1>3, <1>4, <1>5, <1>6, StepKinds

\* The round moves with a question that is asked, and starts again with a conversation.
LEMMA RoundMoves ==
    ASSUME MaxFaults = 0, MaxOverruns = 0, Driven, Fresh, [Next]_vars
    PROVE  \/ run'.epoch = run.epoch /\ run'.round = run.round
           \/ \E t \in Thread : Reserve(t) /\ run'.epoch = run.epoch /\ run'.round = run.round + 1
           \/ Retrigger /\ run'.epoch = run.epoch + 1 /\ run'.round = 0
  <1>0. Typed /\ faults = 0
    BY DEF Driven, Leased, Typed, TypeOK
  <1>. USE DEF SetStatus, ClaimStatus
  <1>1. ASSUME NEW t \in Thread, (\E k \in Key : Claim(t, k)) \/ Settle(t)
        PROVE  run'.epoch = run.epoch /\ run'.round = run.round
    BY <1>0, <1>1 DEF Claim, Settle, Failed, business, Typed, TypeOK
  <1>2. ASSUME NEW t \in Thread, Handles(t), ~Reserve(t)
        PROVE  run'.epoch = run.epoch /\ run'.round = run.round
    <2>1. CASE OpenRun(t)
      <3>1. Again(t) => run.status = "received"
        BY <2>1 DEF OpenRun, Waits, Driven, Agree
      <3>. QED BY <2>1, <3>1 DEF OpenRun, Rewound
    <2>2. CASE TakeRun(t)
      <3>1. pc[t] = "taking"
        BY <2>2 DEF TakeRun, Driven, Agree
      <3>. QED BY <1>0, <2>2, <3>1 DEF TakeRun, Typed, TypeOK
    <2>3. CASE Ask(t)
      <3>1. Slot(t) \in Question /\ Slot(t)[1] = run.epoch /\ Slot(t)[3] = run.round
        BY <1>0 DEF Slot, Question, Typed, TypeOK
      <3>2. question[Slot(t)] = "none"
        BY <1>0, <3>1 DEF Fresh, Typed, TypeOK
      <3>. QED BY <1>0, <2>3, <3>2 DEF Ask, Typed, TypeOK
    <2>. QED
      BY <1>0, <1>2, <2>1, <2>2, <2>3 DEF Handles, EnterRun, Load, OpenReply, OpenResolution, Resume,
         Consume, Process, RequestClarification, StageFails, HandlerRaises, business, Typed, TypeOK
  <1>3. ASSUME NEW t \in Thread, Reserve(t)
        PROVE  run'.epoch = run.epoch /\ run'.round = run.round + 1
    BY <1>0, <1>3 DEF Reserve, PauseAfter, Fresh, Typed, TypeOK
  <1>4. ASSUME NEW k \in Key, LeaseExpires(k) \/ BackoffElapses(k) \/ Reap(k)
        PROVE  run'.epoch = run.epoch /\ run'.round = run.round
    BY <1>4, ClockDriven DEF BackoffElapses, business
  <1>5. ASSUME NEW k \in Key, Enqueues(k)
        PROVE  \/ run'.epoch = run.epoch /\ run'.round = run.round
               \/ Retrigger /\ run'.epoch = run.epoch + 1 /\ run'.round = 0
    <2>1. Retrigger => run'.epoch = run.epoch + 1 /\ run'.round = 0
      BY <1>0 DEF Retrigger, Typed, TypeOK
    <2>. QED BY <1>5, <2>1 DEF Enqueues, Answer, Redeliver, Resolve, business
  <1>6. CASE Elsewhere
    BY <1>0, <1>6 DEF Elsewhere, Sender, AuthorizeQuestion, QuestionArrives, SettleQuestion, Approve,
         Reject, MarkHandled, Deliver, vars, business, Typed, TypeOK
  <1>7. \A t \in Thread : ~Crash(t)
    BY <1>0 DEF Crash
  <1>. QED BY <1>0, <1>1, <1>2, <1>3, <1>4, <1>5, <1>6, <1>7, StepKinds

LEMMA FreshStep ==
    ASSUME MaxFaults = 0, MaxOverruns = 0, Driven, Fresh, [Next]_vars, [RetriggersAtRest]_vars
    PROVE  Fresh'
  <1>0. Typed /\ run.epoch \in Nat /\ run.round \in Nat
    BY DEF Driven, Leased, Typed, TypeOK, Epoch
  <1>1. ASSUME NEW t \in Thread, Reserve(t), run'.epoch = run.epoch, run'.round = run.round + 1
        PROVE  Fresh'
    <2>1. PICK p \in Question : p = <<run.epoch, draft[t].purpose, draft[t].round>>
      BY <1>0 DEF Question, Typed, TypeOK
    <2>2. p[1] = run.epoch /\ p[3] = run.round
      BY <1>1, <2>1 DEF Reserve, Fresh
    <2>3. \A q \in Question : q # p => question'[q] = question[q]
      BY <1>0, <1>1, <2>1 DEF Reserve, ReserveSnapshot, Typed, TypeOK
    <2>4. \A u \in Thread : pc'[u] # "drafting"
      <3>1. Spine(t) /\ pc'[t] = "settling"
        BY <1>0, <1>1 DEF Reserve, Spine, InPipeline, Rests, Return, Goto, Typed, TypeOK
      <3>2. \A u \in Thread : u # t => pc[u] # "drafting" /\ pc'[u] = pc[u]
        <4>1. \A u \in Thread : u # t => ~Spine(u)
          BY <3>1, DriverAlone, SpineIsBusy
        <4>2. Inner(t)
          BY <1>0, <1>1, HandlesInside DEF Handles
        <4>. QED BY <1>0, <4>1, <4>2 DEF Spine, InPipeline, Inner, Typed, TypeOK
      <3>. QED BY <3>1, <3>2
    <2>5. \A q \in Question : q[1] \in Nat /\ q[3] \in Nat
      BY QuestionParts DEF Epoch
    <2>. QED BY <1>0, <1>1, <2>2, <2>3, <2>4, <2>5 DEF Fresh
  <1>2. ASSUME \A t \in Thread : ~Reserve(t)
        PROVE  \A q \in Question : question'[q] # "none" => question[q] # "none"
    BY <1>0, <1>2, AskedByReserve
  <1>3. ASSUME run'.epoch = run.epoch, run'.round = run.round, \A t \in Thread : ~Reserve(t)
        PROVE  Fresh'
    <2>1. \A u \in Thread : pc'[u] = "drafting" => draft'[u].round = run'.round
      BY <1>0, <1>3, DraftsKept DEF Fresh
    <2>. QED BY <1>2, <1>3, <2>1 DEF Fresh
  <1>4. ASSUME Retrigger, run'.epoch = run.epoch + 1, run'.round = 0, \A t \in Thread : ~Reserve(t)
        PROVE  Fresh'
    <2>1. ~OnItsWay
      <3>1. RetriggersAtRest
        BY <1>0, <1>4 DEF vars, business
      <3>. QED BY <1>4, <3>1 DEF RetriggersAtRest, OnItsWay
    <2>2. \A u \in Thread : pc'[u] # "drafting"
      <3>1. \A u \in Thread : ~Spine(u)
        BY <2>1, UnderDriver
      <3>. QED BY <1>4, <3>1 DEF Retrigger, worker, Spine, InPipeline
    <2>3. \A q \in Question : q[1] \in Nat
      BY QuestionParts DEF Epoch
    <2>. QED BY <1>0, <1>2, <1>4, <2>2, <2>3 DEF Fresh
  <1>5. ASSUME NEW t \in Thread, Reserve(t)
        PROVE  run'.epoch = run.epoch /\ run'.round = run.round + 1
    BY <1>0, <1>5 DEF Reserve, PauseAfter, Fresh, Typed, TypeOK
  <1>. QED BY <1>1, <1>3, <1>4, <1>5, RoundMoves

LEMMA AlwaysFresh ==
    ASSUME MaxFaults = 0, MaxOverruns = 0
    PROVE  CalmSpec => []Fresh
  <1>1. Init => Fresh
    BY DEF Init, Fresh
  <1>2. Driven /\ Fresh /\ [Next]_vars /\ [RetriggersAtRest]_vars => Fresh'
    BY FreshStep
  <1>. QED BY <1>1, <1>2, AlwaysDriven, PTL DEF Spec, CalmSpec

\* So a conversation keeps its budget whatever purposes its questions have.
THEOREM ConversationsHaveBudgets ==
    ASSUME MaxFaults = 0, MaxOverruns = 0
    PROVE  CalmSpec => []QuestionBudget
  <1>1. Spec => []QuestionsFit
    <2>1. Init => QuestionsFit
      BY DEF Init, QuestionsFit
    <2>2. Typed /\ QuestionsFit /\ [Next]_vars => Typed' /\ QuestionsFit'
      BY TypedStep, QuestionsFitStep
    <2>. QED BY <2>1, <2>2, TypedInit, PTL DEF Spec
  <1>2. Fresh /\ QuestionsFit => QuestionBudget
    <2>. SUFFICES ASSUME Fresh, QuestionsFit, NEW e \in Epoch
                  PROVE  Cardinality({q \in Question : q[1] = e /\ question[q] # "none"}) <= MaxRounds
      BY DEF QuestionBudget
    <2>. DEFINE S == {q \in Question : q[1] = e /\ question[q] # "none"}
                f == [q \in S |-> q[3]]
    <2>1. \A q \in S : q[3] \in 0..(MaxRounds - 1)
      BY QuestionParts DEF QuestionsFit
    <2>2. \A a, b \in S : a[3] = b[3] => a = b
      BY DEF Fresh
    <2>3. f \in [S -> 0..(MaxRounds - 1)] /\ \A a, b \in S : f[a] = f[b] => a = b
      BY <2>1, <2>2
    <2>. HIDE DEF S, f
    <2>4. Cardinality(S) <= MaxRounds
      BY <2>3, AtMost
    <2>. QED BY <2>4 DEF S
  <1>. QED BY <1>1, <1>2, AlwaysFresh, PTL DEF CalmSpec

-------------------------------------------------------------------------------
(* A run that waits has an open question, where no answer overtakes its settlement *)

Told == {"sent", "retired", "handled"}

\* Replies are to questions that are settled, and a reply with a job is known.
Linked ==
    \A r \in Reply :
        /\ reply[r].state # "none" => reply[r].to \in Question /\ question[reply[r].to] \in Told
        /\ job[<<"reply", r>>].state # "absent" => reply[r].state # "none"

\* One send at a time, under the handoff of the current conversation.
Sending ==
    /\ \A q \in Question : question[q] = "sending" => handoff = q
    /\ handoff # NoQuestion => handoff[1] = run.epoch

\* The steps that touch a question or the handoff.
LEMMA QuestionMoves ==
    ASSUME Typed, [Next]_vars
    PROVE  /\ arrived \subseteq arrived'
           /\ \/ UNCHANGED <<question, handoff>>
              \/ (\E t \in Thread : Reserve(t)) /\ handoff' = handoff
              \/ \E q \in Question : AuthorizeQuestion(q) \/ SettleQuestion(q)
              \/ MarkHandled
  <1>1. ASSUME NEW t \in Thread, Handles(t)
        PROVE  arrived' = arrived /\ handoff' = handoff /\ (question' = question \/ Reserve(t))
    BY <1>1 DEF Handles, OpenRun, EnterRun, Load, OpenReply, OpenResolution, TakeRun, Resume,
       Consume, Process, RequestClarification, Ask, Reserve, StageFails, HandlerRaises, business
  <1>2. ASSUME NEW t \in Thread, (\E k \in Key : Claim(t, k)) \/ Settle(t) \/ Crash(t)
        PROVE  UNCHANGED <<question, handoff, arrived>>
    BY <1>2 DEF Claim, Settle, Crash, business
  <1>3. ASSUME NEW k \in Key, LeaseExpires(k) \/ BackoffElapses(k) \/ Reap(k) \/ Enqueues(k)
        PROVE  UNCHANGED <<question, handoff, arrived>>
    BY <1>3 DEF LeaseExpires, BackoffElapses, Reap, Enqueues, Answer, Redeliver, Resolve,
       Retrigger, business
  <1>4. ASSUME NEW q \in Question, Sender(q)
        PROVE  /\ arrived \subseteq arrived'
               /\ UNCHANGED <<question, handoff>> \/ AuthorizeQuestion(q) \/ SettleQuestion(q)
    BY <1>4 DEF Sender, AuthorizeQuestion, QuestionArrives, SettleQuestion
  <1>5. CASE Approve \/ Reject \/ Deliver \/ UNCHANGED vars
    BY <1>5 DEF Approve, Reject, Deliver, vars, business
  <1>6. CASE MarkHandled
    BY <1>6 DEF MarkHandled
  <1>. QED BY <1>1, <1>2, <1>3, <1>4, <1>5, <1>6, StepKinds DEF Elsewhere

\* What is settled stays settled, and the operator's word stays.
LEMMA ToldStays ==
    ASSUME Typed, [Next]_vars, NEW q \in Question, question[q] \in Told
    PROVE  question'[q] \in Told /\ (question[q] = "handled" => question'[q] \in {"handled"})
  <1>. USE DEF Typed, TypeOK, Told
  <1>1. ASSUME NEW t \in Thread, Reserve(t) PROVE question'[q] = question[q]
    BY <1>1 DEF Reserve, ReserveSnapshot
  <1>2. ASSUME NEW p \in Question, AuthorizeQuestion(p) \/ SettleQuestion(p)
        PROVE  question'[q] = question[q]
    BY <1>2 DEF AuthorizeQuestion, SettleQuestion
  <1>3. CASE MarkHandled
    BY <1>3 DEF MarkHandled, Acknowledge
  <1>. QED BY <1>1, <1>2, <1>3, QuestionMoves

\* The steps that touch a reply.
LEMMA ReplyMoves ==
    ASSUME Typed, [Next]_vars
    PROVE  \/ reply' = reply
           \/ \E r \in Reply, q \in Question : Answer(r, q)
           \/ \E t \in Thread : Consume(t)
  <1>1. ASSUME NEW t \in Thread, Handles(t), ~Consume(t) PROVE reply' = reply
    BY <1>1 DEF Handles, OpenRun, EnterRun, Load, OpenReply, OpenResolution, TakeRun, Resume,
       Process, RequestClarification, Ask, Reserve, StageFails, HandlerRaises, inbox
  <1>2. ASSUME NEW t \in Thread, (\E k \in Key : Claim(t, k)) \/ Settle(t) \/ Crash(t)
        PROVE  reply' = reply
    BY <1>2 DEF Claim, Settle, Crash, inbox
  <1>3. ASSUME NEW k \in Key, LeaseExpires(k) \/ BackoffElapses(k) \/ Reap(k) \/ Enqueues(k)
        PROVE  reply' = reply \/ \E r \in Reply, q \in Question : Answer(r, q)
    BY <1>3 DEF LeaseExpires, BackoffElapses, Reap, Enqueues, Redeliver, Resolve, Retrigger, inbox
  <1>4. CASE Elsewhere
    BY <1>4 DEF Elsewhere, Sender, AuthorizeQuestion, QuestionArrives, SettleQuestion, Approve,
       Reject, MarkHandled, Deliver, vars, inbox
  <1>. QED BY <1>1, <1>2, <1>3, <1>4, StepKinds

\* Only a reply's worker reads a reply.
Readers == \A t \in Thread : pc[t] = "consuming" => Kind(t) = "reply"

LEMMA ReadersStep ==
    ASSUME Typed, Readers, [Next]_vars
    PROVE  Readers'
  <1>. USE DEF Typed, TypeOK, Readers, Kind
  <1>1. ASSUME NEW t \in Thread, NEW k \in Key, Claim(t, k) PROVE Readers'
    BY <1>1 DEF Claim, Goto
  <1>2. ASSUME NEW t \in Thread, Handles(t) PROVE Readers'
    <2>1. Inner(t)
      BY <1>2, HandlesInside
    <2>2. pc'[t] = "consuming" => Kind(t) = "reply"
      BY <1>2 DEF Handles, OpenRun, EnterRun, Load, OpenReply, OpenResolution, LookForResume,
         TakeRun, Resume, Consume, Process, RequestClarification, Ask, Reserve, StageFails,
         HandlerRaises, Rests, Goto, Return
    <2>. QED BY <2>1, <2>2 DEF Inner
  <1>3. ASSUME NEW t \in Thread, Settle(t) \/ Crash(t) PROVE Readers'
    BY <1>3 DEF Settle, Crash, Leave
  <1>4. ASSUME NEW k \in Key, LeaseExpires(k) \/ BackoffElapses(k) \/ Reap(k) \/ Enqueues(k)
        PROVE  Readers'
    BY <1>4 DEF LeaseExpires, BackoffElapses, Reap, Enqueues, Answer, Redeliver, Resolve, Retrigger, worker
  <1>5. CASE Elsewhere
    BY <1>5, ElsewhereUntouched DEF worker
  <1>. QED BY <1>1, <1>2, <1>3, <1>4, <1>5, StepKinds

LEMMA LinkedStep ==
    ASSUME PromptReplies = FALSE, Leased, Readers, Linked, [Next]_vars
    PROVE  Linked'
  <1>0. Typed /\ \A r \in Reply : <<"reply", r>> \in Key
    BY KeysAreKeys DEF Leased
  <1>1. \A r \in Reply : reply[r].state # "none" =>
            reply[r].to \in Question /\ question'[reply[r].to] \in Told
    BY <1>0, ToldStays DEF Linked
  <1>2. ASSUME NEW r \in Reply, job'[<<"reply", r>>].state # "absent"
        PROVE  reply[r].state # "none" \/ Enqueues(<<"reply", r>>)
    BY <1>0, <1>2, AbsentStays DEF Linked
  <1>3. ASSUME NEW r \in Reply, Enqueues(<<"reply", r>>)
        PROVE  reply[r].state = "linked" \/ \E q \in Question : Answer(r, q)
    <2>1. \A s \in Reply : <<"reply", r>> = <<"reply", s>> => r = s
      OBVIOUS
    <2>2. \E s \in Reply : s = r /\ ((\E q \in Question : Answer(s, q)) \/ Redeliver(s))
      BY <1>3, <2>1 DEF Enqueues, RunJob
    <2>. QED BY <2>2 DEF Redeliver
  <1>4. ASSUME NEW r \in Reply, NEW q \in Question, Answer(r, q)
        PROVE  Linked'
    <2>1. reply' = [reply EXCEPT ![r] = [state |-> "linked", to |-> q]]
      BY <1>4 DEF Answer
    <2>2. reply'[r].state = "linked" /\ reply'[r].to = q /\ \A s \in Reply : s # r => reply'[s] = reply[s]
      BY <1>0, <2>1 DEF Typed, TypeOK
    <2>3. question'[q] \in Told
      BY <1>4 DEF Answer, Told, business
    <2>4. ASSUME NEW s \in Reply, s # r, job'[<<"reply", s>>].state # "absent"
          PROVE  reply[s].state # "none"
      <3>1. job'[<<"reply", s>>] = job[<<"reply", s>>]
        BY <1>0, <1>4, <2>4 DEF Answer, Typed, TypeOK
      <3>. QED BY <2>4, <3>1 DEF Linked
    <2>. QED BY <1>1, <2>2, <2>3, <2>4 DEF Linked
  <1>5. ASSUME NEW t \in Thread, Consume(t)
        PROVE  Linked'
    <2>1. PICK r \in Reply : carry[t].key = <<"reply", r>>
      <3>1. carry[t].key \in Key /\ Kind(t) = "reply"
        BY <1>0, <1>5 DEF Consume, Readers, Typed, TypeOK
      <3>. QED BY <3>1, KeyParts DEF Kind
    <2>2. reply' = [reply EXCEPT ![r].state = "consumed"] /\ job' = job
      BY <1>5, <2>1 DEF Consume, MarkConsumed, queue
    <2>3. reply[r].state # "none"
      BY <1>5, <2>1 DEF Consume, Leased, Leases, Holds, Busy, Linked
    <2>4. \A s \in Reply : /\ reply'[s].to = reply[s].to
                           /\ reply'[s].state # "none" <=> reply[s].state # "none"
      BY <1>0, <2>2, <2>3 DEF Typed, TypeOK
    <2>. QED BY <1>1, <2>2, <2>4 DEF Linked
  <1>6. ASSUME reply' = reply, ~(\E r \in Reply, q \in Question : Answer(r, q))
        PROVE  Linked'
    <2>1. \A r \in Reply : job'[<<"reply", r>>].state # "absent" => reply[r].state # "none"
      BY <1>2, <1>3, <1>6
    <2>. QED BY <1>1, <1>6, <2>1 DEF Linked
  <1>7. CASE \E r \in Reply, q \in Question : Answer(r, q)
    BY <1>4, <1>7
  <1>8. CASE \E t \in Thread : Consume(t)
    BY <1>5, <1>8
  <1>. QED BY <1>0, <1>6, <1>7, <1>8, ReplyMoves

LEMMA SendingStep ==
    ASSUME Typed, Sending, [Next]_vars
    PROVE  Sending'
  <1>. USE DEF Typed, TypeOK, Sending
  <1>0. NoQuestion \notin Question
    BY Defaults
  <1>1. run'.epoch = run.epoch \/ (Retrigger /\ handoff = NoQuestion)
    BY EpochGrows DEF Retrigger
  <1>2. CASE UNCHANGED <<question, handoff>>
    BY <1>1, <1>2
  <1>3. ASSUME NEW t \in Thread, Reserve(t), handoff' = handoff PROVE Sending'
    <2>1. \A q \in Question : question'[q] = question[q] \/ question'[q] = "owed"
      BY <1>3 DEF Reserve, ReserveSnapshot
    <2>2. run'.epoch = run.epoch
      BY <1>3 DEF Reserve, PauseAfter
    <2>. QED BY <1>3, <2>1, <2>2
  <1>4. ASSUME NEW q \in Question, AuthorizeQuestion(q) PROVE Sending'
    <2>1. run'.epoch = run.epoch
      BY <1>4 DEF AuthorizeQuestion
    <2>. QED BY <1>0, <1>4, <2>1 DEF AuthorizeQuestion, Wanted
  <1>5. ASSUME NEW q \in Question, SettleQuestion(q) PROVE Sending'
    <2>1. run'.epoch = run.epoch /\ handoff = q
      BY <1>5 DEF SettleQuestion
    <2>2. \A p \in Question : p # q => question'[p] = question[p] /\ question[p] # "sending"
      BY <1>5, <2>1 DEF SettleQuestion
    <2>3. question'[q] # "sending" /\ (handoff' = handoff \/ handoff' = NoQuestion)
      BY <1>5 DEF SettleQuestion
    <2>. QED BY <2>1, <2>2, <2>3
  <1>6. CASE MarkHandled
    <2>1. run'.epoch = run.epoch /\ handoff' = handoff
      BY <1>6 DEF MarkHandled, SetStatus
    <2>2. \A q \in Question : question'[q] = question[q] \/ question'[q] = "handled"
      BY <1>6 DEF MarkHandled, Acknowledge
    <2>. QED BY <2>1, <2>2
  <1>. HIDE DEF Sending
  <1>. QED BY <1>2, <1>3, <1>4, <1>5, <1>6, QuestionMoves

\* How a run comes to await a reply.
LEMMA AwaitsAnew ==
    ASSUME MaxFaults = 0, MaxOverruns = 0, Driven, Fresh, [Next]_vars,
           run.status # "awaiting_reply", run'.status = "awaiting_reply"
    PROVE  MarkHandled \/ \E t \in Thread : Reserve(t)
  <1>0. Typed /\ faults = 0
    BY DEF Driven, Leased, Typed, TypeOK
  <1>. USE DEF SetStatus, ClaimStatus
  <1>1. ASSUME NEW t \in Thread, (\E k \in Key : Claim(t, k)) \/ Settle(t) PROVE FALSE
    BY <1>0, <1>1 DEF Claim, Settle, Failed, business, Typed, TypeOK
  <1>2. ASSUME NEW t \in Thread, Handles(t), ~Reserve(t) PROVE FALSE
    <2>1. CASE OpenRun(t) \/ TakeRun(t)
      BY <1>0, <2>1 DEF OpenRun, TakeRun, Rewound, Typed, TypeOK
    <2>2. CASE Ask(t)
      <3>1. Slot(t) \in Question /\ Slot(t)[1] = run.epoch /\ Slot(t)[3] = run.round
        BY <1>0 DEF Slot, Question, Typed, TypeOK
      <3>2. question[Slot(t)] = "none"
        BY <1>0, <3>1 DEF Fresh, Typed, TypeOK
      <3>. QED BY <1>0, <2>2, <3>2 DEF Ask, Typed, TypeOK
    <2>. QED
      BY <1>0, <1>2, <2>1, <2>2 DEF Handles, EnterRun, Load, OpenReply, OpenResolution, Resume,
         Consume, Process, RequestClarification, StageFails, HandlerRaises, business, Typed, TypeOK
  <1>3. ASSUME NEW k \in Key, LeaseExpires(k) \/ BackoffElapses(k) \/ Reap(k) PROVE FALSE
    BY <1>3, ClockDriven DEF BackoffElapses, business
  <1>4. ASSUME NEW k \in Key, Enqueues(k) PROVE FALSE
    <2>1. Retrigger => run'.status = "received"
      BY <1>0 DEF Retrigger, Typed, TypeOK
    <2>. QED BY <1>4, <2>1 DEF Enqueues, Answer, Redeliver, Resolve, business
  <1>5. ASSUME Elsewhere, ~MarkHandled PROVE FALSE
    BY <1>0, <1>5 DEF Elsewhere, Sender, AuthorizeQuestion, QuestionArrives, SettleQuestion, Approve,
         Reject, Deliver, vars, business, Typed, TypeOK
  <1>6. \A t \in Thread : ~Crash(t)
    BY <1>0 DEF Crash
  <1>. QED BY <1>0, <1>1, <1>2, <1>3, <1>4, <1>5, <1>6, StepKinds

OpenQuestion(q) ==
    /\ q[1] = run.epoch
    /\ question[q] \in {"owed", "sending", "sent"} \/ q \in arrived
    /\ ~Answered(q)

\* While the run waits, its open question stays open, or the one that took the handoff
\* in its place is open.
LEMMA StaysOpen ==
    ASSUME Driven, Linked, Sending, [Next]_vars, [RetriggersAtRest]_vars,
           run.status = "awaiting_reply", run'.status = "awaiting_reply",
           ActiveHandoffWillSettle', ActiveHandoffWillSettle => \E q \in Question : OpenQuestion(q)
    PROVE  \E q \in Question : OpenQuestion(q)'
  <1>0. Typed /\ arrived \subseteq arrived' /\ NoQuestion \notin Question
    BY QuestionMoves, Defaults DEF Driven, Leased
  <1>1. \A t \in Thread : ~Spine(t)
    BY DEF Driven, Agree
  <1>2. run'.epoch = run.epoch
    <2>1. ~Retrigger
      BY DEF Retrigger, Stale
    <2>. QED BY <1>0, <2>1, EpochGrows
  <1>3. \A q \in Question : Answered(q)' => Answered(q)
    <2>1. \A t \in Thread : ~Consume(t)
      BY <1>1 DEF Consume, Spine, InPipeline
    <2>2. ASSUME NEW r \in Reply, NEW p \in Question, Answer(r, p)
          PROVE  \A s \in Reply : reply'[s].state = "consumed" => reply'[s] = reply[s]
      BY <1>0, <2>2 DEF Answer, Typed, TypeOK
    <2>. QED BY <1>0, <2>1, <2>2, ReplyMoves DEF Answered
  <1>4. ASSUME NEW q \in Question, OpenQuestion(q),
               question'[q] = question[q] \/ question'[q] \in {"owed", "sending", "sent"}
        PROVE  OpenQuestion(q)'
    BY <1>0, <1>2, <1>3, <1>4 DEF OpenQuestion
  <1>5. CASE UNCHANGED <<question, handoff>>
    BY <1>4, <1>5 DEF ActiveHandoffWillSettle
  <1>6. ASSUME NEW t \in Thread, Reserve(t) PROVE FALSE
    BY <1>1, <1>6 DEF Reserve, Spine, InPipeline
  <1>7. ~MarkHandled
    BY DEF MarkHandled
  <1>8. ASSUME NEW p \in Question, AuthorizeQuestion(p) PROVE \E q \in Question : OpenQuestion(q)'
    <2>1. \A q \in Question : q # p => question'[q] = question[q]
      BY <1>0, <1>8 DEF AuthorizeQuestion, Typed, TypeOK
    <2>2. CASE Wanted(p) /\ handoff = NoQuestion
      <3>1. question'[p] = "sending"
        BY <1>0, <1>8, <2>2 DEF AuthorizeQuestion, Typed, TypeOK
      <3>. QED BY <1>4, <2>1, <2>2, <3>1 DEF ActiveHandoffWillSettle
    <2>3. CASE ~Wanted(p) /\ handoff = NoQuestion
      <3>1. p[1] # run.epoch
        BY <2>3 DEF Wanted
      <3>. QED BY <1>4, <2>1, <2>3, <3>1 DEF ActiveHandoffWillSettle, OpenQuestion
    <2>4. CASE handoff # NoQuestion
      <3>1. handoff \in Question /\ handoff' = handoff /\ question'[p] = "retired"
        BY <1>0, <1>8, <2>4 DEF AuthorizeQuestion, Typed, TypeOK
      <3>2. question'[handoff] = "sending" /\ handoff # p
        BY <2>4, <3>1 DEF ActiveHandoffWillSettle
      <3>3. question[handoff] = "sending"
        BY <2>1, <3>1, <3>2
      <3>4. ~Answered(handoff)
        BY <3>3 DEF Answered, Linked, Told
      <3>5. OpenQuestion(handoff)
        BY <2>4, <3>3, <3>4 DEF OpenQuestion, Sending
      <3>. QED BY <1>4, <3>1, <3>2, <3>5
    <2>. QED BY <2>2, <2>3, <2>4
  <1>9. ASSUME NEW p \in Question, SettleQuestion(p) PROVE \E q \in Question : OpenQuestion(q)'
    <2>1. question[p] = "sending" /\ handoff = p /\ p[1] = run.epoch
      BY <1>0, <1>9 DEF SettleQuestion, Sending
    <2>2. PICK q \in Question : OpenQuestion(q)
      BY <2>1 DEF ActiveHandoffWillSettle
    <2>3. \A h \in Question : h # p => question'[h] = question[h]
      BY <1>0, <1>9 DEF SettleQuestion, Typed, TypeOK
    <2>4. Wanted(p)
      BY <2>1 DEF Wanted
    <2>5. question'[p] \in {"sent", "owed"}
      BY <1>0, <1>9, <2>4 DEF SettleQuestion, Typed, TypeOK
    <2>. QED BY <1>4, <2>2, <2>3, <2>5
  <1>. QED BY <1>0, <1>5, <1>6, <1>7, <1>8, <1>9, QuestionMoves

LEMMA WaitsStep ==
    ASSUME MaxFaults = 0, MaxOverruns = 0, Driven, Fresh, Linked, Sending, [Next]_vars,
           [RetriggersAtRest]_vars, WaitsForAnOpenQuestion
    PROVE  WaitsForAnOpenQuestion'
  <1>0. Typed
    BY DEF Driven, Leased
  <1>. SUFFICES ASSUME run'.status = "awaiting_reply",
                       \A q \in Question : question'[q] # "handled",
                       ActiveHandoffWillSettle'
                PROVE  \E q \in Question : OpenQuestion(q)'
    BY DEF WaitsForAnOpenQuestion, OpenQuestion
  <1>1. \A q \in Question : question[q] # "handled"
    BY <1>0, ToldStays DEF Told
  <1>2. CASE run.status = "awaiting_reply"
    BY <1>1, <1>2, StaysOpen DEF WaitsForAnOpenQuestion, OpenQuestion
  <1>3. CASE run.status # "awaiting_reply"
    <2>1. ~MarkHandled
      <3>1. ASSUME NEW p \in Question, Acknowledge(p) PROVE FALSE
        <4>1. question'[p] = "handled"
          BY <1>0, <3>1 DEF Acknowledge, Typed, TypeOK
        <4>. QED BY <4>1
      <3>2. \A p \in Purpose : <<run.epoch, p, 0>> \in Question
        BY <1>0 DEF Question, Typed, TypeOK
      <3>. QED BY <3>1, <3>2 DEF MarkHandled
    <2>2. PICK t \in Thread : Reserve(t)
      BY <1>3, <2>1, AwaitsAnew
    <2>3. PICK q \in Question : q = <<run.epoch, draft[t].purpose, draft[t].round>>
      BY <1>0 DEF Question, Typed, TypeOK
    <2>4. q[1] = run.epoch /\ q[3] = run.round
      BY <2>2, <2>3 DEF Reserve, Fresh
    <2>5. question[q] = "none"
      BY <1>0, <2>4 DEF Fresh, Typed, TypeOK
    <2>6. question'[q] = "owed" /\ reply' = reply /\ run'.epoch = run.epoch
      BY <1>0, <2>2, <2>3, <2>5 DEF Reserve, ReserveSnapshot, PauseAfter, Typed, TypeOK
    <2>7. ~Answered(q)'
      BY <2>5, <2>6 DEF Answered, Linked, Told
    <2>. QED BY <2>4, <2>6, <2>7 DEF OpenQuestion
  <1>. QED BY <1>2, <1>3

\* A run that awaits a reply has a question of the current conversation that reached the
\* client or still will, and that no reply has answered, as long as the question's handoff
\* will settle and no answer comes before its question is settled.
THEOREM WaitingIsFounded ==
    ASSUME MaxFaults = 0, MaxOverruns = 0, PromptReplies = FALSE
    PROVE  CalmSpec => []WaitsForAnOpenQuestion
  <1>1. Init => Readers /\ Linked /\ Sending /\ WaitsForAnOpenQuestion
    <2>. SUFFICES ASSUME Init PROVE Readers /\ Linked /\ Sending /\ WaitsForAnOpenQuestion
      OBVIOUS
    <2>1. Readers /\ Sending /\ WaitsForAnOpenQuestion
      BY DEF Init, Readers, Sending, WaitsForAnOpenQuestion
    <2>2. \A r \in Reply : job[<<"reply", r>>].state = "absent"
      <3>1. \A r \in Reply : job[<<"reply", r>>] = AbsentRow
        BY KeysAreKeys DEF Init
      <3>2. AbsentRow.state = "absent"
        BY DEF AbsentRow
      <3>. QED BY <3>1, <3>2
    <2>3. \A r \in Reply : reply[r].state = "none"
      BY DEF Init, NoReply
    <2>4. Linked
      BY <2>2, <2>3 DEF Linked
    <2>. QED BY <2>1, <2>4
  <1>2. Driven /\ Readers /\ Linked /\ Sending /\ [Next]_vars => Readers' /\ Linked' /\ Sending'
    BY ReadersStep, LinkedStep, SendingStep DEF Driven, Leased
  <1>3. CalmSpec => [](Readers /\ Linked /\ Sending)
    BY <1>1, <1>2, AlwaysDriven, PTL DEF Spec, CalmSpec
  <1>4. Driven /\ Fresh /\ Linked /\ Sending /\ WaitsForAnOpenQuestion /\ [Next]_vars
            /\ [RetriggersAtRest]_vars
          => WaitsForAnOpenQuestion'
    BY WaitsStep
  <1>. QED BY <1>1, <1>3, <1>4, AlwaysDriven, AlwaysFresh, PTL DEF Spec, CalmSpec

-------------------------------------------------------------------------------
(* The promise: the jobs of a run are jobs of the queue, overruns or not *)

\* A busy worker carries a token that was minted, and no other worker the same.
Tokens ==
    /\ \A t \in Thread : Busy(t) => carry[t].token <= minted
    /\ \A t, u \in Thread : Busy(t) /\ Busy(u) /\ carry[t].token = carry[u].token => t = u

\* Busy workers keep what they carry; some become idle, at most.
OnlyLeave == \A t \in Thread : Busy(t)' => Busy(t) /\ carry'[t] = carry[t]

Claims == \E t \in Thread, k \in Key : Claim(t, k)

LEMMA OnlyClaimsEnter ==
    ASSUME Typed, [Next]_vars, ~Claims PROVE OnlyLeave /\ minted' = minted
  <1>. USE DEF Typed, TypeOK, OnlyLeave, Busy
  <1>1. ASSUME UNCHANGED <<minted, worker>> PROVE OnlyLeave /\ minted' = minted
    BY <1>1 DEF worker
  <1>2. ASSUME NEW t \in Thread, Handles(t) PROVE OnlyLeave /\ minted' = minted
    <2>1. Inner(t)
      BY <1>2, HandlesInside
    <2>. QED BY <2>1 DEF Inner, queue
  <1>3. ASSUME NEW t \in Thread, Settle(t) \/ Crash(t) PROVE OnlyLeave /\ minted' = minted
    BY <1>3 DEF Settle, Crash, Leave, queue
  <1>4. ASSUME NEW k \in Key, LeaseExpires(k) \/ BackoffElapses(k) \/ Reap(k)
        PROVE  OnlyLeave /\ minted' = minted
    BY <1>1, <1>4 DEF LeaseExpires, BackoffElapses, Reap
  <1>5. ASSUME NEW k \in Key, Enqueues(k) PROVE OnlyLeave /\ minted' = minted
    BY <1>1, <1>5, EnqueuesJoin DEF Joins, queue
  <1>6. CASE Elsewhere
    BY <1>1, <1>6, ElsewhereUntouched DEF queue
  <1>. HIDE DEF OnlyLeave
  <1>. QED BY <1>2, <1>3, <1>4, <1>5, <1>6, StepKinds DEF Claims

\* What a claim grants: a token nobody carries.
Grants(t, k) ==
    /\ ~Busy(t) /\ Busy(t)' /\ \A u \in Thread : u # t => (Busy(u)' <=> Busy(u))
    /\ minted' = minted + 1
    /\ carry'[t].key = k /\ carry'[t].token = minted'
    /\ \A u \in Thread : u # t => carry'[u] = carry[u]
    /\ \A u \in Thread : Busy(u) => carry[u].token # minted'
    /\ job[k].state \in {"pending", "leased"} /\ job[k].attempts < MaxAttempts
    /\ job'[k].state = "leased" /\ job'[k].token = minted'
    /\ job'[k].attempts = job[k].attempts + 1
    /\ \A l \in Key : l # k => job'[l] = job[l]

LEMMA ClaimGrants ==
    ASSUME Typed, Tokens, NEW t \in Thread, NEW k \in Key, Claim(t, k) PROVE Grants(t, k)
  <1>0. /\ pc \in [Thread -> Label] /\ minted \in Nat /\ job \in [Key -> Row(MaxAttempts)]
        /\ carry \in [Thread -> [key : Key, token : Nat, attempts : 0..MaxAttempts]]
        /\ job[k] \in Row(MaxAttempts)
    BY DEF Typed, TypeOK
  <1>1. /\ pc[t] = "idle" /\ pc' = [pc EXCEPT ![t] = "opened"]
        /\ job[k].state \in {"pending", "leased"} /\ job[k].attempts < MaxAttempts
        /\ minted' = minted + 1
        /\ job' = [job EXCEPT ![k] = Claimed(@, minted')]
        /\ carry' = [carry EXCEPT ![t] = [key |-> k, token |-> minted',
                                          attempts |-> job'[k].attempts]]
    BY DEF Claim, Claimable, Goto
  <1>2. /\ Claimed(job[k], minted').state = "leased" /\ Claimed(job[k], minted').token = minted'
        /\ Claimed(job[k], minted').attempts = job[k].attempts + 1
    BY <1>0 DEF Claimed, Row
  <1>3. /\ ~Busy(t) /\ Busy(t)' /\ \A u \in Thread : u # t => (Busy(u)' <=> Busy(u))
        /\ carry'[t].key = k /\ carry'[t].token = minted'
        /\ \A u \in Thread : u # t => carry'[u] = carry[u]
    BY <1>0, <1>1 DEF Busy
  <1>4. job'[k] = Claimed(job[k], minted') /\ \A l \in Key : l # k => job'[l] = job[l]
    BY <1>0, <1>1
  <1>5. \A u \in Thread : Busy(u) => carry[u].token # minted'
    BY <1>0, <1>1 DEF Tokens
  <1>. QED BY <1>1, <1>2, <1>3, <1>4, <1>5 DEF Grants

LEMMA TokensInit == Init => Tokens
  BY DEF Init, Tokens, Busy

LEMMA TokensStep == Typed /\ Tokens /\ [Next]_vars => Tokens'
  <1>. SUFFICES ASSUME Typed, Tokens, [Next]_vars PROVE Tokens'
    OBVIOUS
  <1>0. minted \in Nat /\ \A u \in Thread : carry[u].token \in Nat
    BY DEF Typed, TypeOK
  <1>1. ASSUME NEW t \in Thread, NEW k \in Key, Claim(t, k) PROVE Tokens'
    <2>1. Grants(t, k)
      BY <1>1, ClaimGrants
    <2>. QED BY <1>0, <2>1 DEF Grants, Tokens
  <1>2. ASSUME OnlyLeave, minted' = minted PROVE Tokens'
    BY <1>2 DEF OnlyLeave, Tokens
  <1>. QED BY <1>1, <1>2, OnlyClaimsEnter DEF Claims

LEMMA PromiseInit == Init => Promise!Init
  <1>. SUFFICES ASSUME Init PROVE Promise!Init
    OBVIOUS
  <1>1. \A k \in Key : /\ Promised(job[k]) \in {"absent", "queued"}
                       /\ job[k].attempts = 0 /\ Holders(k) = {}
    BY DEF Init, AbsentRow, Enqueued, Promised, Holders
  <1>. QED BY <1>1 DEF Promise!Init

\* A row keeps its state, its token and its attempts.
Same(r, s) == s.state = r.state /\ s.token = r.token /\ s.attempts = r.attempts

LEMMA SameRows ==
    ASSUME NEW r \in Row(MaxAttempts)
    PROVE  /\ Same(r, r) /\ Same(r, LeaseRanOut(r)) /\ Same(r, BackoffElapsed(r))
           /\ r.state # "absent" => Same(r, Enqueued(r, TRUE))
           /\ r.state = "absent" => /\ Enqueued(r, TRUE).state = "pending"
                                    /\ Enqueued(r, TRUE).attempts = r.attempts
  BY DEF Same, LeaseRanOut, BackoffElapsed, Enqueued, Row

\* What a settlement does to the state and the attempts of a row.
LEMMA Outcomes ==
    ASSUME NEW r \in Row(MaxAttempts)
    PROVE  /\ Settled(r, "done").state = "done" /\ Settled(r, "done").attempts = r.attempts
           /\ Settled(r, "dead").state = "dead" /\ Settled(r, "dead").attempts = r.attempts
           /\ Retried(r).state = "pending" /\ Retried(r).attempts = r.attempts
  <1>1. \A s \in JobState : /\ Settled(r, s) \in Row(MaxAttempts) /\ Settled(r, s).state = s
                            /\ Settled(r, s).attempts = r.attempts
    BY DEF Settled, Row, NoToken
  <1>2. Settled(r, "pending") \in Row(MaxAttempts) /\ Settled(r, "pending").attempts = r.attempts
    BY <1>1 DEF JobState
  <1>3. Retried(r).state = "pending" /\ Retried(r).attempts = r.attempts
    <2>1. Settled(r, "pending").state = "pending"
      BY <1>1 DEF JobState
    <2>. QED BY <1>2, <2>1 DEF Retried, Row
  <1>. QED BY <1>1, <1>3 DEF JobState

LEMMA HoldersVanish ==
    ASSUME OnlyLeave, \A k \in Key : Same(job[k], job'[k])
    PROVE  \E W \in SUBSET Thread : Promise!Vanish(W)
  <1>. DEFINE W == {t \in Thread : pc'[t] = "idle"}
  <1>1. \A k \in Key : Holders(k)' \subseteq Holders(k) \ W
    BY DEF Same, OnlyLeave, Busy, Holders, Holds
  <1>2. ASSUME NEW k \in Key, NEW t \in Holders(k) \ W PROVE t \in Holders(k)'
    <2>1. /\ pc'[t] # "idle" /\ carry'[t] = carry[t] /\ carry[t].key = k
          /\ Holds(job[k], carry[t].token)
      BY <1>2 DEF OnlyLeave, Busy, Holders
    <2>. QED BY <1>2, <2>1 DEF Same, Holders, Holds
  <1>3. \A k \in Key : Holders(k)' = Holders(k) \ W
    BY <1>1, <1>2
  <1>4. \A k \in Key : Promised(job[k])' = Promised(job[k]) /\ job'[k].attempts = job[k].attempts
    BY DEF Same, Promised
  <1>5. Promise!Vanish(W)
    BY <1>3, <1>4 DEF Promise!Vanish
  <1>. QED BY <1>5

\* A step that ends the lease of one row, or enqueues it, and what it is to the promise.
\* Nobody holds a row that is not leased; the holders of the others stay.
LEMMA RowMoves ==
    ASSUME NEW k \in Key, job'[k].attempts = job[k].attempts,
           \A l \in Key : l # k => job'[l] = job[l],
           OnlyLeave, \A t \in Thread : ~Busy(t)' /\ Busy(t) => carry[t].key = k
    PROVE  /\ job[k].state = "absent" /\ job'[k].state = "pending" => Promise!Accept(k)
           /\ job[k].state = "leased" /\ job'[k].state = "dead" /\ job[k].attempts = MaxAttempts
                => Promise!GiveUp(k)
           /\ \A t \in Thread :
                /\ job[k].state = "leased" /\ Holders(k) = {t}
                /\ \/ job'[k].state = "done"
                   \/ job[k].attempts < MaxAttempts /\ job'[k].state = "pending"
                   \/ job[k].attempts = MaxAttempts /\ job'[k].state = "dead"
                => Promise!Conclude(t, k)
  <1>1. \A l \in Key : job'[l].attempts = job[l].attempts
    OBVIOUS
  <1>2. \A l \in Key : l # k => Promised(job[l])' = Promised(job[l])
    BY DEF Promised
  <1>3. job'[k].state # "leased" =>
          Holders(k)' = {} /\ \A l \in Key : l # k => Holders(l)' = Holders(l)
    <2>1. job'[k].state # "leased" => Holders(k)' = {}
      BY DEF Holders, Holds
    <2>2. ASSUME NEW l \in Key, l # k PROVE Holders(l)' = Holders(l)
      BY <2>2 DEF Holders, Holds, OnlyLeave, Busy
    <2>. QED BY <2>1, <2>2
  <1>4. ASSUME job[k].state = "absent", job'[k].state = "pending" PROVE Promise!Accept(k)
    <2>1. Promised(job[k]) = "absent" /\ Promised(job[k])' = "queued"
      BY <1>4 DEF Promised
    <2>2. Holders(k) = {}
      BY <1>4 DEF Holders, Holds
    <2>3. \A l \in Key : Holders(l)' = Holders(l)
      BY <1>3, <1>4, <2>2
    <2>. QED BY <1>1, <1>2, <2>1, <2>3 DEF Promise!Accept
  <1>5. ASSUME NEW s \in {"queued", "done", "dead"}, job'[k].state # "leased",
               Promised(job[k])' = s
        PROVE  /\ [l \in Key |-> Promised(job[l])]'
                    = [[l \in Key |-> Promised(job[l])] EXCEPT ![k] = s]
               /\ [l \in Key |-> Holders(l)]' = [[l \in Key |-> Holders(l)] EXCEPT ![k] = {}]
               /\ [l \in Key |-> job[l].attempts]' = [l \in Key |-> job[l].attempts]
    BY <1>1, <1>2, <1>3, <1>5
  <1>6. /\ job[k].state = "leased" => Promised(job[k]) = "held"
        /\ job'[k].state = "done" => Promised(job[k])' = "done"
        /\ job'[k].state = "dead" => Promised(job[k])' = "dead"
        /\ job'[k].state = "pending" => Promised(job[k])' = "queued"
    BY DEF Promised
  <1>7. ASSUME job[k].state = "leased", job'[k].state = "dead", job[k].attempts = MaxAttempts
        PROVE  Promise!GiveUp(k)
    BY <1>5, <1>6, <1>7 DEF Promise!GiveUp
  <1>8. ASSUME NEW t \in Thread, job[k].state = "leased", Holders(k) = {t},
               \/ job'[k].state = "done"
               \/ job[k].attempts < MaxAttempts /\ job'[k].state = "pending"
               \/ job[k].attempts = MaxAttempts /\ job'[k].state = "dead"
        PROVE  Promise!Conclude(t, k)
    <2>1. CASE job'[k].state = "done"
      BY <1>5, <1>6, <1>8, <2>1 DEF Promise!Conclude
    <2>2. CASE job[k].attempts < MaxAttempts /\ job'[k].state = "pending"
      BY <1>5, <1>6, <1>8, <2>2 DEF Promise!Conclude
    <2>3. CASE job[k].attempts = MaxAttempts /\ job'[k].state = "dead"
      BY <1>5, <1>6, <1>8, <2>3 DEF Promise!Conclude
    <2>. QED BY <1>8, <2>1, <2>2, <2>3
  <1>. QED BY <1>4, <1>7, <1>8

LEMMA ClaimIsGrant ==
    ASSUME Typed, Tokens, NEW t \in Thread, NEW k \in Key, Claim(t, k) PROVE Promise!Grant(t, k)
  <1>0. Grants(t, k)
    BY ClaimGrants
  <1>1. Holders(k)' = {t}
    BY <1>0 DEF Grants, Busy, Holders, Holds
  <1>2. ASSUME NEW l \in Key, l # k PROVE Holders(l)' = Holders(l)
    BY <1>0, <1>2 DEF Grants, Busy, Holders, Holds
  <1>3. /\ Promised(job[k]) \in {"queued", "held"} /\ Promised(job[k])' = "held"
        /\ \A l \in Key : l # k => Promised(job[l])' = Promised(job[l])
    BY <1>0 DEF Grants, Promised
  <1>4. /\ [l \in Key |-> Promised(job[l])]'
             = [[l \in Key |-> Promised(job[l])] EXCEPT ![k] = "held"]
        /\ [l \in Key |-> Holders(l)]' = [[l \in Key |-> Holders(l)] EXCEPT ![k] = {t}]
        /\ [l \in Key |-> job[l].attempts]' = [[l \in Key |-> job[l].attempts] EXCEPT ![k] = @ + 1]
    BY <1>0, <1>1, <1>2, <1>3 DEF Grants
  <1>. QED BY <1>0, <1>3, <1>4 DEF Grants, Promise!Grant

\* A settlement that passes the fence concludes the try of the one holder; one that does
\* not, or that is answered FENCED because of the run, is a holder gone.
LEMMA SettleConcludes ==
    ASSUME Typed, Tokens, OnlyLeave, NEW t \in Thread, Settle(t) PROVE Promise!Next
  <1>k. PICK k \in Key : k = carry[t].key
    BY DEF Typed, TypeOK
  <1>0. job \in [Key -> Row(MaxAttempts)] /\ job[k] \in Row(MaxAttempts)
    BY DEF Typed, TypeOK
  <1>1. /\ Busy(t) /\ \A u \in Thread : ~Busy(u)' /\ Busy(u) => carry[u].key = k
    BY <1>k DEF Settle, Leave, Busy, Typed, TypeOK
  <1>2. \/ job' = job
        \/ /\ Holds(job[k], carry[t].token)
           /\ \/ job' = [job EXCEPT ![k] = Settled(@, "done")]
              \/ job[k].attempts < MaxAttempts /\ job' = [job EXCEPT ![k] = Retried(@)]
              \/ job[k].attempts = MaxAttempts /\ job' = [job EXCEPT ![k] = Settled(@, "dead")]
    BY <1>k DEF Settle
  <1>3. CASE job' = job
    <2>1. \A l \in Key : Same(job[l], job'[l])
      BY <1>3 DEF Same
    <2>. QED BY <2>1, HoldersVanish DEF Promise!Next
  <1>4. CASE Holds(job[k], carry[t].token) /\ job' # job
    <2>1. job[k].state = "leased" /\ Holders(k) = {t}
      BY <1>k, <1>1, <1>4 DEF Holders, Holds, Tokens, Busy
    <2>2. /\ job'[k].attempts = job[k].attempts
          /\ \A l \in Key : l # k => job'[l] = job[l]
          /\ \/ job'[k].state = "done"
             \/ job[k].attempts < MaxAttempts /\ job'[k].state = "pending"
             \/ job[k].attempts = MaxAttempts /\ job'[k].state = "dead"
      <3>1. /\ Settled(job[k], "done").state = "done"
            /\ Settled(job[k], "done").attempts = job[k].attempts
            /\ Settled(job[k], "dead").state = "dead"
            /\ Settled(job[k], "dead").attempts = job[k].attempts
            /\ Retried(job[k]).state = "pending" /\ Retried(job[k]).attempts = job[k].attempts
        BY <1>0, Outcomes
      <3>. QED BY <1>0, <1>2, <1>4, <3>1
    <2>3. Promise!Conclude(t, k)
      BY <1>1, <2>1, <2>2, RowMoves
    <2>. QED BY <2>3 DEF Promise!Next
  <1>. QED BY <1>2, <1>3, <1>4

\* Answer, redelivery, resolution and retrigger accept a job that was not there, or find
\* one that was.
LEMMA EnqueueAccepts ==
    ASSUME Typed, OnlyLeave, NEW k \in Key, Enqueues(k) PROVE Promise!Next
  <1>0. job \in [Key -> Row(MaxAttempts)] /\ job[k] \in Row(MaxAttempts)
    BY DEF Typed, TypeOK
  <1>1. CASE UNCHANGED job
    <2>1. \A l \in Key : Same(job[l], job'[l])
      BY <1>1 DEF Same
    <2>. QED BY <2>1, HoldersVanish DEF Promise!Next
  <1>2. CASE Joins(k)
    <2>1. /\ job'[k] = Enqueued(job[k], TRUE) /\ \A l \in Key : l # k => job'[l] = job[l]
          /\ UNCHANGED pc
      BY <1>0, <1>2 DEF Joins, worker
    <2>2. CASE job[k].state = "absent"
      <3>1. job'[k].state = "pending" /\ job'[k].attempts = job[k].attempts
        BY <1>0, <2>1, <2>2, SameRows
      <3>2. Promise!Accept(k)
        BY <2>1, <2>2, <3>1, RowMoves DEF Busy
      <3>. QED BY <3>2 DEF Promise!Next
    <2>3. CASE job[k].state # "absent"
      <3>1. \A l \in Key : Same(job[l], job'[l])
        BY <1>0, <2>1, <2>3, SameRows
      <3>. QED BY <3>1, HoldersVanish DEF Promise!Next
    <2>. QED BY <2>2, <2>3
  <1>. QED BY <1>1, <1>2, EnqueuesJoin DEF queue

LEMMA PromiseStep == Typed /\ Tokens /\ [Next]_vars => [Promise!Next]_(Promise!service)
  <1>. SUFFICES ASSUME Typed, Tokens, [Next]_vars PROVE Promise!Next
    OBVIOUS
  <1>0. /\ job \in [Key -> Row(MaxAttempts)] /\ \A k \in Key : job[k] \in Row(MaxAttempts)
    BY DEF Typed, TypeOK
  <1>1. CASE Claims
    BY <1>1, ClaimIsGrant DEF Claims, Promise!Next
  <1>2. CASE ~Claims
    <2>0. OnlyLeave
      BY <1>2, OnlyClaimsEnter
    <2>1. ASSUME \A k \in Key : Same(job[k], job'[k]) PROVE Promise!Next
      BY <2>0, <2>1, HoldersVanish DEF Promise!Next
    <2>2. ASSUME UNCHANGED job PROVE Promise!Next
      BY <2>1, <2>2 DEF Same
    <2>3. ASSUME NEW t \in Thread, Handles(t) \/ Crash(t) PROVE Promise!Next
      <3>1. UNCHANGED job
        BY <2>3, HandlesInside DEF Inner, Crash, queue
      <3>. QED BY <2>2, <3>1
    <2>4. ASSUME NEW t \in Thread, Settle(t) PROVE Promise!Next
      BY <2>0, <2>4, SettleConcludes
    <2>5. ASSUME NEW k \in Key, LeaseExpires(k) \/ BackoffElapses(k) PROVE Promise!Next
      <3>1. \A l \in Key : \/ job'[l] = job[l] \/ job'[l] = LeaseRanOut(job[l])
                           \/ job'[l] = BackoffElapsed(job[l])
        BY <1>0, <2>5 DEF LeaseExpires, BackoffElapses
      <3>. QED BY <1>0, <2>1, <3>1, SameRows
    <2>6. ASSUME NEW k \in Key, Reap(k) PROVE Promise!Next
      <3>1. /\ job[k].state = "leased" /\ job[k].attempts = MaxAttempts
            /\ job' = [job EXCEPT ![k] = Settled(@, "dead")] /\ UNCHANGED pc
        BY <2>6 DEF Reap, ExpiredFinal, worker
      <3>2. /\ job'[k].state = "dead" /\ job'[k].attempts = job[k].attempts
            /\ \A l \in Key : l # k => job'[l] = job[l]
        <4>1. /\ Settled(job[k], "dead").state = "dead"
              /\ Settled(job[k], "dead").attempts = job[k].attempts
          BY <1>0, Outcomes
        <4>. QED BY <1>0, <3>1, <4>1
      <3>3. Promise!GiveUp(k)
        BY <2>0, <3>1, <3>2, RowMoves DEF Busy
      <3>. QED BY <3>3 DEF Promise!Next
    <2>7. ASSUME NEW k \in Key, Enqueues(k) PROVE Promise!Next
      BY <2>0, <2>7, EnqueueAccepts
    <2>8. CASE Elsewhere
      BY <2>2, <2>8, ElsewhereUntouched DEF queue
    <2>. QED BY <1>2, <2>3, <2>4, <2>5, <2>6, <2>7, <2>8, StepKinds DEF Claims
  <1>. QED BY <1>1, <1>2

\* The run_pipeline, resume_reply and operator_resume jobs, under retriggers, late and
\* redelivered replies, leases that run out under a living worker, FENCED settlements and
\* crashes, implement the promise of the queue: one holder at a time, a try per claim, no
\* job given up with tries left.
THEOREM RunKeepsPromise == Spec => KeepsPromise
  <1>1. Init => Typed /\ Tokens
    BY TypedInit, TokensInit
  <1>2. Typed /\ Tokens /\ [Next]_vars => Typed' /\ Tokens'
    BY TypedStep, TokensStep
  <1>. QED BY <1>1, <1>2, PromiseInit, PromiseStep, PTL DEF Spec, KeepsPromise, Promise!Spec
===============================================================================
