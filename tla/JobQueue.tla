------------------------------- MODULE JobQueue -------------------------------
(***************************************************************************)
(* The durable job queue as its workers drive it: drain_once() of            *)
(* app/queue/drain.py with the claim, settlement, release and reap           *)
(* statements of app/db/repo.  Several processes (an old instance shutting   *)
(* down, the new one already up) share the table; each has its own threads,  *)
(* its own _held_tokens and its own shutdown.                                *)
(*                                                                           *)
(* A thread's step ends where another actor can be observed to act: at the   *)
(* commit of a statement or at the release of _held_tokens_lock.             *)
(***************************************************************************)
EXTENDS JobRow, FiniteSets

CONSTANTS Job,          \* dedup keys
          PipelineJob,  \* jobs bound to a run: settlement may be refused by the run's status
          Proc,         \* application processes
          Thread,       \* worker threads
          Home,         \* the process each thread belongs to
          MaxAttempts,  \* jobs.max_attempts
          MaxRestarts   \* bound on crashes and shutdowns together

ASSUME QueueAssumption ==
    /\ Job # {} /\ PipelineJob \subseteq Job
    /\ Home \in [Thread -> Proc]
    /\ MaxAttempts \in Nat \ {0}
    /\ MaxRestarts \in Nat

VARIABLES row,       \* the jobs table
          minted,    \* gen_random_uuid(): how many tokens were ever handed out
          pc,        \* where each thread stands in _loop/drain_once
          lease,     \* the Job object a thread carries: [job, token]
          held,      \* _held_tokens of each process
          granted,   \* history: every token the table ever gave to this incarnation
          phase,     \* "running", "joining", "releasing" or "stopped"
          snapshot,  \* what held_tokens() returned to stop()
          clean,     \* the snapshot was taken with every thread accounted for
          restarts

db == <<row, minted, granted>>
process == <<phase, snapshot, clean, restarts>>
vars == <<row, minted, pc, lease, held, granted, phase, snapshot, clean, restarts>>

NoLease == [job |-> CHOOSE j \in Job : TRUE, token |-> NoToken]

ThreadsOf(p) == {t \in Thread : Home[t] = p}

Init ==
    /\ row = [j \in Job |-> AbsentRow]
    /\ minted = 0
    /\ pc = [t \in Thread |-> "top"]
    /\ lease = [t \in Thread |-> NoLease]
    /\ held = [p \in Proc |-> {}]
    /\ granted = [p \in Proc |-> {}]
    /\ phase = [p \in Proc |-> "running"]
    /\ snapshot = [p \in Proc |-> {}]
    /\ clean = [p \in Proc |-> FALSE]
    /\ restarts = 0

-------------------------------------------------------------------------------
(* Producers and time *)

Enqueue(j) ==
    /\ row[j].state = "absent"
    /\ \E due \in BOOLEAN : row' = [row EXCEPT ![j] = Enqueued(@, due)]
    /\ UNCHANGED <<minted, granted, pc, lease, held, process>>

LeaseExpires(j) ==
    /\ row[j].state = "leased" /\ ~row[j].expired
    /\ row' = [row EXCEPT ![j] = LeaseRanOut(@)]
    /\ UNCHANGED <<minted, granted, pc, lease, held, process>>

BackoffElapses(j) ==
    /\ row[j].state = "pending" /\ ~row[j].due
    /\ row' = [row EXCEPT ![j] = BackoffElapsed(@)]
    /\ UNCHANGED <<minted, granted, pc, lease, held, process>>

-------------------------------------------------------------------------------
(* A worker thread *)

Goto(t, label) == pc' = [pc EXCEPT ![t] = label]

\* Top of _loop: leave when the generation's stop event is set, else go on to drain.
LoopTop(t) ==
    /\ pc[t] = "top"
    /\ Goto(t, IF phase[Home[t]] = "running" THEN "entering" ELSE "exited")
    /\ UNCHANGED <<db, lease, held, process>>

\* drain_once(): _claims_in_flight += 1 under the lock.
BeginClaim(t) ==
    /\ pc[t] = "entering"
    /\ Goto(t, "claiming")
    /\ UNCHANGED <<db, lease, held, process>>

\* claim_job() commits; the process does not know its token yet.
GrantClaim(t, j) ==
    /\ pc[t] = "claiming"
    /\ Claimable(row[j], MaxAttempts)
    /\ minted' = minted + 1
    /\ row' = [row EXCEPT ![j] = Claimed(@, minted')]
    /\ lease' = [lease EXCEPT ![t] = [job |-> j, token |-> row'[j].token]]
    /\ granted' = [granted EXCEPT ![Home[t]] = @ \cup {row'[j].token}]
    /\ Goto(t, "granted")
    /\ UNCHANGED <<held, process>>

\* No row to claim: the counter drops and the reaper gets its turn.
ClaimNothing(t) ==
    /\ pc[t] = "claiming"
    /\ \A j \in Job : ~Claimable(row[j], MaxAttempts)
    /\ Goto(t, "reaping")
    /\ UNCHANGED <<db, lease, held, process>>

ReapOne(t, j) ==
    /\ pc[t] = "reaping"
    /\ ExpiredFinal(row[j], MaxAttempts)
    /\ row' = [row EXCEPT ![j] = Settled(@, "dead")]
    /\ Goto(t, "top")
    /\ UNCHANGED <<minted, granted, lease, held, process>>

ReapNothing(t) ==
    /\ pc[t] = "reaping"
    /\ \A j \in Job : ~ExpiredFinal(row[j], MaxAttempts)
    /\ Goto(t, "top")
    /\ UNCHANGED <<db, lease, held, process>>

\* The `finally` of the claim: token recorded and counter dropped in one section.
RecordToken(t) ==
    /\ pc[t] = "granted"
    /\ held' = [held EXCEPT ![Home[t]] = @ \cup {lease[t].token}]
    /\ Goto(t, "working")
    /\ UNCHANGED <<db, lease, process>>

\* The handler returned and the settlement transaction found the fence intact.
SettleHeld(t) ==
    LET j == lease[t].job IN
    /\ pc[t] = "working"
    /\ Holds(row[j], lease[t].token)
    /\ row' \in {[row EXCEPT ![j] = Settled(@, "done")]} \cup
                (IF row[j].attempts < MaxAttempts
                 THEN {[row EXCEPT ![j] = Retried(@)]}
                 ELSE {[row EXCEPT ![j] = Settled(@, "dead")]})
    /\ Goto(t, "forget")
    /\ UNCHANGED <<minted, granted, lease, held, process>>

\* settle_pipeline_job found the run outside EXTRACTING: it answers FENCED and
\* writes nothing, although the token still matches the row.
SettleRefusedByRun(t) ==
    /\ pc[t] = "working"
    /\ lease[t].job \in PipelineJob
    /\ Holds(row[lease[t].job], lease[t].token)
    /\ Goto(t, "forget")
    /\ UNCHANGED <<db, lease, held, process>>

\* The lease was reclaimed, released or reaped meanwhile: log and drop.
SettleLost(t) ==
    /\ pc[t] = "working"
    /\ ~Holds(row[lease[t].job], lease[t].token)
    /\ Goto(t, "forget")
    /\ UNCHANGED <<db, lease, held, process>>

\* The settlement itself raised (a database outage): the token stays held.
SettleRaises(t) ==
    /\ pc[t] = "working"
    /\ restarts < MaxRestarts
    /\ restarts' = restarts + 1
    /\ lease' = [lease EXCEPT ![t] = NoLease]
    /\ Goto(t, "top")
    /\ UNCHANGED <<db, held, phase, snapshot, clean>>

ForgetToken(t) ==
    /\ pc[t] = "forget"
    /\ held' = [held EXCEPT ![Home[t]] = @ \ {lease[t].token}]
    /\ lease' = [lease EXCEPT ![t] = NoLease]
    /\ Goto(t, "top")
    /\ UNCHANGED <<db, process>>

-------------------------------------------------------------------------------
(* worker.stop(), the next boot, and a crash *)

StopBegin(p) ==
    /\ phase[p] = "running" /\ restarts < MaxRestarts
    /\ restarts' = restarts + 1
    /\ phase' = [phase EXCEPT ![p] = "joining"]
    /\ UNCHANGED <<db, pc, lease, held, snapshot, clean>>

\* Variant of ClaimsInFlight: the counter is raised once the claim has returned.
ClaimsReturned(p) == {t \in ThreadsOf(p) : pc[t] = "granted"}

\* _claims_in_flight of process p.
ClaimsInFlight(p) == {t \in ThreadsOf(p) : pc[t] \in {"claiming", "granted"}}

\* The joins returned or timed out; held_tokens() copies _held_tokens, at the
\* latest when settle_timeout elapses with a claim still in flight.  `clean`
\* records that nothing was in flight and no thread stood between the stop
\* check of _loop and the counter of drain_once.
HeldTokens(p) ==
    /\ phase[p] = "joining"
    /\ snapshot' = [snapshot EXCEPT ![p] = held[p]]
    /\ clean' = [clean EXCEPT ![p] = /\ ClaimsInFlight(p) = {}
                                     /\ \A t \in ThreadsOf(p) : pc[t] # "entering"]
    /\ phase' = [phase EXCEPT ![p] = "releasing"]
    /\ UNCHANGED <<db, pc, lease, held, restarts>>

ReleaseLeases(p) ==
    /\ phase[p] = "releasing"
    /\ row' = [j \in Job |-> IF row[j].state = "leased" /\ row[j].token \in snapshot[p]
                             THEN Released(row[j]) ELSE row[j]]
    /\ phase' = [phase EXCEPT ![p] = "stopped"]
    /\ UNCHANGED <<minted, granted, pc, lease, held, snapshot, clean, restarts>>

\* The memory of process p is gone; its next instance starts with nothing.
Reboot(p) ==
    /\ pc' = [t \in Thread |-> IF Home[t] = p THEN "top" ELSE pc[t]]
    /\ lease' = [t \in Thread |-> IF Home[t] = p THEN NoLease ELSE lease[t]]
    /\ held' = [held EXCEPT ![p] = {}]
    /\ granted' = [granted EXCEPT ![p] = {}]
    /\ phase' = [phase EXCEPT ![p] = "running"]
    /\ snapshot' = [snapshot EXCEPT ![p] = {}]
    /\ clean' = [clean EXCEPT ![p] = FALSE]
    /\ UNCHANGED <<row, minted>>

\* Orphaned threads may still be alive when a stopped process finally exits.
Boot(p) ==
    /\ phase[p] = "stopped"
    /\ Reboot(p)
    /\ UNCHANGED restarts

Crash(p) ==
    /\ phase[p] # "stopped" /\ restarts < MaxRestarts
    /\ Reboot(p)
    /\ restarts' = restarts + 1

-------------------------------------------------------------------------------

ThreadStep(t) ==
    \/ LoopTop(t) \/ BeginClaim(t)
    \/ \E j \in Job : GrantClaim(t, j) \/ ReapOne(t, j)
    \/ ClaimNothing(t) \/ ReapNothing(t)
    \/ RecordToken(t)
    \/ SettleHeld(t) \/ SettleRefusedByRun(t) \/ SettleLost(t)
    \/ ForgetToken(t)

ProcStep(p) == HeldTokens(p) \/ ReleaseLeases(p) \/ Boot(p)

Next ==
    \/ \E j \in Job : Enqueue(j) \/ LeaseExpires(j) \/ BackoffElapses(j)
    \/ \E t \in Thread : ThreadStep(t) \/ SettleRaises(t)
    \/ \E p \in Proc : StopBegin(p) \/ ProcStep(p) \/ Crash(p)

Spec == Init /\ [][Next]_vars

\* Threads are scheduled, leases and backoffs run out, a shutdown completes and
\* the platform starts the next instance.  Producers, outages, crashes and
\* shutdowns owe nothing.
Fairness ==
    /\ \A t \in Thread : WF_vars(ThreadStep(t))
    /\ \A j \in Job : WF_vars(LeaseExpires(j)) /\ WF_vars(BackoffElapses(j))
    /\ \A p \in Proc : WF_vars(ProcStep(p))

FairSpec == Spec /\ Fairness

-------------------------------------------------------------------------------
(* Properties *)

Label == {"top", "entering", "claiming", "granted", "reaping", "working",
          "forget", "exited"}

\* Every variable keeps its type.
TypeOK ==
    /\ row \in [Job -> Row(MaxAttempts)]
    /\ minted \in Nat
    /\ pc \in [Thread -> Label]
    /\ lease \in [Thread -> [job : Job, token : Nat]]
    /\ held \in [Proc -> SUBSET Nat]
    /\ granted \in [Proc -> SUBSET Nat]
    /\ phase \in [Proc -> {"running", "joining", "releasing", "stopped"}]
    /\ snapshot \in [Proc -> SUBSET Nat]
    /\ clean \in [Proc -> BOOLEAN]
    /\ restarts \in 0..MaxRestarts

\* However many zombies run a job, at most one thread can pass the fence of its
\* row: a reclaimed lease never carries the token of an earlier claimant.
SoleClaimant ==
    \A t, u \in Thread :
        /\ t # u
        /\ lease[t].token # NoToken
        /\ Holds(row[lease[t].job], lease[t].token)
        /\ Holds(row[lease[u].job], lease[u].token)
        => lease[t].job # lease[u].job

Carriers(j) == {t \in Thread : lease[t].token # NoToken /\ lease[t].job = j}

\* An attempt is burnt at the claim, so even a job whose workers all die without
\* a word is executed by at most `attempts` of them, never more than the ceiling.
AttemptsBoundExecutions ==
    \A j \in Job : Cardinality(Carriers(j)) <= row[j].attempts

\* A settled job stays settled: no late claim, release, retry or reap, and no
\* zombie's settlement, changes a done or dead row.
TerminalIsFinal ==
    [][\A j \in Job : Terminal(row[j]) => row'[j] = row[j]]_vars

StoppedCleanly(p) == phase[p] = "stopped" /\ clean[p]

LeftBehind(p, J) == {j \in J : row[j].state = "leased" /\ row[j].token \in granted[p]}

\* A graceful stop that found every thread accounted for hands back every lease
\* the table gave this process, whichever claims, settlements and failures were
\* under way (jobs whose settlement cannot be refused by a run).
StopHandsBack ==
    \A p \in Proc : StoppedCleanly(p) => LeftBehind(p, Job \ PipelineJob) = {}

\* The promise of worker.stop without that restriction.
StopHandsBackEverything ==
    \A p \in Proc : StoppedCleanly(p) => LeftBehind(p, Job) = {}

\* What release_leases says of the rows it hands back: a due pending row can be
\* claimed.
DuePendingIsClaimable ==
    \A j \in Job : row[j].state = "pending" /\ row[j].due
                   => Claimable(row[j], MaxAttempts)

\* A row handed back by a shutdown during its last allowed attempt.
Stranded(j) == row[j].state = "pending" /\ row[j].attempts = MaxAttempts

\* Crashes, outages, zombies and shutdowns notwithstanding, every job is settled
\* in the end, done or dead; the one exception is the stranded row.
JobsSettle ==
    \A j \in Job : row[j].state = "pending" ~> Terminal(row[j]) \/ Stranded(j)

(* The promise of the queue, with rows for jobs and fences for holders *)

\* The threads whose settlement would find the fence of j intact.
Holders(j) ==
    {t \in Thread : /\ lease[t].job = j /\ lease[t].token # NoToken
                    /\ Holds(row[j], lease[t].token)}

Promise == INSTANCE JobPromise WITH
    Worker <- Thread, Limit <- MaxAttempts,
    status <- [j \in Job |-> Promised(row[j])],
    holder <- [j \in Job |-> Holders(j)],
    tries <- [j \in Job |-> row[j].attempts]

\* The table with its leases, clocks, crashes, zombies and shutdowns implements
\* the promise: only the one holder of a job concludes it, every grant costs a
\* try, and no job is given up with tries left.
KeepsPromise == Promise!Spec
===============================================================================
