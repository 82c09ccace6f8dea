------------------------------ MODULE WorkerLoop ------------------------------
(***************************************************************************)
(* The worker threads of one process and their lifecycle: _loop(), start()   *)
(* and stop() of app/queue/worker.py over the one threading.Event of         *)
(* app/queue/wake.py, which every thread of the process shares.              *)
(*                                                                           *)
(* The queue is reduced to how many claimable jobs it holds: `ready` counts  *)
(* those whose producer wakes the workers after its commit, `late` those     *)
(* that became claimable by themselves (a backoff or a lease ran out), which *)
(* only the poll timer finds.                                                *)
(***************************************************************************)
EXTENDS Naturals, FiniteSets

CONSTANTS Slot,           \* the workers of a generation: 1 .. worker_count
          MaxGeneration,  \* bound on start() calls
          Caller,         \* callers of start() and stop()
          MaxJobs,        \* bound on jobs that become claimable
          MaxFaults       \* bound on iterations that raise

ASSUME WorkerAssumption ==
    /\ IsFiniteSet(Slot) /\ Slot # {}
    /\ MaxGeneration \in Nat /\ MaxJobs \in Nat /\ MaxFaults \in Nat

VARIABLES pc,          \* where each thread stands in _loop
          flag,        \* wake._event
          stopEvent,   \* the stop event of each generation
          generation,  \* _generation
          threads,     \* _threads
          orphans,     \* _orphans
          stopping,    \* `_stop`: the generation stop() would end, 0 for None
          lock,        \* _LIFECYCLE_LOCK: {} or {its holder}
          call,        \* where each caller stands in stop()
          releases,    \* history: release_leases calls of each generation
          ready, late, \* claimable jobs
          owed,        \* commits whose wake() is still to come
          jobs, faults

queue == <<ready, late, owed, jobs>>
lifecycle == <<stopEvent, generation, threads, orphans, stopping, lock, call, releases>>
vars == <<pc, flag, lifecycle, queue, faults>>

Generation == 1..MaxGeneration
Thread == Generation \X Slot

Label == {"absent", "top", "clear", "drain", "busy", "check", "wait", "asleep", "exited"}

Alive == {t \in Thread : pc[t] \notin {"absent", "exited"}}

Init ==
    /\ pc = [t \in Thread |-> "absent"]
    /\ flag = FALSE
    /\ stopEvent = [g \in Generation |-> FALSE]
    /\ generation = 0
    /\ threads = {} /\ orphans = {}
    /\ stopping = 0
    /\ lock = {}
    /\ call = [c \in Caller |-> "idle"]
    /\ releases = [g \in Generation |-> 0]
    /\ ready = 0 /\ late = 0 /\ owed = 0 /\ jobs = 0 /\ faults = 0

-------------------------------------------------------------------------------
(* wake.py *)

\* Event.set(): every thread blocked in wait() is released, whatever happens to
\* the flag before it runs again.
Wake ==
    /\ flag' = TRUE
    /\ pc' = [t \in Thread |-> IF pc[t] = "asleep" THEN "top" ELSE pc[t]]

\* Event.wait(): returns at once when the flag is up.
AfterWait == IF flag THEN "top" ELSE "asleep"

-------------------------------------------------------------------------------
(* Jobs become claimable *)

\* A producer commits; its wake() is a separate step that follows.
Commit ==
    /\ jobs < MaxJobs
    /\ jobs' = jobs + 1 /\ ready' = ready + 1 /\ owed' = owed + 1
    /\ UNCHANGED <<pc, flag, lifecycle, late, faults>>

WakeAfterCommit ==
    /\ owed > 0
    /\ owed' = owed - 1
    /\ Wake
    /\ UNCHANGED <<lifecycle, ready, late, jobs, faults>>

FallsDue ==
    /\ jobs < MaxJobs
    /\ jobs' = jobs + 1 /\ late' = late + 1
    /\ UNCHANGED <<pc, flag, lifecycle, ready, owed, faults>>

-------------------------------------------------------------------------------
(* _loop of one thread *)

Goto(t, label) == pc' = [pc EXCEPT ![t] = label]

\* The stop check of the thread's own generation, and the advisory generation fence.
Told(t) == stopEvent[t[1]] \/ t[1] # generation

\* Variant of Follows: the signal is cleared after an empty drain.
ClearsLast == [top |-> "drain", drain |-> "clear", clear |-> "check"]

\* The order of an iteration that finds no job.
Follows == [top |-> "clear", clear |-> "drain", drain |-> "check"]

LoopTop(t) ==
    /\ pc[t] = "top"
    /\ Goto(t, IF Told(t) THEN "exited" ELSE Follows.top)
    /\ UNCHANGED <<flag, lifecycle, queue, faults>>

Clear(t) ==
    /\ pc[t] = "clear"
    /\ flag' = FALSE
    /\ Goto(t, Follows.clear)
    /\ UNCHANGED <<lifecycle, queue, faults>>

DrainClaims(t) ==
    /\ pc[t] = "drain"
    /\ \/ ready > 0 /\ ready' = ready - 1 /\ UNCHANGED late
       \/ late > 0 /\ late' = late - 1 /\ UNCHANGED ready
    /\ Goto(t, "busy")
    /\ UNCHANGED <<flag, lifecycle, owed, jobs, faults>>

DrainFindsNothing(t) ==
    /\ pc[t] = "drain"
    /\ ready + late = 0
    /\ Goto(t, Follows.drain)
    /\ UNCHANGED <<flag, lifecycle, queue, faults>>

\* The job is settled, or the iteration raised inside it: next iteration either way.
Finish(t) ==
    /\ pc[t] = "busy"
    /\ Goto(t, "top")
    /\ UNCHANGED <<flag, lifecycle, queue, faults>>

\* A database blip at the claim: logged, and the loop goes on.
DrainRaises(t) ==
    /\ pc[t] = "drain" /\ faults < MaxFaults
    /\ faults' = faults + 1
    /\ Goto(t, "top")
    /\ UNCHANGED <<flag, lifecycle, queue>>

Check(t) ==
    /\ pc[t] = "check"
    /\ Goto(t, IF stopEvent[t[1]] THEN "exited" ELSE "wait")
    /\ UNCHANGED <<flag, lifecycle, queue, faults>>

Wait(t) ==
    /\ pc[t] = "wait"
    /\ Goto(t, AfterWait)
    /\ UNCHANGED <<flag, lifecycle, queue, faults>>

PollTimeout(t) ==
    /\ pc[t] = "asleep"
    /\ Goto(t, "top")
    /\ UNCHANGED <<flag, lifecycle, queue, faults>>

-------------------------------------------------------------------------------
(* start() and stop(), each under the lifecycle lock *)

\* Variant of MayStart: threads that outlived their join are forgotten.
MayStartBesideOrphans == threads = {}

\* start() prunes the dead orphans and refuses while anything else is alive.
MayStart == threads = {} /\ orphans \cap Alive = {}

Start ==
    /\ lock = {}
    /\ orphans' = orphans \cap Alive
    /\ IF MayStart /\ generation < MaxGeneration
       THEN LET g == generation + 1 IN
            /\ generation' = g
            /\ stopping' = g
            /\ threads' = {g} \X Slot
            /\ pc' = [t \in Thread |-> IF t \in threads' THEN "top" ELSE pc[t]]
       ELSE UNCHANGED <<generation, stopping, threads, pc>>
    /\ UNCHANGED <<flag, stopEvent, lock, call, releases, queue, faults>>

CallStop(c) ==
    /\ call[c] = "idle" /\ stopping # 0
    /\ call' = [call EXCEPT ![c] = "called"]
    /\ UNCHANGED <<pc, flag, stopEvent, generation, threads, orphans, stopping, lock,
                   releases, queue, faults>>

\* Variant of LockFree: stop() does not serialise its callers.
LockNotTaken == TRUE

LockFree == lock = {}

\* The lock taken: nothing to stop, or the stop event is set.
EnterStop(c) ==
    /\ call[c] = "called" /\ LockFree
    /\ IF stopping = 0
       THEN /\ call' = [call EXCEPT ![c] = "idle"]
            /\ UNCHANGED <<lock, stopEvent>>
       ELSE /\ call' = [call EXCEPT ![c] = "waking"]
            /\ lock' = lock \cup {c}
            /\ stopEvent' = [stopEvent EXCEPT ![stopping] = TRUE]
    /\ UNCHANGED <<pc, flag, generation, threads, orphans, stopping, releases, queue,
                   faults>>

StopWakes(c) ==
    /\ call[c] = "waking"
    /\ Wake
    /\ call' = [call EXCEPT ![c] = "joining"]
    /\ UNCHANGED <<stopEvent, generation, threads, orphans, stopping, lock, releases,
                   queue, faults>>

\* Every join returned or timed out; the leases go back in either case.
ReleaseLeases(c) ==
    /\ call[c] = "joining"
    /\ releases' = IF stopping = 0 THEN releases ELSE [releases EXCEPT ![stopping] = @ + 1]
    /\ call' = [call EXCEPT ![c] = "partitioning"]
    /\ UNCHANGED <<pc, flag, stopEvent, generation, threads, orphans, stopping, lock,
                   queue, faults>>

\* Survivors become orphans, the lock is returned.
FinishStop(c) ==
    /\ call[c] = "partitioning"
    /\ orphans' = orphans \cup (threads \cap Alive)
    /\ threads' = {}
    /\ stopping' = 0
    /\ lock' = lock \ {c}
    /\ call' = [call EXCEPT ![c] = "idle"]
    /\ UNCHANGED <<pc, flag, stopEvent, generation, releases, queue, faults>>

-------------------------------------------------------------------------------

ThreadStep(t) ==
    \/ LoopTop(t) \/ Clear(t) \/ DrainClaims(t) \/ DrainFindsNothing(t)
    \/ Finish(t) \/ Check(t) \/ Wait(t)

StopStep(c) == EnterStop(c) \/ StopWakes(c) \/ ReleaseLeases(c) \/ FinishStop(c)

Next ==
    \/ Commit \/ WakeAfterCommit \/ FallsDue
    \/ \E t \in Thread : ThreadStep(t) \/ DrainRaises(t) \/ PollTimeout(t)
    \/ Start
    \/ \E c \in Caller : CallStop(c) \/ StopStep(c)

Spec == Init /\ [][Next]_vars

\* Threads are scheduled, a producer that committed reaches its wake(), a stop()
\* goes on.  The poll timer is left out on purpose: what holds under this fairness
\* is owed to the signal alone.
Fairness ==
    /\ \A t \in Thread : WF_vars(ThreadStep(t))
    /\ WF_vars(WakeAfterCommit)
    /\ \A c \in Caller : WF_vars(StopStep(c))

FairSpec == Spec /\ Fairness

-------------------------------------------------------------------------------
(* Properties *)

\* Every variable keeps its type.
TypeOK ==
    /\ pc \in [Thread -> Label]
    /\ flag \in BOOLEAN
    /\ stopEvent \in [Generation -> BOOLEAN]
    /\ generation \in 0..MaxGeneration /\ stopping \in 0..MaxGeneration
    /\ threads \subseteq Thread /\ orphans \subseteq Thread
    /\ lock \subseteq Caller /\ Cardinality(lock) <= 1
    /\ call \in [Caller -> {"idle", "called", "waking", "joining", "partitioning"}]
    /\ releases \in [Generation -> Nat]
    /\ ready \in 0..MaxJobs /\ late \in 0..MaxJobs /\ owed \in 0..MaxJobs
    /\ jobs \in 0..MaxJobs /\ faults \in 0..MaxFaults

\* However starts, stops and timed-out joins interleave, the process never carries
\* more workers than its connection budget allows, every living thread is known
\* to the lifecycle, and the generation fence of _loop is never what ends one.
WithinBudget ==
    /\ Cardinality(Alive) <= Cardinality(Slot)
    /\ Alive \subseteq threads \cup orphans
    /\ \A t \in Alive : t[1] = generation

\* Concurrent stop() calls of a generation issue one release_leases between them.
ReleasedOnce == \A g \in Generation : releases[g] <= 1

Looking == {t \in Alive : pc[t] \in {"top", "clear", "drain"}}

\* What _loop says of a queued job: no worker sleeps the poll interval with a
\* claimable job already in the table.
NoSleepOverAJob ==
    \A t \in Alive : pc[t] = "asleep" /\ ready > 0 /\ owed = 0 => Looking # {}

\* What _loop says of a stop request: once stop() has set the event and woken, no
\* thread of that generation sleeps out a poll interval.
StopIsPrompt ==
    \A t \in Alive : pc[t] = "asleep" /\ stopEvent[t[1]]
                     => \E c \in Caller : call[c] = "waking"

\* A job whose producer woke the workers is claimed without the poll timer, unless
\* the pool is stopped; after a restart the new generation owes the same.
JobsAreClaimed ==
    ready > 0 /\ threads # {} ~> ready = 0 \/ threads = {} \/ stopEvent[generation]
===============================================================================
