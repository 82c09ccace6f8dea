--------------------------- MODULE WorkerLoopProofs ---------------------------
(***************************************************************************)
(* The lifecycle of the worker threads for any number of workers,             *)
(* generations and callers: WithinBudget and ReleasedOnce of WorkerLoop.      *)
(***************************************************************************)
EXTENDS WorkerLoop, FiniteSetTheorems, TLAPS

USE WorkerAssumption

Stopping == {"waking", "joining", "partitioning"}

\* The types the proofs need.
Shape ==
    /\ pc \in [Thread -> Label]
    /\ generation \in 0..MaxGeneration /\ stopping \in 0..MaxGeneration
    /\ threads \subseteq Thread /\ orphans \subseteq Thread
    /\ call \in [Caller -> {"idle", "called"} \cup Stopping]
    /\ releases \in [Generation -> Nat]

\* Every living thread is of the current generation and can be found again.
Known ==
    /\ Alive \subseteq threads \cup orphans
    /\ \A t \in Alive : t[1] = generation

\* Whoever is past the lock of stop() is the one who holds it.
Exclusive ==
    /\ \A c \in Caller : call[c] \in Stopping => lock = {c}
    /\ stopping <= generation

\* Nothing was released for a generation that is still to be stopped or started.
Unreleased ==
    /\ \A g \in Generation : releases[g] <= 1
    /\ \A g \in Generation : g > generation => releases[g] = 0
    /\ stopping # 0 /\ (\A c \in Caller : call[c] # "partitioning") => releases[stopping] = 0

IInv == Shape /\ Known /\ Exclusive /\ Unreleased

\* A thread takes a step of its own: it may exit, it is not born, and the lifecycle
\* stays as it is.
LEMMA ThreadKeeps ==
    ASSUME IInv, UNCHANGED lifecycle, pc' \in [Thread -> Label],
           \A t \in Thread : pc'[t] \notin {"absent", "exited"} => pc[t] \notin {"absent", "exited"}
    PROVE  IInv'
<1>1. UNCHANGED <<stopEvent, generation, threads, orphans, stopping, lock, call, releases>>
  BY DEF lifecycle
<1>2. Alive' \subseteq Alive
  BY DEF Alive
<1>3. Shape'
  BY <1>1 DEF IInv, Shape
<1>4. Known'
  BY <1>1, <1>2 DEF IInv, Known
<1>5. Exclusive' /\ Unreleased'
  BY <1>1 DEF IInv, Exclusive, Unreleased
<1> QED
  BY <1>3, <1>4, <1>5 DEF IInv

\* A step of stop() that leaves the threads and the generations alone.
LEMMA WakeKeepsLabels ==
    ASSUME Shape, Wake
    PROVE  /\ pc' \in [Thread -> Label]
           /\ \A t \in Thread : pc'[t] \notin {"absent", "exited"}
                                <=> pc[t] \notin {"absent", "exited"}
BY DEF Shape, Wake, Label

LEMMA StartKeeps == ASSUME IInv, Start PROVE IInv'
<1>0. Shape /\ Known /\ Exclusive /\ Unreleased
  BY DEF IInv
<1>1. lock = {} /\ orphans' = orphans \cap Alive /\ UNCHANGED <<lock, call, releases>>
  BY DEF Start
<1>2. \A c \in Caller : call[c] \notin Stopping
  BY <1>0, <1>1 DEF Exclusive
<1>3. CASE MayStart /\ generation < MaxGeneration
  <2> DEFINE g == generation + 1
  <2>1. /\ generation' = g /\ stopping' = g /\ threads' = {g} \X Slot
        /\ pc' = [t \in Thread |-> IF t \in threads' THEN "top" ELSE pc[t]]
    BY <1>3 DEF Start
  <2>2. g \in Generation /\ generation \in 0..MaxGeneration /\ g \in 0..MaxGeneration
    BY <1>0, <1>3 DEF Shape, Generation
  <2>3. threads' \subseteq Thread /\ \A t \in threads' : t[1] = g
    BY <2>1, <2>2 DEF Thread
  <2>4. Alive = {}
    BY <1>0, <1>3 DEF MayStart, Known
  <2>5. pc' \in [Thread -> Label]
    BY <1>0, <2>1 DEF Shape, Label
  <2>6. Alive' \subseteq threads'
    BY <2>1, <2>4 DEF Alive
  <2>7. Shape'
    BY <1>0, <1>1, <2>1, <2>2, <2>3, <2>5 DEF Shape
  <2>8. Known'
    BY <2>1, <2>3, <2>6 DEF Known
  <2>9. Exclusive'
    BY <1>1, <1>2, <2>1, <2>2 DEF Exclusive
  <2>10. Unreleased'
    <3>1. releases[g] = 0
      BY <1>0, <2>2 DEF Unreleased
    <3>2. \A k \in Generation : k > g => releases[k] = 0
      BY <1>0, <2>2 DEF Unreleased, Generation
    <3> QED
      BY <1>0, <1>1, <2>1, <3>1, <3>2 DEF Unreleased
  <2> QED
    BY <2>7, <2>8, <2>9, <2>10 DEF IInv
<1>4. CASE ~(MayStart /\ generation < MaxGeneration)
  <2>1. UNCHANGED <<generation, stopping, threads, pc>>
    BY <1>4 DEF Start
  <2>2. Alive' = Alive
    BY <2>1 DEF Alive
  <2>3. Shape'
    BY <1>0, <1>1, <2>1 DEF Shape
  <2>4. Known'
    BY <1>0, <1>1, <2>1, <2>2 DEF Known
  <2>5. Exclusive' /\ Unreleased'
    BY <1>0, <1>1, <2>1 DEF Exclusive, Unreleased
  <2> QED
    BY <2>3, <2>4, <2>5 DEF IInv
<1> QED
  BY <1>3, <1>4

LEMMA StopKeeps ==
    ASSUME IInv, NEW c \in Caller, CallStop(c) \/ StopStep(c) PROVE IInv'
<1>0. Shape /\ Known /\ Exclusive /\ Unreleased
  BY DEF IInv
<1>1. CASE CallStop(c)
  <2>1. /\ call' = [call EXCEPT ![c] = "called"] /\ call[c] = "idle"
        /\ UNCHANGED <<pc, generation, threads, orphans, stopping, lock, releases>>
    BY <1>1 DEF CallStop
  <2>2. Shape' /\ Known'
    BY <1>0, <2>1 DEF Shape, Known, Alive
  <2>3. Exclusive' /\ Unreleased'
    BY <1>0, <2>1 DEF Shape, Exclusive, Unreleased, Stopping
  <2> QED
    BY <2>2, <2>3 DEF IInv
<1>2. CASE EnterStop(c)
  <2>1. /\ call[c] = "called" /\ lock = {}
        /\ \/ call' = [call EXCEPT ![c] = "idle"] /\ lock' = lock
           \/ call' = [call EXCEPT ![c] = "waking"] /\ lock' = {c}
        /\ UNCHANGED <<pc, generation, threads, orphans, stopping, releases>>
    BY <1>2 DEF EnterStop, LockFree
  <2>2. Shape' /\ Known'
    BY <1>0, <2>1 DEF Shape, Known, Alive, Stopping
  <2>3. Exclusive' /\ Unreleased'
    BY <1>0, <2>1 DEF Shape, Exclusive, Unreleased, Stopping
  <2> QED
    BY <2>2, <2>3 DEF IInv
<1>3. CASE StopWakes(c)
  <2>1. /\ call[c] = "waking" /\ call' = [call EXCEPT ![c] = "joining"] /\ Wake
        /\ UNCHANGED <<generation, threads, orphans, stopping, lock, releases>>
    BY <1>3 DEF StopWakes
  <2>2. pc' \in [Thread -> Label] /\ Alive' = Alive
    BY <1>0, <2>1, WakeKeepsLabels DEF Alive
  <2>3. Shape' /\ Known'
    BY <1>0, <2>1, <2>2 DEF Shape, Known, Stopping
  <2>4. Exclusive' /\ Unreleased'
    BY <1>0, <2>1 DEF Shape, Exclusive, Unreleased, Stopping
  <2> QED
    BY <2>3, <2>4 DEF IInv
<1>4. CASE ReleaseLeases(c)
  <2>1. /\ call[c] = "joining" /\ call' = [call EXCEPT ![c] = "partitioning"]
        /\ releases' = IF stopping = 0 THEN releases ELSE [releases EXCEPT ![stopping] = @ + 1]
        /\ UNCHANGED <<pc, generation, threads, orphans, stopping, lock>>
    BY <1>4 DEF ReleaseLeases
  <2>2. lock = {c} /\ \A d \in Caller : call[d] # "partitioning"
    BY <1>0, <2>1 DEF Exclusive, Stopping
  <2>3. stopping # 0 => releases[stopping] = 0 /\ stopping \in Generation
    BY <1>0, <2>2 DEF Unreleased, Shape, Generation
  <2>4. releases' \in [Generation -> Nat] /\ \A g \in Generation : releases'[g] <= 1
    BY <1>0, <2>1, <2>3 DEF Shape, Unreleased
  <2>5. Shape' /\ Known'
    BY <1>0, <2>1, <2>4 DEF Shape, Known, Alive, Stopping
  <2>6. Exclusive'
    BY <1>0, <2>1 DEF Shape, Exclusive, Stopping
  <2>7. \A g \in Generation : g > generation' => releases'[g] = 0
    BY <1>0, <2>1, <2>3 DEF Shape, Unreleased, Exclusive, Generation
  <2>8. call'[c] = "partitioning"
    BY <1>0, <2>1 DEF Shape
  <2>9. Unreleased'
    BY <2>4, <2>7, <2>8 DEF Unreleased
  <2> QED
    BY <2>5, <2>6, <2>9 DEF IInv
<1>5. CASE FinishStop(c)
  <2>1. /\ call[c] = "partitioning" /\ call' = [call EXCEPT ![c] = "idle"]
        /\ orphans' = orphans \cup (threads \cap Alive) /\ threads' = {} /\ stopping' = 0
        /\ lock' = lock \ {c} /\ UNCHANGED <<pc, generation, releases>>
    BY <1>5 DEF FinishStop
  <2>2. lock = {c}
    BY <1>0, <2>1 DEF Exclusive, Stopping
  <2>3. Alive' = Alive
    BY <2>1 DEF Alive
  <2>4. Shape'
    BY <1>0, <2>1 DEF Shape
  <2>5. Known'
    BY <1>0, <2>1, <2>3 DEF Known
  <2>6. \A d \in Caller : call'[d] \notin Stopping
    BY <1>0, <2>1, <2>2 DEF Shape, Exclusive, Stopping
  <2>7. Exclusive' /\ Unreleased'
    BY <1>0, <2>1, <2>6 DEF Shape, Exclusive, Unreleased
  <2> QED
    BY <2>4, <2>5, <2>7 DEF IInv
<1> QED
  BY <1>1, <1>2, <1>3, <1>4, <1>5 DEF StopStep

LEMMA InitIInv == Init => IInv
<1> SUFFICES ASSUME Init PROVE IInv
  OBVIOUS
<1>1. Shape
  BY DEF Init, Shape, Label
<1>2. Known
  BY DEF Init, Known, Alive
<1>3. Exclusive /\ Unreleased
  BY DEF Init, Exclusive, Unreleased, Stopping
<1> QED
  BY <1>1, <1>2, <1>3 DEF IInv

LEMMA NextIInv == IInv /\ [Next]_vars => IInv'
<1> SUFFICES ASSUME IInv, [Next]_vars PROVE IInv'
  OBVIOUS
<1>0. Shape
  BY DEF IInv
<1>1. ASSUME UNCHANGED <<pc, lifecycle>> PROVE IInv'
  BY <1>0, <1>1, ThreadKeeps DEF Shape
<1>2. CASE Commit \/ FallsDue
  BY <1>1, <1>2 DEF Commit, FallsDue
<1>3. CASE WakeAfterCommit
  BY <1>0, <1>3, WakeKeepsLabels, ThreadKeeps DEF WakeAfterCommit
<1>4. ASSUME NEW t \in Thread, ThreadStep(t) \/ DrainRaises(t) \/ PollTimeout(t) PROVE IInv'
  <2>1. PICK label \in Label : pc' = [pc EXCEPT ![t] = label]
    BY <1>4 DEF ThreadStep, LoopTop, Clear, DrainClaims, DrainFindsNothing, Finish, DrainRaises,
       Check, Wait, PollTimeout, Goto, Follows, AfterWait, Label
  <2>2. pc[t] \notin {"absent", "exited"} /\ UNCHANGED lifecycle
    BY <1>4 DEF ThreadStep, LoopTop, Clear, DrainClaims, DrainFindsNothing, Finish, DrainRaises,
       Check, Wait, PollTimeout
  <2> QED
    BY <1>0, <2>1, <2>2, ThreadKeeps DEF Shape
<1>5. CASE UNCHANGED vars
  BY <1>1, <1>5 DEF vars
<1> QED
  BY <1>2, <1>3, <1>4, <1>5, StartKeeps, StopKeeps DEF Next

LEMMA Inductive == Spec => []IInv
BY InitIInv, NextIInv, PTL DEF Spec

\* The living threads are some of one generation, hence no more than its slots.
LEMMA KnownIsWithinBudget == IInv => WithinBudget
<1> SUFFICES ASSUME IInv PROVE WithinBudget
  OBVIOUS
<1>1. /\ Alive \subseteq threads \cup orphans /\ \A t \in Alive : t[1] = generation
  BY DEF IInv, Known
<1>2. Alive \subseteq {generation} \X Slot
  BY <1>1 DEF Alive, Thread
<1>3. /\ IsFiniteSet({generation} \X Slot)
      /\ Cardinality({generation} \X Slot) = Cardinality({generation}) * Cardinality(Slot)
  BY FS_Singleton, FS_Product
<1>4. Cardinality({generation}) = 1 /\ Cardinality(Slot) \in Nat
  BY FS_Singleton, FS_CardinalityType
<1>5. Cardinality(Alive) <= Cardinality({generation} \X Slot)
  BY <1>2, <1>3, FS_Subset
<1>6. Cardinality({generation} \X Slot) = Cardinality(Slot)
  BY <1>3, <1>4
<1> QED
  BY <1>1, <1>5, <1>6 DEF WithinBudget

\* However starts, stops and timed-out joins interleave, a process never runs more
\* workers than it has slots (the orphan check of start()).
THEOREM BudgetHolds == Spec => []WithinBudget
BY Inductive, KnownIsWithinBudget, PTL

\* Concurrent stop() calls release the leases of a generation once (the lock held over
\* the join, `_stop` cleared before it is returned).
THEOREM OneRelease == Spec => []ReleasedOnce
<1>1. IInv => ReleasedOnce
  BY DEF IInv, Unreleased, ReleasedOnce
<1> QED
  BY <1>1, Inductive, PTL
-------------------------------------------------------------------------------
(* The types *)

\* The rest of TypeOK, with the bounds that keep the counters of jobs in range.
Counters ==
    /\ flag \in BOOLEAN /\ stopEvent \in [Generation -> BOOLEAN]
    /\ lock = {} \/ \E c \in Caller : lock = {c}
    /\ jobs \in 0..MaxJobs /\ faults \in 0..MaxFaults
    /\ ready \in 0..jobs /\ late \in 0..jobs /\ owed \in 0..jobs

LEMMA InitCounters == Init => Counters
<1> SUFFICES ASSUME Init PROVE Counters
  OBVIOUS
<1>1. flag \in BOOLEAN /\ stopEvent \in [Generation -> BOOLEAN] /\ lock = {}
  BY Zenon DEF Init
<1>2. 0 \in 0..MaxJobs /\ 0 \in 0..MaxFaults /\ 0 \in 0..0
  OBVIOUS
<1> QED
  BY <1>1, <1>2 DEF Init, Counters

LEMMA NextCounters == IInv /\ Counters /\ [Next]_vars => Counters'
<1> SUFFICES ASSUME IInv, Counters, [Next]_vars PROVE Counters'
  OBVIOUS
<1> USE DEF Counters
<1>0. Shape
  BY DEF IInv
<1>1. CASE Commit
  BY <1>1 DEF Commit, lifecycle
<1>2. CASE WakeAfterCommit
  BY <1>2 DEF WakeAfterCommit, Wake, lifecycle
<1>3. CASE FallsDue
  BY <1>3 DEF FallsDue, lifecycle
<1>4. ASSUME NEW t \in Thread, DrainClaims(t) PROVE Counters'
  BY <1>4 DEF DrainClaims, lifecycle
<1>5. ASSUME NEW t \in Thread, DrainRaises(t) PROVE Counters'
  BY <1>5 DEF DrainRaises, lifecycle, queue
<1>6. ASSUME NEW t \in Thread, Clear(t) PROVE Counters'
  BY <1>6 DEF Clear, lifecycle, queue
<1>7. ASSUME NEW t \in Thread,
             \/ LoopTop(t) \/ DrainFindsNothing(t) \/ Finish(t) \/ Check(t) \/ Wait(t)
             \/ PollTimeout(t)
      PROVE  Counters'
  <2>1. UNCHANGED <<flag, lifecycle, queue, faults>>
    BY <1>7 DEF LoopTop, DrainFindsNothing, Finish, Check, Wait, PollTimeout
  <2> QED
    BY <2>1 DEF lifecycle, queue
<1>8. CASE Start
  BY <1>8 DEF Start, queue
<1>9. ASSUME NEW c \in Caller, CallStop(c) PROVE Counters'
  BY <1>9 DEF CallStop, queue
<1>10. ASSUME NEW c \in Caller, EnterStop(c) PROVE Counters'
  BY <1>0, <1>10 DEF EnterStop, LockFree, queue, Shape, Generation
<1>11. ASSUME NEW c \in Caller, StopWakes(c) \/ ReleaseLeases(c) PROVE Counters'
  BY <1>11 DEF StopWakes, ReleaseLeases, Wake, queue
<1>12. ASSUME NEW c \in Caller, FinishStop(c) PROVE Counters'
  BY <1>12 DEF FinishStop, queue
<1>13. CASE UNCHANGED vars
  BY <1>13 DEF vars, lifecycle, queue
<1> QED
  BY <1>1, <1>2, <1>3, <1>4, <1>5, <1>6, <1>7, <1>8, <1>9, <1>10, <1>11, <1>12, <1>13
     DEF Next, ThreadStep, StopStep

\* Threads, events, the lock and the counters keep their domains; one caller holds the
\* lock of worker.py.
THEOREM LoopTypes == Spec => []TypeOK
<1>1. IInv /\ Counters => TypeOK
  <2> SUFFICES ASSUME IInv, Counters PROVE TypeOK
    OBVIOUS
  <2>1. lock \subseteq Caller /\ Cardinality(lock) <= 1
    <3>1. CASE lock = {}
      BY <3>1, FS_EmptySet
    <3>2. ASSUME NEW c \in Caller, lock = {c} PROVE lock \subseteq Caller /\ Cardinality(lock) <= 1
      <4>1. Cardinality({c}) = 1
        BY FS_Singleton
      <4> QED
        BY <3>2, <4>1
    <3> QED
      BY <3>1, <3>2 DEF Counters
  <2>2. ready \in 0..MaxJobs /\ late \in 0..MaxJobs /\ owed \in 0..MaxJobs
    BY DEF Counters
  <2> QED
    BY <2>1, <2>2 DEF IInv, Shape, Counters, Stopping, TypeOK
<1>2. Init => Counters
  BY InitCounters
<1>3. IInv /\ Counters /\ [Next]_vars => Counters'
  BY NextCounters
<1> QED
  BY <1>1, <1>2, <1>3, Inductive, PTL DEF Spec
===============================================================================
