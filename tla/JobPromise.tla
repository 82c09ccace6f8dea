------------------------------ MODULE JobPromise ------------------------------
(***************************************************************************)
(* What the durable queue promises to those who enqueue, without tables,     *)
(* tokens, leases or processes: an accepted job is held by at most one       *)
(* worker that may conclude it, a worker gets it at the price of one of      *)
(* `Limit` tries, and it is given up only when all tries are spent.          *)
(***************************************************************************)
EXTENDS Naturals

CONSTANTS Job, Worker, Limit

VARIABLES status,   \* "absent", "queued", "held", "done" or "dead"
          holder,   \* the worker that may conclude the job: at most one
          tries     \* tries spent

service == <<status, holder, tries>>

\* Jobs may have been accepted before.
Init ==
    /\ status \in [Job -> {"absent", "queued"}]
    /\ holder = [j \in Job |-> {}]
    /\ tries = [j \in Job |-> 0]

Accept(j) ==
    /\ status[j] = "absent"
    /\ status' = [status EXCEPT ![j] = "queued"]
    /\ UNCHANGED <<holder, tries>>

\* A queued job, or one whose holder was given up on, goes to w alone.
Grant(w, j) ==
    /\ status[j] \in {"queued", "held"} /\ tries[j] < Limit
    /\ status' = [status EXCEPT ![j] = "held"]
    /\ holder' = [holder EXCEPT ![j] = {w}]
    /\ tries' = [tries EXCEPT ![j] = @ + 1]

\* The holder, and nobody else, concludes its try.
Conclude(w, j) ==
    /\ status[j] = "held" /\ holder[j] = {w}
    /\ \/ status' = [status EXCEPT ![j] = "done"]
       \/ tries[j] < Limit /\ status' = [status EXCEPT ![j] = "queued"]
       \/ tries[j] = Limit /\ status' = [status EXCEPT ![j] = "dead"]
    /\ holder' = [holder EXCEPT ![j] = {}]
    /\ UNCHANGED tries

\* Holders die, lose interest or forget what they hold.
Vanish(W) ==
    /\ holder' = [j \in Job |-> holder[j] \ W]
    /\ UNCHANGED <<status, tries>>

\* A shutdown puts the jobs of J back for another worker.
PutBack(J) ==
    /\ \A j \in J : status[j] = "held"
    /\ status' = [j \in Job |-> IF j \in J THEN "queued" ELSE status[j]]
    /\ holder' = [j \in Job |-> IF j \in J THEN {} ELSE holder[j]]
    /\ UNCHANGED tries

GiveUp(j) ==
    /\ status[j] = "held" /\ tries[j] = Limit
    /\ status' = [status EXCEPT ![j] = "dead"]
    /\ holder' = [holder EXCEPT ![j] = {}]
    /\ UNCHANGED tries

Next ==
    \/ \E j \in Job : Accept(j) \/ GiveUp(j)
    \/ \E w \in Worker, j \in Job : Grant(w, j) \/ Conclude(w, j)
    \/ \E W \in SUBSET Worker : Vanish(W)
    \/ \E J \in SUBSET Job : PutBack(J)

Spec == Init /\ [][Next]_service
===============================================================================
