----------------------------- MODULE IngestProofs -----------------------------
(***************************************************************************)
(* What a 200 of the webhook promises, for any number of emails, events,      *)
(* workers, attempts, retriggers and faults: OneRunPerEmail and               *)
(* AcceptedIsOwned of Ingest.                                                 *)
(***************************************************************************)
EXTENDS Ingest, TLAPS

USE IngestAssumption DEF NoToken

-------------------------------------------------------------------------------
(* Types *)

\* The single-statement transitions keep a row well formed; a claim, because it looks at
\* the attempts first.
LEMMA RowTransitions ==
    ASSUME NEW max \in Nat, NEW r \in Row(max), NEW token \in Nat,
           NEW due \in BOOLEAN, NEW state \in JobState
    PROVE  /\ Enqueued(r, due) \in Row(max)
           /\ Claimable(r, max) => Claimed(r, token) \in Row(max)
           /\ Settled(r, state) \in Row(max)
           /\ Retried(r) \in Row(max)
           /\ Released(r) \in Row(max)
           /\ LeaseRanOut(r) \in Row(max)
           /\ BackoffElapsed(r) \in Row(max)
  <1>1. Claimable(r, max) => r.attempts + 1 \in 0..max
    BY DEF Row, Claimable
  <1>. QED
    BY <1>1 DEF Row, JobState, NoToken, Enqueued, Claimed, Settled, Retried, Released,
                LeaseRanOut, BackoffElapsed

\* A settlement of any kind leaves the row in the state it says.
LEMMA SettledRow ==
    ASSUME NEW max \in Nat, NEW r \in Row(max), NEW state \in JobState
    PROVE  Settled(r, state) \in Row(max) /\ Settled(r, state).state = state
  BY DEF Settled, Row, NoToken

\* A settlement of any kind keeps the attempts.
LEMMA SettledAttempts ==
    ASSUME NEW max \in Nat, NEW r \in Row(max)
    PROVE  /\ Settled(r, "done") \in Row(max) /\ Settled(r, "done").state = "done"
           /\ Settled(r, "done").attempts = r.attempts
           /\ Settled(r, "dead") \in Row(max) /\ Settled(r, "dead").state = "dead"
           /\ Settled(r, "dead").attempts = r.attempts
           /\ Retried(r) \in Row(max) /\ Retried(r).state = "pending"
           /\ Retried(r).attempts = r.attempts
  <1>1. \A s \in JobState : /\ Settled(r, s) \in Row(max) /\ Settled(r, s).state = s
                            /\ Settled(r, s).attempts = r.attempts
    BY DEF Settled, Row, NoToken
  <1>2. Settled(r, "pending") \in Row(max) /\ Settled(r, "pending").attempts = r.attempts
        /\ Settled(r, "pending").state = "pending"
    BY <1>1 DEF JobState
  <1>3. Retried(r) \in Row(max) /\ Retried(r).state = "pending" /\ Retried(r).attempts = r.attempts
    BY <1>2 DEF Retried, Row, JobState
  <1> QED
    BY <1>1, <1>3 DEF JobState

\* A transition decides the state of the row.
LEMMA RowStates ==
    ASSUME NEW max \in Nat, NEW r \in Row(max), NEW token \in Nat,
           NEW due \in BOOLEAN, NEW state \in JobState
    PROVE  /\ Enqueued(r, due).state = (IF r.state = "absent" THEN "pending" ELSE r.state)
           /\ Claimed(r, token).state = "leased"
           /\ Settled(r, state).state = state
           /\ Retried(r).state = "pending" /\ Released(r).state = "pending"
           /\ LeaseRanOut(r).state = r.state /\ BackoffElapsed(r).state = r.state
  BY DEF Row, JobState, NoToken, Enqueued, Claimed, Settled, Retried, Released,
         LeaseRanOut, BackoffElapsed

LEMMA NoLeaseType == NoLease \in [key : Key, token : Nat]
<1>1. PICK s \in Event : TRUE
  OBVIOUS
<1>2. <<s, 0>> \in Key
  BY DEF Key
<1>3. (CHOOSE k \in Key : TRUE) \in Key
  BY <1>2
<1> QED
  BY <1>3 DEF NoLease

LEMMA KeyParts ==
    /\ \A s \in Event : <<s, 0>> \in Key
    /\ \A s \in Aging : <<s, 1>> \in Key
    /\ \A k \in Key : /\ k[1] \in Event /\ k[2] \in {0, 1} /\ k = <<k[1], k[2]>>
                      /\ k[2] = 1 => k[1] \in Aging
BY DEF Key

\* The rest of the state: what the job table and the workers' steps leave alone.
Around ==
    /\ written \subseteq Email /\ answers \in [Reply -> SUBSET Epoch]
    /\ run \in [awaiting : BOOLEAN, epoch : Epoch]
    /\ asked \subseteq Epoch /\ moves \in 0..MaxMoves

Table ==
    /\ receipt \in [Event -> [stored : BOOLEAN, id : {0, 1}]]
    /\ accepted \subseteq Event
    /\ mail \in [Email -> {"absent", "candidate", "late", "unlinked"}]
    /\ created \in [Email -> Nat]
    /\ resume \in [Reply -> {"absent", "queued", "done"}] /\ consumed \subseteq Reply
    /\ job \in [Key -> Row(MaxAttempts)] /\ minted \in [Key -> Nat]

Workers ==
    /\ pc \in [Thread -> {"idle", "claimed", "loaded", "settling"}]
    /\ lease \in [Thread -> [key : Key, token : Nat]]
    /\ result \in [Thread -> {"none", "ok", "retryable"}]
    /\ faults \in 0..MaxFaults

LEMMA TypeParts == TypeOK <=> Around /\ Table /\ Workers
BY DEF TypeOK, Around, Table, Workers

LEMMA InitTypes == Init => TypeOK
<1> SUFFICES ASSUME Init PROVE TypeOK
  OBVIOUS
<1>1. AbsentRow \in Row(MaxAttempts)
  BY DEF AbsentRow, Row, JobState
<1>2. Around
  BY DEF Init, Around, Epoch
<1>3. Table
  BY <1>1 DEF Init, Table
<1>4. Workers
  BY NoLeaseType DEF Init, Workers
<1> QED
  BY <1>2, <1>3, <1>4, TypeParts

\* What a step outside the workers changes.
LEMMA AroundStep == ASSUME TypeOK, [Next]_vars PROVE Around'
<1> USE DEF Around
<1>0. Around
  BY TypeParts
<1>1. CASE Ask
  <2>1. run' \in [awaiting : BOOLEAN, epoch : Epoch] /\ run.epoch \in Epoch
    BY <1>0, <1>1 DEF Ask
  <2>2. moves' \in 0..MaxMoves
    BY <1>0, <1>1 DEF Ask
  <2> QED
    BY <1>0, <1>1, <2>1, <2>2 DEF Ask, client
<1>2. CASE Retrigger
  <2>1. run.epoch + 1 \in Epoch
    BY <1>0, <1>2 DEF Retrigger, Epoch
  <2>2. run' \in [awaiting : BOOLEAN, epoch : Epoch]
    BY <1>0, <1>2, <2>1 DEF Retrigger
  <2> QED
    BY <1>0, <1>2, <2>2 DEF Retrigger, client
<1>3. CASE ResumeOther
  BY <1>0, <1>3 DEF ResumeOther, client
<1>4. ASSUME NEW m \in Reply, Write(m) PROVE Around'
  BY <1>0, <1>4 DEF Write, conversation
<1>5. ASSUME NEW m \in Reply, ResumeReply(m) PROVE Around'
  <2>1. run' \in [awaiting : BOOLEAN, epoch : Epoch]
    BY <1>0, <1>5 DEF ResumeReply
  <2> QED
    BY <1>0, <1>5, <2>1 DEF ResumeReply, client
<1>6. ASSUME UNCHANGED <<client, conversation>> PROVE Around'
  BY <1>0, <1>6 DEF client, conversation
<1>7. ASSUME NEW s \in Event, Receive(s) \/ Purge(s) PROVE Around'
  BY <1>6, <1>7 DEF Receive, Purge
<1>8. ASSUME NEW t \in Thread, WorkerStep(t) \/ Raise(t) \/ Crash(t) PROVE Around'
  BY <1>6, <1>8 DEF WorkerStep, Claim, Load, Commit, Settle, Raise, Crash
<1>9. ASSUME NEW k \in Key, Clock(k) \/ Reap(k) PROVE Around'
  BY <1>6, <1>9 DEF Clock, LeaseExpires, BackoffElapses, Reap
<1>10. CASE UNCHANGED vars
  BY <1>6, <1>10 DEF vars
<1> QED
  BY <1>1, <1>2, <1>3, <1>4, <1>5, <1>7, <1>8, <1>9, <1>10 DEF Next

LEMMA WorkersStep == ASSUME TypeOK, [Next]_vars PROVE Workers'
<1> USE NoLeaseType DEF Workers, Goto
<1>0. Workers /\ minted \in [Key -> Nat]
  BY TypeParts DEF Table
<1>1. ASSUME UNCHANGED <<worker, faults>> PROVE Workers'
  BY <1>0, <1>1 DEF worker
<1>2. CASE Ask \/ Retrigger \/ ResumeOther
  BY <1>1, <1>2 DEF Ask, Retrigger, ResumeOther
<1>3. ASSUME NEW m \in Reply, Write(m) \/ ResumeReply(m) PROVE Workers'
  BY <1>1, <1>3 DEF Write, ResumeReply
<1>4. ASSUME NEW s \in Event, Receive(s) \/ Purge(s) PROVE Workers'
  BY <1>1, <1>4 DEF Receive, Purge
<1>5. ASSUME NEW t \in Thread, NEW k \in Key, Claim(t, k) PROVE Workers'
  <2>1. minted'[k] \in Nat
    BY <1>0, <1>5 DEF Claim
  <2>2. lease' \in [Thread -> [key : Key, token : Nat]]
    BY <1>0, <1>5, <2>1 DEF Claim
  <2> QED
    BY <1>0, <1>5, <2>2 DEF Claim
<1>6. ASSUME NEW t \in Thread, Load(t) \/ Commit(t) PROVE Workers'
  BY <1>0, <1>6 DEF Load, Commit, Return
<1>7. ASSUME NEW t \in Thread, Settle(t) PROVE Workers'
  BY <1>0, <1>7 DEF Settle, Leave
<1>8. ASSUME NEW t \in Thread, Raise(t) \/ Crash(t) PROVE Workers'
  <2>1. faults' \in 0..MaxFaults
    <3>1. faults \in 0..MaxFaults /\ faults < MaxFaults /\ faults' = faults + 1
      BY <1>0, <1>8 DEF Raise, Crash
    <3> QED
      BY <3>1
  <2>2. /\ pc' \in [Thread -> {"idle", "claimed", "loaded", "settling"}]
        /\ lease' \in [Thread -> [key : Key, token : Nat]]
        /\ result' \in [Thread -> {"none", "ok", "retryable"}]
    <3>1. CASE Raise(t)
      BY <1>0, <3>1 DEF Raise, Return
    <3>2. CASE Crash(t)
      BY <1>0, <3>2 DEF Crash, Leave
    <3> QED
      BY <1>8, <3>1, <3>2
  <2> QED
    BY <2>1, <2>2
<1>9. ASSUME NEW k \in Key, Clock(k) \/ Reap(k) PROVE Workers'
  <2>1. UNCHANGED worker
    BY <1>9 DEF Clock, LeaseExpires, BackoffElapses, Reap
  <2>2. faults' = faults \/ (faults < MaxFaults /\ faults' = faults + 1)
    BY <1>9 DEF Clock, LeaseExpires, BackoffElapses, Reap
  <2>3. faults' \in 0..MaxFaults
    <3>1. faults \in 0..MaxFaults
      BY <1>0
    <3> QED
      BY <2>2, <3>1
  <2> QED
    BY <1>0, <2>1, <2>3 DEF worker
<1>10. CASE UNCHANGED vars
  BY <1>1, <1>10 DEF vars
<1> QED
  BY <1>2, <1>3, <1>4, <1>5, <1>6, <1>7, <1>8, <1>9, <1>10 DEF Next, WorkerStep

-------------------------------------------------------------------------------
(* The inductive invariant *)

\* An email opens its run in the transaction that stores it.
OneEach ==
    \A m \in Email : created[m] <= 1 /\ (mail[m] = "absent" => created[m] = 0)

\* A worker settles a job as done, and a job is done, only with its email stored.
Decided ==
    /\ \A t \in Thread : pc[t] = "settling" /\ result[t] = "ok"
                         => mail[Carries[lease[t].key[1]]] # "absent"
    /\ \A k \in Key : job[k].state = "done" => mail[Carries[k[1]]] # "absent"

\* A receipt has the job it was stored with, and the next one will have a new job.
Fresh ==
    \A s \in Event :
        /\ receipt[s].id = 1 => s \in Aging
        /\ receipt[s].stored => job[<<s, receipt[s].id>>].state # "absent"
        /\ ~receipt[s].stored => job[<<s, receipt[s].id>>].state = "absent"
        /\ receipt[s].id = 0 /\ s \in Aging => job[<<s, 1>>].state = "absent"

IInv == Table /\ Workers /\ OneEach /\ Decided /\ Fresh /\ AcceptedIsOwned

Inbound == <<receipt, accepted, mail, created>>

\* A step that touches no table of the ingest, and lets no worker claim success.
LEMMA QuietKeeps ==
    ASSUME IInv, Workers', UNCHANGED <<Inbound, job>>,
           resume' \in [Reply -> {"absent", "queued", "done"}], consumed' \subseteq Reply,
           minted' \in [Key -> Nat],
           \A t \in Thread : pc'[t] = "settling" /\ result'[t] = "ok"
                             => pc[t] = "settling" /\ result[t] = "ok" /\ lease'[t] = lease[t]
    PROVE  IInv'
<1> USE DEF Inbound
<1>1. Table'
  BY DEF IInv, Table
<1>2. OneEach' /\ Fresh' /\ AcceptedIsOwned'
  BY DEF IInv, OneEach, Fresh, AcceptedIsOwned
<1>3. Decided'
  BY DEF IInv, Decided
<1> QED
  BY <1>1, <1>2, <1>3 DEF IInv

\* A step that moves one open job on: it may end as done only with its email stored.
LEMMA JobKeeps ==
    ASSUME IInv, Workers', UNCHANGED <<Inbound, resume, consumed>>,
           minted' \in [Key -> Nat],
           NEW k \in Key, NEW new \in Row(MaxAttempts),
           job' = [job EXCEPT ![k] = new], Open(job[k]),
           new.state \in {"pending", "leased", "done", "dead"},
           new.state = "done" => mail[Carries[k[1]]] # "absent",
           \A t \in Thread : pc'[t] = "settling" /\ result'[t] = "ok"
                             => pc[t] = "settling" /\ result[t] = "ok" /\ lease'[t] = lease[t]
    PROVE  IInv'
<1> USE DEF Inbound
<1>0. /\ Table /\ Decided /\ Fresh /\ AcceptedIsOwned
      /\ job \in [Key -> Row(MaxAttempts)] /\ receipt \in [Event -> [stored : BOOLEAN, id : {0, 1}]]
  BY DEF IInv, Table
<1>1. Table'
  BY <1>0 DEF Table
<1>2. OneEach'
  BY DEF IInv, OneEach
<1>3. Decided'
  BY <1>0 DEF Decided
<1>4. job'[k] = new /\ \A l \in Key : l # k => job'[l] = job[l]
  BY <1>0
<1>5. \A l \in Key : (job[l].state = "absent") <=> (job'[l].state = "absent")
  BY <1>4 DEF Open
<1>6. \A s \in Event : receipt[s].id \in {0, 1} /\ (receipt[s].id = 1 => s \in Aging)
  BY <1>0 DEF Fresh
<1>7. \A s \in Event : <<s, receipt[s].id>> \in Key
  BY <1>6, KeyParts
<1>8. Fresh'
  BY <1>0, <1>5, <1>7, KeyParts DEF Fresh
<1>9. AcceptedIsOwned'
  <2> SUFFICES ASSUME NEW s \in accepted
               PROVE  \/ mail[Carries[s]] # "absent"
                      \/ receipt[s].stored /\ Open(job'[<<s, receipt[s].id>>])
                      \/ \E l \in Key : l[1] = s /\ job'[l].state = "dead"
    BY DEF AcceptedIsOwned
  <2>1. s \in Event /\ <<s, receipt[s].id>> \in Key
    BY <1>0, <1>7 DEF Table
  <2>2. CASE mail[Carries[s]] # "absent"
    BY <2>2
  <2>3. CASE receipt[s].stored /\ Open(job[<<s, receipt[s].id>>])
    <3>1. CASE k = <<s, receipt[s].id>>
      <4>1. k[1] = s
        BY <3>1
      <4> QED
        BY <1>4, <2>3, <3>1, <4>1 DEF Open
    <3>2. CASE k # <<s, receipt[s].id>>
      BY <1>4, <2>1, <2>3, <3>2
    <3> QED
      BY <3>1, <3>2
  <2>4. CASE \E l \in Key : l[1] = s /\ job[l].state = "dead"
    <3>1. PICK l \in Key : l[1] = s /\ job[l].state = "dead"
      BY <2>4
    <3>2. l # k
      BY <3>1 DEF Open
    <3> QED
      BY <1>4, <3>1, <3>2
  <2> QED
    BY <1>0, <2>2, <2>3, <2>4 DEF AcceptedIsOwned
<1> QED
  BY <1>1, <1>2, <1>3, <1>8, <1>9 DEF IInv

\* The webhook stores the receipt of an event with a job of its own.
LEMMA ReceiveKeeps == ASSUME IInv, Workers', NEW s \in Event, Receive(s) PROVE IInv'
<1> DEFINE k == <<s, receipt[s].id>>
<1>0. /\ Table /\ Decided /\ Fresh /\ AcceptedIsOwned
      /\ job \in [Key -> Row(MaxAttempts)] /\ receipt \in [Event -> [stored : BOOLEAN, id : {0, 1}]]
  BY DEF IInv, Table
<1>1. /\ ~receipt[s].stored /\ receipt' = [receipt EXCEPT ![s].stored = TRUE]
      /\ job' = [job EXCEPT ![k] = Enqueued(@, TRUE)] /\ accepted' = accepted \cup {s}
      /\ UNCHANGED <<mail, created, resume, consumed, minted, pc, lease, result>>
  BY DEF Receive, inbox, worker
<1>2. \A e \in Event : receipt[e].id \in {0, 1} /\ (receipt[e].id = 1 => e \in Aging)
  BY <1>0 DEF Fresh
<1>3. \A e \in Event : <<e, receipt[e].id>> \in Key
  BY <1>2, KeyParts
<1>4. k \in Key /\ job[k].state = "absent"
  BY <1>0, <1>1, <1>3 DEF Fresh
<1>5. Enqueued(job[k], TRUE) \in Row(MaxAttempts) /\ Enqueued(job[k], TRUE).state = "pending"
  <2>1. job[k] \in Row(MaxAttempts)
    BY <1>0, <1>4
  <2> QED
    BY <1>4, <2>1 DEF Enqueued, Row, JobState
<1>6. /\ job'[k].state = "pending" /\ job' \in [Key -> Row(MaxAttempts)]
      /\ \A l \in Key : l # k => job'[l] = job[l]
  BY <1>0, <1>1, <1>4, <1>5
<1>7. /\ receipt' \in [Event -> [stored : BOOLEAN, id : {0, 1}]]
      /\ receipt'[s].stored /\ \A e \in Event : receipt'[e].id = receipt[e].id
      /\ \A e \in Event : e # s => receipt'[e] = receipt[e]
  BY <1>0, <1>1
<1>8. Table'
  BY <1>0, <1>1, <1>6, <1>7 DEF Table
<1>9. OneEach'
  BY <1>1 DEF IInv, OneEach
<1>10. Decided'
  <2>1. \A l \in Key : job'[l].state = "done" => job[l].state = "done"
    BY <1>6
  <2> QED
    BY <1>0, <1>1, <2>1 DEF Decided
<1> HIDE DEF k
<1>11. ASSUME NEW e \in Event, e # s PROVE k # <<e, receipt[e].id>> /\ k # <<e, 1>>
  BY <1>11 DEF k
<1>12. receipt[s].id = 0 => k # <<s, 1>>
  BY DEF k
<1>13. Fresh'
  <2> SUFFICES ASSUME NEW e \in Event
               PROVE  /\ receipt'[e].id = 1 => e \in Aging
                      /\ receipt'[e].stored => job'[<<e, receipt'[e].id>>].state # "absent"
                      /\ ~receipt'[e].stored => job'[<<e, receipt'[e].id>>].state = "absent"
                      /\ receipt'[e].id = 0 /\ e \in Aging => job'[<<e, 1>>].state = "absent"
    BY DEF Fresh
  <2>1. CASE e = s
    <3>1. job'[<<e, receipt'[e].id>>].state = "pending"
      BY <1>6, <1>7, <2>1 DEF k
    <3>2. ASSUME receipt'[e].id = 0, e \in Aging PROVE job'[<<e, 1>>].state = "absent"
      <4>1. receipt[s].id = 0 /\ s \in Aging
        BY <1>7, <2>1, <3>2
      <4>2. job[<<s, 1>>].state = "absent"
        BY <1>0, <4>1 DEF Fresh
      <4>3. <<s, 1>> \in Key /\ <<s, 1>> # k
        BY <1>12, <4>1, KeyParts
      <4>4. job'[<<s, 1>>] = job[<<s, 1>>]
        BY <1>6, <4>3
      <4> QED
        BY <2>1, <4>2, <4>4
    <3> QED
      BY <1>2, <1>7, <2>1, <3>1, <3>2
  <2>2. CASE e # s
    BY <1>0, <1>3, <1>6, <1>7, <1>11, <2>2, KeyParts DEF Fresh
  <2> QED
    BY <2>1, <2>2
<1>14. AcceptedIsOwned'
  <2> SUFFICES ASSUME NEW e \in accepted'
               PROVE  \/ mail[Carries[e]] # "absent"
                      \/ receipt'[e].stored /\ Open(job'[<<e, receipt'[e].id>>])
                      \/ \E l \in Key : l[1] = e /\ job'[l].state = "dead"
    BY <1>1 DEF AcceptedIsOwned
  <2>1. CASE e = s
    BY <1>6, <1>7, <2>1 DEF k, Open
  <2>2. CASE e # s
    <3>1. e \in accepted /\ e \in Event
      BY <1>0, <1>1, <2>2 DEF Table
    <3>2. job'[<<e, receipt[e].id>>] = job[<<e, receipt[e].id>>] /\ receipt'[e] = receipt[e]
      BY <1>3, <1>6, <1>7, <1>11, <2>2, <3>1
    <3>3. \A l \in Key : job[l].state = "dead" => job'[l].state = "dead"
      BY <1>4, <1>6
    <3> QED
      BY <1>0, <3>1, <3>2, <3>3 DEF AcceptedIsOwned
  <2> QED
    BY <2>1, <2>2
<1> QED
  BY <1>8, <1>9, <1>10, <1>13, <1>14 DEF IInv

\* The purge takes a receipt whose job has ended, and the email with it is stored or
\* the job is dead.
LEMMA PurgeKeeps == ASSUME IInv, Workers', NEW s \in Event, Purge(s) PROVE IInv'
<1>0. /\ Table /\ Decided /\ Fresh /\ AcceptedIsOwned
      /\ receipt \in [Event -> [stored : BOOLEAN, id : {0, 1}]]
  BY DEF IInv, Table
<1>1. /\ s \in Aging /\ receipt[s].id = 0 /\ receipt[s].stored
      /\ Terminal(job[<<s, 0>>])
      /\ receipt' = [receipt EXCEPT ![s] = [stored |-> FALSE, id |-> 1]]
      /\ UNCHANGED <<accepted, mail, created, resume, consumed, job, minted, pc, lease, result>>
  BY DEF Purge, Purgeable, inbox, worker
<1>2. /\ receipt' \in [Event -> [stored : BOOLEAN, id : {0, 1}]]
      /\ ~receipt'[s].stored /\ receipt'[s].id = 1
      /\ \A e \in Event : e # s => receipt'[e] = receipt[e]
  BY <1>0, <1>1
<1>3. Table' /\ OneEach' /\ Decided'
  <2>1. Table'
    BY <1>1, <1>2 DEF IInv, Table
  <2>2. OneEach'
    BY <1>1 DEF IInv, OneEach
  <2>3. Decided'
    BY <1>0, <1>1 DEF Decided
  <2> QED
    BY <2>1, <2>2, <2>3
<1>4. Fresh'
  <2>1. job[<<s, 1>>].state = "absent"
    BY <1>0, <1>1 DEF Fresh
  <2> SUFFICES ASSUME NEW e \in Event
               PROVE  /\ receipt'[e].id = 1 => e \in Aging
                      /\ receipt'[e].stored => job'[<<e, receipt'[e].id>>].state # "absent"
                      /\ ~receipt'[e].stored => job'[<<e, receipt'[e].id>>].state = "absent"
                      /\ receipt'[e].id = 0 /\ e \in Aging => job'[<<e, 1>>].state = "absent"
    BY DEF Fresh
  <2>2. CASE e = s
    BY <1>1, <1>2, <2>1, <2>2
  <2>3. CASE e # s
    BY <1>0, <1>1, <1>2, <2>3 DEF Fresh
  <2> QED
    BY <2>2, <2>3
<1>5. AcceptedIsOwned'
  <2> SUFFICES ASSUME NEW e \in accepted
               PROVE  \/ mail[Carries[e]] # "absent"
                      \/ receipt'[e].stored /\ Open(job[<<e, receipt'[e].id>>])
                      \/ \E l \in Key : l[1] = e /\ job[l].state = "dead"
    BY <1>1 DEF AcceptedIsOwned
  <2>1. CASE e = s
    <3>1. <<s, 0>> \in Key /\ <<s, 0>>[1] = s
      BY KeyParts
    <3>2. CASE job[<<s, 0>>].state = "done"
      <4>1. mail[Carries[<<s, 0>>[1]]] # "absent"
        BY <1>0, <3>1, <3>2 DEF Decided
      <4> QED
        BY <2>1, <3>1, <4>1
    <3>3. CASE job[<<s, 0>>].state = "dead"
      BY <2>1, <3>1, <3>3
    <3> QED
      BY <1>1, <3>2, <3>3 DEF Terminal
  <2>2. CASE e # s
    <3>1. e \in Event
      BY <1>0 DEF Table
    <3> QED
      BY <1>0, <1>2, <2>2, <3>1 DEF AcceptedIsOwned
  <2> QED
    BY <2>1, <2>2
<1> QED
  BY <1>3, <1>4, <1>5 DEF IInv

\* The ingest transaction leaves its email stored, and opens a run only for one that
\* was not.
LEMMA IngestOutcome ==
    ASSUME Table, NEW m \in Email,
           Duplicate(m) \/ Candidate(m) \/ LateReply(m) \/ NewOrUnknown(m)
    PROVE  /\ mail' \in [Email -> {"absent", "candidate", "late", "unlinked"}]
           /\ mail'[m] # "absent" /\ \A n \in Email : n # m => mail'[n] = mail[n]
           /\ \/ created' = created
              \/ mail[m] = "absent" /\ created' = [created EXCEPT ![m] = @ + 1]
           /\ resume' \in [Reply -> {"absent", "queued", "done"}]
<1>1. CASE Duplicate(m)
  BY <1>1 DEF Duplicate, Known, Owe, Table
<1>2. CASE Candidate(m)
  BY <1>2 DEF Candidate, Link, Known, Owe, Table
<1>3. CASE LateReply(m)
  BY <1>3 DEF LateReply, Link, Known, Table
<1>4. CASE NewOrUnknown(m)
  BY <1>4 DEF NewOrUnknown, CreateRun, Known, Table
<1> QED
  BY <1>1, <1>2, <1>3, <1>4

LEMMA CommitKeeps == ASSUME IInv, Workers', NEW t \in Thread, Commit(t) PROVE IInv'
<1> DEFINE m == Carries[lease[t].key[1]]
<1>0. /\ Table /\ OneEach /\ Decided /\ Fresh /\ AcceptedIsOwned
      /\ \A u \in Thread : lease[u].key \in Key
      /\ created \in [Email -> Nat] /\ accepted \subseteq Event
      /\ pc \in [Thread -> {"idle", "claimed", "loaded", "settling"}]
      /\ result \in [Thread -> {"none", "ok", "retryable"}]
  BY DEF IInv, Table, Workers
<1>1. m \in Email
  BY <1>0, KeyParts
<1>2. /\ Duplicate(m) \/ Candidate(m) \/ LateReply(m) \/ NewOrUnknown(m)
      /\ pc' = [pc EXCEPT ![t] = "settling"] /\ result' = [result EXCEPT ![t] = "ok"]
      /\ UNCHANGED <<receipt, accepted, consumed, job, minted, lease>>
  BY DEF Commit, Return, Goto, web
<1> HIDE DEF m
<1>3. /\ mail' \in [Email -> {"absent", "candidate", "late", "unlinked"}]
      /\ mail'[m] # "absent" /\ \A n \in Email : n # m => mail'[n] = mail[n]
      /\ \/ created' = created
         \/ mail[m] = "absent" /\ created' = [created EXCEPT ![m] = @ + 1]
      /\ resume' \in [Reply -> {"absent", "queued", "done"}]
  BY <1>0, <1>1, <1>2, IngestOutcome
<1>4. \A n \in Email : mail[n] # "absent" => mail'[n] # "absent"
  BY <1>3
<1>5. Table'
  <2>1. created' \in [Email -> Nat]
    BY <1>0, <1>1, <1>3
  <2> QED
    BY <1>0, <1>2, <1>3, <2>1 DEF Table
<1>6. OneEach'
  BY <1>0, <1>1, <1>3 DEF OneEach
<1>7. Fresh'
  BY <1>0, <1>2 DEF Fresh
<1>8. Decided'
  <2>1. ASSUME NEW u \in Thread, pc'[u] = "settling", result'[u] = "ok"
        PROVE  mail'[Carries[lease[u].key[1]]] # "absent"
    <3>1. Carries[lease[u].key[1]] \in Email
      BY <1>0, KeyParts
    <3>2. CASE u = t
      BY <1>3, <3>2 DEF m
    <3>3. CASE u # t
      BY <1>0, <1>2, <1>4, <2>1, <3>1, <3>3 DEF Decided
    <3> QED
      BY <3>2, <3>3
  <2>2. ASSUME NEW k \in Key, job[k].state = "done" PROVE mail'[Carries[k[1]]] # "absent"
    <3>1. Carries[k[1]] \in Email
      BY KeyParts
    <3> QED
      BY <1>0, <1>4, <2>2, <3>1 DEF Decided
  <2> QED
    BY <1>2, <2>1, <2>2 DEF Decided
<1>9. AcceptedIsOwned'
  <2>1. \A s \in accepted : Carries[s] \in Email
    BY <1>0
  <2> QED
    BY <1>0, <1>2, <1>4, <2>1 DEF AcceptedIsOwned
<1> QED
  BY <1>5, <1>6, <1>7, <1>8, <1>9 DEF IInv

LEMMA ClaimKeeps ==
    ASSUME IInv, Workers', NEW t \in Thread, NEW k \in Key, Claim(t, k) PROVE IInv'
<1>0. /\ job[k] \in Row(MaxAttempts) /\ minted \in [Key -> Nat]
      /\ pc \in [Thread -> {"idle", "claimed", "loaded", "settling"}]
      /\ lease \in [Thread -> [key : Key, token : Nat]]
  BY DEF IInv, Table, Workers
<1>1. /\ Claimable(job[k], MaxAttempts)
      /\ minted' = [minted EXCEPT ![k] = @ + 1]
      /\ job' = [job EXCEPT ![k] = Claimed(@, minted'[k])]
      /\ pc' = [pc EXCEPT ![t] = "claimed"] /\ result' = result
      /\ \A u \in Thread : u # t => lease'[u] = lease[u]
      /\ UNCHANGED <<Inbound, resume, consumed>>
  BY <1>0 DEF Claim, Goto, web, inbox, Inbound
<1>2. minted' \in [Key -> Nat] /\ minted'[k] \in Nat
  BY <1>0, <1>1
<1>3. Claimed(job[k], minted'[k]) \in Row(MaxAttempts) /\ Claimed(job[k], minted'[k]).state = "leased"
  <2>1. "pending" \in JobState /\ MaxAttempts \in Nat
    BY IngestAssumption DEF JobState
  <2>2. Claimed(job[k], minted'[k]) \in Row(MaxAttempts)
    BY <1>0, <1>1, <1>2, <2>1, RowTransitions
  <2>3. Claimed(job[k], minted'[k]).state = "leased"
    BY <1>0 DEF Claimed, Row
  <2> QED
    BY <2>2, <2>3
<1>4. Open(job[k])
  BY <1>1 DEF Claimable, Open
<1>5. \A u \in Thread : pc'[u] = "settling" /\ result'[u] = "ok"
                        => pc[u] = "settling" /\ result[u] = "ok" /\ lease'[u] = lease[u]
  BY <1>0, <1>1
<1> QED
  BY <1>1, <1>2, <1>3, <1>4, <1>5, JobKeeps

\* Nothing a worker or a clock does to an open job ends it as done, but the
\* settlement of a success.
LEMMA SettleKeeps == ASSUME IInv, Workers', NEW t \in Thread, Settle(t) PROVE IInv'
<1> DEFINE k == lease[t].key
<1>0. /\ k \in Key /\ job[k] \in Row(MaxAttempts) /\ Decided
      /\ minted \in [Key -> Nat] /\ resume \in [Reply -> {"absent", "queued", "done"}]
      /\ consumed \subseteq Reply
      /\ pc \in [Thread -> {"idle", "claimed", "loaded", "settling"}]
      /\ lease \in [Thread -> [key : Key, token : Nat]]
      /\ result \in [Thread -> {"none", "ok", "retryable"}]
  BY DEF IInv, Table, Workers
<1>1. /\ pc[t] = "settling"
      /\ pc' = [pc EXCEPT ![t] = "idle"]
      /\ result' = [result EXCEPT ![t] = "none"]
      /\ lease' = [lease EXCEPT ![t] = NoLease]
      /\ UNCHANGED <<Inbound, resume, consumed, minted>>
  BY DEF Settle, Leave, Goto, web, inbox, Inbound
<1>2. \A u \in Thread : pc'[u] = "settling" /\ result'[u] = "ok"
                        => pc[u] = "settling" /\ result[u] = "ok" /\ lease'[u] = lease[u]
  BY <1>0, <1>1
<1>3. /\ Settled(job[k], "done") \in Row(MaxAttempts) /\ Settled(job[k], "done").state = "done"
      /\ Settled(job[k], "dead") \in Row(MaxAttempts) /\ Settled(job[k], "dead").state = "dead"
      /\ Retried(job[k]) \in Row(MaxAttempts) /\ Retried(job[k]).state = "pending"
  <2>1. "done" \in JobState /\ "dead" \in JobState
    BY DEF JobState
  <2> DEFINE r == job[k]
  <2>2. r \in Row(MaxAttempts)
    BY <1>0
  <2> HIDE DEF r
  <2>3. \A s \in JobState : Settled(r, s) \in Row(MaxAttempts) /\ Settled(r, s).state = s
    BY <2>2, SettledRow
  <2>4. Retried(r) \in Row(MaxAttempts) /\ Retried(r).state = "pending"
    BY <2>1, <2>2, RowTransitions, RowStates
  <2> QED
    BY <2>1, <2>3, <2>4 DEF r
<1>4. \/ job' = job
      \/ /\ Holds(job[k], lease[t].token)
         /\ \/ result[t] = "ok" /\ job' = [job EXCEPT ![k] = Settled(@, "done")]
            \/ job' = [job EXCEPT ![k] = Retried(@)]
            \/ job' = [job EXCEPT ![k] = Settled(@, "dead")]
  BY DEF Settle
<1>5. Holds(job[k], lease[t].token) => Open(job[k])
  BY DEF Holds, Open
<1>6. result[t] = "ok" => mail[Carries[k[1]]] # "absent"
  BY <1>0, <1>1 DEF Decided
<1> HIDE DEF k
<1>7. CASE job' = job
  BY <1>0, <1>1, <1>2, <1>7, QuietKeeps
<1>8. ASSUME NEW new \in Row(MaxAttempts), Open(job[k]), job' = [job EXCEPT ![k] = new],
             new.state \in {"pending", "dead", "done"},
             new.state = "done" => mail[Carries[k[1]]] # "absent"
      PROVE  IInv'
  BY <1>0, <1>1, <1>2, <1>8, JobKeeps
<1>9. CASE Open(job[k]) /\ result[t] = "ok" /\ job' = [job EXCEPT ![k] = Settled(@, "done")]
  BY <1>3, <1>6, <1>8, <1>9
<1>10. CASE Open(job[k]) /\ job' = [job EXCEPT ![k] = Retried(@)]
  BY <1>3, <1>8, <1>10
<1>11. CASE Open(job[k]) /\ job' = [job EXCEPT ![k] = Settled(@, "dead")]
  BY <1>3, <1>8, <1>11
<1> QED
  BY <1>4, <1>5, <1>7, <1>9, <1>10, <1>11

LEMMA ClockKeeps == ASSUME IInv, Workers', NEW k \in Key, Clock(k) \/ Reap(k) PROVE IInv'
<1>0. job[k] \in Row(MaxAttempts) /\ minted \in [Key -> Nat]
  BY DEF IInv, Table
<1>1. UNCHANGED <<Inbound, resume, consumed, minted, pc, lease, result>>
  BY DEF Clock, LeaseExpires, BackoffElapses, Reap, Inbound, web, inbox, worker
<1>2. /\ LeaseRanOut(job[k]) \in Row(MaxAttempts) /\ LeaseRanOut(job[k]).state = job[k].state
      /\ BackoffElapsed(job[k]) \in Row(MaxAttempts) /\ BackoffElapsed(job[k]).state = job[k].state
      /\ Settled(job[k], "dead") \in Row(MaxAttempts) /\ Settled(job[k], "dead").state = "dead"
  <2>1. "dead" \in JobState
    BY DEF JobState
  <2> DEFINE r == job[k]
  <2>2. r \in Row(MaxAttempts)
    BY <1>0
  <2> HIDE DEF r
  <2>3. Settled(r, "dead") \in Row(MaxAttempts) /\ Settled(r, "dead").state = "dead"
    BY <2>1, <2>2, SettledRow
  <2>4. /\ LeaseRanOut(r) \in Row(MaxAttempts) /\ LeaseRanOut(r).state = r.state
        /\ BackoffElapsed(r) \in Row(MaxAttempts) /\ BackoffElapsed(r).state = r.state
    BY <2>1, <2>2, RowTransitions, RowStates
  <2> QED
    BY <2>3, <2>4 DEF r
<1>3. PICK new \in Row(MaxAttempts) :
        /\ job' = [job EXCEPT ![k] = new] /\ Open(job[k])
        /\ new.state \in {"pending", "leased", "dead"}
  <2>1. CASE LeaseExpires(k)
    BY <1>2, <2>1 DEF LeaseExpires, Open
  <2>2. CASE BackoffElapses(k)
    BY <1>2, <2>2 DEF BackoffElapses, Open
  <2>3. CASE Reap(k)
    BY <1>2, <2>3 DEF Reap, ExpiredFinal, Open
  <2> QED
    BY <2>1, <2>2, <2>3 DEF Clock
<1> QED
  BY <1>0, <1>1, <1>3, JobKeeps

LEMMA InitIInv == Init => IInv
<1> SUFFICES ASSUME Init PROVE IInv
  OBVIOUS
<1>1. \A k \in Key : job[k].state = "absent"
  BY DEF Init, AbsentRow
<1>2. OneEach /\ AcceptedIsOwned
  BY DEF Init, OneEach, AcceptedIsOwned
<1>3. Decided
  BY <1>1 DEF Init, Decided
<1>4. Fresh
  BY <1>1, KeyParts DEF Init, Fresh
<1> QED
  BY <1>2, <1>3, <1>4, InitTypes, TypeParts DEF IInv

LEMMA NextIInv == TypeOK /\ IInv /\ [Next]_vars => IInv'
<1> SUFFICES ASSUME TypeOK, IInv, [Next]_vars PROVE IInv'
  OBVIOUS
<1>0. /\ Workers' /\ minted \in [Key -> Nat] /\ consumed \subseteq Reply
      /\ resume \in [Reply -> {"absent", "queued", "done"}]
      /\ pc \in [Thread -> {"idle", "claimed", "loaded", "settling"}]
      /\ result \in [Thread -> {"none", "ok", "retryable"}]
  BY WorkersStep DEF IInv, Table, Workers
<1>1. ASSUME UNCHANGED <<Inbound, job, resume, consumed, minted, worker>> PROVE IInv'
  BY <1>0, <1>1, QuietKeeps DEF worker
<1>2. CASE Ask \/ Retrigger \/ ResumeOther
  BY <1>1, <1>2 DEF Ask, Retrigger, ResumeOther, web, inbox, Inbound
<1>3. ASSUME NEW m \in Reply, Write(m) PROVE IInv'
  BY <1>1, <1>3 DEF Write, web, inbox, Inbound
<1>4. ASSUME NEW m \in Reply, ResumeReply(m) PROVE IInv'
  <2>1. /\ UNCHANGED <<Inbound, job, minted, pc, lease, result>>
        /\ resume' \in [Reply -> {"absent", "queued", "done"}] /\ consumed' \subseteq Reply
    BY <1>0, <1>4 DEF ResumeReply, web, worker, Inbound
  <2> QED
    BY <1>0, <2>1, QuietKeeps
<1>5. ASSUME NEW s \in Event, Receive(s) \/ Purge(s) PROVE IInv'
  BY <1>0, <1>5, ReceiveKeeps, PurgeKeeps
<1>6. ASSUME NEW t \in Thread, WorkerStep(t) PROVE IInv'
  <2>1. CASE Load(t)
    <3>1. /\ UNCHANGED <<Inbound, job, resume, consumed, minted, lease>>
          /\ \/ pc' = [pc EXCEPT ![t] = "loaded"] /\ result' = result
             \/ result' = [result EXCEPT ![t] = "retryable"] /\ pc' = [pc EXCEPT ![t] = "settling"]
      BY <2>1 DEF Load, Return, Goto, web, inbox, Inbound
    <3> QED
      BY <1>0, <3>1, QuietKeeps
  <2> QED
    BY <1>0, <1>6, <2>1, ClaimKeeps, CommitKeeps, SettleKeeps DEF WorkerStep
<1>7. ASSUME NEW t \in Thread, Raise(t) \/ Crash(t) PROVE IInv'
  <2>1. UNCHANGED <<Inbound, job, resume, consumed, minted>>
    BY <1>7 DEF Raise, Crash, web, inbox, Inbound
  <2>2. /\ result'[t] # "ok"
        /\ \A u \in Thread : u # t =>
             pc'[u] = pc[u] /\ result'[u] = result[u] /\ lease'[u] = lease[u]
    <3>1. CASE Raise(t)
      BY <1>0, <3>1 DEF Raise, Return, Goto
    <3>2. CASE Crash(t)
      BY <1>0, <3>2 DEF Crash, Leave, Goto
    <3> QED
      BY <1>7, <3>1, <3>2
  <2> QED
    BY <1>0, <2>1, <2>2, QuietKeeps
<1>8. ASSUME NEW k \in Key, Clock(k) \/ Reap(k) PROVE IInv'
  BY <1>0, <1>8, ClockKeeps
<1>9. CASE UNCHANGED vars
  BY <1>1, <1>9 DEF vars, web, inbox, Inbound
<1> QED
  BY <1>2, <1>3, <1>4, <1>5, <1>6, <1>7, <1>8, <1>9 DEF Next

LEMMA NextTypes == TypeOK /\ IInv /\ [Next]_vars => TypeOK'
<1> SUFFICES ASSUME TypeOK, IInv, [Next]_vars PROVE TypeOK'
  OBVIOUS
<1>1. IInv' /\ Around'
  BY NextIInv, AroundStep
<1> QED
  BY <1>1 DEF IInv, TypeOK, Around, Table, Workers

LEMMA Inductive == Spec => [](TypeOK /\ IInv)
BY InitTypes, InitIInv, NextTypes, NextIInv, PTL DEF Spec

\* Rows, receipts and workers keep their domains.
THEOREM IngestTypes == Spec => []TypeOK
BY Inductive, PTL

\* One email opens at most one run, whatever is redelivered, purged, reclaimed or lost
\* (the unique Message-ID of insert_inbound_email() in the ingest transaction).
THEOREM OneRun == Spec => []OneRunPerEmail
<1>1. IInv => OneRunPerEmail
  BY DEF IInv, OneEach, OneRunPerEmail
<1> QED
  BY <1>1, Inductive, PTL

\* An email answered 200 is stored, or its job is open with its receipt, or its job
\* is dead in sight of the operator; no purge, crash or retry loses it.
THEOREM AcceptedIsKept == Spec => []AcceptedIsOwned
<1>1. IInv => AcceptedIsOwned
  BY DEF IInv
<1> QED
  BY <1>1, Inductive, PTL

-------------------------------------------------------------------------------
(* The promise: an ingest job is a job of the queue *)

\* A busy worker carries a token minted for its job, and no other worker the same.
Tokens ==
    /\ \A t \in Thread : pc[t] # "idle" => lease[t].token <= minted[lease[t].key]
    /\ \A t, u \in Thread : /\ t # u /\ pc[t] # "idle" /\ pc[u] # "idle"
                            /\ lease[t].key = lease[u].key
                            => lease[t].token # lease[u].token

\* Busy workers keep what they carry; some become idle, at most.
OnlyLeave ==
    /\ minted' = minted
    /\ \A t \in Thread : pc'[t] # "idle" => pc[t] # "idle" /\ lease'[t] = lease[t]

LEMMA LeaveKeepsTokens == ASSUME Tokens, OnlyLeave PROVE Tokens'
  BY DEF Tokens, OnlyLeave

\* What each step but a claim does to the workers.
LEMMA OnlyClaimsEnter ==
    ASSUME TypeOK, [Next]_vars, ~\E t \in Thread, k \in Key : Claim(t, k) PROVE OnlyLeave
<1> USE DEF OnlyLeave, Goto
<1>0. /\ pc \in [Thread -> {"idle", "claimed", "loaded", "settling"}]
      /\ lease \in [Thread -> [key : Key, token : Nat]]
  BY DEF TypeOK
<1>1. ASSUME UNCHANGED <<minted, worker>> PROVE OnlyLeave
  BY <1>1 DEF worker
<1>2. CASE Ask \/ Retrigger \/ ResumeOther
  BY <1>1, <1>2 DEF Ask, Retrigger, ResumeOther
<1>3. ASSUME NEW m \in Reply, Write(m) \/ ResumeReply(m) PROVE OnlyLeave
  BY <1>1, <1>3 DEF Write, ResumeReply
<1>4. ASSUME NEW s \in Event, Receive(s) \/ Purge(s) PROVE OnlyLeave
  BY <1>1, <1>4 DEF Receive, Purge
<1>5. ASSUME NEW t \in Thread, Load(t) \/ Commit(t) \/ Raise(t) PROVE OnlyLeave
  BY <1>0, <1>5 DEF Load, Commit, Raise, Return
<1>6. ASSUME NEW t \in Thread, Settle(t) \/ Crash(t) PROVE OnlyLeave
  BY <1>0, <1>6 DEF Settle, Crash, Leave
<1>7. ASSUME NEW k \in Key, Clock(k) \/ Reap(k) PROVE OnlyLeave
  BY <1>1, <1>7 DEF Clock, LeaseExpires, BackoffElapses, Reap
<1>8. CASE UNCHANGED vars
  BY <1>1, <1>8 DEF vars
<1> QED
  BY <1>2, <1>3, <1>4, <1>5, <1>6, <1>7, <1>8 DEF Next, WorkerStep

\* What a claim grants: a token nobody carries.
Granted(t, k) ==
    /\ pc[t] = "idle" /\ pc'[t] = "claimed" /\ \A u \in Thread : u # t => pc'[u] = pc[u]
    /\ minted'[k] = minted[k] + 1 /\ \A l \in Key : l # k => minted'[l] = minted[l]
    /\ lease'[t] = [key |-> k, token |-> minted'[k]]
    /\ \A u \in Thread : u # t => lease'[u] = lease[u]
    /\ \A u \in Thread : pc[u] # "idle" /\ lease[u].key = k => lease[u].token # minted'[k]
    /\ job[k].state \in {"pending", "leased"} /\ job[k].attempts < MaxAttempts
    /\ job'[k].state = "leased" /\ job'[k].token = minted'[k]
    /\ job'[k].attempts = job[k].attempts + 1
    /\ \A l \in Key : l # k => job'[l] = job[l]

LEMMA ClaimGrants ==
    ASSUME TypeOK, Tokens, NEW t \in Thread, NEW k \in Key, Claim(t, k) PROVE Granted(t, k)
<1>0. /\ pc \in [Thread -> {"idle", "claimed", "loaded", "settling"}]
      /\ lease \in [Thread -> [key : Key, token : Nat]]
      /\ minted \in [Key -> Nat] /\ job \in [Key -> Row(MaxAttempts)]
  BY DEF TypeOK
<1>1. /\ pc[t] = "idle" /\ Claimable(job[k], MaxAttempts)
      /\ pc' = [pc EXCEPT ![t] = "claimed"]
      /\ minted' = [minted EXCEPT ![k] = @ + 1]
      /\ job' = [job EXCEPT ![k] = Claimed(@, minted'[k])]
      /\ lease' = [lease EXCEPT ![t] = [key |-> k, token |-> minted'[k]]]
  BY DEF Claim, Goto
<1>2. minted[k] \in Nat /\ minted'[k] = minted[k] + 1
  BY <1>0, <1>1
<1>3. /\ Claimed(job[k], minted'[k]).state = "leased"
      /\ Claimed(job[k], minted'[k]).token = minted'[k]
      /\ Claimed(job[k], minted'[k]).attempts = job[k].attempts + 1
  <2>1. job[k] \in Row(MaxAttempts)
    BY <1>0
  <2> QED
    BY <2>1 DEF Claimed, Row
<1>4. /\ job'[k] = Claimed(job[k], minted'[k]) /\ \A l \in Key : l # k => job'[l] = job[l]
  BY <1>0, <1>1
<1>5. \A u \in Thread : pc[u] # "idle" /\ lease[u].key = k => lease[u].token # minted'[k]
  BY <1>0, <1>2 DEF Tokens
<1>6. job[k].state \in {"pending", "leased"} /\ job[k].attempts < MaxAttempts
  BY <1>1 DEF Claimable
<1> QED
  BY <1>0, <1>1, <1>2, <1>3, <1>4, <1>5, <1>6 DEF Granted

LEMMA TokensInit == Init => Tokens
  BY DEF Init, Tokens

LEMMA TokensStep == TypeOK /\ Tokens /\ [Next]_vars => Tokens'
<1> SUFFICES ASSUME TypeOK, Tokens, [Next]_vars PROVE Tokens'
  OBVIOUS
<1>1. ASSUME NEW t \in Thread, NEW k \in Key, Claim(t, k) PROVE Tokens'
  <2>0. /\ \A u \in Thread : lease[u].key \in Key /\ lease[u].token \in Nat
        /\ \A l \in Key : minted[l] \in Nat
    BY DEF TypeOK
  <2>g. Granted(t, k)
    BY <1>1, ClaimGrants
  <2>1. ASSUME NEW u \in Thread, pc'[u] # "idle" PROVE lease'[u].token <= minted'[lease'[u].key]
    <3>1. CASE u = t
      BY <2>0, <2>g, <3>1 DEF Granted
    <3>2. CASE u # t
      <4>1. lease'[u] = lease[u] /\ lease[u].token <= minted[lease[u].key]
        BY <2>1, <2>g, <3>2 DEF Granted, Tokens
      <4>2. minted[lease[u].key] <= minted'[lease[u].key]
        BY <2>0, <2>g DEF Granted
      <4>3. minted[lease[u].key] \in Nat /\ lease[u].token \in Nat /\ minted'[lease[u].key] \in Nat
        BY <2>0, <2>g DEF Granted
      <4> QED
        BY <4>1, <4>2, <4>3
    <3> QED
      BY <3>1, <3>2
  <2>2. ASSUME NEW u \in Thread, NEW v \in Thread, u # v, pc'[u] # "idle", pc'[v] # "idle",
               lease'[u].key = lease'[v].key
        PROVE  lease'[u].token # lease'[v].token
    BY <2>2, <2>g DEF Granted, Tokens
  <2> QED
    BY <2>1, <2>2 DEF Tokens
<1> QED
  BY <1>1, OnlyClaimsEnter, LeaveKeepsTokens

LEMMA PromiseInit == Init => Promise!Init
<1> SUFFICES ASSUME Init PROVE Promise!Init
  OBVIOUS
<1>1. \A k \in Key : Promised(job[k]) = "absent" /\ job[k].attempts = 0 /\ Holders(k) = {}
  BY DEF Init, AbsentRow, Promised, Holders
<1> QED
  BY <1>1 DEF Promise!Init

\* Rows keep their state, their token and their attempts.
KeepsRow(k) ==
    /\ job'[k].state = job[k].state
    /\ job'[k].token = job[k].token
    /\ job'[k].attempts = job[k].attempts

LEMMA HoldersVanish ==
    ASSUME OnlyLeave, \A k \in Key : KeepsRow(k)
    PROVE  \E W \in SUBSET Thread : Promise!Vanish(W)
<1> DEFINE W == {t \in Thread : pc'[t] = "idle"}
<1>1. \A k \in Key : Holders(k)' \subseteq Holders(k) \ W
  BY DEF KeepsRow, OnlyLeave, Holders, Holds
<1>2. ASSUME NEW k \in Key, NEW t \in Holders(k) \ W PROVE t \in Holders(k)'
  <2>1. pc'[t] # "idle" /\ lease'[t] = lease[t] /\ lease[t].key = k /\ Holds(job[k], lease[t].token)
    BY <1>2 DEF OnlyLeave, Holders
  <2> QED
    BY <1>2, <2>1 DEF KeepsRow, Holders, Holds
<1>3. \A k \in Key : Holders(k)' = Holders(k) \ W
  BY <1>1, <1>2
<1>4. \A k \in Key : Promised(job[k])' = Promised(job[k]) /\ job'[k].attempts = job[k].attempts
  BY DEF KeepsRow, Promised
<1>5. Promise!Vanish(W)
  BY <1>3, <1>4 DEF Promise!Vanish
<1> QED
  BY <1>5

\* A row that leaves its lease behind has no holder; the holders of the others are
\* those that do not leave.
LEMMA LeaseEnds ==
    ASSUME NEW k \in Key, job'[k].state # "leased",
           \A l \in Key : l # k => job'[l] = job[l],
           OnlyLeave, \A t \in Thread : pc'[t] = "idle" /\ pc[t] # "idle" => lease[t].key = k
    PROVE  Holders(k)' = {} /\ \A l \in Key : l # k => Holders(l)' = Holders(l)
<1>1. Holders(k)' = {}
  BY DEF Holders, Holds
<1>2. ASSUME NEW l \in Key, l # k PROVE Holders(l)' = Holders(l)
  BY <1>2 DEF Holders, Holds, OnlyLeave
<1> QED
  BY <1>1, <1>2

\* The webhook enqueues a job that was not there.
LEMMA ReceiveAccepts ==
    ASSUME TypeOK, IInv, NEW s \in Event, Receive(s) PROVE Promise!Next
<1>0. job \in [Key -> Row(MaxAttempts)] /\ receipt[s].id \in {0, 1} /\ Fresh
  BY DEF TypeOK, IInv
<1>k. PICK k \in Key : k = <<s, receipt[s].id>>
  <2>1. receipt[s].id = 1 => s \in Aging
    BY <1>0 DEF Fresh
  <2> QED
    BY <1>0, <2>1, KeyParts
<1>1. job[k].state = "absent"
  BY <1>0, <1>k DEF Fresh, Receive
<1>2. /\ job' = [job EXCEPT ![k] = Enqueued(@, TRUE)]
      /\ UNCHANGED <<pc, lease, minted>>
  BY <1>k DEF Receive, worker
<1>3. /\ job'[k].state = "pending" /\ job'[k].attempts = job[k].attempts
      /\ \A l \in Key : l # k => job'[l] = job[l]
  <2>1. job[k] \in Row(MaxAttempts)
    BY <1>0, <1>1
  <2>2. Enqueued(job[k], TRUE).state = "pending"
        /\ Enqueued(job[k], TRUE).attempts = job[k].attempts
    BY <1>1, <2>1 DEF Enqueued, Row
  <2> QED
    BY <1>0, <1>1, <1>2, <2>2
<1>4. \A l \in Key : Holders(l)' = Holders(l)
  BY <1>1, <1>2, <1>3 DEF Holders, Holds
<1>5. /\ Promised(job[k]) = "absent" /\ Promised(job[k])' = "queued"
      /\ \A l \in Key : l # k => Promised(job[l])' = Promised(job[l])
  BY <1>1, <1>3 DEF Promised
<1>6. Promise!Accept(k)
  BY <1>1, <1>3, <1>4, <1>5 DEF Promise!Accept
<1> QED
  BY <1>1, <1>6 DEF Promise!Next

LEMMA ClaimIsGrant ==
    ASSUME TypeOK, Tokens, NEW t \in Thread, NEW k \in Key, Claim(t, k) PROVE Promise!Grant(t, k)
<1>0. Granted(t, k)
  BY ClaimGrants
<1>1. Holders(k)' = {t}
  BY <1>0 DEF Granted, Holders, Holds
<1>2. ASSUME NEW l \in Key, l # k PROVE Holders(l)' = Holders(l)
  BY <1>0, <1>2 DEF Granted, Holders, Holds
<1>3. /\ Promised(job[k]) \in {"queued", "held"} /\ Promised(job[k])' = "held"
      /\ \A l \in Key : l # k => Promised(job[l])' = Promised(job[l])
  BY <1>0 DEF Granted, Promised
<1> QED
  BY <1>0, <1>1, <1>2, <1>3 DEF Granted, Promise!Grant

\* A settlement that passes the fence concludes the try of the one holder; one that does
\* not is a holder gone.
LEMMA SettleConcludes ==
    ASSUME TypeOK, Tokens, NEW t \in Thread, Settle(t), OnlyLeave PROVE Promise!Next
<1>k. PICK k \in Key : k = lease[t].key
  BY DEF TypeOK
<1>0. /\ job[k] \in Row(MaxAttempts) /\ job \in [Key -> Row(MaxAttempts)]
      /\ pc \in [Thread -> {"idle", "claimed", "loaded", "settling"}]
  BY DEF TypeOK
<1>1. /\ pc[t] = "settling" /\ pc' = [pc EXCEPT ![t] = "idle"]
      /\ \/ job' = job
         \/ /\ Holds(job[k], lease[t].token)
            /\ \/ job' = [job EXCEPT ![k] = Settled(@, "done")]
               \/ job[k].attempts < MaxAttempts /\ job' = [job EXCEPT ![k] = Retried(@)]
               \/ /\ ~(job[k].attempts < MaxAttempts)
                  /\ job' = [job EXCEPT ![k] = Settled(@, "dead")]
  BY <1>k DEF Settle, Leave, Goto
<1>2. CASE job' = job
  <2>1. \A l \in Key : KeepsRow(l)
    BY <1>2 DEF KeepsRow
  <2> QED
    BY <2>1, HoldersVanish DEF Promise!Next
<1>3. ASSUME Holds(job[k], lease[t].token), NEW new \in Row(MaxAttempts),
             job' = [job EXCEPT ![k] = new], new.attempts = job[k].attempts,
             \/ new.state = "done"
             \/ job[k].attempts < MaxAttempts /\ new.state = "pending"
             \/ job[k].attempts = MaxAttempts /\ new.state = "dead"
      PROVE  Promise!Next
  <2>1. job'[k] = new /\ \A l \in Key : l # k => job'[l] = job[l]
    BY <1>0, <1>3
  <2>2. \A u \in Thread : pc'[u] = "idle" /\ pc[u] # "idle" => lease[u].key = k
    BY <1>0, <1>1, <1>k
  <2>3. Holders(k)' = {} /\ \A l \in Key : l # k => Holders(l)' = Holders(l)
    BY <1>0, <1>3, <2>1, <2>2, LeaseEnds
  <2>4. Holders(k) = {t}
    BY <1>1, <1>3, <1>k DEF Holders, Holds, Tokens
  <2>5. /\ Promised(job[k]) = "held"
        /\ new.state = "done" => Promised(job[k])' = "done"
        /\ new.state = "pending" => Promised(job[k])' = "queued"
        /\ new.state = "dead" => Promised(job[k])' = "dead"
        /\ \A l \in Key : l # k => Promised(job[l])' = Promised(job[l])
    BY <1>3, <2>1 DEF Promised, Holds
  <2>6. Promise!Conclude(t, k)
    BY <1>0, <1>3, <2>1, <2>3, <2>4, <2>5 DEF Promise!Conclude
  <2> QED
    BY <1>0, <2>6 DEF Promise!Next
<1>4. /\ Settled(job[k], "done") \in Row(MaxAttempts)
      /\ Settled(job[k], "done").state = "done"
      /\ Settled(job[k], "done").attempts = job[k].attempts
      /\ Settled(job[k], "dead") \in Row(MaxAttempts)
      /\ Settled(job[k], "dead").state = "dead"
      /\ Settled(job[k], "dead").attempts = job[k].attempts
      /\ Retried(job[k]) \in Row(MaxAttempts)
      /\ Retried(job[k]).state = "pending"
      /\ Retried(job[k]).attempts = job[k].attempts
  BY <1>0, SettledAttempts
<1>5. ~(job[k].attempts < MaxAttempts) => job[k].attempts = MaxAttempts
  <2>1. job[k].attempts \in 0..MaxAttempts
    BY <1>0 DEF Row
  <2> QED
    BY <2>1
<1>6. CASE Holds(job[k], lease[t].token) /\ job' = [job EXCEPT ![k] = Settled(@, "done")]
  BY <1>3, <1>4, <1>6
<1>7. CASE /\ Holds(job[k], lease[t].token) /\ job[k].attempts < MaxAttempts
           /\ job' = [job EXCEPT ![k] = Retried(@)]
  BY <1>3, <1>4, <1>7
<1>8. CASE /\ Holds(job[k], lease[t].token) /\ ~(job[k].attempts < MaxAttempts)
           /\ job' = [job EXCEPT ![k] = Settled(@, "dead")]
  BY <1>3, <1>4, <1>5, <1>8
<1> QED
  BY <1>1, <1>2, <1>6, <1>7, <1>8

LEMMA ReapGivesUp ==
    ASSUME TypeOK, NEW k \in Key, Reap(k), OnlyLeave PROVE Promise!GiveUp(k)
<1>1. job[k] \in Row(MaxAttempts) /\ job \in [Key -> Row(MaxAttempts)]
  BY DEF TypeOK
<1>2. /\ job[k].state = "leased" /\ job[k].attempts = MaxAttempts
      /\ job' = [job EXCEPT ![k] = Settled(@, "dead")] /\ UNCHANGED <<pc, lease>>
  BY DEF Reap, ExpiredFinal, worker
<1>3. Settled(job[k], "dead").state = "dead" /\ Settled(job[k], "dead").attempts = job[k].attempts
  BY <1>1 DEF Settled, Row
<1>4. /\ job'[k].state = "dead" /\ job'[k].attempts = job[k].attempts
      /\ \A l \in Key : l # k => job'[l] = job[l]
  BY <1>1, <1>2, <1>3
<1>5. Holders(k)' = {} /\ \A l \in Key : l # k => Holders(l)' = Holders(l)
  BY <1>2, <1>4, LeaseEnds
<1>6. /\ Promised(job[k]) = "held" /\ Promised(job[k])' = "dead"
      /\ \A l \in Key : l # k => Promised(job[l])' = Promised(job[l])
  BY <1>2, <1>4 DEF Promised
<1>7. \A l \in Key : job'[l].attempts = job[l].attempts
  BY <1>4
<1>8. /\ Promised(job[k]) = "held" /\ job[k].attempts = MaxAttempts
      /\ [l \in Key |-> Promised(job[l])]' = [[l \in Key |-> Promised(job[l])] EXCEPT ![k] = "dead"]
      /\ [l \in Key |-> Holders(l)]' = [[l \in Key |-> Holders(l)] EXCEPT ![k] = {}]
      /\ [l \in Key |-> job[l].attempts]' = [l \in Key |-> job[l].attempts]
  BY <1>2, <1>5, <1>6, <1>7
<1> QED
  BY <1>8 DEF Promise!GiveUp

LEMMA PromiseStep ==
    TypeOK /\ IInv /\ Tokens /\ [Next]_vars => [Promise!Next]_(Promise!service)
<1> SUFFICES ASSUME TypeOK, IInv, Tokens, [Next]_vars PROVE Promise!Next
  OBVIOUS
<1>1. ASSUME NEW t \in Thread, NEW k \in Key, Claim(t, k) PROVE Promise!Next
  BY <1>1, ClaimIsGrant DEF Promise!Next
<1>2. CASE ~\E t \in Thread, k \in Key : Claim(t, k)
  <2>0. OnlyLeave
    BY <1>2, OnlyClaimsEnter
  <2>1. ASSUME \A k \in Key : KeepsRow(k) PROVE Promise!Next
    BY <2>0, <2>1, HoldersVanish DEF Promise!Next
  <2>2. ASSUME UNCHANGED job PROVE Promise!Next
    BY <2>1, <2>2 DEF KeepsRow
  <2>3. CASE Ask \/ Retrigger \/ ResumeOther
    BY <2>2, <2>3 DEF Ask, Retrigger, ResumeOther
  <2>4. ASSUME NEW m \in Reply, Write(m) \/ ResumeReply(m) PROVE Promise!Next
    BY <2>2, <2>4 DEF Write, ResumeReply
  <2>5. ASSUME NEW s \in Event, Receive(s) \/ Purge(s) PROVE Promise!Next
    BY <2>2, <2>5, ReceiveAccepts DEF Purge
  <2>6. ASSUME NEW t \in Thread, Load(t) \/ Commit(t) \/ Raise(t) \/ Crash(t) PROVE Promise!Next
    BY <2>2, <2>6 DEF Load, Commit, Raise, Crash
  <2>7. ASSUME NEW t \in Thread, Settle(t) PROVE Promise!Next
    BY <2>0, <2>7, SettleConcludes
  <2>8. ASSUME NEW k \in Key, Reap(k) PROVE Promise!Next
    BY <2>0, <2>8, ReapGivesUp DEF Promise!Next
  <2>9. ASSUME NEW k \in Key, Clock(k) PROVE Promise!Next
    <3>1. job \in [Key -> Row(MaxAttempts)]
      BY DEF TypeOK
    <3>2. \A r \in Row(MaxAttempts) :
              /\ LeaseRanOut(r).state = r.state /\ BackoffElapsed(r).state = r.state
              /\ LeaseRanOut(r).token = r.token /\ BackoffElapsed(r).token = r.token
              /\ LeaseRanOut(r).attempts = r.attempts /\ BackoffElapsed(r).attempts = r.attempts
      BY DEF LeaseRanOut, BackoffElapsed, Row
    <3>3. \A l \in Key : KeepsRow(l)
      BY <2>9, <3>1, <3>2 DEF Clock, LeaseExpires, BackoffElapses, KeepsRow
    <3> QED
      BY <2>1, <3>3
  <2>10. CASE UNCHANGED vars
    BY <2>2, <2>10 DEF vars
  <2> QED
    BY <1>2, <2>3, <2>4, <2>5, <2>6, <2>7, <2>8, <2>9, <2>10 DEF Next, WorkerStep
<1> QED
  BY <1>1, <1>2

\* The ingest jobs, with redelivered events, purged receipts, slow workers and crashes,
\* implement the promise of the queue for any number of events and threads: one holder
\* at a time, a try per grant, no email's job given up with tries left.
THEOREM IngestKeepsPromise == Spec => KeepsPromise
<1>1. TypeOK /\ IInv /\ [Next]_vars => TypeOK' /\ IInv'
  BY NextTypes, NextIInv
<1> QED
  BY <1>1, InitTypes, InitIInv, TokensInit, TokensStep, PromiseInit, PromiseStep, PTL
  DEF Spec, KeepsPromise, Promise!Spec
===============================================================================
