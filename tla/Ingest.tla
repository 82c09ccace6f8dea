--------------------------------- MODULE Ingest ---------------------------------
(***************************************************************************)
(* An inbound email from the webhook to the run it opens or answers: the      *)
(* receipt row with its ingest job, redelivery by the provider, the delayed   *)
(* ingest by the workers, and the purge of old receipts.  The run the replies *)
(* are about is seen only through its status and its reply epoch.             *)
(***************************************************************************)
EXTENDS JobRow, FiniteSets

CONSTANTS Thread,       \* worker threads
          Email,        \* emails, by Message-ID
          Opening,      \* those of a known sender that answer nothing
          Reply,        \* those whose headers name a question of the run
          Event,        \* svix-ids
          Carries,      \* the email an event announces
          MaxEpoch,     \* bound on retriggers
          MaxMoves,     \* bound on the questions of the run
          Aging,        \* events whose receipts live long enough to be purged, once
          MaxAttempts,  \* jobs.max_attempts
          MaxFaults     \* bound on crashes, failed fetches and slow workers

ASSUME IngestAssumption ==
    /\ Opening \subseteq Email /\ Reply \subseteq Email /\ Opening \cap Reply = {}
    /\ Event # {} /\ Aging \subseteq Event /\ Carries \in [Event -> Email]
    /\ MaxEpoch \in Nat /\ MaxMoves \in Nat /\ MaxFaults \in Nat
    /\ MaxAttempts \in Nat \ {0}

Epoch == 0..MaxEpoch

\* ingest:{event_id}; an event stored again after a purge has a new event_id.
Key == (Event \X {0}) \cup (Aging \X {1})

VARIABLES written, answers,    \* emails the clients sent; the epochs a reply names
          run, asked, moves,   \* the run of the replies; epochs with a question
          receipt,             \* inbound_events, by svix-id; `id` counts purges
          accepted,            \* events answered 200
          mail,                \* the inbound rows of email_messages
          created,             \* runs opened, by source email
          resume, consumed,    \* resume_reply jobs; replies with a consumed_round
          job, minted, pc, lease, result, faults

client == <<written, answers>>
conversation == <<run, asked, moves>>
web == <<receipt, accepted>>
inbox == <<mail, created, resume, consumed>>
worker == <<pc, lease, result>>
vars == <<client, conversation, web, inbox, job, minted, worker, faults>>

NoLease == [key |-> CHOOSE k \in Key : TRUE, token |-> NoToken]

Init ==
    /\ written = Email \ Reply /\ answers = [m \in Reply |-> {}]
    /\ run = [awaiting |-> FALSE, epoch |-> 0] /\ asked = {} /\ moves = 0
    /\ receipt = [s \in Event |-> [stored |-> FALSE, id |-> 0]]
    /\ accepted = {}
    /\ mail = [m \in Email |-> "absent"]
    /\ created = [m \in Email |-> 0]
    /\ resume = [m \in Reply |-> "absent"] /\ consumed = {}
    /\ job = [k \in Key |-> AbsentRow] /\ minted = [k \in Key |-> 0]
    /\ pc = [t \in Thread |-> "idle"]
    /\ lease = [t \in Thread |-> NoLease]
    /\ result = [t \in Thread |-> "none"]
    /\ faults = 0

-------------------------------------------------------------------------------
(* The client and the run *)

\* The client answers; In-Reply-To and References name one or more questions.
Write(m) ==
    /\ m \notin written
    /\ written' = written \cup {m}
    /\ \E named \in SUBSET asked \ {{}} : answers' = [answers EXCEPT ![m] = named]
    /\ UNCHANGED <<conversation, web, inbox, job, minted, worker, faults>>

\* clarify() pauses the run for the client.
Ask ==
    /\ ~run.awaiting /\ moves < MaxMoves
    /\ run' = [run EXCEPT !.awaiting = TRUE]
    /\ asked' = asked \cup {run.epoch} /\ moves' = moves + 1
    /\ UNCHANGED <<client, web, inbox, job, minted, worker, faults>>

\* handle_resume_reply: a run that no longer waits drains the job without effect.
\* The consumed mark, which the same job sets before it can ask again, is part of it.
ResumeReply(m) ==
    /\ resume[m] = "queued"
    /\ resume' = [resume EXCEPT ![m] = "done"]
    /\ IF run.awaiting
       THEN run' = [run EXCEPT !.awaiting = FALSE] /\ consumed' = consumed \cup {m}
       ELSE UNCHANGED <<run, consumed>>
    /\ UNCHANGED <<client, asked, moves, web, mail, created, job, minted, worker, faults>>

\* A reply that this model does not carry takes the run on, by the same CAS.
ResumeOther ==
    /\ run.awaiting
    /\ run' = [run EXCEPT !.awaiting = FALSE]
    /\ UNCHANGED <<client, asked, moves, web, inbox, job, minted, worker, faults>>

\* retrigger() of a run in ERROR: clear_reply_context() opens the next epoch.
Retrigger ==
    /\ ~run.awaiting /\ run.epoch < MaxEpoch
    /\ run' = [run EXCEPT !.epoch = @ + 1]
    /\ UNCHANGED <<client, asked, moves, web, inbox, job, minted, worker, faults>>

-------------------------------------------------------------------------------
(* POST /webhook/inbound: the provider posts an event until it is answered 200, *)
(* and may post it again at any time                                           *)

\* insert_or_get_inbound_event() and enqueue_job() in one transaction.  A POST that
\* meets the row of an earlier one is answered 200 (503 if a purge overtakes it) and
\* changes nothing.
Receive(s) ==
    /\ Carries[s] \in written /\ ~receipt[s].stored
    /\ receipt' = [receipt EXCEPT ![s].stored = TRUE]
    /\ job' = [job EXCEPT ![<<s, receipt[s].id>>] = Enqueued(@, TRUE)]
    /\ accepted' = accepted \cup {s}
    /\ UNCHANGED <<client, conversation, inbox, minted, worker, faults>>

-------------------------------------------------------------------------------
(* purge_terminal_inbound_events(), after a pump's drain *)

\* Variant of Purgeable: age alone decides.
PurgeableByAge(s) == receipt[s].stored

\* Thirty days old, which any receipt of Aging may be, and its job terminal.
Purgeable(s) == receipt[s].stored /\ Terminal(job[<<s, receipt[s].id>>])

Purge(s) ==
    /\ s \in Aging /\ receipt[s].id = 0 /\ Purgeable(s)
    /\ receipt' = [receipt EXCEPT ![s] = [stored |-> FALSE, id |-> 1]]
    /\ UNCHANGED <<client, conversation, accepted, inbox, job, minted, worker, faults>>

-------------------------------------------------------------------------------
(* _ingest_email(), one transaction *)

\* Variant of Known: the inbound row is keyed by the delivery, not by the email.
KnownNever(m) == FALSE

\* insert_inbound_email() conflicts on the Message-ID.
Known(m) == mail[m] # "absent"

Owe(m) == resume' = [resume EXCEPT ![m] = IF @ = "absent" THEN "queued" ELSE @]

\* Duplicate: an unconsumed row of a run that waits gets the job it may be owed.
Duplicate(m) ==
    /\ Known(m)
    /\ IF m \in Reply \ consumed /\ run.awaiting THEN Owe(m) ELSE UNCHANGED resume
    /\ UNCHANGED <<mail, created>>

\* find_awaiting_reply_for_header(): a question named is of the run's epoch.
AwaitsReply(m) == m \in Reply /\ run.awaiting /\ run.epoch \in answers[m]

\* link_email_to_run(), what became of the row.
Link(m, as) == mail' = [mail EXCEPT ![m] = as]

Candidate(m) ==
    /\ ~Known(m) /\ AwaitsReply(m)
    /\ Link(m, "candidate")
    /\ Owe(m)
    /\ UNCHANGED created

\* find_any_run_for_header(): linked for the record, no job.
LateReply(m) ==
    /\ ~Known(m) /\ m \in Reply /\ ~AwaitsReply(m)
    /\ Link(m, "late")
    /\ UNCHANGED <<created, resume>>

CreateRun(m) == created' = [created EXCEPT ![m] = @ + 1]

\* A new run, with its run_pipeline job, or an unknown sender.
NewOrUnknown(m) ==
    /\ ~Known(m) /\ m \notin Reply
    /\ mail' = [mail EXCEPT ![m] = "unlinked"]
    /\ IF m \in Opening THEN CreateRun(m) ELSE UNCHANGED created
    /\ UNCHANGED resume

-------------------------------------------------------------------------------
(* The ingest job *)

Goto(t, label) == pc' = [pc EXCEPT ![t] = label]

Return(t, r) == Goto(t, "settling") /\ result' = [result EXCEPT ![t] = r]

Claim(t, k) ==
    /\ pc[t] = "idle" /\ Claimable(job[k], MaxAttempts)
    /\ minted' = [minted EXCEPT ![k] = @ + 1]
    /\ job' = [job EXCEPT ![k] = Claimed(@, minted'[k])]
    /\ lease' = [lease EXCEPT ![t] = [key |-> k, token |-> minted'[k]]]
    /\ Goto(t, "claimed")
    /\ UNCHANGED <<client, conversation, web, inbox, result, faults>>

\* process_inbound_event(): load the receipt; the provider's copy is fetched next.
Load(t) ==
    LET s == lease[t].key[1] IN
    /\ pc[t] = "claimed"
    /\ IF receipt[s].stored /\ receipt[s].id = lease[t].key[2]
       THEN Goto(t, "loaded") /\ UNCHANGED result
       ELSE Return(t, "retryable")
    /\ UNCHANGED <<client, conversation, web, inbox, job, minted, lease, faults>>

Commit(t) ==
    LET m == Carries[lease[t].key[1]] IN
    /\ pc[t] = "loaded"
    /\ Duplicate(m) \/ Candidate(m) \/ LateReply(m) \/ NewOrUnknown(m)
    /\ Return(t, "ok")
    /\ UNCHANGED <<client, conversation, web, consumed, job, minted, lease, faults>>

\* The fetch or the transaction fails.
Raise(t) ==
    /\ pc[t] \in {"claimed", "loaded"} /\ faults < MaxFaults
    /\ faults' = faults + 1
    /\ Return(t, "retryable")
    /\ UNCHANGED <<client, conversation, web, inbox, job, minted, lease>>

Leave(t) ==
    /\ Goto(t, "idle")
    /\ lease' = [lease EXCEPT ![t] = NoLease]
    /\ result' = [result EXCEPT ![t] = "none"]

\* _settle_ingest_job()
Settle(t) ==
    LET k == lease[t].key IN
    /\ pc[t] = "settling"
    /\ job' = IF ~Holds(job[k], lease[t].token) THEN job
              ELSE [job EXCEPT ![k] = IF result[t] = "ok" THEN Settled(@, "done")
                                      ELSE IF @.attempts < MaxAttempts THEN Retried(@)
                                      ELSE Settled(@, "dead")]
    /\ Leave(t)
    /\ UNCHANGED <<client, conversation, web, inbox, minted, faults>>

Reap(k) ==
    /\ ExpiredFinal(job[k], MaxAttempts)
    /\ \E t \in Thread : pc[t] = "idle"
    /\ \A l \in Key : ~Claimable(job[l], MaxAttempts)
    /\ job' = [job EXCEPT ![k] = Settled(@, "dead")]
    /\ UNCHANGED <<client, conversation, web, inbox, minted, worker, faults>>

Crash(t) ==
    /\ pc[t] # "idle" /\ faults < MaxFaults
    /\ faults' = faults + 1
    /\ Leave(t)
    /\ UNCHANGED <<client, conversation, web, inbox, job, minted>>

\* A lease runs out: nobody holds it any more, or its holder is slow, which is a fault.
LeaseExpires(k) ==
    /\ job[k].state = "leased" /\ ~job[k].expired
    /\ job' = [job EXCEPT ![k] = LeaseRanOut(@)]
    /\ \/ /\ \A t \in Thread : lease[t] # [key |-> k, token |-> job[k].token]
          /\ UNCHANGED faults
       \/ faults < MaxFaults /\ faults' = faults + 1
    /\ UNCHANGED <<client, conversation, web, inbox, minted, worker>>

BackoffElapses(k) ==
    /\ job[k].state = "pending" /\ ~job[k].due
    /\ job' = [job EXCEPT ![k] = BackoffElapsed(@)]
    /\ UNCHANGED <<client, conversation, web, inbox, minted, worker, faults>>

-------------------------------------------------------------------------------

WorkerStep(t) == (\E k \in Key : Claim(t, k)) \/ Load(t) \/ Commit(t) \/ Settle(t)

Clock(k) == LeaseExpires(k) \/ BackoffElapses(k)

Next ==
    \/ Ask \/ Retrigger \/ ResumeOther
    \/ \E m \in Reply : Write(m) \/ ResumeReply(m)
    \/ \E s \in Event : Receive(s) \/ Purge(s)
    \/ \E t \in Thread : WorkerStep(t) \/ Raise(t) \/ Crash(t)
    \/ \E k \in Key : Clock(k) \/ Reap(k)

Spec == Init /\ [][Next]_vars

\* Workers, clocks and the reaper go on; clients, provider, operator and purge owe
\* nothing.
Fairness ==
    /\ \A t \in Thread : WF_vars(WorkerStep(t))
    /\ \A k \in Key : WF_vars(Clock(k)) /\ WF_vars(Reap(k))

FairSpec == Spec /\ Fairness

-------------------------------------------------------------------------------
(* Properties *)

\* Every variable keeps its type.
TypeOK ==
    /\ written \subseteq Email /\ answers \in [Reply -> SUBSET Epoch]
    /\ run \in [awaiting : BOOLEAN, epoch : Epoch]
    /\ asked \subseteq Epoch /\ moves \in 0..MaxMoves
    /\ receipt \in [Event -> [stored : BOOLEAN, id : {0, 1}]]
    /\ accepted \subseteq Event
    /\ mail \in [Email -> {"absent", "candidate", "late", "unlinked"}]
    /\ created \in [Email -> Nat]
    /\ resume \in [Reply -> {"absent", "queued", "done"}] /\ consumed \subseteq Reply
    /\ job \in [Key -> Row(MaxAttempts)] /\ minted \in [Key -> Nat]
    /\ pc \in [Thread -> {"idle", "claimed", "loaded", "settling"}]
    /\ lease \in [Thread -> [key : Key, token : Nat]]
    /\ result \in [Thread -> {"none", "ok", "retryable"}]
    /\ faults \in 0..MaxFaults

\* However often the provider delivers an email, under whichever event, before or after
\* the purge of its receipt, and however many workers ingest it: it opens one run.
OneRunPerEmail == \A m \in Email : created[m] <= 1

\* A 200 is a promise: the email has been ingested, or its job is open with the
\* receipt it has to read still there, or the job died where the operator can see it.
AcceptedIsOwned ==
    \A s \in accepted :
        \/ mail[Carries[s]] # "absent"
        \/ receipt[s].stored /\ Open(job[<<s, receipt[s].id>>])
        \/ \E k \in Key : k[1] = s /\ job[k].state = "dead"

\* What the tests say of a late reply: it is kept for the record and never resumes a
\* run, redelivered or not.
LateIsNeverResumed == \A m \in Reply : mail[m] = "late" => resume[m] = "absent"

\* Every accepted email is ingested in the end, unless all its attempts fail.
AcceptedIsDecided ==
    \A s \in Event :
        s \in accepted ~> \/ mail[Carries[s]] # "absent"
                          \/ \E k \in Key : k[1] = s /\ job[k].state = "dead"

-------------------------------------------------------------------------------
(* The promise of the queue to the ingest jobs *)

\* The threads whose settlement would find the fence of k intact.
Holders(k) ==
    {t \in Thread : pc[t] # "idle" /\ lease[t].key = k /\ Holds(job[k], lease[t].token)}

Promise == INSTANCE JobPromise WITH
    Job <- Key, Worker <- Thread, Limit <- MaxAttempts,
    status <- [k \in Key |-> Promised(job[k])],
    holder <- [k \in Key |-> Holders(k)],
    tries <- [k \in Key |-> job[k].attempts]

\* Redeliveries and purges notwithstanding, an ingest job stays a job of the queue: it is
\* accepted once, held by one worker at a time, who alone concludes it, and given up only
\* when its tries are spent.
KeepsPromise == Promise!Spec
===============================================================================
