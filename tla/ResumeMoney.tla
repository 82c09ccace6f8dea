----------------------------- MODULE ResumeMoney ------------------------------
(***************************************************************************)
(* The hours of one employee through the clarification rounds of a run: what *)
(* the client wrote, what the extraction read, what is asked, how an answer  *)
(* is classified, and what reaches the paystub.  resume_pipeline() and       *)
(* _run_stages() of app/pipeline/orchestrator.py with the helpers of         *)
(* app/pipeline/{validate,decide,alias_learning,clarification}.py and the    *)
(* columns of app/db/repo/pipeline_state.py they read and write.             *)
(*                                                                           *)
(* The employee is on the roster under "full"; "nick" is what the client may *)
(* call them instead.  The model that reads an email is a choice: of one     *)
(* section it returns what is written there, of several joined sections, per *)
(* field, what any of them says or nothing.                                  *)
(***************************************************************************)
EXTENDS Integers

CONSTANTS Field,       \* HOURS_FIELDS
          FirstHours,  \* hours of the original email (positive)
          ReplyHours,  \* hours of a reply to each field (0 is an explicit zero)
          MaxRounds,   \* MAX_CLARIFICATION_ROUNDS
          MaxReplies,  \* bound on the client's replies
          MaxFaults    \* bound on retries and reclaims

ASSUME MoneyAssumption ==
    /\ FirstHours \subseteq Nat \ {0} /\ ReplyHours \in [Field -> SUBSET Nat]
    /\ MaxRounds \in Nat /\ MaxReplies \in Nat /\ MaxFaults \in Nat

None == -1                       \* a field nobody wrote
Silence == [f \in Field |-> None]
Unread == [name |-> "nobody", hours |-> Silence]

VARIABLES first,       \* the original email, as read
          said,        \* the joined sections: the names and, per field, the values in them
          last,        \* the reply being processed, as read alone
          replies,     \* how many replies the client wrote
          pc,          \* where the run stands between two commits
          work,        \* in the worker's memory from one commit to the next
          snapshot,    \* pre_clarify_extracted; Unread is NULL
          clarified,   \* clarified_fields: the outcome of each field
          reconciled,  \* reconciliation: the name this run resolved last, "" if none
          candidate,   \* alias_candidates["nick"]
          round,       \* clarification_round
          extracted,   \* extracted_data: the hours the paystub is computed from
          changes,     \* hours_changes
          fresh,       \* history: the fields the attempt under way classified
          asked,       \* history: the fields some delivered question was about
          faults

columns == <<snapshot, clarified, candidate, round>>
emails == <<first, said, last, replies>>
vars == <<first, said, last, replies, pc, work, snapshot, clarified, reconciled,
          candidate, round, extracted, changes, fresh, asked, faults>>

NoAnswers == [f \in Field |-> "-"]
Final == {"confirmed_dropped", "client_supplied", "carried_forward"}
Idle == [ext |-> Unread, suppress |-> {}, skip |-> {}, open |-> {}]

Init ==
    /\ \E name \in {"full", "nick"}, hours \in [Field -> FirstHours \cup {None}] :
         /\ first = [name |-> name, hours |-> hours]
         /\ said = [names |-> {name}, hours |-> [f \in Field |-> {hours[f]}]]
    /\ last = Unread /\ replies = 0
    /\ pc = "received"
    /\ work = Idle
    /\ snapshot = Unread /\ clarified = NoAnswers /\ reconciled = ""
    /\ candidate = "none" /\ round = 0
    /\ extracted = Unread /\ changes = {}
    /\ fresh = {} /\ asked = {} /\ faults = 0

-------------------------------------------------------------------------------
(* Reading, matching, comparing *)

Paid(v) == v > 0

\* What an email may say of a field.
Written == {None} \cup FirstHours \cup UNION {ReplyHours[f] : f \in Field}

\* extract() of combined_context_email(): any section may win a field, or none.
Combined ==
    [name : said.names \cup {"full"},
     hours : {h \in [Field -> Written] : \A f \in Field : h[f] \in said.hours[f] \cup {None}}]

\* deterministic_match() against a roster without the alias.
Resolves(name) == name = "full"

\* confirmed_prior_matches(): the names known to stand for the employee in the
\* snapshot's round, with the clarified token bridged when one record confirms it
\* and no prior record already maps the employee.
Bridged(known, ext) ==
    LET confirmed == \/ candidate = "bound"
                     \/ candidate = "suggested" /\ Resolves(ext.name)
    IN  IF known = {} /\ confirmed THEN {"nick"} ELSE known

\* Both detectors pair the two rounds by employee; without a pair they see nothing.
Paired(known, ext) == snapshot.name \in known /\ Resolves(ext.name)

\* Variant of Drops: only a vanished line is one, not a line set to zero.
DropsAbsent(known, ext) ==
    {f \in Field : Paired(known, ext) /\ Paid(snapshot.hours[f]) /\ ext.hours[f] = None}

\* detect_field_regression()
Drops(known, ext) ==
    {f \in Field : /\ Paired(known, ext)
                   /\ Paid(snapshot.hours[f]) /\ ~Paid(ext.hours[f])}

\* Variant of Changes: only hours that went down.
ChangesDown(known, ext) ==
    {f \in Field : /\ Paired(known, ext)
                   /\ Paid(ext.hours[f]) /\ snapshot.hours[f] > ext.hours[f]}

\* detect_hours_changes(): shown on the approval page, never part of the gate.
Changes(known, ext) ==
    {f \in Field : /\ Paired(known, ext)
                   /\ Paid(snapshot.hours[f]) /\ Paid(ext.hours[f])
                   /\ snapshot.hours[f] # ext.hours[f]}

\* backfill_extracted(): silence is filled from the snapshot, except where skipped.
Backfilled(known, ext, skip) ==
    [ext EXCEPT !.hours = [f \in Field |-> IF f \in Drops(known, ext) \ skip
                                           THEN snapshot.hours[f] ELSE ext.hours[f]]]

-------------------------------------------------------------------------------
(* _run_stages(): detect on the raw extraction, backfill, validate, decide and  *)
(* persist in one transaction.  The rest of the payroll may hold the run up too *)
(* (another employee's name or hours, a duplicate).                             *)

Stages(ext, prior, suppress, skip) ==
    LET known == IF snapshot = Unread THEN {} ELSE Bridged(prior, ext)
        paid == Backfilled(known, ext, skip)
        issues == Drops(known, ext) \ suppress
        complete == Resolves(ext.name) /\ \E f \in Field : Paid(paid.hours[f])
    IN  /\ extracted' = paid
        /\ reconciled' = IF Resolves(ext.name) THEN ext.name ELSE ""
        /\ changes' = Changes(known, ext)
        /\ work' = [Idle EXCEPT !.open = issues]
        /\ \E clean \in BOOLEAN :
             pc' = IF issues # {} THEN "deferred"
                   ELSE IF complete /\ clean THEN "approval" ELSE "clarifying"
        /\ UNCHANGED <<emails, snapshot, clarified, round, asked, faults>>

\* resume_pipeline(), step C: the record that resolved now is the evidence that
\* confirms the suggestion.
Bind(ext) ==
    candidate' = IF candidate = "suggested" /\ Resolves(ext.name)
                    /\ pc' # "deferred" THEN "bound" ELSE candidate

PriorNames == IF reconciled = "" THEN {} ELSE {reconciled}

\* _run(): the first pass reads the original email alone.
FirstRun ==
    /\ pc = "received"
    /\ Stages(first, {}, {}, {})
    /\ UNCHANGED <<candidate, fresh>>

\* resume_pipeline() before any field was asked about.
ResumeUnasked ==
    /\ pc = "replied" /\ clarified = NoAnswers
    /\ \E ext \in Combined : Stages(ext, PriorNames, {}, {}) /\ Bind(ext)
    /\ fresh' = {}

Asked == {f \in Field : clarified[f] = "asked"}

\* The reply alone says what became of an asked field.
Outcome(f) ==
    IF last.hours[f] > 0 THEN "client_supplied"
    ELSE IF last.hours[f] = 0 THEN "confirmed_dropped" ELSE "carried_forward"

\* Variant of Overridden: the joined sections keep the last word.
OverriddenNever(ext) == ext

\* A reply that names nobody the roster or the prior round knows settles nothing.
Known == Resolves(last.name) \/ last.name \in PriorNames

\* The answered value, or none, replaces what the joined sections said of an asked
\* field, when that extraction's name resolves at all.
Overridden(ext) ==
    IF Resolves(ext.name)
    THEN [ext EXCEPT !.hours = [f \in Field |-> IF f \notin Asked THEN @[f]
                                                ELSE IF Known THEN last.hours[f] ELSE None]]
    ELSE ext

\* Variant of Suppress: carry-forwards of an earlier round are detected again.
SuppressForgetful(answers) ==
    {f \in Field : answers[f] \in {"confirmed_dropped", "client_supplied"}}
    \cup {f \in Asked : answers[f] \in Final}

\* suppress_detection: every answered field, whenever it was answered.
Suppress(answers) == {f \in Field : answers[f] \in Final}

\* backfill_skip: the zeroed, the supplied and the ones the reply does not settle.
Skip(answers) ==
    {f \in Field : answers[f] \in {"confirmed_dropped", "client_supplied", "asked"}}

\* resume_pipeline() of an answered round: classify the reply alone, commit the
\* outcomes, and only then run the stages.
Classify ==
    /\ pc = "replied" /\ clarified # NoAnswers
    /\ \E ext \in Combined :
         LET answers == [f \in Field |-> IF f \in Asked /\ Known THEN Outcome(f) ELSE clarified[f]]
         IN  /\ clarified' = answers
             /\ fresh' = IF Known THEN Asked ELSE {}
             /\ work' = [Idle EXCEPT !.ext = Overridden(ext), !.suppress = Suppress(answers),
                                     !.skip = Skip(answers)]
    /\ pc' = "classified"
    /\ UNCHANGED <<emails, snapshot, reconciled, candidate, round, extracted, changes,
                   asked, faults>>

\* The stages of an answered round also know the snapshot by its own name.
ResumeAnswered ==
    LET own == {n \in {snapshot.name} : Resolves(n)} IN
    /\ pc = "classified"
    /\ Stages(work.ext, own \cup PriorNames, work.suppress, work.skip)
    /\ Bind(work.ext)
    /\ UNCHANGED fresh

-------------------------------------------------------------------------------
(* Asking *)

\* defer_field_regression_clarification(): 'asked' is committed before the send;
\* a terminal outcome is never turned back.
RecordAsked ==
    /\ pc = "deferred"
    /\ clarified' = [f \in Field |-> IF f \in work.open /\ clarified[f] \notin Final
                                     THEN "asked" ELSE clarified[f]]
    /\ pc' = "asking"
    /\ UNCHANGED <<emails, work, snapshot, reconciled, candidate, round, extracted,
                   changes, fresh, asked, faults>>

CapReached == round >= MaxRounds

\* clarify(): escalate at the cap, else freeze the question and the snapshot,
\* capture the unresolved token with its suggestion, and wait.  The suggestion
\* call may fail, and a question found already sent captures nothing.
Ask ==
    /\ pc \in {"asking", "clarifying"}
    /\ work' = Idle
    /\ IF CapReached
       THEN pc' = "operator" /\ UNCHANGED <<snapshot, candidate, round, asked>>
       ELSE /\ pc' = "waiting"
            /\ round' = round + 1
            /\ snapshot' = IF snapshot = Unread THEN extracted ELSE snapshot
            /\ candidate' \in IF Resolves(extracted.name) THEN {candidate}
                              ELSE {candidate, "captured", "suggested"}
            /\ asked' = IF pc = "asking" THEN asked \cup Asked ELSE asked
    /\ last' = Unread /\ fresh' = {}
    /\ UNCHANGED <<first, said, replies, clarified, reconciled, extracted, changes, faults>>

Reply ==
    /\ pc = "waiting" /\ replies < MaxReplies
    /\ \E r \in {Unread} \cup [name : {"full", "nick"}, hours : [Field -> Written]] :
         /\ \A f \in Field : r.hours[f] \in ReplyHours[f] \cup {None}
         /\ last' = r
         /\ said' = [names |-> (said.names \cup {r.name}) \ {"nobody"},
                     hours |-> [f \in Field |-> said.hours[f] \cup {r.hours[f]}]]
    /\ replies' = replies + 1
    /\ pc' = "replied"
    /\ UNCHANGED <<first, work, columns, reconciled, extracted, changes, fresh, asked, faults>>

-------------------------------------------------------------------------------
(* Failures between two commits *)

InFlight == pc \in {"replied", "classified", "deferred", "asking", "clarifying"}

Restart ==
    /\ InFlight /\ faults < MaxFaults
    /\ faults' = faults + 1
    /\ pc' = IF replies = 0 THEN "received" ELSE "replied"
    /\ work' = Idle /\ fresh' = {}
    /\ UNCHANGED <<emails, reconciled, extracted, asked>>

\* A retryable failure: settlement rewinds the status and nothing else.
Retry == pc # "replied" /\ Restart /\ UNCHANGED <<columns, changes>>

\* The worker died: rewind_for_reclaim() clears the reply context.
Reclaim ==
    /\ Restart
    /\ snapshot' = Unread /\ clarified' = NoAnswers /\ candidate' = "none"
    /\ round' = 0 /\ changes' = {}

Next ==
    \/ FirstRun \/ ResumeUnasked \/ Classify \/ ResumeAnswered
    \/ RecordAsked \/ Ask \/ Reply
    \/ Retry \/ Reclaim

Spec == Init /\ [][Next]_vars

-------------------------------------------------------------------------------
(* Properties *)

Reading == [name : {"full", "nick", "nobody"}, hours : [Field -> Int]]

\* Every variable keeps its type.
TypeOK ==
    /\ first \in Reading /\ last \in Reading /\ replies \in 0..MaxReplies
    /\ said \in [names : SUBSET {"full", "nick"}, hours : [Field -> SUBSET Int]]
    /\ snapshot \in Reading /\ extracted \in Reading
    /\ pc \in {"received", "waiting", "replied", "classified", "deferred", "asking",
               "clarifying", "approval", "operator"}
    /\ work \in [ext : Reading, suppress : SUBSET Field, skip : SUBSET Field,
                 open : SUBSET Field]
    /\ clarified \in [Field -> Final \cup {"-", "asked"}]
    /\ reconciled \in {"", "full", "nick"}
    /\ candidate \in {"none", "captured", "suggested", "bound"}
    /\ round \in 0..MaxRounds
    /\ changes \subseteq Field /\ fresh \subseteq Field /\ asked \subseteq Field
    /\ faults \in 0..MaxFaults

\* The snapshot is known by a name the roster resolves.
Traceable == snapshot # Unread /\ Resolves(snapshot.name)

\* No email called the employee anything but the roster's name.
OneName == "nick" \notin said.names

\* The paystub of an approved run pays what the client's last answer said: the
\* value supplied, nothing where zero was confirmed, the snapshot's hours where
\* the client was silent, whatever the joined sections were read to say.
AnswerIsPaid ==
    pc = "approval" =>
        \A f \in fresh :
            /\ clarified[f] = "client_supplied" => extracted.hours[f] = last.hours[f]
            /\ clarified[f] = "confirmed_dropped" => extracted.hours[f] = 0
            /\ clarified[f] = "carried_forward" /\ Traceable
               => extracted.hours[f] = snapshot.hours[f]

\* While the client keeps to one name, hours that were once reported do not vanish
\* unless the client was asked.
DropsAreAsked ==
    pc = "approval" /\ OneName =>
        \A f \in Field : Paid(snapshot.hours[f]) /\ ~Paid(extracted.hours[f])
                         => clarified[f] \in Final

\* Under the same condition, hours that differ from the first report are on the
\* approval page as a change.
ChangesAreShown ==
    pc = "approval" /\ OneName =>
        \A f \in Field : /\ Paid(snapshot.hours[f]) /\ Paid(extracted.hours[f])
                         /\ snapshot.hours[f] # extracted.hours[f]
                         => f \in changes

\* A question about dropped hours is about a field that is still open: an answer
\* is never asked for twice.
QuestionsAreOpen == pc = "asking" => Asked # {}

\* What resume_pipeline() says of carried_forward: "backfill FIRES", the snapshot's
\* hours are paid, also of an employee the client had to identify first.
CarriedForwardIsPaid ==
    pc = "approval" => \A f \in fresh : clarified[f] = "carried_forward"
                                        => extracted.hours[f] = snapshot.hours[f]

\* DropsAreAsked for every client, whatever they call the employee on the way.
NamedDropsAreAsked ==
    pc = "approval" /\ Traceable =>
        \A f \in Field : Paid(snapshot.hours[f]) /\ ~Paid(extracted.hours[f])
                         => clarified[f] \in Final

\* An outcome answers a question the client was sent.
AnswersFollowQuestions ==
    \A f \in Field : clarified[f] \in Final => f \in asked

\* A confirmed zero of any round stays a zero.
ConfirmedDropHolds ==
    pc = "approval" => \A f \in Field : clarified[f] = "confirmed_dropped"
                                        => ~Paid(extracted.hours[f])

\* The first email, not only the surviving snapshot, is what a drop is measured by.
FirstReportIsKept ==
    pc = "approval" /\ first.name = "full" =>
        \A f \in Field : Paid(first.hours[f]) /\ ~Paid(extracted.hours[f])
                         => clarified[f] \in Final
===============================================================================
