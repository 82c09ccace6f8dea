-------------------------- MODULE ResumeMoneyProofs ---------------------------
(***************************************************************************)
(* What a clarification round may do to the hours of an employee, for any     *)
(* fields, hours, rounds, replies and lost workers: the properties            *)
(* AnswerIsPaid, DropsAreAsked, ChangesAreShown and QuestionsAreOpen.          *)
(***************************************************************************)
EXTENDS ResumeMoney, TLAPS

-------------------------------------------------------------------------------
(* Types *)

LEMMA WrittenIsInt == Written \subseteq Int
<1>1. FirstHours \subseteq Int /\ None \in Int
  BY MoneyAssumption DEF None
<1>2. ASSUME NEW f \in Field PROVE ReplyHours[f] \subseteq Int
  <2>1. ReplyHours[f] \in SUBSET Nat
    BY MoneyAssumption
  <2> QED
    BY <2>1
<1> QED
  BY <1>1, <1>2, Zenon DEF Written

LEMMA UnreadIsReading == Unread \in Reading
BY DEF Unread, Reading, Silence, None

\* The joined sections are read as a reading, under the roster's name when no
\* email used another.
LEMMA CombinedReading ==
    ASSUME TypeOK, NEW ext \in Combined
    PROVE  ext \in Reading /\ (OneName => ext.name = "full")
<1>1. ext \in [name : said.names \cup {"full"}, hours : [Field -> Written]]
  BY DEF Combined
<1>2. said.names \subseteq {"full", "nick"}
  BY DEF TypeOK
<1>3. ext.hours \in [Field -> Int]
  BY <1>1, WrittenIsInt
<1>4. ext = [name |-> ext.name, hours |-> ext.hours] /\ ext.name \in said.names \cup {"full"}
  BY <1>1
<1> QED
  BY <1>2, <1>3, <1>4 DEF Reading, OneName

\* backfill_extracted() keeps the name and fills the detected fields.
LEMMA BackfilledValue ==
    ASSUME TypeOK, NEW known, NEW ext \in Reading, NEW skip
    PROVE  /\ Backfilled(known, ext, skip) \in Reading
           /\ Backfilled(known, ext, skip).name = ext.name
           /\ \A f \in Field : Backfilled(known, ext, skip).hours[f] =
                IF f \in Drops(known, ext) \ skip THEN snapshot.hours[f] ELSE ext.hours[f]
BY DEF Backfilled, Reading, TypeOK

\* The same of the answers written over what the joined sections said.
LEMMA OverriddenValue ==
    ASSUME TypeOK, NEW ext \in Reading
    PROVE  /\ Overridden(ext) \in Reading
           /\ Overridden(ext).name = ext.name
           /\ Resolves(ext.name) /\ Known =>
                \A f \in Asked : Overridden(ext).hours[f] = last.hours[f]
<1> DEFINE told == [f \in Field |-> IF f \notin Asked THEN ext.hours[f]
                                   ELSE IF Known THEN last.hours[f] ELSE None]
<1>0. ext.hours \in [Field -> Int] /\ last.hours \in [Field -> Int]
  BY DEF TypeOK, Reading
<1>1. told \in [Field -> Int]
  BY <1>0 DEF None
<1>2. Asked \subseteq Field
  BY DEF Asked
<1>3. Known => \A f \in Asked : told[f] = last.hours[f]
  BY <1>2
<1>4. Overridden(ext) = IF Resolves(ext.name) THEN [name |-> ext.name, hours |-> told] ELSE ext
  BY DEF Overridden, Reading
<1> HIDE DEF told
<1> QED
  BY <1>1, <1>3, <1>4 DEF Reading

LEMMA StagesTypes ==
    ASSUME TypeOK, NEW ext \in Reading, NEW prior, NEW suppress, NEW skip,
           Stages(ext, prior, suppress, skip),
           candidate' \in {"none", "captured", "suggested", "bound"},
           fresh' \subseteq Field
    PROVE  TypeOK'
<1> DEFINE known == IF snapshot = Unread THEN {} ELSE Bridged(prior, ext)
           issues == Drops(known, ext) \ suppress
<1>1. /\ extracted' = Backfilled(known, ext, skip)
      /\ reconciled' = IF Resolves(ext.name) THEN ext.name ELSE ""
      /\ changes' = Changes(known, ext)
      /\ work' = [Idle EXCEPT !.open = issues]
      /\ pc' \in {"deferred", "approval", "clarifying"}
      /\ UNCHANGED <<emails, snapshot, clarified, round, asked, faults>>
  BY DEF Stages
<1>2. extracted' \in Reading
  BY <1>1, BackfilledValue
<1>3. reconciled' \in {"", "full", "nick"}
  BY <1>1 DEF Resolves
<1>4. changes' \subseteq Field /\ issues \subseteq Field
  BY <1>1 DEF Changes, Drops
<1>5. work' \in [ext : Reading, suppress : SUBSET Field, skip : SUBSET Field,
                 open : SUBSET Field]
  BY <1>1, <1>4, UnreadIsReading DEF Idle
<1> QED
  BY <1>1, <1>2, <1>3, <1>4, <1>5 DEF TypeOK, emails

LEMMA InitTypes == Init => TypeOK
<1> SUFFICES ASSUME Init PROVE TypeOK
  OBVIOUS
<1>1. PICK name \in {"full", "nick"}, hours \in [Field -> FirstHours \cup {None}] :
        /\ first = [name |-> name, hours |-> hours]
        /\ said = [names |-> {name}, hours |-> [f \in Field |-> {hours[f]}]]
  BY DEF Init
<1>0. FirstHours \cup {None} \subseteq Int
  BY MoneyAssumption DEF None
<1>2. hours \in [Field -> Int]
  BY <1>0
<1>3. first \in Reading
  BY <1>1, <1>2 DEF Reading
<1>4. said \in [names : SUBSET {"full", "nick"}, hours : [Field -> SUBSET Int]]
  BY <1>1, <1>2
<1>5. work \in [ext : Reading, suppress : SUBSET Field, skip : SUBSET Field,
                open : SUBSET Field]
  BY UnreadIsReading DEF Init, Idle
<1>6. replies \in 0..MaxReplies /\ round \in 0..MaxRounds /\ faults \in 0..MaxFaults
  <2>1. replies = 0 /\ round = 0 /\ faults = 0
    BY DEF Init
  <2> QED
    BY <2>1, MoneyAssumption
<1>7. clarified \in [Field -> Final \cup {"-", "asked"}]
  BY DEF Init, NoAnswers
<1>8. /\ last = Unread /\ snapshot = Unread /\ extracted = Unread
      /\ pc = "received" /\ reconciled = "" /\ candidate = "none"
      /\ changes = {} /\ fresh = {} /\ asked = {}
  BY DEF Init
<1> QED
  BY <1>3, <1>4, <1>5, <1>6, <1>7, <1>8, UnreadIsReading DEF TypeOK

LEMMA NextTypes == TypeOK /\ [Next]_vars => TypeOK'
<1> SUFFICES ASSUME TypeOK, [Next]_vars PROVE TypeOK'
  OBVIOUS
<1> DEFINE Work == [ext : Reading, suppress : SUBSET Field, skip : SUBSET Field,
                    open : SUBSET Field]
<1>0. Idle \in Work
  BY UnreadIsReading DEF Idle
<1>1. CASE FirstRun
  <2>1. first \in Reading
    BY DEF TypeOK
  <2>2. /\ Stages(first, {}, {}, {})
        /\ candidate' \in {"none", "captured", "suggested", "bound"} /\ fresh' \subseteq Field
    BY <1>1 DEF FirstRun, TypeOK
  <2> QED
    BY <2>1, <2>2, StagesTypes
<1>2. CASE ResumeUnasked
  <2>1. PICK ext \in Combined : Stages(ext, PriorNames, {}, {}) /\ Bind(ext)
    BY <1>2 DEF ResumeUnasked
  <2>2. candidate' \in {"none", "captured", "suggested", "bound"} /\ fresh' \subseteq Field
    BY <1>2, <2>1 DEF ResumeUnasked, Bind, TypeOK
  <2> QED
    BY <2>1, <2>2, CombinedReading, StagesTypes
<1>3. CASE Classify
  <2> DEFINE answers == [f \in Field |-> IF f \in Asked /\ Known THEN Outcome(f) ELSE clarified[f]]
  <2>1. PICK ext \in Combined :
          /\ clarified' = answers
          /\ work' = [Idle EXCEPT !.ext = Overridden(ext), !.suppress = Suppress(answers),
                                  !.skip = Skip(answers)]
    BY <1>3 DEF Classify
  <2>2. clarified' \in [Field -> Final \cup {"-", "asked"}]
    BY <2>1 DEF Outcome, Final, TypeOK
  <2>3. Overridden(ext) \in Reading
    BY CombinedReading, OverriddenValue
  <2>4. Suppress(answers) \subseteq Field /\ Skip(answers) \subseteq Field
    BY DEF Suppress, Skip
  <2> HIDE DEF answers
  <2>5. work' \in Work
    BY <2>1, <2>3, <2>4, <1>0
  <2>6. fresh' \subseteq Field
    BY <1>3 DEF Classify, Asked
  <2> QED
    BY <1>3, <2>2, <2>5, <2>6 DEF Classify, TypeOK, emails
<1>4. CASE ResumeAnswered
  <2> DEFINE own == {n \in {snapshot.name} : Resolves(n)}
  <2>1. /\ Stages(work.ext, own \cup PriorNames, work.suppress, work.skip)
        /\ Bind(work.ext) /\ UNCHANGED fresh
    BY <1>4 DEF ResumeAnswered
  <2>2. work.ext \in Reading
    BY DEF TypeOK
  <2>3. candidate' \in {"none", "captured", "suggested", "bound"} /\ fresh' \subseteq Field
    BY <2>1 DEF Bind, TypeOK
  <2> HIDE DEF own
  <2> QED
    BY <2>1, <2>2, <2>3, StagesTypes
<1>5. CASE RecordAsked
  <2>1. clarified' \in [Field -> Final \cup {"-", "asked"}]
    BY <1>5 DEF RecordAsked, TypeOK
  <2> QED
    BY <1>5, <2>1 DEF RecordAsked, TypeOK, emails
<1>6. CASE Ask
  <2>1. snapshot' \in Reading /\ candidate' \in {"none", "captured", "suggested", "bound"}
    BY <1>6 DEF Ask, TypeOK
  <2>2. round' \in 0..MaxRounds
    <3>1. round \in 0..MaxRounds
      BY DEF TypeOK
    <3>2. round' = round \/ (round' = round + 1 /\ ~(round >= MaxRounds))
      BY <1>6 DEF Ask, CapReached
    <3> QED
      BY <3>1, <3>2, MoneyAssumption
  <2>3. asked' \subseteq Field
    BY <1>6 DEF Ask, TypeOK, Asked
  <2>4. pc' \in {"operator", "waiting"} /\ work' \in Work
    BY <1>6, <1>0 DEF Ask
  <2> QED
    BY <1>6, <2>1, <2>2, <2>3, <2>4, UnreadIsReading DEF Ask, TypeOK
<1>7. CASE Reply
  <2>1. PICK r \in {Unread} \cup [name : {"full", "nick"}, hours : [Field -> Written]] :
          /\ last' = r
          /\ said' = [names |-> (said.names \cup {r.name}) \ {"nobody"},
                      hours |-> [f \in Field |-> said.hours[f] \cup {r.hours[f]}]]
    BY <1>7 DEF Reply
  <2>2. r \in Reading
    BY UnreadIsReading, WrittenIsInt DEF Reading
  <2>3. said' \in [names : SUBSET {"full", "nick"}, hours : [Field -> SUBSET Int]]
    <3>1. r.name \in {"full", "nick", "nobody"} /\ r.hours \in [Field -> Int]
      BY <2>2 DEF Reading
    <3>2. said.names \subseteq {"full", "nick"} /\ said.hours \in [Field -> SUBSET Int]
      BY DEF TypeOK
    <3>3. (said.names \cup {r.name}) \ {"nobody"} \in SUBSET {"full", "nick"}
      BY <3>1, <3>2
    <3>4. [f \in Field |-> said.hours[f] \cup {r.hours[f]}] \in [Field -> SUBSET Int]
      BY <3>1, <3>2
    <3> QED
      BY <2>1, <3>3, <3>4
  <2>4. replies' \in 0..MaxReplies
    <3>1. replies \in 0..MaxReplies /\ replies < MaxReplies /\ replies' = replies + 1
      BY <1>7 DEF Reply, TypeOK
    <3> QED
      BY <3>1, MoneyAssumption
  <2> QED
    BY <1>7, <2>1, <2>2, <2>3, <2>4 DEF Reply, TypeOK, columns
<1>8. CASE Retry \/ Reclaim
  <2>1. faults' \in 0..MaxFaults /\ pc' \in {"received", "replied"}
    <3>1. faults \in 0..MaxFaults /\ faults < MaxFaults /\ faults' = faults + 1
      BY <1>8 DEF Retry, Reclaim, Restart, TypeOK
    <3>2. pc' \in {"received", "replied"}
      BY <1>8 DEF Retry, Reclaim, Restart
    <3> QED
      BY <3>1, <3>2, MoneyAssumption
  <2>2. /\ snapshot' \in Reading /\ clarified' \in [Field -> Final \cup {"-", "asked"}]
        /\ candidate' \in {"none", "captured", "suggested", "bound"}
        /\ round' \in 0..MaxRounds /\ changes' \subseteq Field
    <3>1. CASE Retry
      BY <3>1 DEF Retry, columns, TypeOK
    <3>2. CASE Reclaim
      <4>1. NoAnswers \in [Field -> Final \cup {"-", "asked"}] /\ 0 \in 0..MaxRounds
        BY MoneyAssumption DEF NoAnswers
      <4> QED
        BY <3>2, <4>1, UnreadIsReading DEF Reclaim
    <3> QED
      BY <1>8, <3>1, <3>2
  <2>3. work' \in Work /\ fresh' = {} /\ UNCHANGED <<emails, reconciled, extracted, asked>>
    BY <1>8, <1>0 DEF Retry, Reclaim, Restart
  <2> QED
    BY <2>1, <2>2, <2>3 DEF TypeOK, emails
<1>9. CASE UNCHANGED vars
  BY <1>9 DEF vars, TypeOK
<1> QED
  BY <1>1, <1>2, <1>3, <1>4, <1>5, <1>6, <1>7, <1>8, <1>9 DEF Next

\* Every variable keeps its type, in particular the round never passes the cap
\* of clarify(), over retries and reclaims.
THEOREM MoneyTypes == Spec => []TypeOK
BY InitTypes, NextTypes, PTL DEF Spec

-------------------------------------------------------------------------------
(* The inductive invariant *)

\* A run is back at "received" only before the client's first reply, when nothing
\* was answered and nothing frozen to compare with.
Opening ==
    /\ pc = "received" => replies = 0 /\ fresh = {}
    /\ pc \in {"replied", "classified"} => replies > 0
    /\ replies = 0 => \A f \in Field : clarified[f] \notin Final
    /\ replies = 0 /\ pc # "waiting" => snapshot = Unread

\* Between the two commits of an answered round the worker carries what it
\* classified: the answers suppress detection, and stand in the extraction.
Carried ==
    pc = "classified" =>
        /\ work.suppress = Suppress(clarified) /\ work.skip = Skip(clarified)
        /\ \A f \in fresh :
             /\ f \in Field /\ clarified[f] = Outcome(f)
             /\ Resolves(work.ext.name) => work.ext.hours[f] = last.hours[f]

\* Only a field the snapshot has hours for was ever asked about, and a question in
\* preparation has at least one field the client has not answered.
Questioned ==
    /\ \A f \in Field : clarified[f] # "-" => Paid(snapshot.hours[f])
    /\ pc = "deferred" => /\ work.open # {} /\ work.open \subseteq Field
                          /\ \A f \in work.open :
                               clarified[f] \notin Final /\ Paid(snapshot.hours[f])

\* While the client keeps to one name, so do the extraction, the snapshot and the
\* reconciliation it is compared by.
Uniform ==
    OneName =>
        /\ first.name = "full"
        /\ snapshot # Unread => snapshot.name = "full" /\ reconciled = "full"
        /\ pc \in {"deferred", "asking", "clarifying"} =>
             extracted.name = "full" /\ reconciled = "full"
        /\ pc = "classified" => work.ext.name = "full"

IInv == /\ TypeOK /\ Opening /\ Carried /\ Questioned /\ Uniform
        /\ AnswerIsPaid /\ DropsAreAsked /\ ChangesAreShown /\ QuestionsAreOpen

\* What the stages leave behind: the record of what to ask.
LEMMA StagesOutcome ==
    ASSUME TypeOK, NEW ext \in Reading, NEW prior, NEW suppress, NEW skip,
           Stages(ext, prior, suppress, skip)
    PROVE  /\ extracted'.name = ext.name
           /\ reconciled' = IF Resolves(ext.name) THEN ext.name ELSE ""
           /\ UNCHANGED <<emails, snapshot, clarified, round, asked, faults>>
           /\ pc' \in {"deferred", "approval", "clarifying"}
           /\ pc' = "deferred" =>
                /\ work'.open # {} /\ work'.open \subseteq Field \ suppress
                /\ \A f \in work'.open : Paid(snapshot.hours[f])
<1> DEFINE known == IF snapshot = Unread THEN {} ELSE Bridged(prior, ext)
           drops == Drops(known, ext)
<1>1. /\ extracted' = Backfilled(known, ext, skip)
      /\ reconciled' = IF Resolves(ext.name) THEN ext.name ELSE ""
      /\ work' = [Idle EXCEPT !.open = drops \ suppress]
      /\ pc' \in {"deferred", "approval", "clarifying"}
      /\ pc' = "deferred" => drops \ suppress # {}
      /\ UNCHANGED <<emails, snapshot, clarified, round, asked, faults>>
  BY DEF Stages
<1>2. extracted'.name = ext.name
  BY <1>1, BackfilledValue
<1>3. \A f \in drops : f \in Field /\ Paid(snapshot.hours[f])
  BY DEF Drops
<1>4. work'.open = drops \ suppress
  BY <1>1 DEF Idle
<1> HIDE DEF drops
<1> QED
  BY <1>1, <1>2, <1>3, <1>4

\* The hours of an approved payroll: the extraction's, but for the dropped ones of a
\* snapshot that `prior` knows by name.
Pays(ext, prior, suppress, skip) ==
    /\ Resolves(ext.name)
    /\ \A f \in Field :
         /\ f \in skip \/ ~Paid(snapshot.hours[f]) => extracted'.hours[f] = ext.hours[f]
         /\ Paid(ext.hours[f]) => extracted'.hours[f] = ext.hours[f]
         /\ /\ snapshot # Unread /\ snapshot.name \in prior
            /\ Paid(snapshot.hours[f]) /\ ~Paid(ext.hours[f])
            => /\ f \in suppress
               /\ f \notin skip => extracted'.hours[f] = snapshot.hours[f]
         /\ \/ f \in changes' \/ snapshot = Unread \/ snapshot.name \notin prior
            \/ ~Paid(snapshot.hours[f]) \/ ~Paid(extracted'.hours[f])
            \/ extracted'.hours[f] = snapshot.hours[f]

\* An approved payroll pays what was read, or the snapshot where a line is missing.
LEMMA StagesPay ==
    ASSUME TypeOK, NEW ext \in Reading, NEW prior, NEW suppress, NEW skip,
           Stages(ext, prior, suppress, skip), pc' = "approval"
    PROVE  Pays(ext, prior, suppress, skip)
<1> DEFINE known == IF snapshot = Unread THEN {} ELSE Bridged(prior, ext)
           drops == Drops(known, ext)
<1>1. /\ extracted' = Backfilled(known, ext, skip)
      /\ drops \ suppress = {} /\ Resolves(ext.name)
  BY DEF Stages
<1>2. \A f \in Field : extracted'.hours[f] =
        IF f \in drops \ skip THEN snapshot.hours[f] ELSE ext.hours[f]
  BY <1>1, BackfilledValue
<1>3. \A f \in drops : f \in Field /\ Paid(snapshot.hours[f]) /\ ~Paid(ext.hours[f])
  BY DEF Drops
<1>4. ASSUME snapshot # Unread, snapshot.name \in prior,
             NEW f \in Field, Paid(snapshot.hours[f]), ~Paid(ext.hours[f])
      PROVE  f \in drops
  <2>1. snapshot.name \in known
    BY <1>4 DEF Bridged
  <2> QED
    BY <1>1, <1>4, <2>1 DEF Drops, Paired
<1>5. ASSUME snapshot # Unread, snapshot.name \in prior,
             NEW f \in Field, Paid(snapshot.hours[f]), Paid(extracted'.hours[f]),
             extracted'.hours[f] # snapshot.hours[f]
      PROVE  f \in changes'
  <2>1. snapshot.name \in known /\ changes' = Changes(known, ext)
    BY <1>5 DEF Bridged, Stages
  <2>2. extracted'.hours[f] = ext.hours[f]
    BY <1>2, <1>5
  <2> QED
    BY <1>1, <1>5, <2>1, <2>2 DEF Changes, Paired
<1> HIDE DEF drops
<1> QED
  BY <1>1, <1>2, <1>3, <1>4, <1>5 DEF Pays

\* A pass of the stages keeps the invariant, given what its caller knows: what is
\* suppressed was answered, and what was just answered is in the extraction.
LEMMA StagesKeep ==
    ASSUME IInv, NEW ext \in Reading, NEW prior, NEW suppress, NEW skip,
           Stages(ext, prior, suppress, skip), TypeOK',
           pc \in {"received", "replied", "classified"},
           fresh' \subseteq fresh,
           suppress = Suppress(clarified),
           OneName => ext.name = "full" /\ (snapshot # Unread => snapshot.name \in prior),
           \A f \in fresh' :
                /\ clarified[f] = Outcome(f)
                /\ Resolves(ext.name) => ext.hours[f] = last.hours[f]
                /\ clarified[f] \in {"client_supplied", "confirmed_dropped"} => f \in skip
                /\ clarified[f] = "carried_forward" => f \notin skip
                /\ Traceable => snapshot.name \in prior
    PROVE  IInv'
<1>0. /\ TypeOK /\ Opening /\ Questioned /\ Uniform /\ fresh' \subseteq Field
      /\ clarified \in [Field -> Final \cup {"-", "asked"}]
  BY DEF IInv, TypeOK
<1>1. /\ extracted'.name = ext.name
      /\ reconciled' = IF Resolves(ext.name) THEN ext.name ELSE ""
      /\ UNCHANGED <<emails, snapshot, clarified, round, asked, faults>>
      /\ pc' \in {"deferred", "approval", "clarifying"}
      /\ pc' = "deferred" =>
           /\ work'.open # {} /\ work'.open \subseteq Field \ suppress
           /\ \A f \in work'.open : Paid(snapshot.hours[f])
  BY <1>0, StagesOutcome
<1>2. pc' = "approval" => Pays(ext, prior, suppress, skip)
  BY <1>0, StagesPay
<1>3. /\ first' = first /\ said' = said /\ last' = last /\ replies' = replies
      /\ snapshot' = snapshot /\ clarified' = clarified
  BY <1>1 DEF emails
<1>4. Opening'
  BY <1>0, <1>1, <1>3 DEF Opening
<1>5. Carried' /\ QuestionsAreOpen'
  BY <1>1 DEF Carried, QuestionsAreOpen
<1>6. Questioned'
  BY <1>0, <1>1, <1>3 DEF Questioned, Suppress
<1>7. Uniform'
  BY <1>0, <1>1, <1>3 DEF Uniform, OneName, Resolves
<1>8. AnswerIsPaid'
  <2> SUFFICES ASSUME pc' = "approval", NEW f \in fresh'
               PROVE  /\ clarified[f] = "client_supplied" => extracted'.hours[f] = last.hours[f]
                      /\ clarified[f] = "confirmed_dropped" => extracted'.hours[f] = 0
                      /\ clarified[f] = "carried_forward" /\ Traceable
                         => extracted'.hours[f] = snapshot.hours[f]
    BY <1>3 DEF AnswerIsPaid, Traceable
  <2>1. f \in Field /\ clarified[f] = Outcome(f) /\ ext.hours[f] = last.hours[f]
    BY <1>0, <1>2 DEF Pays
  <2>2. clarified[f] \in {"client_supplied", "confirmed_dropped"}
          => extracted'.hours[f] = last.hours[f]
    BY <1>2, <2>1 DEF Pays
  <2>3. clarified[f] = "confirmed_dropped" => last.hours[f] = 0
    BY <2>1 DEF Outcome
  <2>4. ASSUME clarified[f] = "carried_forward", Traceable
        PROVE  extracted'.hours[f] = snapshot.hours[f]
    <3>1. ~Paid(ext.hours[f])
      BY <2>1, <2>4 DEF Outcome, Paid
    <3>2. Paid(snapshot.hours[f])
      BY <1>0, <2>1, <2>4 DEF Questioned
    <3>3. snapshot # Unread /\ snapshot.name \in prior /\ f \notin skip
      BY <2>4 DEF Traceable
    <3> QED
      BY <1>2, <2>1, <3>1, <3>2, <3>3 DEF Pays
  <2> QED
    BY <2>2, <2>3, <2>4
<1>9. DropsAreAsked'
  <2> SUFFICES ASSUME pc' = "approval", OneName, NEW f \in Field,
                      Paid(snapshot.hours[f]), ~Paid(extracted'.hours[f])
               PROVE  clarified[f] \in Final
    BY <1>3 DEF DropsAreAsked, OneName
  <2>1. snapshot # Unread
    BY DEF Unread, Silence, None, Paid
  <2>2. snapshot.name \in prior
    BY <2>1
  <2>3. ~Paid(ext.hours[f])
    BY <1>2, <2>1, <2>2 DEF Pays
  <2>4. f \in suppress
    BY <1>2, <2>1, <2>2, <2>3 DEF Pays
  <2> QED
    BY <2>4 DEF Suppress
<1>10. ChangesAreShown'
  <2> SUFFICES ASSUME pc' = "approval", OneName, NEW f \in Field,
                      Paid(snapshot.hours[f]), Paid(extracted'.hours[f]),
                      snapshot.hours[f] # extracted'.hours[f]
               PROVE  f \in changes'
    BY <1>3 DEF ChangesAreShown, OneName
  <2>1. snapshot # Unread
    BY DEF Unread, Silence, None, Paid
  <2>2. snapshot.name \in prior
    BY <2>1
  <2> QED
    BY <1>2, <2>1, <2>2 DEF Pays
<1> QED
  BY <1>4, <1>5, <1>6, <1>7, <1>8, <1>9, <1>10 DEF IInv

LEMMA InitIInv == Init => IInv
<1> SUFFICES ASSUME Init PROVE IInv
  OBVIOUS
<1>1. PICK name \in {"full", "nick"}, hours \in [Field -> FirstHours \cup {None}] :
        /\ first = [name |-> name, hours |-> hours]
        /\ said = [names |-> {name}, hours |-> [f \in Field |-> {hours[f]}]]
  BY DEF Init
<1>2. Uniform
  BY <1>1 DEF Init, Uniform, OneName
<1>3. Opening /\ Questioned
  BY DEF Init, Opening, Questioned, NoAnswers, Final
<1>4. Carried /\ AnswerIsPaid /\ DropsAreAsked /\ ChangesAreShown /\ QuestionsAreOpen
  BY DEF Init, Carried, AnswerIsPaid, DropsAreAsked, ChangesAreShown, QuestionsAreOpen
<1> QED
  BY <1>2, <1>3, <1>4, InitTypes DEF IInv

LEMMA FirstRunKeeps == ASSUME IInv, FirstRun, TypeOK' PROVE IInv'
<1>1. /\ TypeOK /\ Opening /\ Uniform /\ pc = "received" /\ fresh' = {}
      /\ first \in Reading /\ Stages(first, {}, {}, {})
  BY DEF FirstRun, IInv, TypeOK, Opening
<1>2. Suppress(clarified) = {} /\ snapshot = Unread
  BY <1>1 DEF Opening, Suppress
<1>3. OneName => first.name = "full"
  BY <1>1 DEF Uniform
<1> QED
  BY <1>1, <1>2, <1>3, StagesKeep

LEMMA ResumeUnaskedKeeps == ASSUME IInv, ResumeUnasked, TypeOK' PROVE IInv'
<1>1. PICK ext \in Combined : Stages(ext, PriorNames, {}, {})
  BY DEF ResumeUnasked
<1>2. /\ TypeOK /\ Uniform /\ pc = "replied" /\ clarified = NoAnswers /\ fresh' = {}
  BY DEF ResumeUnasked, IInv
<1>3. ext \in Reading /\ (OneName => ext.name = "full")
  BY <1>2, CombinedReading
<1>4. Suppress(clarified) = {}
  BY <1>2 DEF Suppress, NoAnswers, Final
<1>5. OneName /\ snapshot # Unread => snapshot.name \in PriorNames
  BY <1>2 DEF Uniform, PriorNames
<1> QED
  BY <1>1, <1>2, <1>3, <1>4, <1>5, StagesKeep

LEMMA ClassifyKeeps == ASSUME IInv, Classify, TypeOK' PROVE IInv'
<1> DEFINE answers == [f \in Field |-> IF f \in Asked /\ Known THEN Outcome(f) ELSE clarified[f]]
<1>1. PICK ext \in Combined :
        /\ clarified' = answers
        /\ work' = [Idle EXCEPT !.ext = Overridden(ext), !.suppress = Suppress(answers),
                                !.skip = Skip(answers)]
  BY DEF Classify
<1>2. /\ pc = "replied" /\ pc' = "classified"
      /\ fresh' = IF Known THEN Asked ELSE {}
      /\ UNCHANGED <<first, said, last, replies, snapshot, reconciled>>
  BY DEF Classify, emails
<1>3. /\ TypeOK /\ Opening /\ Questioned /\ Uniform
      /\ ext \in Reading /\ (OneName => ext.name = "full")
  BY CombinedReading DEF IInv
<1>4. work'.ext = Overridden(ext) /\ work'.suppress = Suppress(answers)
      /\ work'.skip = Skip(answers)
  BY <1>1 DEF Idle
<1>5. /\ Overridden(ext).name = ext.name
      /\ Resolves(ext.name) /\ Known => \A f \in Asked : Overridden(ext).hours[f] = last.hours[f]
  BY <1>3, OverriddenValue
<1>6. \A f \in fresh' : f \in Asked /\ Known /\ f \in Field
  BY <1>2 DEF Asked
<1>7. Carried'
  <2>1. \A f \in fresh' : clarified'[f] = Outcome(f)' /\ f \in Field
    BY <1>1, <1>2, <1>6 DEF Outcome
  <2>2. \A f \in fresh' : Resolves(work'.ext.name) => work'.ext.hours[f] = last'.hours[f]
    BY <1>2, <1>4, <1>5, <1>6
  <2>3. work'.suppress = Suppress(clarified)' /\ work'.skip = Skip(clarified)'
    BY <1>1, <1>4 DEF Suppress, Skip
  <2> QED
    BY <2>1, <2>2, <2>3 DEF Carried, Resolves
<1>8. Opening'
  BY <1>2, <1>3 DEF Opening
<1>9. Questioned'
  BY <1>1, <1>2, <1>3 DEF Questioned, Asked
<1>10. Uniform'
  BY <1>2, <1>3, <1>4, <1>5 DEF Uniform, OneName
<1>11. AnswerIsPaid' /\ DropsAreAsked' /\ ChangesAreShown' /\ QuestionsAreOpen'
  BY <1>2 DEF AnswerIsPaid, DropsAreAsked, ChangesAreShown, QuestionsAreOpen
<1> QED
  BY <1>7, <1>8, <1>9, <1>10, <1>11 DEF IInv

LEMMA ResumeAnsweredKeeps == ASSUME IInv, ResumeAnswered, TypeOK' PROVE IInv'
<1> DEFINE prior == {n \in {snapshot.name} : Resolves(n)} \cup PriorNames
<1>1. /\ TypeOK /\ Carried /\ Uniform /\ pc = "classified" /\ fresh' = fresh
      /\ work.ext \in Reading
      /\ Stages(work.ext, prior, work.suppress, work.skip)
  BY DEF ResumeAnswered, IInv, TypeOK
<1>2. work.suppress = Suppress(clarified) /\ work.skip = Skip(clarified)
  BY <1>1 DEF Carried
<1>3. OneName => work.ext.name = "full" /\ (snapshot # Unread => snapshot.name \in prior)
  BY <1>1 DEF Uniform, Resolves
<1>4. Traceable => snapshot.name \in prior
  BY DEF Traceable
<1> HIDE DEF prior
<1>5. \A f \in fresh' :
        /\ clarified[f] = Outcome(f)
        /\ Resolves(work.ext.name) => work.ext.hours[f] = last.hours[f]
        /\ clarified[f] \in {"client_supplied", "confirmed_dropped"} => f \in work.skip
        /\ clarified[f] = "carried_forward" => f \notin work.skip
        /\ Traceable => snapshot.name \in prior
  BY <1>1, <1>2, <1>4 DEF Carried, Skip
<1> QED
  BY <1>1, <1>2, <1>3, <1>5, StagesKeep

LEMMA RecordAskedKeeps == ASSUME IInv, RecordAsked, TypeOK' PROVE IInv'
<1>1. /\ TypeOK /\ Opening /\ Questioned /\ Uniform
      /\ pc = "deferred" /\ pc' = "asking"
      /\ clarified' = [f \in Field |-> IF f \in work.open /\ clarified[f] \notin Final
                                       THEN "asked" ELSE clarified[f]]
      /\ UNCHANGED <<first, said, last, replies, snapshot, reconciled, extracted>>
  BY DEF RecordAsked, IInv, emails
<1>2. Opening'
  BY <1>1 DEF Opening, Final
<1>3. Questioned'
  BY <1>1 DEF Questioned
<1>4. Uniform'
  BY <1>1 DEF Uniform, OneName
<1>5. QuestionsAreOpen'
  <2>1. PICK f \in work.open : f \in Field /\ clarified[f] \notin Final
    BY <1>1 DEF Questioned
  <2>2. clarified'[f] = "asked"
    BY <1>1, <2>1
  <2> QED
    BY <2>1, <2>2 DEF QuestionsAreOpen, Asked
<1>6. Carried' /\ AnswerIsPaid' /\ DropsAreAsked' /\ ChangesAreShown'
  BY <1>1 DEF Carried, AnswerIsPaid, DropsAreAsked, ChangesAreShown
<1> QED
  BY <1>2, <1>3, <1>4, <1>5, <1>6 DEF IInv

LEMMA AskKeeps == ASSUME IInv, Ask, TypeOK' PROVE IInv'
<1>1. /\ TypeOK /\ Opening /\ Questioned /\ Uniform
      /\ pc \in {"asking", "clarifying"} /\ pc' \in {"operator", "waiting"}
      /\ pc' = "operator" => snapshot' = snapshot
      /\ snapshot' = snapshot \/ (snapshot = Unread /\ snapshot' = extracted)
      /\ UNCHANGED <<first, said, replies, clarified, reconciled>>
  BY DEF Ask, IInv
<1>2. Opening'
  BY <1>1 DEF Opening
<1>3. Questioned'
  <2>1. snapshot = Unread => \A f \in Field : ~Paid(snapshot.hours[f])
    BY DEF Unread, Silence, None, Paid
  <2> QED
    BY <1>1, <2>1 DEF Questioned
<1>4. Uniform'
  BY <1>1 DEF Uniform, OneName
<1>5. Carried' /\ AnswerIsPaid' /\ DropsAreAsked' /\ ChangesAreShown' /\ QuestionsAreOpen'
  BY <1>1 DEF Carried, AnswerIsPaid, DropsAreAsked, ChangesAreShown, QuestionsAreOpen
<1> QED
  BY <1>2, <1>3, <1>4, <1>5 DEF IInv

LEMMA ReplyKeeps == ASSUME IInv, Reply, TypeOK' PROVE IInv'
<1>1. PICK r \in {Unread} \cup [name : {"full", "nick"}, hours : [Field -> Written]] :
        said' = [names |-> (said.names \cup {r.name}) \ {"nobody"},
                 hours |-> [f \in Field |-> said.hours[f] \cup {r.hours[f]}]]
  BY DEF Reply
<1>2. /\ TypeOK /\ Opening /\ Questioned /\ Uniform
      /\ pc = "waiting" /\ pc' = "replied" /\ replies' = replies + 1
      /\ UNCHANGED <<first, snapshot, clarified, reconciled, extracted>>
  BY DEF Reply, IInv, columns
<1>3. replies \in Nat /\ replies' > 0
  <2>1. replies \in 0..MaxReplies
    BY <1>2 DEF TypeOK
  <2> QED
    BY <1>2, <2>1
<1>4. Opening'
  BY <1>2, <1>3 DEF Opening
<1>5. Questioned'
  BY <1>2 DEF Questioned
<1>6. OneName' => OneName
  BY <1>1 DEF OneName
<1>7. Uniform'
  BY <1>2, <1>6 DEF Uniform
<1>8. Carried' /\ AnswerIsPaid' /\ DropsAreAsked' /\ ChangesAreShown' /\ QuestionsAreOpen'
  BY <1>2 DEF Carried, AnswerIsPaid, DropsAreAsked, ChangesAreShown, QuestionsAreOpen
<1> QED
  BY <1>4, <1>5, <1>7, <1>8 DEF IInv

LEMMA RestartKeeps == ASSUME IInv, Retry \/ Reclaim, TypeOK' PROVE IInv'
<1>1. /\ TypeOK /\ Opening /\ Questioned /\ Uniform
      /\ pc' = (IF replies = 0 THEN "received" ELSE "replied") /\ fresh' = {}
      /\ pc # "waiting"
      /\ UNCHANGED <<first, said, replies, reconciled>>
      /\ \/ snapshot' = snapshot /\ clarified' = clarified
         \/ snapshot' = Unread /\ clarified' = NoAnswers
  BY DEF Retry, Reclaim, Restart, InFlight, columns, emails, IInv
<1>2. replies \in 0..MaxReplies
  BY <1>1 DEF TypeOK
<1>3. Opening'
  BY <1>1, <1>2 DEF Opening, NoAnswers, Final
<1>4. Questioned'
  BY <1>1 DEF Questioned, NoAnswers
<1>5. Uniform'
  BY <1>1 DEF Uniform, OneName
<1>6. Carried' /\ AnswerIsPaid' /\ DropsAreAsked' /\ ChangesAreShown' /\ QuestionsAreOpen'
  BY <1>1 DEF Carried, AnswerIsPaid, DropsAreAsked, ChangesAreShown, QuestionsAreOpen
<1> QED
  BY <1>3, <1>4, <1>5, <1>6 DEF IInv

LEMMA NextIInv == IInv /\ [Next]_vars => IInv'
<1> SUFFICES ASSUME IInv, [Next]_vars PROVE IInv'
  OBVIOUS
<1>1. TypeOK'
  BY NextTypes DEF IInv
<1>2. ASSUME UNCHANGED vars PROVE IInv'
  BY <1>1, <1>2 DEF vars, IInv, Opening, Carried, Questioned, Uniform, AnswerIsPaid,
     DropsAreAsked, ChangesAreShown, QuestionsAreOpen, Outcome, OneName, Asked, Traceable
<1> QED
  BY <1>1, <1>2, FirstRunKeeps, ResumeUnaskedKeeps, ClassifyKeeps, ResumeAnsweredKeeps,
     RecordAskedKeeps, AskKeeps, ReplyKeeps, RestartKeeps DEF Next

LEMMA Inductive == Spec => []IInv
BY InitIInv, NextIInv, PTL DEF Spec

\* An approved payroll pays what the client's last answer said, whatever the model
\* read out of the joined sections (resume_pipeline(), backfill_extracted()).
THEOREM AnswersArePaid == Spec => []AnswerIsPaid
<1>1. IInv => AnswerIsPaid
  BY DEF IInv
<1> QED
  BY <1>1, Inductive, PTL

\* Hours that were once reported do not vanish unless the client was asked, as long
\* as the client keeps to one name (detect_field_regression() before decide()).
THEOREM NoSilentDrop == Spec => []DropsAreAsked
<1>1. IInv => DropsAreAsked
  BY DEF IInv
<1> QED
  BY <1>1, Inductive, PTL

\* While the client keeps to one name, paid hours that differ from the first report
\* are on the approval page as a change (detect_hours_changes() beside the gate).
THEOREM ChangesReachTheOperator == Spec => []ChangesAreShown
<1>1. IInv => ChangesAreShown
  BY DEF IInv
<1> QED
  BY <1>1, Inductive, PTL

\* A question is about a field without an answer: what is suppressed is exactly what
\* was answered in any round (suppress_detection of resume_pipeline()).
THEOREM NobodyIsAskedTwice == Spec => []QuestionsAreOpen
<1>1. IInv => QuestionsAreOpen
  BY DEF IInv
<1> QED
  BY <1>1, Inductive, PTL
===============================================================================
