------------------------------- MODULE Naming ---------------------------------
(***************************************************************************)
(* Who is paid under which name, and how a nickname is learned: the resolver *)
(* (app/pipeline/reconcile_names.py), the name rules of the gate             *)
(* (app/pipeline/decide.py), the capture of an unresolved name in clarify(), *)
(* its confirmation in resume_pipeline(), the operator's "remember" in       *)
(* app/db/repo/operator_resume_resolutions.py, and the write of              *)
(* employees.known_aliases after delivery (app/pipeline/alias_learning.py).  *)
(*                                                                           *)
(* An employee stands for their own full name; a Token is any other name.    *)
(* The client means one person by each token, on the roster or not, and the  *)
(* extraction reads the names as written.  A pass of the pipeline is one     *)
(* step: what may come between its commits is PayrollRun and ResumeMoney.    *)
(***************************************************************************)
EXTENDS Integers, FiniteSets

CONSTANTS Employee, Token, Run,
          Nobody,         \* nobody on the roster
          Rosters,        \* the known_aliases a business may start with
          MaxRounds,      \* MAX_CLARIFICATION_ROUNDS
          MaxDelivering,  \* confirmations whose post-send transactions overlap
          MaxFaults       \* bound on lost workers and failed alias writes

ASSUME NamingAssumption ==
    /\ Nobody \notin Employee /\ Employee \cap Token = {}
    /\ Rosters \subseteq [Employee -> SUBSET Token]
    /\ MaxRounds \in Nat /\ MaxDelivering \in Nat /\ MaxFaults \in Nat

VARIABLES means,       \* whom the client means by a token
          given,       \* the aliases the roster started with
          aliases,     \* employees.known_aliases
          worked,      \* the people a run's emails report on
          status,      \* where a run stands
          matches,     \* reconciliation: submitted name -> employee or Nobody
          round,       \* clarification_round
          suggested,   \* alias_candidates[token].suggested
          bound,       \* alias_candidates[token].bound
          captured,    \* the tokens alias_candidates has a record of
          overrides,   \* the operator's authoritative mapping
          remember,    \* the names the operator ticked "remember" for
          seen,        \* the roster a delivery's transaction read last
          own,         \* the aliases it has written and not committed
          todo,        \* the bound tokens it has not looked at
          faults

record == <<suggested, bound, captured>>
delivery == <<seen, own, todo>>
vars == <<means, given, aliases, worked, status, matches, round, record, overrides,
          remember, delivery, faults>>

Name == Employee \cup Token
NoMatch == [n \in {} |-> Nobody]
NoAliases == [e \in Employee |-> {}]
NoOne == [t \in Token |-> Nobody]

Init ==
    /\ means \in [Token -> Employee \cup {Nobody}]
    /\ given \in Rosters /\ aliases = given
    /\ worked = [r \in Run |-> {}] /\ status = [r \in Run |-> "new"]
    /\ matches = [r \in Run |-> NoMatch] /\ round = [r \in Run |-> 0]
    /\ suggested = [r \in Run |-> NoOne] /\ bound = [r \in Run |-> NoOne]
    /\ captured = [r \in Run |-> {}]
    /\ overrides = [r \in Run |-> NoOne] /\ remember = [r \in Run |-> {}]
    /\ seen = [r \in Run |-> NoAliases] /\ own = [r \in Run |-> NoAliases]
    /\ todo = [r \in Run |-> {}] /\ faults = 0

-------------------------------------------------------------------------------
(* The resolver and the gate *)

\* The person a submitted name stands for in the client's mind.
Person(n) == IF n \in Employee THEN n ELSE means[n]

\* The distinct employees a name reaches, by full name or by alias.
Candidates(n, roster) == {e \in Employee : n = e \/ n \in roster[e]}

\* Variant of Match: the full name wins, then any employee with the alias.
MatchFirst(n, roster) ==
    IF Candidates(n, roster) = {} THEN Nobody
    ELSE CHOOSE e \in Candidates(n, roster) : n \in Employee => e = n

\* deterministic_match(): unique across both tiers, or nobody.
Match(n, roster) ==
    IF \E e \in Employee : Candidates(n, roster) = {e}
    THEN CHOOSE e \in Employee : Candidates(n, roster) = {e} ELSE Nobody

\* reconcile_names(): the operator's word comes before the roster's.
Reconcile(names, roster, operator) ==
    [n \in names |-> IF n \in Token /\ operator[n] # Nobody THEN operator[n]
                     ELSE Match(n, roster)]

Unresolved(m) == {n \in DOMAIN m : m[n] = Nobody}

\* Variant of Collides: two resolved names may share an employee.
CollidesNever(m) == FALSE

\* check_one_to_one(): two submitted names, one employee.
Collides(m) == \E n, k \in DOMAIN m : n # k /\ m[n] = m[k] /\ m[n] # Nobody

\* decide(), the rules about names; hours may hold a run up all the same.
Processable(m) == DOMAIN m # {} /\ Unresolved(m) = {} /\ ~Collides(m)

\* clarify(): a lone unresolved name nobody on the roster carries is captured.
Capture(m, roster) ==
    {t \in Token : Unresolved(m) = {t} /\ Candidates(t, roster) = {}}

\* Variant of Evidence: the token is gone and the suggested employee may be anyone.
EvidenceByAbsence(t, e, m) == t \notin Unresolved(m)

\* bind_evidence_for_token(): one record, under the token or the full name,
\* resolved to the suggested employee.
Evidence(t, e, m) == \E n \in {t, e} \cap DOMAIN m : m[n] = e

-------------------------------------------------------------------------------
(* A pass: reconcile, decide, persist, and ask, escalate or wait for approval;  *)
(* then the pending candidates of before the pass are bound                      *)

MayAsk(n) == n < MaxRounds

\* The suggestion call may name anyone or fail.
Pass(r, names, pre, binding) ==
    LET m == Reconcile(names, aliases, overrides[r])
        new == Capture(m, aliases)
        hit == {t \in pre.captured : /\ pre.bound[t] = Nobody /\ pre.suggested[t] # Nobody
                                     /\ Evidence(t, pre.suggested[t], m)}
    IN \E clean \in BOOLEAN, asks \in [new -> Employee \cup {Nobody}] :
         LET process == Processable(m) /\ clean
             asking == ~process /\ MayAsk(pre.round)
             taken == IF asking THEN new ELSE {}
             binds == IF binding THEN hit ELSE {}
             \* The bind writes back every record it read, over a capture of this pass.
             kept == IF binds # {} THEN pre.captured ELSE pre.captured \ taken
         IN /\ matches' = [matches EXCEPT ![r] = m]
            /\ round' = [round EXCEPT ![r] = IF asking THEN pre.round + 1 ELSE pre.round]
            /\ captured' = [captured EXCEPT ![r] = pre.captured \cup taken]
            /\ suggested' = [suggested EXCEPT ![r] =
                 [t \in Token |-> IF t \in taken \ kept THEN asks[t] ELSE pre.suggested[t]]]
            /\ bound' = [bound EXCEPT ![r] =
                 [t \in Token |-> IF t \in binds THEN pre.suggested[t]
                                  ELSE IF t \in taken \ kept THEN Nobody ELSE pre.bound[t]]]
            /\ status' = [status EXCEPT ![r] = IF process THEN "approval"
                                               ELSE IF asking THEN "waiting" ELSE "operator"]

Stored(r) == [captured |-> captured[r], suggested |-> suggested[r], bound |-> bound[r],
              round |-> round[r]]

\* How the client may name these people: by full name or by a token, each once;
\* a person who is not on the roster only has tokens.
Namings(people) ==
    {names \in SUBSET Name :
        /\ \A n \in names : Person(n) \in people
        /\ \A p \in people : Cardinality({n \in names : Person(n) = p}) = 1}

\* The original email and its first pass.
Start(r) ==
    /\ status[r] = "new"
    /\ \E people \in SUBSET (Employee \cup {Nobody}) :
         /\ worked' = [worked EXCEPT ![r] = people]
         /\ \E names \in Namings(people) : Pass(r, names, Stored(r), FALSE)
    /\ UNCHANGED <<means, given, aliases, overrides, remember, delivery, faults>>

\* A reply names the same people again, or takes the stranger back; the joined
\* sections may keep the earlier names beside the new ones.  A field regression
\* ends the pass before the bind.
Reply(r) ==
    /\ status[r] = "waiting"
    /\ \E people \in {worked[r], worked[r] \ {Nobody}} :
         /\ worked' = [worked EXCEPT ![r] = people]
         /\ \E names \in Namings(people), binding \in BOOLEAN :
              \E read \in {names, names \cup {n \in DOMAIN matches[r] : Person(n) \in people}} :
                Pass(r, read, Stored(r), binding)
    /\ UNCHANGED <<means, given, aliases, overrides, remember, delivery, faults>>

-------------------------------------------------------------------------------
(* The operator *)

\* resolve(): every unresolved name gets the employee the client means.
Resolve(r) ==
    LET open == Unresolved(matches[r]) IN
    /\ status[r] = "operator" /\ overrides[r] = NoOne
    /\ open # {} /\ \A n \in open : means[n] \in Employee
    /\ overrides' = [overrides EXCEPT ![r] = [t \in Token |-> IF t \in open THEN means[t] ELSE Nobody]]
    /\ \E ticked \in SUBSET open : remember' = [remember EXCEPT ![r] = ticked]
    /\ status' = [status EXCEPT ![r] = "resolved"]
    /\ UNCHANGED <<means, given, aliases, worked, matches, round, record, delivery, faults>>

\* Variant of Prepared: the ticks are not projected.
PreparedNothing(r) == Stored(r)

\* prepare_authoritative_operator_resume(): remembered names are bound.
Prepared(r) ==
    [captured |-> captured[r] \cup remember[r],
     suggested |-> [t \in Token |-> IF t \in remember[r] THEN overrides[r][t] ELSE suggested[r][t]],
     bound |-> [t \in Token |-> IF t \in remember[r] THEN overrides[r][t] ELSE bound[r][t]],
     round |-> round[r]]

\* rewind_for_reclaim(): the reply context goes, the candidates with it.
Cleared == [captured |-> {}, suggested |-> NoOne, bound |-> NoOne, round |-> 0]

\* handle_operator_resume(): prepare, on a later attempt rewind, then resume.
OperatorResume(r) ==
    /\ \/ status[r] = "resolved" /\ Pass(r, DOMAIN matches[r], Prepared(r), TRUE)
       \/ status[r] = "lost" /\ Pass(r, DOMAIN matches[r], Cleared, TRUE)
    /\ UNCHANGED <<means, given, aliases, worked, overrides, remember, delivery, faults>>

\* The worker dies between the claim of the run and the end of the pass.
Crash(r) ==
    /\ status[r] = "resolved" /\ faults < MaxFaults
    /\ status' = [status EXCEPT ![r] = "lost"]
    /\ faults' = faults + 1
    /\ UNCHANGED <<means, given, aliases, worked, matches, round, record, overrides,
                   remember, delivery>>

-------------------------------------------------------------------------------
(* After the confirmation was sent *)

With(roster, more) == [e \in Employee |-> roster[e] \cup more[e]]
Gives(t, e) == [k \in Employee |-> IF k = e THEN {t} ELSE {}]

\* Variant of SafeToLearn: only a second entry on the same employee is refused.
SafeAlways(t, e, roster) == t \notin roster[e]

\* safe_to_learn_alias(): the token would reach this employee and nobody else.
SafeToLearn(t, e, roster) == Match(t, With(roster, Gives(t, e))) = e

\* _complete_confirmation_after_send(): the transaction reads the roster.
Begin(r) ==
    /\ status[r] = "approval"
    /\ Cardinality({k \in Run : status[k] = "sending"}) < MaxDelivering
    /\ status' = [status EXCEPT ![r] = "sending"]
    /\ seen' = [seen EXCEPT ![r] = aliases]
    /\ todo' = [todo EXCEPT ![r] = {t \in captured[r] : bound[r][t] # Nobody}]
    /\ UNCHANGED <<means, given, aliases, worked, matches, round, record, overrides,
                   remember, own, faults>>

\* write_aliases_if_safe(), one token: checked against the roster last read,
\* written with update_known_alias(), which waits for another writer of the row
\* and checks nothing but the row; then the roster is read again.
Learn(r, t) ==
    LET e == bound[r][t]
        learns == SafeToLearn(t, e, seen[r]) /\ t \notin aliases[e]
    IN  /\ status[r] = "sending" /\ t \in todo[r]
        /\ \A k \in Run \ {r} : learns => own[k][e] = {}
        /\ own' = [own EXCEPT ![r] = IF learns THEN With(@, Gives(t, e)) ELSE @]
        /\ seen' = [seen EXCEPT ![r] = IF learns THEN With(aliases, own'[r]) ELSE @]
        /\ todo' = [todo EXCEPT ![r] = @ \ {t}]
        /\ UNCHANGED <<means, given, aliases, worked, status, matches, round, record,
                       overrides, remember, faults>>

Commit(r) ==
    /\ status[r] = "sending" /\ todo[r] = {}
    /\ status' = [status EXCEPT ![r] = "reconciled"]
    /\ aliases' = With(aliases, own[r])
    /\ own' = [own EXCEPT ![r] = NoAliases] /\ seen' = [seen EXCEPT ![r] = NoAliases]
    /\ UNCHANGED <<means, given, worked, matches, round, record, overrides, remember,
                   todo, faults>>

\* An alias write that fails rolls the learning back; the payroll stays sent.
GiveUp(r) ==
    /\ status[r] = "sending" /\ todo[r] # {} /\ faults < MaxFaults
    /\ todo' = [todo EXCEPT ![r] = {}] /\ own' = [own EXCEPT ![r] = NoAliases]
    /\ faults' = faults + 1
    /\ UNCHANGED <<means, given, aliases, worked, status, matches, round, record,
                   overrides, remember, seen>>

Next ==
    \E r \in Run :
        \/ Start(r) \/ Reply(r)
        \/ Resolve(r) \/ OperatorResume(r) \/ Crash(r)
        \/ Begin(r) \/ Commit(r) \/ GiveUp(r)
        \/ \E t \in Token : Learn(r, t)

Spec == Init /\ [][Next]_vars
-------------------------------------------------------------------------------
(* Properties *)

\* Every variable keeps its type; a bound token has a record.
TypeOK ==
    /\ means \in [Token -> Employee \cup {Nobody}] /\ given \in Rosters
    /\ aliases \in [Employee -> SUBSET Token]
    /\ \A r \in Run :
         /\ worked[r] \subseteq Employee \cup {Nobody}
         /\ status[r] \in {"new", "waiting", "operator", "resolved", "lost", "approval",
                          "sending", "reconciled"}
         /\ DOMAIN matches[r] \subseteq Name
         /\ \A n \in DOMAIN matches[r] : matches[r][n] \in Employee \cup {Nobody}
         /\ round[r] \in 0..MaxRounds
         /\ suggested[r] \in [Token -> Employee \cup {Nobody}]
         /\ bound[r] \in [Token -> Employee \cup {Nobody}]
         /\ captured[r] \subseteq Token
         /\ \A t \in Token \ captured[r] : bound[r][t] = Nobody
         /\ overrides[r] \in [Token -> Employee \cup {Nobody}]
         /\ remember[r] \subseteq Token /\ todo[r] \subseteq captured[r]
         /\ seen[r] \in [Employee -> SUBSET Token] /\ own[r] \in [Employee -> SUBSET Token]
    /\ faults \in 0..MaxFaults

Paying == {"approval", "sending", "reconciled"}
KnownAs(t) == Candidates(t, aliases)
Learned(t, e) == t \in aliases[e] /\ t \notin given[e]

\* No employee is on one payroll twice, and nobody on it is unknown, whatever
\* aliases, confirmations and operator's choices came together.
PaidOnce ==
    \A r \in Run : status[r] \in Paying =>
        /\ DOMAIN matches[r] # {}
        /\ \A n, k \in DOMAIN matches[r] :
             matches[r][n] \in Employee /\ (matches[r][n] = matches[r][k] => n = k)

\* While every name the roster resolves is the client's name for that employee,
\* each name on a payroll is paid to the person the client meant.
RightPerson ==
    (\A t \in Token, e \in Employee : Match(t, aliases) = e => means[t] = e)
        => \A r \in Run : status[r] \in Paying =>
             \A n \in DOMAIN matches[r] : matches[r][n] = Person(n)

\* What was learned stays usable: a learned name reaches one employee only.
LearnedIsUnique ==
    \A t \in Token, e \in Employee : Learned(t, e) => KnownAs(t) = {e}

\* Nobody is given a name through a payroll they were not on.
LearnedFromItsPayroll ==
    \A t \in Token, e \in Employee : Learned(t, e) =>
        \E r \in Run : status[r] = "reconciled" /\ e \in worked[r] /\ bound[r][t] = e

\* The operator's "remember" is kept: after delivery the roster knows the name.
RememberedIsKnown ==
    \A r \in Run : status[r] = "reconciled" /\ faults = 0 =>
        \A t \in remember[r] : KnownAs(t) # {}

\* What alias_learning.py promises of its writes, "Learn only on CONFIRMATION":
\* a learned name is one the client uses for that employee.
LearnedWasMeant ==
    \A t \in Token, e \in Employee : Learned(t, e) => means[t] = e

\* RightPerson without its premise: what a wrongly learned name leads to.
AlwaysRightPerson ==
    \A r \in Run : status[r] \in Paying =>
        \A n \in DOMAIN matches[r] : matches[r][n] = Person(n)

\* RememberedIsKnown when a worker is lost: a payroll on its way still carries
\* what the operator ticked.
RememberedSurvives ==
    \A r \in Run : status[r] \in Paying =>
        \A t \in remember[r] : bound[r][t] = overrides[r][t]
===============================================================================
