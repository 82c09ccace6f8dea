----------------------------- MODULE NamingProofs -----------------------------
(***************************************************************************)
(* For any roster, names and payrolls: nobody is on one payroll twice and a  *)
(* learned name comes from a payroll of its owner, whatever deliveries        *)
(* overlap; a remembered name is known once delivered, when nothing is lost;  *)
(* a learned name is one employee's, and a name is paid to the person it      *)
(* stands for, when deliveries do not overlap.                                *)
(***************************************************************************)
EXTENDS Naming, FiniteSetTheorems, TLAPS

Phases == {"new", "waiting", "operator", "resolved", "lost", "approval", "sending",
           "reconciled"}

\* What PaidOnce needs of the types: a name is reconciled to an employee or to
\* Nobody, the operator's mapping included.
Shape ==
    /\ means \in [Token -> Employee \cup {Nobody}]
    /\ status \in [Run -> Phases]
    /\ matches = [r \in Run |-> matches[r]]
    /\ overrides \in [Run -> [Token -> Employee \cup {Nobody}]]

\* A payroll that is paid keeps the reconciliation its gate let through.
IInv == Shape /\ PaidOnce

\* The resolver answers with an employee or with Nobody.
LEMMA MatchIsSomebody ==
    ASSUME NEW n, NEW roster
    PROVE  Match(n, roster) \in Employee \cup {Nobody}
BY DEF Match, Candidates

\* So does the reconciliation, the operator's choices included.
LEMMA ReconcileIsSomebody ==
    ASSUME NEW names, NEW roster, NEW chosen \in [Token -> Employee \cup {Nobody}]
    PROVE  /\ DOMAIN Reconcile(names, roster, chosen) = names
           /\ \A n \in names : Reconcile(names, roster, chosen)[n] \in Employee \cup {Nobody}
BY MatchIsSomebody DEF Reconcile

\* A reconciliation the gate accepts pays every name to an employee of its own.
LEMMA GatePaysOnce ==
    ASSUME NEW m, \A n \in DOMAIN m : m[n] \in Employee \cup {Nobody}, Processable(m)
    PROVE  /\ DOMAIN m # {}
           /\ \A n, k \in DOMAIN m : m[n] \in Employee /\ (m[n] = m[k] => n = k)
<1>1. \A n \in DOMAIN m : m[n] \in Employee /\ m[n] # Nobody
  BY DEF Processable, Unresolved
<1>2. \A n, k \in DOMAIN m : m[n] = m[k] => n = k
  BY <1>1 DEF Processable, Collides
<1>3. DOMAIN m # {}
  BY DEF Processable
<1> QED
  BY <1>1, <1>2, <1>3

\* A pass reaches "approval" through the gate only, and touches one run.
LEMMA PassKeeps ==
    ASSUME NEW r \in Run, NEW names, NEW pre, NEW binding,
           Shape, PaidOnce, Pass(r, names, pre, binding),
           UNCHANGED <<means, overrides>>
    PROVE  Shape' /\ PaidOnce'
<1> DEFINE m == Reconcile(names, aliases, overrides[r])
<1>1. matches' = [matches EXCEPT ![r] = m]
  BY DEF Pass
<1>2. PICK new : /\ status' = [status EXCEPT ![r] = new]
                 /\ new \in {"approval", "waiting", "operator"}
                 /\ new = "approval" => Processable(m)
  BY DEF Pass
<1>3. Shape'
  BY <1>1, <1>2 DEF Shape, Phases
<1>4. \A n \in DOMAIN m : m[n] \in Employee \cup {Nobody}
  BY ReconcileIsSomebody DEF Shape
<1>5. ASSUME NEW k \in Run, status'[k] \in Paying
      PROVE  /\ DOMAIN matches'[k] # {}
             /\ \A n, j \in DOMAIN matches'[k] :
                  matches'[k][n] \in Employee /\ (matches'[k][n] = matches'[k][j] => n = j)
  <2>1. CASE k = r
    <3>1. matches'[k] = m
      BY <1>1, <2>1 DEF Shape
    <3>2. status'[k] = new
      BY <1>2, <2>1 DEF Shape
    <3>3. Processable(m)
      BY <3>2, <1>2, <1>5 DEF Paying
    <3> QED
      BY <3>1, <3>3, <1>4, GatePaysOnce
  <2>2. CASE k # r
    <3>1. matches'[k] = matches[k] /\ status'[k] = status[k]
      BY <1>1, <1>2, <2>2 DEF Shape
    <3> QED
      BY <3>1, <1>5 DEF PaidOnce
  <2> QED
    BY <2>1, <2>2
<1> QED
  BY <1>3, <1>5 DEF PaidOnce

\* A step that moves a run on its way, and no reconciliation, keeps the invariant.
LEMMA MoveKeeps ==
    ASSUME NEW r \in Run, NEW new \in Phases, Shape, PaidOnce,
           new \in Paying => status[r] \in Paying,
           status' = [status EXCEPT ![r] = new],
           UNCHANGED <<means, matches, overrides>>
    PROVE  Shape' /\ PaidOnce'
<1>1. Shape'
  BY DEF Shape
<1>2. \A k \in Run : status'[k] \in Paying => status[k] \in Paying
  BY DEF Shape
<1> QED
  BY <1>1, <1>2 DEF PaidOnce

LEMMA InitIInv == Init => IInv
BY DEF Init, IInv, Shape, PaidOnce, Paying, Phases, NoOne

LEMMA NextIInv == IInv /\ [Next]_vars => IInv'
<1> SUFFICES ASSUME IInv, [Next]_vars PROVE Shape' /\ PaidOnce'
  BY DEF IInv
<1>0. Shape /\ PaidOnce
  BY DEF IInv
<1>1. ASSUME NEW r \in Run, Start(r) \/ Reply(r) PROVE Shape' /\ PaidOnce'
  <2>1. PICK names, pre, binding : Pass(r, names, pre, binding)
    BY <1>1 DEF Start, Reply
  <2>2. UNCHANGED <<means, overrides>>
    BY <1>1 DEF Start, Reply
  <2> QED
    BY <2>1, <2>2, <1>0, PassKeeps
<1>2. ASSUME NEW r \in Run, OperatorResume(r) PROVE Shape' /\ PaidOnce'
  <2>1. PICK names, pre : Pass(r, names, pre, TRUE)
    BY <1>2 DEF OperatorResume
  <2>2. UNCHANGED <<means, overrides>>
    BY <1>2 DEF OperatorResume
  <2> QED
    BY <2>1, <2>2, <1>0, PassKeeps
<1>3. ASSUME NEW r \in Run, Resolve(r) PROVE Shape' /\ PaidOnce'
  <2> DEFINE chosen == [t \in Token |->
                IF t \in Unresolved(matches[r]) THEN means[t] ELSE Nobody]
  <2>1. /\ overrides' = [overrides EXCEPT ![r] = chosen]
        /\ status' = [status EXCEPT ![r] = "resolved"]
        /\ UNCHANGED <<means, matches>>
    BY <1>3 DEF Resolve
  <2>2. chosen \in [Token -> Employee \cup {Nobody}]
    BY <1>0 DEF Shape
  <2> HIDE DEF chosen
  <2>3. Shape'
    BY <2>1, <2>2, <1>0 DEF Shape, Phases
  <2>4. \A k \in Run : status'[k] \in Paying => status[k] \in Paying
    BY <2>1, <1>0 DEF Shape, Paying
  <2> QED
    BY <2>1, <2>3, <2>4, <1>0 DEF PaidOnce
<1>4. ASSUME NEW r \in Run, Crash(r) \/ Begin(r) \/ Commit(r) PROVE Shape' /\ PaidOnce'
  <2>1. UNCHANGED <<means, matches, overrides>>
    BY <1>4 DEF Crash, Begin, Commit
  <2>2. PICK new \in {"lost", "sending", "reconciled"} :
          /\ status' = [status EXCEPT ![r] = new]
          /\ new \in Paying => status[r] \in Paying
    BY <1>4 DEF Crash, Begin, Commit, Paying
  <2>3. new \in Phases
    BY <2>2 DEF Phases
  <2> QED
    BY <2>1, <2>2, <2>3, <1>0, MoveKeeps
<1>5. ASSUME NEW r \in Run, GiveUp(r) \/ \E t \in Token : Learn(r, t)
      PROVE  Shape' /\ PaidOnce'
  <2>1. UNCHANGED <<means, status, matches, overrides>>
    BY <1>5 DEF GiveUp, Learn
  <2> QED
    BY <2>1, <1>0 DEF Shape, PaidOnce
<1>6. CASE UNCHANGED vars
  BY <1>6, <1>0 DEF vars, Shape, PaidOnce
<1> QED
  BY <1>1, <1>2, <1>3, <1>4, <1>5, <1>6 DEF Next

\* No employee is paid under two names of one payroll and nobody unknown is paid,
\* whatever the roster knows, the confirmations bound, or the operator chose
\* (check_one_to_one() and decide() at every pass of the pipeline).
THEOREM NobodyIsPaidTwice == Spec => []PaidOnce
<1>1. IInv => PaidOnce
  BY DEF IInv
<1> QED
  BY <1>1, InitIInv, NextIInv, PTL DEF Spec
-------------------------------------------------------------------------------
(* The types *)

Choice == Employee \cup {Nobody}

\* TypeOK with whole functions, and nothing to learn outside a delivery.
Columns ==
    /\ aliases \in [Employee -> SUBSET Token] /\ given \in Rosters
    /\ worked \in [Run -> SUBSET Choice]
    /\ \A r \in Run : /\ DOMAIN matches[r] \subseteq Name
                      /\ \A n \in DOMAIN matches[r] :
                           matches[r][n] \in Choice /\ (n \in Employee => matches[r][n] = n)
    /\ round \in [Run -> 0..MaxRounds]
    /\ suggested \in [Run -> [Token -> Choice]] /\ bound \in [Run -> [Token -> Choice]]
    /\ captured \in [Run -> SUBSET Token]
    /\ \A r \in Run : \A t \in Token \ captured[r] : bound[r][t] = Nobody
    /\ remember \in [Run -> SUBSET Token] /\ todo \in [Run -> SUBSET Token]
    /\ \A r \in Run : /\ todo[r] \subseteq captured[r]
                      /\ status[r] # "sending" => todo[r] = {}
    /\ seen \in [Run -> [Employee -> SUBSET Token]]
    /\ own \in [Run -> [Employee -> SUBSET Token]]
    /\ faults \in 0..MaxFaults

\* A full name on the roster is the employee's, whatever the aliases are.
LEMMA FullNamesMatch ==
    ASSUME NEW names, NEW roster \in [Employee -> SUBSET Token], NEW chosen,
           NEW n \in names, n \in Employee
    PROVE  Reconcile(names, roster, chosen)[n] = n
<1>1. n \notin Token
  BY NamingAssumption
<1>2. Candidates(n, roster) = {n}
  BY <1>1 DEF Candidates
<1>3. \A e \in Employee : Candidates(n, roster) = {e} <=> e = n
  BY <1>2
<1>4. Match(n, roster) = n
  BY <1>3 DEF Match
<1> QED
  BY <1>1, <1>4 DEF Reconcile

LEMMA InitColumns == Init => Columns
<1> SUFFICES ASSUME Init PROVE Columns
  OBVIOUS
<1>1. aliases \in [Employee -> SUBSET Token] /\ given \in Rosters
  BY NamingAssumption DEF Init
<1>2. \A r \in Run : DOMAIN matches[r] = {}
  BY DEF Init, NoMatch
<1>3. 0 \in 0..MaxRounds /\ 0 \in 0..MaxFaults
  BY NamingAssumption
<1> QED
  BY <1>1, <1>2, <1>3 DEF Init, Columns, NoOne, NoAliases, Choice

\* What a pass may start from: the stored columns, the operator's projection, or the
\* cleared context.
Startable(pre) ==
    /\ pre.captured \subseteq Token /\ pre.round \in 0..MaxRounds
    /\ pre.suggested \in [Token -> Choice] /\ pre.bound \in [Token -> Choice]
    /\ \A t \in Token \ pre.captured : pre.bound[t] = Nobody

LEMMA StartsAreStartable ==
    ASSUME Shape, Columns, NEW r \in Run
    PROVE  /\ Startable(Stored(r))
           /\ Startable(Prepared(r)) /\ Startable(Cleared)
<1>1. Startable(Stored(r))
  BY DEF Columns, Startable, Stored
<1>2. overrides[r] \in [Token -> Choice]
  BY DEF Shape, Choice
<1>3. Startable(Prepared(r))
  BY <1>2 DEF Columns, Startable, Prepared
<1>4. 0 \in 0..MaxRounds
  BY NamingAssumption
<1>5. Startable(Cleared)
  BY <1>4 DEF Startable, Cleared, NoOne, Choice
<1> QED
  BY <1>1, <1>3, <1>5

LEMMA PassColumns ==
    ASSUME Shape, Columns, NEW r \in Run, NEW names \in SUBSET Name, NEW pre, Startable(pre),
           NEW binding \in BOOLEAN, Pass(r, names, pre, binding), todo[r] = {},
           worked' \in [Run -> SUBSET Choice],
           UNCHANGED <<means, given, aliases, overrides, remember, delivery, faults>>
    PROVE  Columns'
<1> DEFINE m == Reconcile(names, aliases, overrides[r])
           new == Capture(m, aliases)
           hit == {t \in pre.captured : /\ pre.bound[t] = Nobody /\ pre.suggested[t] # Nobody
                                        /\ Evidence(t, pre.suggested[t], m)}
<1>0. overrides[r] \in [Token -> Choice]
  BY DEF Shape, Choice
<1>1. /\ DOMAIN m = names
      /\ \A x \in DOMAIN m : m[x] \in Choice /\ (x \in Employee => m[x] = x)
  BY <1>0, ReconcileIsSomebody, FullNamesMatch DEF Choice, Columns
<1>2. new \subseteq Token
  BY DEF Capture
<1>3. PICK clean \in BOOLEAN, asks \in [new -> Choice] :
        LET process == Processable(m) /\ clean
            asking == ~process /\ MayAsk(pre.round)
            taken == IF asking THEN new ELSE {}
            binds == IF binding THEN hit ELSE {}
            kept == IF binds # {} THEN pre.captured ELSE pre.captured \ taken
        IN /\ matches' = [matches EXCEPT ![r] = m]
           /\ round' = [round EXCEPT ![r] = IF asking THEN pre.round + 1 ELSE pre.round]
           /\ captured' = [captured EXCEPT ![r] = pre.captured \cup taken]
           /\ suggested' = [suggested EXCEPT ![r] =
                [t \in Token |-> IF t \in taken \ kept THEN asks[t] ELSE pre.suggested[t]]]
           /\ bound' = [bound EXCEPT ![r] =
                [t \in Token |-> IF t \in binds THEN pre.suggested[t]
                                 ELSE IF t \in taken \ kept THEN Nobody ELSE pre.bound[t]]]
           /\ status' = [status EXCEPT ![r] = IF process THEN "approval"
                                              ELSE IF asking THEN "waiting" ELSE "operator"]
  BY Zenon DEF Pass, Choice
<1> HIDE DEF m, new, hit
<1> DEFINE process == Processable(m) /\ clean
           asking == ~process /\ MayAsk(pre.round)
           taken == IF asking THEN new ELSE {}
           binds == IF binding THEN hit ELSE {}
           kept == IF binds # {} THEN pre.captured ELSE pre.captured \ taken
           S == [t \in Token |-> IF t \in taken \ kept THEN asks[t] ELSE pre.suggested[t]]
           B == [t \in Token |-> IF t \in binds THEN pre.suggested[t]
                                 ELSE IF t \in taken \ kept THEN Nobody ELSE pre.bound[t]]
           n == IF asking THEN pre.round + 1 ELSE pre.round
           c == pre.captured \cup taken
<1>4. /\ matches' = [matches EXCEPT ![r] = m] /\ round' = [round EXCEPT ![r] = n]
      /\ captured' = [captured EXCEPT ![r] = c]
      /\ suggested' = [suggested EXCEPT ![r] = S] /\ bound' = [bound EXCEPT ![r] = B]
  BY <1>3
<1>5. taken \subseteq new /\ taken \subseteq Token /\ hit \subseteq pre.captured
  BY <1>2 DEF hit
<1>6. n \in 0..MaxRounds
  BY NamingAssumption DEF Startable, MayAsk
<1>7. c \subseteq Token
  BY <1>5 DEF Startable
<1>8. S \in [Token -> Choice] /\ B \in [Token -> Choice]
  BY <1>5 DEF Startable, Choice
<1>9. \A t \in Token \ c : B[t] = Nobody
  BY <1>5 DEF Startable
<1>10. \A k \in Run : status'[k] # "sending" => todo'[k] = {}
  BY <1>3 DEF Columns, Shape, delivery
<1> HIDE DEF process, asking, taken, binds, kept, S, B, n, c
<1>11. \A k \in Run : /\ DOMAIN matches'[k] \subseteq Name
                      /\ \A x \in DOMAIN matches'[k] :
                           matches'[k][x] \in Choice /\ (x \in Employee => matches'[k][x] = x)
  BY <1>1, <1>4 DEF Columns, Shape
<1>12. /\ round' \in [Run -> 0..MaxRounds] /\ captured' \in [Run -> SUBSET Token]
       /\ suggested' \in [Run -> [Token -> Choice]] /\ bound' \in [Run -> [Token -> Choice]]
  BY <1>4, <1>6, <1>7, <1>8 DEF Columns
<1>13. \A k \in Run : \A t \in Token \ captured'[k] : bound'[k][t] = Nobody
  BY <1>4, <1>9 DEF Columns
<1>14. \A k \in Run : todo'[k] \subseteq captured'[k]
  BY <1>4 DEF Columns, delivery
<1> QED
  BY <1>10, <1>11, <1>12, <1>13, <1>14 DEF Columns, delivery

LEMMA NextColumns == IInv /\ Columns /\ [Next]_vars => Columns'
<1> SUFFICES ASSUME IInv, Columns, [Next]_vars PROVE Columns'
  OBVIOUS
<1>0. Shape
  BY DEF IInv
<1>1. ASSUME NEW r \in Run, Start(r) PROVE Columns'
  <2>1. PICK people \in SUBSET Choice :
          /\ worked' = [worked EXCEPT ![r] = people]
          /\ \E names \in Namings(people) : Pass(r, names, Stored(r), FALSE)
    BY <1>1 DEF Start, Choice
  <2>2. PICK names \in Namings(people) : Pass(r, names, Stored(r), FALSE)
    BY <2>1
  <2>3. names \in SUBSET Name /\ worked' \in [Run -> SUBSET Choice]
    BY <2>1, <2>2 DEF Namings, Columns
  <2>4. UNCHANGED <<means, given, aliases, overrides, remember, delivery, faults>>
    BY <1>1 DEF Start
  <2>5. todo[r] = {}
    BY <1>1 DEF Start, Columns
  <2> QED
    BY <1>0, <2>2, <2>3, <2>4, <2>5, StartsAreStartable, PassColumns
<1>2. ASSUME NEW r \in Run, Reply(r) PROVE Columns'
  <2>1. PICK people \in {worked[r], worked[r] \ {Nobody}} :
          /\ worked' = [worked EXCEPT ![r] = people]
          /\ \E names \in Namings(people), binding \in BOOLEAN :
               \E read \in {names, names \cup {n \in DOMAIN matches[r] : Person(n) \in people}} :
                 Pass(r, read, Stored(r), binding)
    BY <1>2 DEF Reply
  <2>2. PICK names \in Namings(people), binding \in BOOLEAN :
          \E read \in {names, names \cup {n \in DOMAIN matches[r] : Person(n) \in people}} :
            Pass(r, read, Stored(r), binding)
    BY <2>1
  <2>3. PICK read \in {names, names \cup {n \in DOMAIN matches[r] : Person(n) \in people}} :
          Pass(r, read, Stored(r), binding)
    BY <2>2
  <2>4. read \in SUBSET Name
    BY <2>2 DEF Namings, Columns
  <2>5. worked' \in [Run -> SUBSET Choice]
    BY <2>1 DEF Columns
  <2>6. UNCHANGED <<means, given, aliases, overrides, remember, delivery, faults>>
    BY <1>2 DEF Reply
  <2>7. todo[r] = {}
    BY <1>2 DEF Reply, Columns
  <2> QED
    BY <1>0, <2>2, <2>3, <2>4, <2>5, <2>6, <2>7, StartsAreStartable, PassColumns
<1>3. ASSUME NEW r \in Run, OperatorResume(r) PROVE Columns'
  <2>1. /\ UNCHANGED <<means, given, aliases, worked, overrides, remember, delivery, faults>>
        /\ todo[r] = {}
    BY <1>3 DEF OperatorResume, Columns
  <2>2. DOMAIN matches[r] \in SUBSET Name /\ worked' \in [Run -> SUBSET Choice]
    BY <2>1 DEF Columns
  <2>3. PICK pre \in {Prepared(r), Cleared} : Pass(r, DOMAIN matches[r], pre, TRUE)
    BY <1>3 DEF OperatorResume
  <2>4. Startable(pre)
    BY <1>0, StartsAreStartable
  <2> QED
    BY <1>0, <2>1, <2>2, <2>3, <2>4, PassColumns
<1>4. ASSUME NEW r \in Run, Resolve(r) PROVE Columns'
  <2>1. /\ UNCHANGED <<given, aliases, worked, matches, round, record, delivery, faults>>
        /\ status' = [status EXCEPT ![r] = "resolved"]
        /\ status[r] = "operator"
    BY <1>4 DEF Resolve
  <2>2. remember' \in [Run -> SUBSET Token]
    <3>1. PICK ticked \in SUBSET Unresolved(matches[r]) : remember' = [remember EXCEPT ![r] = ticked]
      BY <1>4 DEF Resolve
    <3>2. Unresolved(matches[r]) \subseteq Token
      <4>1. \A n \in Unresolved(matches[r]) : n \in Name /\ n \notin Employee
        BY NamingAssumption DEF Columns, Unresolved
      <4> QED
        BY <4>1 DEF Name
    <3> QED
      BY <3>1, <3>2 DEF Columns
  <2>3. \A k \in Run : status'[k] # "sending" => todo[k] = {}
    BY <2>1, <1>0 DEF Columns, Shape
  <2> QED
    BY <2>1, <2>2, <2>3 DEF Columns, record, delivery
<1>5. ASSUME NEW r \in Run, Crash(r) PROVE Columns'
  <2>1. faults' \in 0..MaxFaults
    BY <1>5, NamingAssumption DEF Crash, Columns
  <2>2. \A k \in Run : status'[k] # "sending" => todo[k] = {}
    BY <1>5, <1>0 DEF Crash, Columns, Shape
  <2> QED
    BY <1>5, <2>1, <2>2 DEF Crash, Columns, record, delivery
<1>6. ASSUME NEW r \in Run, Begin(r) PROVE Columns'
  <2>1. /\ seen' = [seen EXCEPT ![r] = aliases]
        /\ todo' = [todo EXCEPT ![r] = {t \in captured[r] : bound[r][t] # Nobody}]
        /\ status' = [status EXCEPT ![r] = "sending"]
        /\ UNCHANGED <<given, aliases, worked, matches, round, record, remember, own, faults>>
    BY <1>6 DEF Begin
  <2>2. todo' \in [Run -> SUBSET Token] /\ seen' \in [Run -> [Employee -> SUBSET Token]]
    BY <2>1 DEF Columns
  <2>3. \A k \in Run : /\ todo'[k] \subseteq captured[k]
                       /\ status'[k] # "sending" => todo'[k] = {}
    BY <2>1, <1>0 DEF Columns, Shape
  <2> QED
    BY <2>1, <2>2, <2>3 DEF Columns, record
<1>7. ASSUME NEW r \in Run, NEW t \in Token, Learn(r, t) PROVE Columns'
  <2> DEFINE e == bound[r][t]
  <2>1. PICK x \in {own[r], With(own[r], Gives(t, e))} : own' = [own EXCEPT ![r] = x]
    BY <1>7, Zenon DEF Learn
  <2>2. x \in [Employee -> SUBSET Token]
    BY <2>1 DEF Columns, Gives, With
  <2>3. own' \in [Run -> [Employee -> SUBSET Token]]
    BY <2>1, <2>2 DEF Columns
  <2>4. seen' \in [Run -> [Employee -> SUBSET Token]]
    <3>1. PICK y \in {seen[r], With(aliases, own'[r])} : seen' = [seen EXCEPT ![r] = y]
      BY <1>7, Zenon DEF Learn
    <3>2. y \in [Employee -> SUBSET Token]
      BY <2>3, <3>1 DEF Columns, With
    <3> QED
      BY <3>1, <3>2 DEF Columns
  <2>5. /\ todo' = [todo EXCEPT ![r] = @ \ {t}] /\ status[r] = "sending"
        /\ UNCHANGED <<given, aliases, worked, status, matches, round, record, remember, faults>>
    BY <1>7 DEF Learn
  <2> QED
    BY <2>3, <2>4, <2>5 DEF Columns, record
<1>8. ASSUME NEW r \in Run, Commit(r) PROVE Columns'
  <2>1. aliases' \in [Employee -> SUBSET Token]
    BY <1>8 DEF Commit, With, Columns
  <2>2. /\ own' \in [Run -> [Employee -> SUBSET Token]]
        /\ seen' \in [Run -> [Employee -> SUBSET Token]]
    BY <1>8 DEF Commit, NoAliases, Columns
  <2>3. \A k \in Run : status'[k] # "sending" => todo[k] = {}
    BY <1>8, <1>0 DEF Commit, Columns, Shape
  <2> QED
    BY <1>8, <2>1, <2>2, <2>3 DEF Commit, Columns, record
<1>9. ASSUME NEW r \in Run, GiveUp(r) PROVE Columns'
  <2>1. faults' \in 0..MaxFaults
    BY <1>9, NamingAssumption DEF GiveUp, Columns
  <2>2. /\ own' \in [Run -> [Employee -> SUBSET Token]] /\ todo' \in [Run -> SUBSET Token]
    BY <1>9 DEF GiveUp, NoAliases, Columns
  <2> QED
    BY <1>9, <2>1, <2>2 DEF GiveUp, Columns, record
<1>10. CASE UNCHANGED vars
  BY <1>10 DEF vars, record, delivery, Columns
<1> QED
  BY <1>1, <1>2, <1>3, <1>4, <1>5, <1>6, <1>7, <1>8, <1>9, <1>10 DEF Next

\* The columns of a payroll and the roster keep their domains, a bound token always has
\* a record (alias_candidates), and no question is asked beyond the cap.
THEOREM NamingTypes == Spec => []TypeOK
<1>1. IInv /\ Columns => TypeOK
  BY DEF IInv, Columns, Shape, Phases, Choice, TypeOK
<1>2. Init => IInv /\ Columns
  BY InitIInv, InitColumns
<1>3. IInv /\ Columns /\ [Next]_vars => IInv' /\ Columns'
  BY NextIInv, NextColumns
<1> QED
  BY <1>1, <1>2, <1>3, PTL DEF Spec
-------------------------------------------------------------------------------
(* What is learned *)

\* One post-send transaction at a time; what it wrote and has not committed reaches
\* one employee in the roster it will leave.
Alone == \A r, k \in Run : status[r] = "sending" /\ status[k] = "sending" => r = k

Writing ==
    \A r \in Run :
        /\ status[r] # "sending" => own[r] = NoAliases
        /\ todo[r] # {} => seen[r] = With(aliases, own[r])
        /\ \A t \in Token, e \in Employee :
             t \in own[r][e] => Candidates(t, With(aliases, own[r])) = {e}

LearnInv == Alone /\ Writing /\ LearnedIsUnique

LEMMA InitLearn == Init => LearnInv
<1> SUFFICES ASSUME Init PROVE LearnInv
  OBVIOUS
<1>1. Alone /\ Writing
  BY DEF Init, Alone, Writing, NoAliases
<1>2. LearnedIsUnique
  BY DEF Init, LearnedIsUnique, Learned
<1> QED
  BY <1>1, <1>2 DEF LearnInv

\* A step outside the deliveries, or one that begins none and writes nothing.
LEMMA QuietLearns ==
    ASSUME LearnInv, UNCHANGED <<given, aliases, seen, own>>,
           \A r \in Run : todo'[r] \subseteq todo[r] /\ (status'[r] = "sending" <=> status[r] = "sending")
    PROVE  LearnInv'
<1>1. Alone'
  BY DEF LearnInv, Alone
<1>2. Writing'
  BY DEF LearnInv, Writing, With, Candidates
<1>3. LearnedIsUnique'
  BY DEF LearnInv, LearnedIsUnique, Learned, KnownAs, Candidates
<1> QED
  BY <1>1, <1>2, <1>3 DEF LearnInv

\* safe_to_learn_alias() accepts a name that then reaches this employee alone.
LEMMA SafeReachesOne ==
    ASSUME NEW t, NEW e \in Employee, NEW roster, SafeToLearn(t, e, roster)
    PROVE  Candidates(t, With(roster, Gives(t, e))) = {e}
<1> DEFINE C == Candidates(t, With(roster, Gives(t, e)))
<1>1. (IF \E x \in Employee : C = {x} THEN CHOOSE x \in Employee : C = {x} ELSE Nobody) = e
  BY DEF SafeToLearn, Match
<1> HIDE DEF C
<1>2. \E x \in Employee : C = {x}
  BY <1>1, NamingAssumption
<1>3. C = {CHOOSE x \in Employee : C = {x}}
  BY <1>2
<1>4. C = {e}
  BY <1>1, <1>2, <1>3
<1> QED
  BY <1>4 DEF C

\* One name learned, against a roster that is the one this transaction will leave.
LEMMA LearnLearns ==
    ASSUME LearnInv, Columns, NEW r \in Run, NEW t \in Token, Learn(r, t)
    PROVE  LearnInv'
<1> DEFINE e == bound[r][t]
           learns == SafeToLearn(t, e, seen[r]) /\ t \notin aliases[e]
<1>1. /\ UNCHANGED <<status, given, aliases>>
      /\ todo' = [todo EXCEPT ![r] = todo[r] \ {t}]
      /\ own' = [own EXCEPT ![r] = IF learns THEN With(own[r], Gives(t, e)) ELSE own[r]]
      /\ seen' = [seen EXCEPT ![r] = IF learns THEN With(aliases, own'[r]) ELSE seen[r]]
      /\ status[r] = "sending" /\ t \in todo[r]
  BY Zenon DEF Learn
<1>2. Alone' /\ LearnedIsUnique'
  BY <1>1 DEF LearnInv, Alone, LearnedIsUnique, Learned, KnownAs, Candidates
<1>3. \A k \in Run : todo'[k] # {} => todo[k] # {}
  BY <1>1 DEF Columns
<1>4. ASSUME ~learns PROVE LearnInv'
  <2>1. own' = own /\ seen' = seen
    BY <1>1, <1>4 DEF Columns
  <2> QED
    BY <1>1, <2>1, QuietLearns DEF Columns
<1>5. ASSUME learns, e \in Employee PROVE Writing'
  <2>1. /\ own'[r] = With(own[r], Gives(t, e)) /\ seen'[r] = With(aliases, own'[r])
        /\ \A k \in Run \ {r} : own'[k] = own[k] /\ seen'[k] = seen[k]
    BY <1>1, <1>5 DEF Columns
  <2>2. /\ own[r] \in [Employee -> SUBSET Token] /\ aliases \in [Employee -> SUBSET Token]
        /\ seen[r] = With(aliases, own[r])
    BY <1>1 DEF Columns, LearnInv, Writing
  <2>3. \A x \in Employee : /\ own'[r][x] = own[r][x] \cup (IF x = e THEN {t} ELSE {})
                            /\ With(aliases, own'[r])[x] = aliases[x] \cup own'[r][x]
                            /\ With(aliases, own[r])[x] = aliases[x] \cup own[r][x]
                            /\ With(seen[r], Gives(t, e))[x]
                                 = seen[r][x] \cup (IF x = e THEN {t} ELSE {})
    BY <2>1, <2>2 DEF With, Gives
  <2>4. Candidates(t, With(aliases, own'[r])) = Candidates(t, With(seen[r], Gives(t, e)))
    BY <2>2, <2>3 DEF Candidates
  <2>5. Candidates(t, With(aliases, own'[r])) = {e}
    BY <1>5, <2>4, SafeReachesOne
  <2>6. \A u \in Token : u # t => Candidates(u, With(aliases, own'[r]))
                                    = Candidates(u, With(aliases, own[r]))
    BY <2>3 DEF Candidates
  <2>7. ASSUME NEW u \in Token, NEW x \in Employee, u \in own'[r][x]
        PROVE  Candidates(u, With(aliases, own'[r])) = {x}
    <3>1. CASE u # t
      <4>1. u \in own[r][x]
        BY <2>3, <2>7, <3>1
      <4>2. Candidates(u, With(aliases, own[r])) = {x}
        BY <4>1 DEF LearnInv, Writing
      <4> QED
        BY <2>6, <3>1, <4>2
    <3>2. CASE u = t
      <4>1. x \in Candidates(t, With(aliases, own'[r]))
        BY <2>3, <2>7, <3>2 DEF Candidates
      <4> QED
        BY <2>5, <3>2, <4>1
    <3> QED
      BY <3>1, <3>2
  <2>8. ASSUME NEW k \in Run
        PROVE  /\ status[k] # "sending" => own'[k] = NoAliases
               /\ todo'[k] # {} => seen'[k] = With(aliases, own'[k])
               /\ \A u \in Token, x \in Employee :
                    u \in own'[k][x] => Candidates(u, With(aliases, own'[k])) = {x}
    <3>1. CASE k = r
      BY <1>1, <2>1, <2>7, <3>1
    <3>2. CASE k # r
      BY <1>3, <2>1, <3>2 DEF LearnInv, Writing
    <3> QED
      BY <3>1, <3>2
  <2>9. \A k \in Run : With(aliases', own'[k]) = With(aliases, own'[k]) /\ status'[k] = status[k]
    BY <1>1
  <2>10. \A k \in Run : /\ status'[k] # "sending" => own'[k] = NoAliases
                        /\ todo'[k] # {} => seen'[k] = With(aliases', own'[k])
                        /\ \A u \in Token, x \in Employee :
                             u \in own'[k][x] => Candidates(u, With(aliases', own'[k])) = {x}
    BY <2>8, <2>9
  <2> QED
    BY <2>10 DEF Writing, NoAliases, With, Candidates
<1>6. ASSUME learns, e \notin Employee PROVE LearnInv'
  <2>1. own[r] \in [Employee -> SUBSET Token] /\ seen[r] = With(aliases, own[r])
    BY <1>1 DEF Columns, LearnInv, Writing
  <2>2. With(own[r], Gives(t, e)) = own[r]
    BY <1>6, <2>1 DEF With, Gives
  <2>3. own' = own
    BY <1>1, <2>2 DEF Columns
  <2>4. seen' = seen
    BY <1>1, <2>1, <2>3 DEF Columns
  <2> QED
    BY <1>1, <2>3, <2>4, QuietLearns DEF Columns
<1> QED
  BY <1>2, <1>4, <1>5, <1>6 DEF LearnInv

\* The transaction commits what it wrote, and nobody else has written.
LEMMA CommitLearns ==
    ASSUME LearnInv, Columns, Shape, NEW r \in Run, Commit(r) PROVE LearnInv'
<1>1. /\ status' = [status EXCEPT ![r] = "reconciled"] /\ aliases' = With(aliases, own[r])
      /\ own' = [own EXCEPT ![r] = NoAliases] /\ UNCHANGED <<given, todo>>
      /\ seen' = [seen EXCEPT ![r] = NoAliases]
      /\ status[r] = "sending" /\ todo[r] = {}
  BY DEF Commit
<1>2. \A k \in Run : status'[k] = "sending" => k # r /\ status[k] = "sending"
  BY <1>1 DEF Shape
<1>3. \A k \in Run : status'[k] # "sending"
  BY <1>1, <1>2 DEF LearnInv, Alone
<1>4. \A k \in Run : own'[k] = NoAliases /\ todo'[k] = {}
  BY <1>1, <1>3 DEF LearnInv, Alone, Writing, Columns
<1>5. Alone' /\ Writing'
  BY <1>3, <1>4 DEF Alone, Writing, NoAliases
<1>6. LearnedIsUnique'
  <2> SUFFICES ASSUME NEW t \in Token, NEW e \in Employee, t \in aliases'[e], t \notin given[e]
               PROVE  Candidates(t, aliases') = {e}
    BY <1>1 DEF LearnedIsUnique, Learned, KnownAs
  <2>1. \A x \in Employee : aliases'[x] = aliases[x] \cup own[r][x]
    BY <1>1 DEF With
  <2>2. \A x \in Employee : t \in own[r][x] => Candidates(t, aliases') = {x}
    BY <1>1 DEF LearnInv, Writing
  <2>3. CASE t \in own[r][e]
    BY <2>2, <2>3
  <2>4. CASE t \notin own[r][e]
    <3>1. Candidates(t, aliases) = {e}
      BY <2>1, <2>4 DEF LearnInv, LearnedIsUnique, Learned, KnownAs
    <3>2. \A x \in Employee : t \notin own[r][x]
      <4> SUFFICES ASSUME NEW x \in Employee, t \in own[r][x] PROVE FALSE
        OBVIOUS
      <4>1. Candidates(t, aliases') = {x} /\ e \in Candidates(t, aliases')
        BY <2>2 DEF Candidates
      <4> QED
        BY <2>4, <4>1
    <3> QED
      BY <2>1, <3>1, <3>2 DEF Candidates
  <2> QED
    BY <2>3, <2>4
<1> QED
  BY <1>5, <1>6 DEF LearnInv

LEMMA NextLearn ==
    ASSUME MaxDelivering = 1, IsFiniteSet(Run)
    PROVE  IInv /\ Columns /\ LearnInv /\ [Next]_vars => LearnInv'
<1> SUFFICES ASSUME IInv, Columns, LearnInv, [Next]_vars PROVE LearnInv'
  OBVIOUS
<1>0. Shape
  BY DEF IInv
<1>1. ASSUME NEW r \in Run, Start(r) \/ Reply(r) \/ OperatorResume(r) PROVE LearnInv'
  <2>1. UNCHANGED <<given, aliases, seen, own, todo>>
    BY <1>1 DEF Start, Reply, OperatorResume, delivery
  <2>2. PICK names, pre, binding : Pass(r, names, pre, binding)
    BY <1>1 DEF Start, Reply, OperatorResume
  <2>3. PICK new \in {"approval", "waiting", "operator"} : status' = [status EXCEPT ![r] = new]
    BY <2>2 DEF Pass
  <2>4. status[r] # "sending"
    BY <1>1 DEF Start, Reply, OperatorResume
  <2>5. \A k \in Run : status'[k] = "sending" <=> status[k] = "sending"
    BY <1>0, <2>3, <2>4 DEF Shape
  <2> QED
    BY <2>1, <2>5, QuietLearns
<1>2. ASSUME NEW r \in Run, Resolve(r) \/ Crash(r) PROVE LearnInv'
  <2>1. UNCHANGED <<given, aliases, seen, own, todo>>
    BY <1>2 DEF Resolve, Crash, delivery
  <2>2. \A k \in Run : status'[k] = "sending" <=> status[k] = "sending"
    BY <1>0, <1>2 DEF Resolve, Crash, Shape
  <2> QED
    BY <2>1, <2>2, QuietLearns
<1>3. ASSUME NEW r \in Run, Begin(r) PROVE LearnInv'
  <2> DEFINE sending == {k \in Run : status[k] = "sending"}
  <2>1. sending = {}
    <3>1. IsFiniteSet(sending)
      BY FS_Subset
    <3>2. Cardinality(sending) < 1
      BY <1>3 DEF Begin
    <3> QED
      BY <3>1, <3>2, FS_CardinalityType, FS_EmptySet
  <2>2. /\ status' = [status EXCEPT ![r] = "sending"] /\ seen' = [seen EXCEPT ![r] = aliases]
        /\ UNCHANGED <<given, aliases, own>>
        /\ todo' = [todo EXCEPT ![r] = {t \in captured[r] : bound[r][t] # Nobody}]
    BY <1>3 DEF Begin
  <2>3. Alone'
    BY <1>0, <2>1, <2>2 DEF Alone, Shape
  <2>4. \A k \in Run : own[k] = NoAliases /\ todo[k] = {}
    BY <2>1 DEF LearnInv, Writing, Columns
  <2>5. With(aliases, NoAliases) = aliases
    BY DEF With, NoAliases, Columns
  <2>6. \A k \in Run : todo'[k] # {} => seen'[k] = With(aliases, own'[k])
    BY <2>2, <2>4, <2>5 DEF Columns
  <2>7. Writing'
    BY <2>2, <2>4, <2>6 DEF Writing, NoAliases
  <2>8. LearnedIsUnique'
    BY <2>2 DEF LearnInv, LearnedIsUnique, Learned, KnownAs, Candidates
  <2> QED
    BY <2>3, <2>7, <2>8 DEF LearnInv
<1>4. ASSUME NEW r \in Run, GiveUp(r) PROVE LearnInv'
  <2>1. /\ todo' = [todo EXCEPT ![r] = {}] /\ own' = [own EXCEPT ![r] = NoAliases]
        /\ UNCHANGED <<given, aliases, status, seen>>
    BY <1>4 DEF GiveUp
  <2>2. Alone' /\ LearnedIsUnique'
    BY <2>1 DEF LearnInv, Alone, LearnedIsUnique, Learned, KnownAs, Candidates
  <2>3. ASSUME NEW k \in Run
        PROVE  /\ status'[k] # "sending" => own'[k] = NoAliases
               /\ todo'[k] # {} => seen'[k] = With(aliases', own'[k])
               /\ \A u \in Token, x \in Employee :
                    u \in own'[k][x] => Candidates(u, With(aliases', own'[k])) = {x}
    <3>1. CASE k = r
      <4>1. own'[k] = NoAliases /\ todo'[k] = {}
        BY <2>1, <3>1 DEF Columns
      <4> QED
        BY <4>1 DEF NoAliases
    <3>2. CASE k # r
      <4>1. /\ own'[k] = own[k] /\ todo'[k] = todo[k] /\ seen'[k] = seen[k]
            /\ status'[k] = status[k]
        BY <2>1, <3>2 DEF Columns
      <4>2. With(aliases', own'[k]) = With(aliases, own[k])
        BY <2>1, <4>1
      <4> QED
        BY <4>1, <4>2 DEF LearnInv, Writing
    <3> QED
      BY <3>1, <3>2
  <2>4. Writing'
    BY <2>3 DEF Writing, NoAliases, With, Candidates
  <2> QED
    BY <2>2, <2>4 DEF LearnInv
<1>5. CASE UNCHANGED vars
  BY <1>5, QuietLearns DEF vars, delivery
<1> QED
  BY <1>0, <1>1, <1>2, <1>3, <1>4, <1>5, LearnLearns, CommitLearns DEF Next

\* While the post-send transactions of a business do not overlap, a name that was
\* learned reaches one employee (write_aliases_if_safe() reads the roster again after
\* each write).  With two of them the code does not have this.
THEOREM LearnedNamesReachOne ==
    ASSUME MaxDelivering = 1, IsFiniteSet(Run)
    PROVE  Spec => []LearnedIsUnique
<1>1. LearnInv => LearnedIsUnique
  BY DEF LearnInv
<1>2. Init => IInv /\ Columns /\ LearnInv
  BY InitIInv, InitColumns, InitLearn
<1>3. IInv /\ Columns /\ LearnInv /\ [Next]_vars => IInv' /\ Columns' /\ LearnInv'
  BY NextIInv, NextColumns, NextLearn
<1> QED
  BY <1>1, <1>2, <1>3, PTL DEF Spec

-------------------------------------------------------------------------------
(* Who is paid under a name *)

\* A name on a payroll is paid to whom the roster still says it reaches, unless the
\* operator said whom the client means.
StandsFor ==
    /\ \A r \in Run, t \in Token : overrides[r][t] \in {Nobody, means[t]}
    /\ \A r \in Run : \A n \in DOMAIN matches[r] :
         \/ matches[r][n] \in {Nobody, Match(n, aliases)}
         \/ n \in Token /\ matches[r][n] = means[n]

LEMMA InitStands == Init => StandsFor
BY DEF Init, StandsFor, NoOne, NoMatch

\* A pass asks the roster of the moment.
LEMMA PassStands ==
    ASSUME Shape, StandsFor, NEW r \in Run, NEW names, NEW pre, NEW binding,
           Pass(r, names, pre, binding), UNCHANGED <<means, aliases, overrides>>
    PROVE  StandsFor'
<1> DEFINE m == Reconcile(names, aliases, overrides[r])
<1>1. matches' = [matches EXCEPT ![r] = m]
  BY DEF Pass
<1>2. \A n \in DOMAIN m : \/ m[n] \in {Nobody, Match(n, aliases)}
                          \/ n \in Token /\ m[n] = means[n]
  BY DEF Reconcile, StandsFor
<1>3. \A k \in Run : matches'[k] = IF k = r THEN m ELSE matches[k]
  BY <1>1 DEF Shape
<1> HIDE DEF m
<1>4. \A k \in Run : \A n \in DOMAIN matches'[k] :
         \/ matches'[k][n] \in {Nobody, Match(n, aliases)}
         \/ n \in Token /\ matches'[k][n] = means[n]
  BY <1>2, <1>3 DEF StandsFor
<1>5. \A k \in Run, t \in Token : overrides'[k][t] \in {Nobody, means'[t]}
  BY DEF StandsFor
<1>6. aliases' = aliases /\ means' = means
  OBVIOUS
<1> QED
  BY <1>4, <1>5, <1>6 DEF StandsFor, Match, Candidates

\* A step that writes no reconciliation, over the same roster.
LEMMA QuietStands ==
    ASSUME StandsFor, UNCHANGED <<means, aliases, matches, overrides>>
    PROVE  StandsFor'
BY DEF StandsFor, Match, Candidates

\* What one delivery learned takes no name from the employee it reached before.
LEMMA LearnedKeepsMatch ==
    ASSUME Columns, LearnInv, NEW r \in Run, NEW n \in Name,
           Match(n, aliases) # Nobody
    PROVE  Match(n, With(aliases, own[r])) = Match(n, aliases)
<1> DEFINE later == With(aliases, own[r])
<1>1. PICK x \in Employee : Candidates(n, aliases) = {x}
  BY DEF Match
<1>2. \A e \in Employee : later[e] = aliases[e] \cup own[r][e]
  BY DEF With
<1>3. x \in Candidates(n, later)
  BY <1>1, <1>2 DEF Candidates
<1>4. ASSUME NEW e \in Employee, n \in own[r][e] PROVE Candidates(n, later) = {e}
  <2>1. n \in Token
    BY <1>4 DEF Columns
  <2> QED
    BY <1>4, <2>1 DEF LearnInv, Writing
<1>5. \A e \in Candidates(n, later) : e \in Candidates(n, aliases) \/ n \in own[r][e]
  BY <1>2 DEF Candidates
<1>6. Candidates(n, later) \subseteq Employee
  BY DEF Candidates
<1> HIDE DEF later
<1>7. Candidates(n, later) = {x}
  BY <1>1, <1>3, <1>4, <1>5, <1>6
<1> QED
  BY <1>1, <1>7 DEF later, Match

LEMMA NextStands == IInv /\ Columns /\ LearnInv /\ StandsFor /\ [Next]_vars => StandsFor'
<1> SUFFICES ASSUME Shape, Columns, LearnInv, StandsFor, [Next]_vars PROVE StandsFor'
  BY DEF IInv
<1>1. ASSUME NEW r \in Run, Start(r) \/ Reply(r) \/ OperatorResume(r) PROVE StandsFor'
  <2>1. PICK names, pre, binding : Pass(r, names, pre, binding)
    BY <1>1 DEF Start, Reply, OperatorResume
  <2>2. UNCHANGED <<means, aliases, overrides>>
    BY <1>1 DEF Start, Reply, OperatorResume
  <2> QED
    BY <2>1, <2>2, PassStands
<1>2. ASSUME NEW r \in Run, Resolve(r) PROVE StandsFor'
  <2> DEFINE chosen == [t \in Token |->
                IF t \in Unresolved(matches[r]) THEN means[t] ELSE Nobody]
  <2>1. overrides' = [overrides EXCEPT ![r] = chosen] /\ UNCHANGED <<means, aliases, matches>>
    BY <1>2 DEF Resolve
  <2>2. \A k \in Run, t \in Token : overrides'[k][t] \in {Nobody, means[t]}
    BY <2>1 DEF StandsFor, Shape
  <2> QED
    BY <2>1, <2>2 DEF StandsFor, Match, Candidates
<1>3. ASSUME NEW r \in Run,
             Crash(r) \/ Begin(r) \/ GiveUp(r) \/ \E t \in Token : Learn(r, t)
      PROVE  StandsFor'
  <2>1. UNCHANGED <<means, aliases, matches, overrides>>
    BY <1>3 DEF Crash, Begin, GiveUp, Learn
  <2> QED
    BY <2>1, QuietStands
<1>4. ASSUME NEW r \in Run, Commit(r) PROVE StandsFor'
  <2>1. aliases' = With(aliases, own[r]) /\ UNCHANGED <<means, matches, overrides>>
    BY <1>4 DEF Commit
  <2>2. ASSUME NEW k \in Run, NEW n \in DOMAIN matches[k]
        PROVE  \/ matches[k][n] \in {Nobody, Match(n, aliases')}
               \/ n \in Token /\ matches[k][n] = means[n]
    <3>1. n \in Name
      BY DEF Columns
    <3>2. Match(n, aliases) # Nobody => Match(n, aliases') = Match(n, aliases)
      BY <2>1, <3>1, LearnedKeepsMatch
    <3> QED
      BY <3>2 DEF StandsFor
  <2> QED
    BY <2>1, <2>2 DEF StandsFor, Match, Candidates
<1>5. CASE UNCHANGED vars
  BY <1>5, QuietStands DEF vars
<1> QED
  BY <1>1, <1>2, <1>3, <1>4, <1>5 DEF Next

\* Under the same condition, while the roster's names are the client's names for its
\* people, every name on a payroll is paid to the person the client means, learned
\* names and the operator's choices included (reconcile_names(), write_aliases_if_safe()).
THEOREM TheRightPersonIsPaid ==
    ASSUME MaxDelivering = 1, IsFiniteSet(Run)
    PROVE  Spec => []RightPerson
<1>1. IInv /\ Columns /\ StandsFor => RightPerson
  <2> SUFFICES ASSUME IInv, Columns, StandsFor,
                      \A t \in Token, e \in Employee : Match(t, aliases) = e => means[t] = e,
                      NEW r \in Run, status[r] \in Paying, NEW n \in DOMAIN matches[r]
               PROVE  matches[r][n] = Person(n)
    BY DEF RightPerson
  <2>1. n \in Name /\ matches[r][n] \in Employee
    BY DEF IInv, PaidOnce, Columns
  <2>2. CASE n \in Employee
    BY <2>2 DEF Columns, Person
  <2>3. CASE n \notin Employee
    BY <2>1, <2>3, NamingAssumption DEF StandsFor, Person, Name
  <2> QED
    BY <2>2, <2>3
<1>2. Init => IInv /\ Columns /\ LearnInv /\ StandsFor
  BY InitIInv, InitColumns, InitLearn, InitStands
<1>3. IInv /\ Columns /\ LearnInv /\ StandsFor /\ [Next]_vars
      => IInv' /\ Columns' /\ LearnInv' /\ StandsFor'
  BY NextIInv, NextColumns, NextLearn, NextStands
<1> QED
  BY <1>1, <1>2, <1>3, PTL DEF Spec

-------------------------------------------------------------------------------
(* Where a learned name comes from, and what becomes of a remembered one *)

\* What a pass does to the records of its run: one is left as it was, cleared if its
\* name is unresolved, or bound on the evidence of the pass's own reconciliation.
Binding(r, names, pre, binding) ==
    LET m == Reconcile(names, aliases, overrides[r]) IN
    /\ matches' = [matches EXCEPT ![r] = m]
    /\ pre.captured \subseteq captured'[r]
    /\ \A k \in Run : k # r => bound'[k] = bound[k] /\ captured'[k] = captured[k]
    /\ \A t \in Token :
         \/ bound'[r][t] = pre.bound[t]
         \/ bound'[r][t] = Nobody /\ t \in Unresolved(m)
         \/ binding /\ pre.bound[t] = Nobody /\ Evidence(t, bound'[r][t], m)
    /\ \E new \in {"approval", "waiting", "operator"} : status' = [status EXCEPT ![r] = new]

LEMMA PassBinds ==
    ASSUME Shape, Columns, NEW r \in Run, NEW names \in SUBSET Name, NEW pre, Startable(pre),
           NEW binding \in BOOLEAN, Pass(r, names, pre, binding)
    PROVE  Binding(r, names, pre, binding)
<1> DEFINE m == Reconcile(names, aliases, overrides[r])
           new == Capture(m, aliases)
           hit == {t \in pre.captured : /\ pre.bound[t] = Nobody /\ pre.suggested[t] # Nobody
                                        /\ Evidence(t, pre.suggested[t], m)}
<1>1. PICK clean \in BOOLEAN, asks \in [new -> Choice] :
        LET process == Processable(m) /\ clean
            asking == ~process /\ MayAsk(pre.round)
            taken == IF asking THEN new ELSE {}
            binds == IF binding THEN hit ELSE {}
            kept == IF binds # {} THEN pre.captured ELSE pre.captured \ taken
        IN /\ matches' = [matches EXCEPT ![r] = m]
           /\ round' = [round EXCEPT ![r] = IF asking THEN pre.round + 1 ELSE pre.round]
           /\ captured' = [captured EXCEPT ![r] = pre.captured \cup taken]
           /\ suggested' = [suggested EXCEPT ![r] =
                [t \in Token |-> IF t \in taken \ kept THEN asks[t] ELSE pre.suggested[t]]]
           /\ bound' = [bound EXCEPT ![r] =
                [t \in Token |-> IF t \in binds THEN pre.suggested[t]
                                 ELSE IF t \in taken \ kept THEN Nobody ELSE pre.bound[t]]]
           /\ status' = [status EXCEPT ![r] = IF process THEN "approval"
                                              ELSE IF asking THEN "waiting" ELSE "operator"]
  BY Zenon DEF Pass, Choice
<1>2. \A t \in new : t \in Unresolved(m)
  BY DEF Capture
<1> HIDE DEF m, new
<1> DEFINE process == Processable(m) /\ clean
           asking == ~process /\ MayAsk(pre.round)
           taken == IF asking THEN new ELSE {}
           binds == IF binding THEN hit ELSE {}
           kept == IF binds # {} THEN pre.captured ELSE pre.captured \ taken
           B == [t \in Token |-> IF t \in binds THEN pre.suggested[t]
                                 ELSE IF t \in taken \ kept THEN Nobody ELSE pre.bound[t]]
<1>3. /\ matches' = [matches EXCEPT ![r] = m]
      /\ captured' = [captured EXCEPT ![r] = pre.captured \cup taken]
      /\ bound' = [bound EXCEPT ![r] = B]
  BY <1>1
<1>4. \A t \in Token :
        \/ B[t] = pre.bound[t]
        \/ B[t] = Nobody /\ t \in Unresolved(m)
        \/ binding /\ pre.bound[t] = Nobody /\ Evidence(t, B[t], m)
  BY <1>2
<1>5. \E s \in {"approval", "waiting", "operator"} : status' = [status EXCEPT ![r] = s]
  BY <1>1
<1> HIDE DEF B, taken, process, asking, binds, kept, hit
<1>6. bound'[r] = B /\ captured'[r] = pre.captured \cup taken
  BY <1>3 DEF Columns
<1>7. \A k \in Run : k # r => bound'[k] = bound[k] /\ captured'[k] = captured[k]
  BY <1>3 DEF Columns
<1> QED
  BY <1>3, <1>4, <1>5, <1>6, <1>7 DEF m, Binding

\* Evidence for an employee is their own name, the client's name for them, or an alias
\* the roster has by now.
LEMMA EvidenceNames ==
    ASSUME NEW roster, NEW names, NEW chosen, NEW t \in Token, NEW e \in Employee,
           Evidence(t, e, Reconcile(names, roster, chosen)),
           chosen[t] \in {Nobody, means[t]}
    PROVE  \/ e \in names
           \/ t \in names /\ means[t] = e
           \/ t \in roster[e]
<1>1. PICK n \in {t, e} \cap names : Reconcile(names, roster, chosen)[n] = e
  BY DEF Evidence, Reconcile
<1>2. CASE n = t /\ n # e
  <2>1. e # Nobody
    BY NamingAssumption
  <2>2. CASE chosen[t] # Nobody
    BY <1>1, <1>2, <2>2 DEF Reconcile
  <2>3. CASE chosen[t] = Nobody
    <3>1. Match(t, roster) = e
      BY <1>1, <1>2, <2>3 DEF Reconcile
    <3>2. e \in Candidates(t, roster)
      BY <2>1, <3>1 DEF Match
    <3> QED
      BY <1>2, <3>2 DEF Candidates
  <2> QED
    BY <2>2, <2>3
<1>3. CASE n = e
  BY <1>1, <1>3
<1> QED
  BY <1>1, <1>2, <1>3

\* The names of a payroll are those of the people it is for; who a record is bound to is
\* among them, or was already known by that name; what a delivery writes, it has bound.
Sourced ==
    /\ \A r \in Run, t \in Token : overrides[r][t] \in {Nobody, means[t]}
    /\ \A r \in Run : \A n \in DOMAIN matches[r] : Person(n) \in worked[r]
    /\ \A r \in Run, t \in Token, e \in Employee :
         bound[r][t] = e => e \in worked[r] \/ t \in aliases[e]
    /\ \A r \in Run : \A t \in remember[r] : overrides[r][t] \in Employee /\ overrides[r][t] \in worked[r]
    /\ \A r \in Run : status[r] = "new" =>
         remember[r] = {} /\ \A t \in Token : bound[r][t] = Nobody
    /\ \A r \in Run, e \in Employee : \A t \in own[r][e] :
         status[r] = "sending" /\ bound[r][t] = e /\ e \in worked[r]
    /\ LearnedFromItsPayroll

LEMMA InitSourced == Init => Sourced
<1> SUFFICES ASSUME Init PROVE Sourced
  OBVIOUS
<1>1. \A r \in Run : /\ overrides[r] = NoOne /\ bound[r] = NoOne /\ matches[r] = NoMatch
                     /\ remember[r] = {} /\ own[r] = NoAliases
  BY DEF Init
<1>2. LearnedFromItsPayroll
  BY DEF Init, LearnedFromItsPayroll, Learned
<1>3. Nobody \notin Employee
  BY NamingAssumption
<1> QED
  BY <1>1, <1>2, <1>3 DEF Sourced, NoOne, NoMatch, NoAliases

\* What a pass is given: names of the run's people, and records that are sourced.
Supplied(r, names, pre, people) ==
    /\ \A n \in names : Person(n) \in people
    /\ \A t \in remember[r] : overrides[r][t] \in people
    /\ \A t \in Token, e \in Employee : pre.bound[t] = e => e \in people \/ t \in aliases[e]

LEMMA PassSourced ==
    ASSUME Shape, Columns, Sourced, NEW r \in Run, NEW names \in SUBSET Name,
           NEW pre, Startable(pre), NEW binding \in BOOLEAN, NEW people \in SUBSET Choice,
           Pass(r, names, pre, binding), worked' = [worked EXCEPT ![r] = people],
           UNCHANGED <<means, given, aliases, overrides, remember, own>>,
           status[r] \notin {"sending", "reconciled"}, Supplied(r, names, pre, people)
    PROVE  Sourced'
<1> DEFINE m == Reconcile(names, aliases, overrides[r])
<1>0. Nobody \notin Employee /\ Employee \cap Token = {}
  BY NamingAssumption
<1>b. Binding(r, names, pre, binding)
  BY PassBinds
<1>1. /\ matches' = [matches EXCEPT ![r] = m]
      /\ \A k \in Run : k # r => bound'[k] = bound[k]
      /\ \A t \in Token :
           \/ bound'[r][t] = pre.bound[t]
           \/ bound'[r][t] = Nobody
           \/ Evidence(t, bound'[r][t], m)
  BY <1>b DEF Binding
<1>2. PICK new \in {"approval", "waiting", "operator"} : status' = [status EXCEPT ![r] = new]
  BY <1>b DEF Binding
<1>3. \A k \in Run : /\ worked'[k] = IF k = r THEN people ELSE worked[k]
                     /\ status'[k] = IF k = r THEN new ELSE status[k]
                     /\ matches'[k] = IF k = r THEN m ELSE matches[k]
  BY <1>1, <1>2 DEF Columns, Shape
<1>4. DOMAIN m = names
  BY DEF Reconcile
<1>5. \A k \in Run : \A n \in DOMAIN matches'[k] : Person(n)' \in worked'[k]
  BY <1>3, <1>4 DEF Sourced, Person, Supplied
<1>6. ASSUME NEW t \in Token, NEW e \in Employee, bound'[r][t] = e
      PROVE  e \in people \/ t \in aliases[e]
  <2>1. CASE bound'[r][t] = pre.bound[t]
    BY <1>6, <2>1 DEF Supplied
  <2>2. CASE Evidence(t, e, m)
    <3>1. overrides[r][t] \in {Nobody, means[t]}
      BY DEF Sourced
    <3>2. CASE e \in names
      BY <3>2 DEF Person, Supplied
    <3>3. CASE t \in names /\ means[t] = e
      BY <1>0, <3>3 DEF Person, Supplied
    <3> QED
      BY <2>2, <3>1, <3>2, <3>3, EvidenceNames
  <2> QED
    BY <1>0, <1>1, <1>6, <2>1, <2>2
<1>7. \A k \in Run, t \in Token, e \in Employee :
         bound'[k][t] = e => e \in worked'[k] \/ t \in aliases'[e]
  BY <1>1, <1>3, <1>6 DEF Sourced
<1>8. \A k \in Run : \A t \in remember'[k] : overrides'[k][t] \in Employee /\ overrides'[k][t] \in worked'[k]
  BY <1>3 DEF Sourced, Supplied
<1>9. \A k \in Run : status'[k] = "new" =>
         remember'[k] = {} /\ \A t \in Token : bound'[k][t] = Nobody
  BY <1>1, <1>3 DEF Sourced
<1>10. \A k \in Run, e \in Employee : \A t \in own'[k][e] :
         status'[k] = "sending" /\ bound'[k][t] = e /\ e \in worked'[k]
  BY <1>1, <1>3 DEF Sourced
<1>11. LearnedFromItsPayroll'
  BY <1>1, <1>3 DEF Sourced, LearnedFromItsPayroll, Learned
<1>12. \A k \in Run, t \in Token : overrides'[k][t] \in {Nobody, means'[t]}
  BY DEF Sourced
<1> QED
  BY <1>5, <1>7, <1>8, <1>9, <1>10, <1>11, <1>12 DEF Sourced

LEMMA NextSourced == IInv /\ Columns /\ Sourced /\ [Next]_vars => Sourced'
<1> SUFFICES ASSUME Shape, Columns, Sourced, [Next]_vars PROVE Sourced'
  BY DEF IInv
<1>0. Nobody \notin Employee /\ Employee \cap Token = {}
  BY NamingAssumption
<1>1. ASSUME NEW r \in Run, Start(r) PROVE Sourced'
  <2>1. PICK people \in SUBSET Choice :
          /\ worked' = [worked EXCEPT ![r] = people]
          /\ \E names \in Namings(people) : Pass(r, names, Stored(r), FALSE)
    BY <1>1 DEF Start, Choice
  <2>2. PICK names \in Namings(people) : Pass(r, names, Stored(r), FALSE)
    BY <2>1
  <2>3. names \in SUBSET Name /\ \A n \in names : Person(n) \in people
    BY <2>2 DEF Namings
  <2>4. UNCHANGED <<means, given, aliases, overrides, remember, own>>
    BY <1>1 DEF Start, delivery
  <2>5. status[r] = "new"
    BY <1>1 DEF Start
  <2>6. remember[r] = {} /\ \A t \in Token : Stored(r).bound[t] = Nobody
    BY <2>5 DEF Sourced, Stored
  <2>7. Supplied(r, names, Stored(r), people)
    BY <1>0, <2>3, <2>6 DEF Supplied
  <2> QED
    BY <2>1, <2>2, <2>3, <2>4, <2>5, <2>7, StartsAreStartable, PassSourced
<1>2. ASSUME NEW r \in Run, Reply(r) PROVE Sourced'
  <2>1. PICK people \in {worked[r], worked[r] \ {Nobody}} :
          /\ worked' = [worked EXCEPT ![r] = people]
          /\ \E names \in Namings(people), binding \in BOOLEAN :
               \E read \in {names, names \cup {n \in DOMAIN matches[r] : Person(n) \in people}} :
                 Pass(r, read, Stored(r), binding)
    BY <1>2 DEF Reply
  <2>2. PICK names \in Namings(people), binding \in BOOLEAN :
          \E read \in {names, names \cup {n \in DOMAIN matches[r] : Person(n) \in people}} :
            Pass(r, read, Stored(r), binding)
    BY <2>1
  <2>3. PICK read \in {names, names \cup {n \in DOMAIN matches[r] : Person(n) \in people}} :
          Pass(r, read, Stored(r), binding)
    BY <2>2
  <2>4. read \in SUBSET Name /\ \A n \in read : Person(n) \in people
    BY <2>2 DEF Namings, Columns
  <2>5. people \in SUBSET Choice
    BY <2>1 DEF Columns
  <2>6. UNCHANGED <<means, given, aliases, overrides, remember, own>>
    BY <1>2 DEF Reply, delivery
  <2>7. status[r] \notin {"sending", "reconciled"}
    BY <1>2 DEF Reply
  <2>8. \A t \in remember[r] : overrides[r][t] \in people
    BY <1>0, <2>1 DEF Sourced
  <2>9. \A t \in Token, e \in Employee : Stored(r).bound[t] = e => e \in people \/ t \in aliases[e]
    BY <1>0, <2>1 DEF Sourced, Stored
  <2>10. Supplied(r, read, Stored(r), people)
    BY <2>4, <2>8, <2>9 DEF Supplied
  <2> QED
    BY <2>1, <2>2, <2>3, <2>4, <2>5, <2>6, <2>7, <2>10, StartsAreStartable, PassSourced
<1>3. ASSUME NEW r \in Run, OperatorResume(r) PROVE Sourced'
  <2>1. /\ UNCHANGED <<means, given, aliases, overrides, remember, own>>
        /\ worked' = [worked EXCEPT ![r] = worked[r]]
        /\ status[r] \notin {"sending", "reconciled"}
    BY <1>3 DEF OperatorResume, Columns, delivery
  <2>2. /\ DOMAIN matches[r] \in SUBSET Name /\ worked[r] \in SUBSET Choice
        /\ \A n \in DOMAIN matches[r] : Person(n) \in worked[r]
    BY DEF Columns, Sourced
  <2>3. PICK pre \in {Prepared(r), Cleared} : Pass(r, DOMAIN matches[r], pre, TRUE)
    BY <1>3 DEF OperatorResume
  <2>4. Startable(pre)
    BY StartsAreStartable
  <2>5. \A t \in remember[r] : overrides[r][t] \in worked[r]
    BY DEF Sourced
  <2>6. \A t \in Token, e \in Employee : pre.bound[t] = e => e \in worked[r] \/ t \in aliases[e]
    <3>1. CASE pre = Prepared(r)
      BY <2>5, <3>1 DEF Prepared, Sourced
    <3>2. CASE pre = Cleared
      BY <1>0, <3>2 DEF Cleared, NoOne
    <3> QED
      BY <2>3, <3>1, <3>2
  <2>7. Supplied(r, DOMAIN matches[r], pre, worked[r])
    BY <2>2, <2>5, <2>6 DEF Supplied
  <2> QED
    BY <2>1, <2>2, <2>3, <2>4, <2>7, PassSourced
<1>4. ASSUME NEW r \in Run, Resolve(r) PROVE Sourced'
  <2> DEFINE open == Unresolved(matches[r])
             chosen == [t \in Token |-> IF t \in open THEN means[t] ELSE Nobody]
  <2>1. /\ overrides' = [overrides EXCEPT ![r] = chosen]
        /\ status' = [status EXCEPT ![r] = "resolved"] /\ status[r] = "operator"
        /\ \A n \in open : means[n] \in Employee
        /\ UNCHANGED <<means, given, aliases, worked, matches, bound, own>>
    BY <1>4 DEF Resolve, record, delivery
  <2>2. PICK ticked \in SUBSET open : remember' = [remember EXCEPT ![r] = ticked]
    BY <1>4 DEF Resolve
  <2>3. open \subseteq Token
    <3>1. \A n \in open : n \in Name /\ n \notin Employee
      BY <1>0 DEF Columns, Unresolved
    <3> QED
      BY <3>1 DEF Name
  <2>4. \A t \in open : t \in DOMAIN matches[r]
    BY DEF Unresolved
  <2> HIDE DEF open
  <2>5. \A t \in ticked : chosen[t] = means[t] /\ means[t] \in Employee /\ means[t] \in worked[r]
    BY <1>0, <2>1, <2>2, <2>3, <2>4 DEF Sourced, Person
  <2>6. \A t \in Token : chosen[t] \in {Nobody, means[t]}
    OBVIOUS
  <2> HIDE DEF chosen
  <2>7. \A k \in Run : /\ overrides'[k] = IF k = r THEN chosen ELSE overrides[k]
                       /\ remember'[k] = IF k = r THEN ticked ELSE remember[k]
                       /\ status'[k] = IF k = r THEN "resolved" ELSE status[k]
    BY <2>1, <2>2 DEF Columns, Shape
  <2>8. \A k \in Run, t \in Token : overrides'[k][t] \in {Nobody, means'[t]}
    BY <2>1, <2>6, <2>7 DEF Sourced
  <2>9. \A k \in Run : \A n \in DOMAIN matches'[k] : Person(n)' \in worked'[k]
    BY <2>1 DEF Sourced, Person
  <2>10. \A k \in Run : \A t \in remember'[k] : overrides'[k][t] \in Employee /\ overrides'[k][t] \in worked'[k]
    BY <2>1, <2>5, <2>7 DEF Sourced
  <2>11. \A k \in Run, t \in Token, e \in Employee :
           bound'[k][t] = e => e \in worked'[k] \/ t \in aliases'[e]
    BY <2>1 DEF Sourced
  <2>12. \A k \in Run : status'[k] = "new" =>
           remember'[k] = {} /\ \A t \in Token : bound'[k][t] = Nobody
    BY <2>1, <2>7 DEF Sourced
  <2>13. \A k \in Run, e \in Employee : \A t \in own'[k][e] :
           status'[k] = "sending" /\ bound'[k][t] = e /\ e \in worked'[k]
    BY <2>1, <2>7 DEF Sourced
  <2>14. LearnedFromItsPayroll'
    BY <2>1, <2>7 DEF Sourced, LearnedFromItsPayroll, Learned
  <2> QED
    BY <2>8, <2>9, <2>10, <2>11, <2>12, <2>13, <2>14 DEF Sourced
<1>5. ASSUME NEW r \in Run, Crash(r) \/ Begin(r) \/ GiveUp(r) PROVE Sourced'
  <2>1. UNCHANGED <<means, given, aliases, worked, matches, bound, overrides, remember>>
    BY <1>5 DEF Crash, Begin, GiveUp, record
  <2>2. PICK s : status' = [status EXCEPT ![r] = s] /\ s # "new"
                 /\ (status[r] = "sending" => s = "sending") /\ status[r] # "reconciled"
    <3>1. CASE Crash(r)
      BY <3>1 DEF Crash
    <3>2. CASE Begin(r)
      BY <3>2 DEF Begin
    <3>3. CASE GiveUp(r)
      <4>1. status' = [status EXCEPT ![r] = "sending"]
        BY <3>3 DEF GiveUp, Shape
      <4> QED
        BY <3>3, <4>1 DEF GiveUp
    <3> QED
      BY <1>5, <3>1, <3>2, <3>3
  <2>3. \A k \in Run : status'[k] = IF k = r THEN s ELSE status[k]
    BY <2>2 DEF Shape
  <2>4. \A k \in Run : own'[k] = own[k] \/ own'[k] = NoAliases
    BY <1>5 DEF Crash, Begin, GiveUp, delivery, Columns
  <2>5. \A k \in Run, e \in Employee : \A t \in own'[k][e] :
           status'[k] = "sending" /\ bound'[k][t] = e /\ e \in worked'[k]
    BY <2>1, <2>2, <2>3, <2>4 DEF Sourced, NoAliases
  <2>6. LearnedFromItsPayroll'
    BY <2>1, <2>2, <2>3 DEF Sourced, LearnedFromItsPayroll, Learned
  <2>7. \A k \in Run : status'[k] = "new" =>
           remember'[k] = {} /\ \A t \in Token : bound'[k][t] = Nobody
    BY <2>1, <2>2, <2>3 DEF Sourced
  <2> QED
    BY <2>1, <2>5, <2>6, <2>7 DEF Sourced, Person
<1>6. ASSUME NEW r \in Run, NEW t \in Token, Learn(r, t) PROVE Sourced'
  <2>1. /\ UNCHANGED <<means, given, aliases, worked, status, matches, bound, overrides, remember>>
        /\ status[r] = "sending" /\ t \in todo[r]
    BY <1>6 DEF Learn, record
  <2>2. \A k \in Run, e \in Employee : \A x \in own'[k][e] :
           \/ x \in own[k][e]
           \/ k = r /\ x = t /\ e = bound[r][t] /\ t \notin aliases[e]
    <3> DEFINE learns == SafeToLearn(t, bound[r][t], seen[r]) /\ t \notin aliases[bound[r][t]]
    <3>1. own' = [own EXCEPT ![r] = IF learns THEN With(@, Gives(t, bound[r][t])) ELSE @]
      BY <1>6 DEF Learn
    <3> HIDE DEF learns
    <3>2. CASE learns
      BY <3>1, <3>2 DEF Columns, With, Gives, learns
    <3>3. CASE ~learns
      BY <3>1, <3>3 DEF Columns
    <3> QED
      BY <3>2, <3>3
  <2>3. \A k \in Run, e \in Employee : \A x \in own'[k][e] :
           status'[k] = "sending" /\ bound'[k][x] = e /\ e \in worked'[k]
    BY <2>1, <2>2 DEF Sourced
  <2>4. LearnedFromItsPayroll'
    BY <2>1 DEF Sourced, LearnedFromItsPayroll, Learned
  <2> QED
    BY <2>1, <2>3, <2>4 DEF Sourced, Person
<1>7. ASSUME NEW r \in Run, Commit(r) PROVE Sourced'
  <2>1. /\ UNCHANGED <<means, given, worked, matches, bound, overrides, remember>>
        /\ status' = [status EXCEPT ![r] = "reconciled"] /\ status[r] = "sending"
        /\ aliases' = With(aliases, own[r]) /\ own' = [own EXCEPT ![r] = NoAliases]
    BY <1>7 DEF Commit, record
  <2>2. \A k \in Run : /\ status'[k] = IF k = r THEN "reconciled" ELSE status[k]
                       /\ own'[k] = IF k = r THEN NoAliases ELSE own[k]
    BY <2>1 DEF Columns, Shape
  <2>3. \A e \in Employee : aliases'[e] = aliases[e] \cup own[r][e]
    BY <2>1 DEF With
  <2>4. LearnedFromItsPayroll'
    <3> SUFFICES ASSUME NEW t \in Token, NEW e \in Employee, t \in aliases'[e], t \notin given[e]
                 PROVE  \E k \in Run : status'[k] = "reconciled" /\ e \in worked[k] /\ bound[k][t] = e
      BY <2>1 DEF LearnedFromItsPayroll, Learned
    <3>1. CASE t \in aliases[e]
      BY <2>2, <3>1 DEF Sourced, LearnedFromItsPayroll, Learned
    <3>2. CASE t \in own[r][e]
      BY <2>2, <3>2 DEF Sourced
    <3> QED
      BY <2>3, <3>1, <3>2
  <2>5. \A k \in Run, e \in Employee : \A t \in own'[k][e] :
           status'[k] = "sending" /\ bound'[k][t] = e /\ e \in worked'[k]
    BY <2>1, <2>2 DEF Sourced, NoAliases
  <2>6. \A k \in Run, t \in Token, e \in Employee :
           bound'[k][t] = e => e \in worked'[k] \/ t \in aliases'[e]
    BY <2>1, <2>3 DEF Sourced
  <2>7. \A k \in Run : status'[k] = "new" =>
           remember'[k] = {} /\ \A t \in Token : bound'[k][t] = Nobody
    BY <2>1, <2>2 DEF Sourced
  <2> QED
    BY <2>1, <2>4, <2>5, <2>6, <2>7 DEF Sourced, Person
<1>8. CASE UNCHANGED vars
  BY <1>8 DEF vars, record, delivery, Sourced, Person, LearnedFromItsPayroll, Learned
<1> QED
  BY <1>1, <1>2, <1>3, <1>4, <1>5, <1>6, <1>7, <1>8 DEF Next

\* Whatever deliveries overlap, and whoever the suggestion call names: a name the roster
\* learned for an employee was bound by a delivered payroll that employee was on
\* (bind_evidence_for_token(), write_aliases_if_safe()).
THEOREM NamesAreLearnedFromPayrolls == Spec => []LearnedFromItsPayroll
<1>1. Sourced => LearnedFromItsPayroll
  BY DEF Sourced
<1>2. Init => IInv /\ Columns /\ Sourced
  BY InitIInv, InitColumns, InitSourced
<1>3. IInv /\ Columns /\ Sourced /\ [Next]_vars => IInv' /\ Columns' /\ Sourced'
  BY NextIInv, NextColumns, NextSourced
<1> QED
  BY <1>1, <1>2, <1>3, PTL DEF Spec

\* With no worker or write lost, a name the operator ticked stays bound to the employee
\* they chose; a delivery's roster is never ahead of what is written; and what it has
\* looked at is written, or some employee has the name already.
Carried ==
    faults = 0 =>
      /\ \A r \in Run : status[r] # "lost"
      /\ \A r \in Run : status[r] # "resolved" =>
           \A t \in remember[r] : t \in captured[r] /\ bound[r][t] = overrides[r][t]
      /\ \A r \in Run, e \in Employee : seen[r][e] \subseteq aliases[e] \cup own[r][e]
      /\ \A r \in Run : status[r] = "sending" =>
           \A t \in remember[r] :
             t \in todo[r] \/ \E e \in Employee : t \in aliases[e] \cup own[r][e]
      /\ \A r \in Run : status[r] = "reconciled" =>
           \A t \in remember[r] : \E e \in Employee : t \in aliases[e]

LEMMA InitCarried == Init => Carried
<1> SUFFICES ASSUME Init PROVE Carried
  OBVIOUS
<1>1. \A r \in Run : remember[r] = {} /\ status[r] = "new" /\ seen[r] = NoAliases
  BY DEF Init
<1> QED
  BY <1>1 DEF Carried, NoAliases

\* A pass clears no record of a name the operator has resolved.
LEMMA PassCarries ==
    ASSUME Shape, Columns, Sourced, Carried, NEW r \in Run, NEW names \in SUBSET Name,
           NEW pre, Startable(pre), NEW binding \in BOOLEAN, Pass(r, names, pre, binding),
           UNCHANGED <<aliases, overrides, remember, delivery, faults>>,
           status[r] \notin {"sending", "reconciled"},
           faults = 0 => \A t \in remember[r] : t \in pre.captured /\ pre.bound[t] = overrides[r][t]
    PROVE  Carried'
<1> DEFINE m == Reconcile(names, aliases, overrides[r])
<1>0. Nobody \notin Employee
  BY NamingAssumption
<1> SUFFICES ASSUME faults' = 0 PROVE Carried'
  BY DEF Carried
<1>b. Binding(r, names, pre, binding)
  BY PassBinds
<1>1. /\ pre.captured \subseteq captured'[r]
      /\ \A k \in Run : k # r => bound'[k] = bound[k] /\ captured'[k] = captured[k]
      /\ \A t \in Token :
           \/ bound'[r][t] = pre.bound[t]
           \/ t \in Unresolved(m)
           \/ pre.bound[t] = Nobody
  BY <1>b DEF Binding
<1>2. PICK new \in {"approval", "waiting", "operator"} : status' = [status EXCEPT ![r] = new]
  BY <1>b DEF Binding
<1>3. \A k \in Run : status'[k] = IF k = r THEN new ELSE status[k]
  BY <1>2 DEF Shape
<1>4. \A t \in remember[r] : t \in Token /\ overrides[r][t] \in Employee
  BY DEF Sourced, Columns
<1>5. \A t \in remember[r] : t \notin Unresolved(m)
  BY <1>0, <1>4 DEF Unresolved, Reconcile
<1>6. \A t \in remember[r] : t \in captured'[r] /\ bound'[r][t] = overrides[r][t]
  BY <1>0, <1>1, <1>4, <1>5
<1>7. \A k \in Run : status'[k] # "resolved" =>
         \A t \in remember'[k] : t \in captured'[k] /\ bound'[k][t] = overrides'[k][t]
  BY <1>1, <1>3, <1>6 DEF Carried
<1>8. /\ \A k \in Run : status'[k] # "lost"
      /\ \A k \in Run : status'[k] = "sending" =>
           \A t \in remember'[k] :
             t \in todo'[k] \/ \E e \in Employee : t \in aliases'[e] \cup own'[k][e]
      /\ \A k \in Run : status'[k] = "reconciled" =>
           \A t \in remember'[k] : \E e \in Employee : t \in aliases'[e]
  BY <1>3 DEF Carried, delivery
<1>9. \A k \in Run, e \in Employee : seen'[k][e] \subseteq aliases'[e] \cup own'[k][e]
  BY DEF Carried, delivery
<1> QED
  BY <1>7, <1>8, <1>9 DEF Carried

LEMMA NextCarried == IInv /\ Columns /\ Sourced /\ Carried /\ [Next]_vars => Carried'
<1> SUFFICES ASSUME Shape, Columns, Sourced, Carried, [Next]_vars PROVE Carried'
  BY DEF IInv
<1>0. Nobody \notin Employee /\ Employee \cap Token = {}
  BY NamingAssumption
<1>1. ASSUME NEW r \in Run, Start(r) PROVE Carried'
  <2>1. PICK people \in SUBSET Choice : \E names \in Namings(people) : Pass(r, names, Stored(r), FALSE)
    BY <1>1 DEF Start, Choice
  <2>2. PICK names \in Namings(people) : Pass(r, names, Stored(r), FALSE)
    BY <2>1
  <2>3. names \in SUBSET Name
    BY <2>2 DEF Namings
  <2>4. UNCHANGED <<aliases, overrides, remember, delivery, faults>>
    BY <1>1 DEF Start
  <2>5. status[r] = "new" /\ remember[r] = {}
    BY <1>1 DEF Start, Sourced
  <2> QED
    BY <2>2, <2>3, <2>4, <2>5, StartsAreStartable, PassCarries
<1>2. ASSUME NEW r \in Run, Reply(r) PROVE Carried'
  <2>1. PICK people \in {worked[r], worked[r] \ {Nobody}} :
          \E names \in Namings(people), binding \in BOOLEAN :
            \E read \in {names, names \cup {n \in DOMAIN matches[r] : Person(n) \in people}} :
              Pass(r, read, Stored(r), binding)
    BY <1>2 DEF Reply
  <2>2. PICK names \in Namings(people), binding \in BOOLEAN :
          \E read \in {names, names \cup {n \in DOMAIN matches[r] : Person(n) \in people}} :
            Pass(r, read, Stored(r), binding)
    BY <2>1
  <2>3. PICK read \in {names, names \cup {n \in DOMAIN matches[r] : Person(n) \in people}} :
          Pass(r, read, Stored(r), binding)
    BY <2>2
  <2>4. read \in SUBSET Name
    BY <2>2 DEF Namings, Columns
  <2>5. UNCHANGED <<aliases, overrides, remember, delivery, faults>> /\ status[r] = "waiting"
    BY <1>2 DEF Reply
  <2>6. faults = 0 => \A t \in remember[r] :
           t \in Stored(r).captured /\ Stored(r).bound[t] = overrides[r][t]
    BY <2>5 DEF Carried, Stored
  <2> QED
    BY <2>2, <2>3, <2>4, <2>5, <2>6, StartsAreStartable, PassCarries
<1>3. ASSUME NEW r \in Run, OperatorResume(r) PROVE Carried'
  <2>1. /\ UNCHANGED <<aliases, overrides, remember, delivery, faults>>
        /\ status[r] \in {"resolved", "lost"}
    BY <1>3 DEF OperatorResume
  <2>2. DOMAIN matches[r] \in SUBSET Name
    BY DEF Columns
  <2>3. CASE status[r] = "resolved" /\ Pass(r, DOMAIN matches[r], Prepared(r), TRUE)
    <3>1. \A t \in remember[r] : t \in Prepared(r).captured /\ Prepared(r).bound[t] = overrides[r][t]
      BY DEF Prepared, Columns
    <3> QED
      BY <2>1, <2>2, <2>3, <3>1, StartsAreStartable, PassCarries
  <2>4. CASE status[r] = "lost"
    BY <2>1, <2>4 DEF Carried
  <2> QED
    BY <1>3, <2>3, <2>4 DEF OperatorResume
<1>4. ASSUME NEW r \in Run, Resolve(r) PROVE Carried'
  <2>1. /\ status' = [status EXCEPT ![r] = "resolved"]
        /\ UNCHANGED <<aliases, captured, bound, seen, own, todo, faults>>
        /\ \A k \in Run : k # r => overrides'[k] = overrides[k] /\ remember'[k] = remember[k]
    BY <1>4 DEF Resolve, record, delivery, Columns, Shape
  <2>2. \A k \in Run : status'[k] = IF k = r THEN "resolved" ELSE status[k]
    BY <2>1 DEF Shape
  <2> QED
    BY <2>1, <2>2 DEF Carried
<1>5. ASSUME NEW r \in Run, Crash(r) \/ GiveUp(r) PROVE Carried'
  <2>1. faults' # 0
    BY <1>5, NamingAssumption DEF Crash, GiveUp, Columns
  <2> QED
    BY <2>1 DEF Carried
<1>6. ASSUME NEW r \in Run, Begin(r) PROVE Carried'
  <2>1. /\ status[r] = "approval" /\ status' = [status EXCEPT ![r] = "sending"]
        /\ seen' = [seen EXCEPT ![r] = aliases]
        /\ todo' = [todo EXCEPT ![r] = {t \in captured[r] : bound[r][t] # Nobody}]
        /\ UNCHANGED <<aliases, captured, bound, overrides, remember, own, faults>>
    BY <1>6 DEF Begin, record
  <2>2. \A k \in Run :
           /\ status'[k] = IF k = r THEN "sending" ELSE status[k]
           /\ seen'[k] = IF k = r THEN aliases ELSE seen[k]
           /\ todo'[k] = IF k = r THEN {t \in captured[r] : bound[r][t] # Nobody} ELSE todo[k]
    BY <2>1 DEF Columns, Shape
  <2>3. faults = 0 => \A t \in remember[r] : t \in todo'[r]
    <3>1. faults = 0 => \A t \in remember[r] : t \in captured[r] /\ bound[r][t] = overrides[r][t]
      BY <2>1 DEF Carried
    <3>2. \A t \in remember[r] : overrides[r][t] # Nobody
      BY <1>0 DEF Sourced
    <3> QED
      BY <2>2, <3>1, <3>2
  <2> QED
    BY <2>1, <2>2, <2>3 DEF Carried
<1>7. ASSUME NEW r \in Run, NEW t \in Token, Learn(r, t) PROVE Carried'
  <2> DEFINE e == bound[r][t]
             learns == SafeToLearn(t, e, seen[r]) /\ t \notin aliases[e]
  <2> SUFFICES ASSUME faults = 0 PROVE Carried'
    BY <1>7 DEF Learn, Carried
  <2>1. /\ own' = [own EXCEPT ![r] = IF learns THEN With(@, Gives(t, e)) ELSE @]
        /\ seen' = [seen EXCEPT ![r] = IF learns THEN With(aliases, own'[r]) ELSE @]
        /\ todo' = [todo EXCEPT ![r] = @ \ {t}]
        /\ status[r] = "sending"
        /\ UNCHANGED <<aliases, status, captured, bound, overrides, remember, faults>>
    BY <1>7 DEF Learn, record
  <2>2. /\ \A k \in Run : k # r => own'[k] = own[k] /\ seen'[k] = seen[k] /\ todo'[k] = todo[k]
        /\ todo'[r] = todo[r] \ {t}
    BY <2>1 DEF Columns
  <2>3. \A x \in Employee : own[r][x] \subseteq own'[r][x]
    BY <2>1 DEF Columns, With
  <2>4. \A x \in Employee : seen'[r][x] \subseteq aliases[x] \cup own'[r][x]
    <3>1. CASE learns
      <4>1. seen'[r] = With(aliases, own'[r])
        BY <2>1, <3>1 DEF Columns
      <4> QED
        BY <4>1 DEF With
    <3>2. CASE ~learns
      <4>1. seen'[r] = seen[r]
        BY <2>1, <3>2 DEF Columns
      <4> QED
        BY <2>3, <4>1 DEF Carried
    <3> QED
      BY <3>1, <3>2
  <2>5. t \in remember[r] => \E x \in Employee : t \in aliases[x] \cup own'[r][x]
    <3> SUFFICES ASSUME t \in remember[r]
                 PROVE  \E x \in Employee : t \in aliases[x] \cup own'[r][x]
      OBVIOUS
    <3>1. e \in Employee
      BY <2>1 DEF Carried, Sourced
    <3> HIDE DEF e
    <3>2. CASE learns
      <4>1. own'[r] = With(own[r], Gives(t, e))
        BY <2>1, <3>2 DEF Columns
      <4> QED
        BY <3>1, <4>1 DEF With, Gives
    <3>3. CASE ~SafeToLearn(t, e, seen[r])
      <4> DEFINE C == Candidates(t, With(seen[r], Gives(t, e)))
      <4>1. e \in C /\ C \subseteq Employee
        BY <3>1 DEF Candidates, With, Gives
      <4>2. C # {e}
        <5>1. SUFFICES ASSUME C = {e} PROVE Match(t, With(seen[r], Gives(t, e))) = e
          BY <3>3 DEF SafeToLearn
        <5>2. \A x \in Employee : C = {x} <=> x = e
          BY <5>1
        <5> QED
          BY <3>1, <5>2 DEF Match
      <4>3. PICK x \in Employee : x \in C /\ x # e
        BY <4>1, <4>2
      <4>4. t \in seen[r][x]
        BY <1>0, <4>3 DEF Candidates, With, Gives
      <4>5. t \in aliases[x] \cup own[r][x]
        BY <4>4 DEF Carried
      <4> QED
        BY <2>3, <4>5
    <3>4. CASE t \in aliases[e]
      BY <3>1, <3>4
    <3> QED
      BY <3>2, <3>3, <3>4
  <2> HIDE DEF e, learns
  <2>6. \A k \in Run, x \in Employee : seen'[k][x] \subseteq aliases'[x] \cup own'[k][x]
    BY <2>1, <2>2, <2>4 DEF Carried
  <2>7. \A k \in Run : status'[k] = "sending" =>
           \A y \in remember'[k] :
             y \in todo'[k] \/ \E x \in Employee : y \in aliases'[x] \cup own'[k][x]
    <3> SUFFICES ASSUME NEW k \in Run, status[k] = "sending", NEW y \in remember[k],
                        y \notin todo'[k]
                 PROVE  \E x \in Employee : y \in aliases[x] \cup own'[k][x]
      BY <2>1
    <3>1. CASE k = r /\ y = t
      BY <2>5, <3>1
    <3>2. CASE k # r
      BY <2>2, <3>2 DEF Carried
    <3>3. CASE k = r /\ y # t
      <4>1. \E x \in Employee : y \in aliases[x] \cup own[r][x]
        BY <2>2, <3>3 DEF Carried
      <4> QED
        BY <2>3, <3>3, <4>1
    <3> QED
      BY <3>1, <3>2, <3>3
  <2>8. /\ \A k \in Run : status'[k] # "lost"
        /\ \A k \in Run : status'[k] # "resolved" =>
             \A y \in remember'[k] : y \in captured'[k] /\ bound'[k][y] = overrides'[k][y]
        /\ \A k \in Run : status'[k] = "reconciled" =>
             \A y \in remember'[k] : \E x \in Employee : y \in aliases'[x]
    BY <2>1 DEF Carried
  <2> QED
    BY <2>6, <2>7, <2>8 DEF Carried
<1>8. ASSUME NEW r \in Run, Commit(r) PROVE Carried'
  <2>1. /\ status' = [status EXCEPT ![r] = "reconciled"] /\ status[r] = "sending" /\ todo[r] = {}
        /\ aliases' = With(aliases, own[r]) /\ own' = [own EXCEPT ![r] = NoAliases]
        /\ seen' = [seen EXCEPT ![r] = NoAliases]
        /\ UNCHANGED <<captured, bound, overrides, remember, todo, faults>>
    BY <1>8 DEF Commit, record
  <2>2. \A k \in Run : /\ status'[k] = IF k = r THEN "reconciled" ELSE status[k]
                       /\ own'[k] = IF k = r THEN NoAliases ELSE own[k]
                       /\ seen'[k] = IF k = r THEN NoAliases ELSE seen[k]
    BY <2>1 DEF Columns, Shape
  <2>3. \A e \in Employee : aliases'[e] = aliases[e] \cup own[r][e]
    BY <2>1 DEF With
  <2> SUFFICES ASSUME faults = 0 PROVE Carried'
    BY <2>1 DEF Carried
  <2>4. \A k \in Run, e \in Employee : seen'[k][e] \subseteq aliases'[e] \cup own'[k][e]
    BY <2>2, <2>3 DEF Carried, NoAliases
  <2>5. \A k \in Run : status'[k] = "sending" =>
           \A t \in remember'[k] :
             t \in todo'[k] \/ \E e \in Employee : t \in aliases'[e] \cup own'[k][e]
    BY <2>1, <2>2, <2>3 DEF Carried
  <2>6. \A k \in Run : status'[k] = "reconciled" =>
           \A t \in remember'[k] : \E e \in Employee : t \in aliases'[e]
    BY <2>1, <2>2, <2>3 DEF Carried
  <2>7. /\ \A k \in Run : status'[k] # "lost"
        /\ \A k \in Run : status'[k] # "resolved" =>
             \A t \in remember'[k] : t \in captured'[k] /\ bound'[k][t] = overrides'[k][t]
    BY <2>1, <2>2 DEF Carried
  <2> QED
    BY <2>4, <2>5, <2>6, <2>7 DEF Carried
<1>9. CASE UNCHANGED vars
  BY <1>9 DEF vars, record, delivery, Carried
<1> QED
  BY <1>1, <1>2, <1>3, <1>4, <1>5, <1>6, <1>7, <1>8, <1>9 DEF Next

\* However many deliveries overlap: while no worker is lost and no alias write fails, the
\* operator's "remember" is kept, the roster knows the name once the payroll is delivered
\* (prepare_authoritative_operator_resume(), write_aliases_if_safe()).
THEOREM WhatWasRememberedIsKnown == Spec => []RememberedIsKnown
<1>1. Columns /\ Carried => RememberedIsKnown
  BY DEF Columns, Carried, RememberedIsKnown, KnownAs, Candidates
<1>2. Init => IInv /\ Columns /\ Sourced /\ Carried
  BY InitIInv, InitColumns, InitSourced, InitCarried
<1>3. IInv /\ Columns /\ Sourced /\ Carried /\ [Next]_vars
      => IInv' /\ Columns' /\ Sourced' /\ Carried'
  BY NextIInv, NextColumns, NextSourced, NextCarried
<1> QED
  BY <1>1, <1>2, <1>3, PTL DEF Spec
===============================================================================
