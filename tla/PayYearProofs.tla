---------------------------- MODULE PayYearProofs -----------------------------
(***************************************************************************)
(* What PayYear guarantees for any number of payrolls, any roster and any    *)
(* number of retriggers.                                                     *)
(***************************************************************************)
EXTENDS PayYear, FiniteSetTheorems, WellFoundedInduction, TLAPS

\* The variables a step overwrites run by run are functions on the runs.
Shape ==
    /\ status \in [Run -> Status]
    /\ stub = [r \in Run |-> stub[r]] /\ slot = [r \in Run |-> slot[r]]

\* Before an approval there is no snapshot in the epoch and, once the gate has
\* passed the payroll, exactly one paystub; from the approval on the snapshot is
\* a copy of it.  A run in error owes nothing: a retrigger leaves the epoch.
Slotted(r) ==
    /\ status[r] \in {"received", "awaiting_reply", "awaiting_approval"} => slot[r] = {}
    /\ status[r] = "awaiting_approval" => \E s : stub[r] = {s}
    /\ status[r] \in {"approved", "reconciled"} =>
         {m.stub : m \in slot[r]} = stub[r]

IInv == Shape /\ \A r \in Run : Slotted(r)

LEMMA InitIsSlotted == Init => IInv
  BY DEF Init, IInv, Shape, Slotted, Status

\* An approval without a snapshot freezes the one paystub there is.
LEMMA ReservedIsTheStub ==
    ASSUME NEW r \in Run, NEW s, slot[r] = {}, stub[r] = {s}
    PROVE  {m.stub : m \in Reserved(r)} = stub[r]
  <1>1. The(stub[r]) = s
    BY DEF The
  <1>2. Reserved(r) = {[stub |-> s, ytd |-> YearToDate(r)]}
    BY <1>1 DEF Reserved
  <1>. DEFINE snapshot == [stub |-> s, ytd |-> YearToDate(r)]
  <1>3. snapshot.stub = s
    OBVIOUS
  <1>. HIDE DEF snapshot
  <1>. QED BY <1>2, <1>3 DEF snapshot

LEMMA StepIsSlotted == IInv /\ [Next]_vars => IInv'
  <1>. SUFFICES ASSUME IInv, [Next]_vars PROVE IInv'
    OBVIOUS
  <1>. USE DEF IInv, Shape, Status
  <1>1. ASSUME NEW r \in Run, NEW p \in Payroll, Process(r, p) PROVE IInv'
    <2>. DEFINE new == {Stored(Calculate(employee, p.hours, p.override))}
    <2>1. \/ status' = [status EXCEPT ![r] = "awaiting_reply"] /\ stub' = stub
          \/ /\ status' = [status EXCEPT ![r] = "awaiting_approval"]
             /\ stub' = [stub EXCEPT ![r] = new]
      BY <1>1 DEF Process, ReplaceLineItems
    <2>2. slot' = slot /\ slot[r] = {}
      BY <1>1 DEF Process, ReplaceLineItems, Slotted
    <2>3. \E s : new = {s}
      OBVIOUS
    <2>. HIDE DEF new
    <2>4. Shape'
      BY <2>1, <2>2
    <2>5. ASSUME NEW q \in Run PROVE Slotted(q)'
      BY <2>1, <2>2, <2>3 DEF Slotted
    <2>. QED BY <2>4, <2>5
  <1>2. ASSUME NEW r \in Run, Approve(r) PROVE IInv'
    <2>1. \E s : stub[r] = {s}
      BY <1>2 DEF Approve, Slotted
    <2>2. {m.stub : m \in Reserved(r)} = stub[r]
      BY <1>2, <2>1, ReservedIsTheStub DEF Approve, Slotted
    <2>. DEFINE reserved == Reserved(r)
    <2>. HIDE DEF reserved
    <2>3. /\ status' = [status EXCEPT ![r] = "approved"]
          /\ slot' = [slot EXCEPT ![r] = reserved] /\ stub' = stub
      BY <1>2 DEF Approve, reserved
    <2>4. Shape'
      BY <2>3
    <2>5. ASSUME NEW q \in Run PROVE Slotted(q)'
      BY <2>2, <2>3 DEF Slotted, reserved
    <2>. QED BY <2>4, <2>5
  <1>3. ASSUME NEW r \in Run, Fail(r) \/ Reject(r) \/ DeliveryFails(r) PROVE IInv'
    BY <1>3 DEF Fail, Reject, DeliveryFails, Slotted
  <1>4. ASSUME NEW r \in Run, Deliver(r) PROVE IInv'
    BY <1>4 DEF Deliver, Slotted
  <1>5. ASSUME NEW r \in Run, Retrigger(r) PROVE IInv'
    BY <1>5 DEF Retrigger, NewSlot, Slotted
  <1>6. CASE UNCHANGED vars
    BY <1>6 DEF vars, Slotted
  <1>. QED BY <1>1, <1>2, <1>3, <1>4, <1>5, <1>6 DEF Next

\* A delivered confirmation carries the figures the run keeps, however often the
\* run failed, was computed anew and approved again before.
THEOREM MailedFiguresAreKept == Spec => []MailedIsPaid
  <1>1. IInv => MailedIsPaid
    BY DEF IInv, Slotted, MailedIsPaid
  <1>. QED BY <1>1, InitIsSlotted, StepIsSlotted, PTL DEF Spec

-------------------------------------------------------------------------------
(* The types, and that no amount is negative *)

Bracket == [lower : Nat, base : Nat, rate : Nat]

\* What the tables have in common: eight rows, the first from nothing on.
Tables ==
    {rows \in [1..8 -> Bracket] : rows[1].lower = 0}

LEMMA MoneyIsWhole ==
    ASSUME NEW n \in Nat, NEW d \in Nat \ {0}
    PROVE  Cents(n, d) \in Nat
  BY DEF Cents

LEMMA FlooredIsWhole ==
    ASSUME NEW n \in Int
    PROVE  AtLeastZero(n) \in Nat
  BY DEF AtLeastZero

LEMMA TheTables == \A e \in Employee : Brackets(e) \in Tables
  <1>1. MFJ_STANDARD \in Tables
    <2>1. MFJ_STANDARD = [i \in 1..8 |-> MFJ_STANDARD[i]]
      BY DEF MFJ_STANDARD
    <2>2. \A i \in 1..8 : MFJ_STANDARD[i] \in Bracket
      BY DEF MFJ_STANDARD, Row, Bracket
    <2>3. MFJ_STANDARD[1].lower = 0
      BY DEF MFJ_STANDARD, Row
    <2>. QED BY <2>1, <2>2, <2>3 DEF Tables
  <1>2. SINGLE_STANDARD \in Tables
    <2>1. SINGLE_STANDARD = [i \in 1..8 |-> SINGLE_STANDARD[i]]
      BY DEF SINGLE_STANDARD
    <2>2. \A i \in 1..8 : SINGLE_STANDARD[i] \in Bracket
      BY DEF SINGLE_STANDARD, Row, Bracket
    <2>3. SINGLE_STANDARD[1].lower = 0
      BY DEF SINGLE_STANDARD, Row
    <2>. QED BY <2>1, <2>2, <2>3 DEF Tables
  <1>3. MFJ_STEP2 \in Tables
    <2>1. MFJ_STEP2 = [i \in 1..8 |-> MFJ_STEP2[i]]
      BY DEF MFJ_STEP2
    <2>2. \A i \in 1..8 : MFJ_STEP2[i] \in Bracket
      BY DEF MFJ_STEP2, Row, Bracket
    <2>3. MFJ_STEP2[1].lower = 0
      BY DEF MFJ_STEP2, Row
    <2>. QED BY <2>1, <2>2, <2>3 DEF Tables
  <1>4. SINGLE_STEP2 \in Tables
    <2>1. SINGLE_STEP2 = [i \in 1..8 |-> SINGLE_STEP2[i]]
      BY DEF SINGLE_STEP2
    <2>2. \A i \in 1..8 : SINGLE_STEP2[i] \in Bracket
      BY DEF SINGLE_STEP2, Row, Bracket
    <2>3. SINGLE_STEP2[1].lower = 0
      BY DEF SINGLE_STEP2, Row
    <2>. QED BY <2>1, <2>2, <2>3 DEF Tables
  <1>. QED BY <1>1, <1>2, <1>3, <1>4 DEF Brackets

\* _find_bracket() always finds a row, the last one that the wage reaches.
LEMMA BracketIsFound ==
    ASSUME NEW rows \in Tables, NEW w \in Nat
    PROVE  \E n \in 1..8 : /\ FindBracket(w, rows) = rows[n] /\ rows[n].lower <= w
                           /\ \A i \in 1..8 : i > n => w < rows[i].lower
  <1>. DEFINE S == {i \in 1..8 : rows[i].lower <= w}
  <1>1. DOMAIN rows = 1..8 /\ 1 \in S
    BY DEF Tables
  <1>2. S \subseteq 1..8
    OBVIOUS
  <1>3. \A i \in 1..8 : i \notin S => w < rows[i].lower
    BY DEF Tables, Bracket
  <1>4. FindBracket(w, rows) = rows[Max(S)] /\ \A i \in S : rows[i].lower <= w
    BY <1>1 DEF FindBracket
  <1>. HIDE DEF S
  <1>5. \E x \in S : \A y \in S : x >= y
    <2>8. CASE 8 \in S
      BY <1>2, <2>8
    <2>7. CASE 7 \in S /\ 8 \notin S
      BY <1>2, <2>7
    <2>6. CASE 6 \in S /\ {7, 8} \cap S = {}
      BY <1>2, <2>6
    <2>5. CASE 5 \in S /\ {6, 7, 8} \cap S = {}
      BY <1>2, <2>5
    <2>4. CASE 4 \in S /\ {5, 6, 7, 8} \cap S = {}
      BY <1>2, <2>4
    <2>3. CASE 3 \in S /\ {4, 5, 6, 7, 8} \cap S = {}
      BY <1>2, <2>3
    <2>2. CASE 2 \in S /\ {3, 4, 5, 6, 7, 8} \cap S = {}
      BY <1>2, <2>2
    <2>1. CASE {2, 3, 4, 5, 6, 7, 8} \cap S = {}
      BY <1>1, <1>2, <2>1
    <2>. QED BY <2>1, <2>2, <2>3, <2>4, <2>5, <2>6, <2>7, <2>8
  <1>6. Max(S) \in S /\ \A i \in S : Max(S) >= i
    BY <1>5 DEF Max
  <1>. DEFINE n == Max(S)
  <1>7. n \in 1..8 /\ n \in S
    BY <1>2, <1>6
  <1>8. \A i \in S : n >= i
    BY <1>6
  <1>9. FindBracket(w, rows) = rows[n] /\ rows[n].lower <= w
    BY <1>4, <1>7
  <1>. HIDE DEF n
  <1>10. \A i \in 1..8 : i > n => w < rows[i].lower
    BY <1>3, <1>7, <1>8
  <1>. QED BY <1>7, <1>9, <1>10

\* Worksheet 1A withholds nothing negative, credits beyond the tax included.
LEMMA WithholdingIsWhole ==
    ASSUME NEW e \in Employee, NEW taxable \in Int
    PROVE  FederalWithholding(e, taxable) \in Nat
  <1>. DEFINE w == AdjustedAnnual(e, taxable)
             row == FindBracket(w, Brackets(e))
  <1>1. /\ e.periods \in Nat \ {0} /\ e.other \in Nat /\ e.deductions \in Nat
        /\ e.dependents \in Nat /\ StepOneAmount(e) \in Nat
    BY DEF Employee, StepOneAmount
  <1>2. w \in Nat
    <2>1. taxable * e.periods + e.other - (e.deductions + StepOneAmount(e)) \in Int
      BY <1>1
    <2>. QED BY <2>1, FlooredIsWhole DEF AdjustedAnnual
  <1>. HIDE DEF w
  <1>3. row \in Bracket /\ row.lower <= w
    BY <1>2, TheTables, BracketIsFound DEF Tables
  <1>4. Tentative(e, w) = row.base + Cents((w - row.lower) * row.rate, 100)
    BY DEF Tentative
  <1>. HIDE DEF row
  <1>5. row.base \in Nat /\ row.rate \in Nat /\ w - row.lower \in Nat
    BY <1>2, <1>3 DEF Bracket
  <1>6. (w - row.lower) * row.rate \in Nat
    BY <1>5
  <1>7. Tentative(e, w) \in Nat
    BY <1>4, <1>5, <1>6, MoneyIsWhole
  <1>8. Cents(Tentative(e, w), e.periods) \in Nat /\ Cents(e.dependents, e.periods) \in Nat
    BY <1>1, <1>7, MoneyIsWhole
  <1>9. Cents(Tentative(e, w), e.periods) - Cents(e.dependents, e.periods) \in Int
    BY <1>8
  <1>. QED BY <1>9, FlooredIsWhole DEF FederalWithholding, w

LEMMA GrossIsWhole ==
    ASSUME NEW e \in Employee, NEW p \in Payload
    PROVE  Gross(e, p.hours) \in Nat
  <1>1. e.rate \in Nat /\ e.periods \in Nat \ {0}
    BY DEF Employee
  <1>2. p.hours.regular \in Nat /\ p.hours.overtime \in Nat /\ p.hours.leave \in Nat
    BY DEF Payload
  <1>3. 2 * (p.hours.regular + p.hours.leave) + 3 * p.hours.overtime \in Nat
    BY <1>2
  <1>4. e.rate * (2 * (p.hours.regular + p.hours.leave) + 3 * p.hours.overtime) \in Nat
    BY <1>1, <1>3
  <1>5. e.rate * p.hours.leave \in Nat
    BY <1>1, <1>2
  <1>6. CASE e.pay = "hourly"
    BY <1>4, <1>6, MoneyIsWhole DEF Gross
  <1>7. CASE e.pay # "hourly"
    <2>1. Cents(e.rate, e.periods) \in Nat /\ Cents(e.rate * p.hours.leave, 8320) \in Nat
      BY <1>1, <1>5, MoneyIsWhole
    <2>. QED BY <1>7, <2>1 DEF Gross
  <1>. QED BY <1>6, <1>7

\* Every amount calculate() puts on a paystub but the net is a sum of cents.
LEMMA AmountsAreWhole ==
    ASSUME NEW e \in Employee, NEW p \in Payload
    PROVE  \A c \in Amounts : Stored(Calculate(e, p.hours, p.override))[c] \in Nat
  <1>. DEFINE gross == Gross(e, p.hours)
             share == IF p.override # NotGiven THEN p.override ELSE e.k401
             k401  == Cents(gross * share, 100)
             wages == SocialSecurityWages(e, gross)
             ss    == Cents(wages * 62, 1000)
             med   == Cents(gross * 145, 10000)
             fed   == FederalWithholding(e, gross - k401)
  <1>1. gross \in Nat
    BY GrossIsWhole
  <1>2. share \in Nat
    BY DEF Employee, Payload
  <1>3. wages \in Nat
    <2>1. AtLeastZero(SS_WAGE_BASE - e.ytd) \in Nat
      BY FlooredIsWhole DEF Employee, SS_WAGE_BASE
    <2>. DEFINE left == AtLeastZero(SS_WAGE_BASE - e.ytd)
    <2>. HIDE DEF left, gross
    <2>2. \E x \in {gross, left} : \A y \in {gross, left} : x =< y
      BY <1>1, <2>1 DEF left
    <2>3. Min({gross, left}) \in {gross, left}
      BY <2>2 DEF Min
    <2>. QED BY <1>1, <2>1, <2>3 DEF SocialSecurityWages, left
  <1>4. Calculate(e, p.hours, p.override) =
          [gross |-> gross, k401 |-> k401, ss |-> ss, medicare |-> med, federal |-> fed,
           net |-> gross - k401 - ss - med - fed,
           disclaimed |-> e.ytd + gross > AdditionalMedicareThreshold[e.filing]]
    BY DEF Calculate
  <1>. HIDE DEF gross, share, wages
  <1>5. k401 \in Nat /\ ss \in Nat /\ med \in Nat
    <2>1. gross * share \in Nat
      BY <1>1, <1>2
    <2>2. wages * 62 \in Nat /\ gross * 145 \in Nat
      BY <1>1, <1>3
    <2>. QED BY <2>1, <2>2, MoneyIsWhole
  <1>. HIDE DEF k401, ss, med
  <1>6. fed \in Nat
    <2>1. gross - k401 \in Int
      BY <1>1, <1>5
    <2>. QED BY <2>1, WithholdingIsWhole
  <1>. HIDE DEF fed
  <1>. QED BY <1>1, <1>4, <1>5, <1>6 DEF Stored, Amounts

\* Runs keep one payroll and one paystub at a time, a run that is computed has both, and
\* the paystub is one the calculation made.
Typed ==
    /\ employee \in Staff
    /\ epoch \in [Run -> 0..MaxEpoch]
    /\ payroll = [r \in Run |-> payroll[r]]
    /\ \A r \in Run : payroll[r] = {} \/ \E p \in Payroll : payroll[r] = {p}
    /\ \A r \in Run : stub[r] = {} \/ \E s : stub[r] = {s}
    /\ \A r \in Run : slot[r] = {} \/ \E m : slot[r] = {m}
    /\ \A r \in Run : \A s \in stub[r], c \in Amounts : s[c] \in Nat
    /\ \A r \in Computed : payroll[r] # {}

LEMMA InitTyped == Init => Typed
  BY PayYearAssumption DEF Init, Typed, Computed

LEMMA StepTyped == Shape /\ Typed /\ [Next]_vars => Typed'
  <1>. SUFFICES ASSUME Shape, Typed, [Next]_vars PROVE Typed'
    OBVIOUS
  <1>. USE DEF Shape, Status
  <1>1. ASSUME NEW r \in Run, NEW p \in Payroll, Process(r, p) PROVE Typed'
    <2>. DEFINE new == Stored(Calculate(employee, p.hours, p.override))
    <2>1. /\ UNCHANGED <<employee, epoch, slot>> /\ payroll' = [payroll EXCEPT ![r] = {p}]
          /\ \E s \in {"awaiting_reply", "awaiting_approval"} : status' = [status EXCEPT ![r] = s]
          /\ stub' = stub \/ stub' = [stub EXCEPT ![r] = {new}]
      BY <1>1 DEF Process, ReplaceLineItems
    <2>2. \A c \in Amounts : new[c] \in Nat
      BY PayYearAssumption, AmountsAreWhole DEF Typed
    <2>. HIDE DEF new
    <2>3. \A k \in Run : /\ payroll'[k] = IF k = r THEN {p} ELSE payroll[k]
                         /\ stub'[k] = stub[k] \/ stub'[k] = {new}
                         /\ k # r => status'[k] = status[k]
      BY <2>1 DEF Typed
    <2>4. \A k \in Run : payroll'[k] = {} \/ \E q \in Payroll : payroll'[k] = {q}
      BY <2>3 DEF Typed
    <2>5. ASSUME NEW k \in Run PROVE stub'[k] = {} \/ \E s : stub'[k] = {s}
      <3>1. CASE stub'[k] = stub[k]
        BY <3>1 DEF Typed
      <3>2. CASE stub'[k] = {new}
        BY <3>2
      <3>. QED BY <2>3, <3>1, <3>2
    <2>6. \A k \in Run : \A s \in stub'[k], c \in Amounts : s[c] \in Nat
      BY <2>2, <2>3 DEF Typed
    <2>7. \A k \in Computed' : payroll'[k] # {}
      BY <2>3 DEF Typed, Computed
    <2>. QED BY <2>1, <2>4, <2>5, <2>6, <2>7 DEF Typed
  <1>2. ASSUME NEW r \in Run, Approve(r) PROVE Typed'
    <2>. DEFINE frozen == [stub |-> The(stub[r]), ytd |-> YearToDate(r)]
    <2>1. /\ UNCHANGED <<employee, epoch, payroll, stub>>
          /\ status' = [status EXCEPT ![r] = "approved"] /\ status[r] = "awaiting_approval"
          /\ slot' = [slot EXCEPT ![r] = Reserved(r)]
      BY <1>2 DEF Approve
    <2>2. Reserved(r) = slot[r] \/ Reserved(r) = {frozen}
      BY DEF Reserved
    <2>. DEFINE reserved == Reserved(r)
    <2>. HIDE DEF frozen, reserved
    <2>3. \A k \in Run : slot'[k] = {} \/ \E m : slot'[k] = {m}
      <3>1. \A k \in Run : slot'[k] = IF k = r THEN reserved ELSE slot[k]
        BY <2>1 DEF reserved
      <3>. QED BY <2>2, <3>1 DEF Typed, reserved
    <2>4. \A k \in Computed' : k \in Computed
      BY <2>1 DEF Computed
    <2>. QED BY <2>1, <2>3, <2>4 DEF Typed
  <1>3. ASSUME NEW r \in Run, Fail(r) \/ Reject(r) \/ Deliver(r) \/ DeliveryFails(r) PROVE Typed'
    <2>1. /\ UNCHANGED <<employee, epoch, payroll, stub, slot>>
          /\ \A k \in Computed' : k \in Computed
      BY <1>3 DEF Fail, Reject, Deliver, DeliveryFails, Computed
    <2>. QED BY <2>1 DEF Typed
  <1>4. ASSUME NEW r \in Run, Retrigger(r) PROVE Typed'
    <2>1. /\ UNCHANGED <<employee, payroll, stub>> /\ slot' = [slot EXCEPT ![r] = {}]
          /\ epoch' = [epoch EXCEPT ![r] = @ + 1] /\ epoch[r] < MaxEpoch
          /\ status' = [status EXCEPT ![r] = "received"]
      BY <1>4 DEF Retrigger, NewSlot
    <2>2. epoch' \in [Run -> 0..MaxEpoch]
      BY <2>1, PayYearAssumption DEF Typed
    <2>3. \A k \in Computed' : k \in Computed
      BY <2>1 DEF Computed
    <2>. QED BY <2>1, <2>2, <2>3 DEF Typed
  <1>5. CASE UNCHANGED vars
    BY <1>5 DEF vars, Typed, Computed
  <1>. QED BY <1>1, <1>2, <1>3, <1>4, <1>5 DEF Next

\* Any roster and any emails the contracts let through: a run has one payroll, one
\* paystub and one snapshot at most, and gross, contribution, FICA and the federal
\* withholding are never negative, whatever the credits and the overrides are
\* (calculate(), federal_withholding_2026()).
THEOREM AmountsAreNeverNegative == Spec => []TypeOK
  <1>1. Shape /\ Typed => TypeOK
    <2>. SUFFICES ASSUME Shape, Typed PROVE TypeOK
      OBVIOUS
    <2>1. ASSUME NEW S, S = {} \/ \E x : S = {x} PROVE Cardinality(S) <= 1
      <3>1. Cardinality({}) = 0 /\ \A x : Cardinality({x}) = 1
        BY FS_EmptySet, FS_Singleton
      <3>2. Cardinality(S) \in {0, 1}
        BY <2>1, <3>1
      <3>. QED BY <3>2
    <2>2. \A r \in Run : /\ Cardinality(payroll[r]) <= 1 /\ Cardinality(stub[r]) <= 1
                         /\ Cardinality(slot[r]) <= 1
      BY <2>1 DEF Typed
    <2>3. \A r \in Run : payroll[r] \subseteq Payroll
      BY DEF Typed
    <2>4. \A r \in Run : \A s \in stub[r] : \A c \in Amounts : s[c] >= 0
      BY DEF Typed
    <2>. QED BY <2>2, <2>3, <2>4 DEF TypeOK, Typed, Shape
  <1>2. Init => IInv /\ Typed
    BY InitIsSlotted, InitTyped
  <1>3. IInv /\ Typed /\ [Next]_vars => IInv' /\ Typed'
    BY StepIsSlotted, StepTyped DEF IInv
  <1>. QED BY <1>1, <1>2, <1>3, PTL DEF Spec, IInv

-------------------------------------------------------------------------------
(* The year to date *)

\* When every payroll gives both its dates and no two overlap, the WHERE clause of
\* load_prior_reconciled_paystub_totals() counts the earlier reconciled payrolls of the
\* calendar year, no other and none of them twice.
CountsTheYear == Tidy => \A r \in Computed : Prior(r) = EarlierInYear(r)

\* A year has fewer than a thousand days: a date before another, and not before the other's
\* first of January, is of its year.
LEMMA YearOf ==
    ASSUME NEW d \in Nat, NEW x \in Nat, d < x
    PROVE  d >= YearStart(x) <=> YearStart(d) = YearStart(x)
  <1>1. /\ x = 1000 * (x \div 1000) + (x % 1000) /\ x % 1000 \in 0..999
        /\ d = 1000 * (d \div 1000) + (d % 1000) /\ d % 1000 \in 0..999
        /\ x \div 1000 \in Nat /\ d \div 1000 \in Nat
    OBVIOUS
  <1>. DEFINE X == x \div 1000
             D == d \div 1000
             a == x % 1000
             b == d % 1000
  <1>2. /\ x = 1000 * X + a /\ a \in 0..999 /\ d = 1000 * D + b /\ b \in 0..999
        /\ X \in Nat /\ D \in Nat /\ YearStart(x) = X * 1000 /\ YearStart(d) = D * 1000
    BY <1>1 DEF YearStart
  <1>. HIDE DEF X, D, a, b
  <1>. QED BY <1>2

\* The year columns are summed over the right payrolls, for any number of them.
THEOREM TheYearIsCounted == Spec => []CountsTheYear
  <1>1. Shape /\ Typed => CountsTheYear
    <2>. SUFFICES ASSUME Shape, Typed, Tidy, NEW r \in Computed
                  PROVE  Prior(r) = EarlierInYear(r)
      BY DEF CountsTheYear
    <2>1. \A q \in Computed : /\ q \in Run /\ Period(q).start \in Nat \cup {NoDate}
                              /\ Period(q).end \in Nat \cup {NoDate}
      <3>. SUFFICES ASSUME NEW q \in Computed
                    PROVE  /\ q \in Run /\ Period(q).start \in Nat \cup {NoDate}
                           /\ Period(q).end \in Nat \cup {NoDate}
        OBVIOUS
      <3>1. q \in Run
        BY DEF Computed
      <3>2. PICK p \in Payroll : payroll[q] = {p}
        BY <3>1 DEF Typed
      <3>3. Period(q) = p.period
        BY <3>2 DEF Period, The
      <3>. QED BY <3>1, <3>3, PayYearAssumption DEF Payload
    <2>2. \A q \in Computed : /\ Period(q).start \in Nat /\ Period(q).start # NoDate
                              /\ Period(q).end \in Nat /\ Period(q).end # NoDate
                              /\ Period(q).start <= Period(q).end
      BY <2>1 DEF Tidy, NoDate
    <2>3. \A q \in Run : status[q] = "reconciled" => q \in Computed
      BY DEF Computed
    <2>4. ASSUME NEW q \in Run, status[q] = "reconciled"
          PROVE  q \in Prior(r) <=> q \in EarlierInYear(r)
      <3>1. q \in Computed
        BY <2>3, <2>4
      <3>. DEFINE s == Period(q).start
                 e == Period(q).end
                 x == Period(r).start
                 y == Period(r).end
      <3>2. s \in Nat /\ e \in Nat /\ x \in Nat /\ y \in Nat /\ s <= e /\ x <= y
        BY <2>2, <3>1
      <3>3. (s = x /\ e = y) \/ e < x \/ y < s
        <4>1. Period(q) = Period(r) \/ e < x \/ y < s
          BY <3>1 DEF Tidy
        <4>. QED BY <4>1
      <3>4. q \in Prior(r) <=> s >= YearStart(x) /\ e < x
        BY <2>2, <2>4, <3>1 DEF Prior, Counted
      <3>5. q \in EarlierInYear(r) <=> YearStart(s) = YearStart(x) /\ s < x
        BY <2>4 DEF EarlierInYear, SameYear
      <3>6. s < x => (s >= YearStart(x) <=> YearStart(s) = YearStart(x))
        BY <3>2, YearOf
      <3>. HIDE DEF s, e, x, y
      <3>7. s < x <=> e < x
        BY <3>2, <3>3
      <3>. QED BY <3>4, <3>5, <3>6, <3>7
    <2>5. Prior(r) \subseteq {q \in Run : status[q] = "reconciled"}
      BY DEF Prior, Counted
    <2>6. EarlierInYear(r) \subseteq {q \in Run : status[q] = "reconciled"}
      BY DEF EarlierInYear
    <2>. QED BY <2>4, <2>5, <2>6
  <1>2. Init => IInv /\ Typed
    BY InitIsSlotted, InitTyped
  <1>3. IInv /\ Typed /\ [Next]_vars => IInv' /\ Typed'
    BY StepIsSlotted, StepTyped DEF IInv
  <1>. QED BY <1>1, <1>2, <1>3, PTL DEF Spec, IInv
-------------------------------------------------------------------------------
(* Sums over finite sets.  The induction theorems of the library take a predicate as *)
(* a parameter; its least-element theorem takes a set, and is all that is needed.    *)

\* Induction over a set of naturals, by the least element of its complement.
LEMMA Induction ==
    ASSUME NEW T, 0 \in T, \A n \in Nat : n \in T => n + 1 \in T
    PROVE  Nat \subseteq T
  <1>. DEFINE R == OpToRel(<, Nat)
  <1>. DEFINE C == Nat \ T
  <1>1. IsWellFoundedOn(R, Nat)
    BY NatLessThanWellFounded
  <1>. SUFFICES ASSUME C # {} PROVE FALSE
    OBVIOUS
  <1>2. PICK n \in C : \A m \in C : <<m, n>> \notin R
    <2>. HIDE DEF R
    <2>. QED BY <1>1, WFMin
  <1>3. n # 0 /\ n - 1 \in Nat
    OBVIOUS
  <1>4. <<n - 1, n>> \in R
    BY <1>3 DEF OpToRel
  <1>5. n - 1 \in C
    BY <1>3
  <1>. HIDE DEF R, C
  <1>. QED BY <1>2, <1>4, <1>5

\* A set of subsets that has each subset once it has all smaller ones has them all.
LEMMA SubsetInduction ==
    ASSUME NEW S, IsFiniteSet(S), NEW P,
           \A s \in SUBSET S :
              (\A u \in SUBSET S : Cardinality(u) < Cardinality(s) => u \in P) => s \in P
    PROVE  SUBSET S \subseteq P
  <1>. DEFINE T == {n \in Nat : \A s \in SUBSET S : Cardinality(s) <= n => s \in P}
  <1>0. \A s \in SUBSET S : Cardinality(s) \in Nat
    BY FS_Subset, FS_CardinalityType
  <1>1. 0 \in T
    BY <1>0
  <1>2. ASSUME NEW n \in Nat, n \in T PROVE n + 1 \in T
    <2>1. ASSUME NEW s \in SUBSET S, Cardinality(s) <= n + 1 PROVE s \in P
      BY <1>0, <1>2, <2>1
    <2>. QED BY <2>1
  <1>3. Nat \subseteq T
    <2>. HIDE DEF T
    <2>. QED BY <1>1, <1>2, Induction
  <1>. QED BY <1>0, <1>3

LEMMA WithoutOne ==
    ASSUME NEW S, IsFiniteSet(S), NEW s \in SUBSET S, NEW x \in s
    PROVE  s \ {x} \in SUBSET S /\ Cardinality(s \ {x}) < Cardinality(s)
  BY FS_Subset, FS_RemoveElement, FS_CardinalityType

\* g is the partial sums of f that the fold computes for the sets of D.
Sums(f, D, g) ==
    g = [s \in D |-> IF s = {} THEN 0 ELSE f[The(s)] + g[s \ {The(s)}]]

\* Recursion over finite sets is well defined: size by size.
LEMMA SumsExist ==
    ASSUME NEW f, NEW S, IsFiniteSet(S)
    PROVE  \E g : Sums(f, SUBSET S, g)
  <1>. DEFINE D(n) == {s \in SUBSET S : Cardinality(s) <= n}
  <1>. DEFINE T == {n \in Nat : \E g : Sums(f, D(n), g)}
  <1>0. \A s \in SUBSET S : Cardinality(s) \in Nat
    BY FS_Subset, FS_CardinalityType
  <1>1. 0 \in T
    <2>1. D(0) = {{}}
      <3>1. \A s \in SUBSET S : Cardinality(s) <= 0 <=> s = {}
        BY <1>0, FS_Subset, FS_EmptySet
      <3>. QED BY <3>1
    <2>2. Sums(f, D(0), [s \in {{}} |-> 0])
      BY <2>1 DEF Sums
    <2>. QED BY <2>2
  <1>2. ASSUME NEW n \in Nat, n \in T PROVE n + 1 \in T
    <2>1. PICK g : Sums(f, D(n), g)
      BY <1>2
    <2>. DEFINE h == [s \in D(n + 1) |->
                        IF s = {} THEN 0 ELSE f[The(s)] + g[s \ {The(s)}]]
    <2>2. ASSUME NEW s \in D(n + 1), s # {} PROVE h[s \ {The(s)}] = g[s \ {The(s)}]
      <3>1. The(s) \in s
        BY <2>2 DEF The
      <3>2. Cardinality(s \ {The(s)}) = Cardinality(s) - 1
        BY <3>1, FS_RemoveElement, FS_Subset
      <3>3. s \ {The(s)} \in D(n) /\ s \ {The(s)} \in D(n + 1)
        BY <1>0, <3>2
      <3>. HIDE DEF D
      <3>. QED BY <2>1, <3>3 DEF Sums
    <2>3. Sums(f, D(n + 1), h)
      <3>. HIDE DEF D
      <3>. QED BY <2>2 DEF Sums
    <2>. HIDE DEF D, h
    <2>. QED BY <2>3
  <1>3. Cardinality(S) \in T
    <2>1. Nat \subseteq T
      <3>. HIDE DEF T
      <3>. QED BY <1>1, <1>2, Induction
    <2>. QED BY <2>1, FS_CardinalityType
  <1>4. SUBSET S = D(Cardinality(S))
    BY <1>0, FS_Subset
  <1>. QED BY <1>3, <1>4

LEMMA SumIsSums ==
    ASSUME NEW f, NEW S, IsFiniteSet(S)
    PROVE  \E g : Sums(f, SUBSET S, g) /\ SumFunctionOnSet(f, S) = g[S]
  <1>. DEFINE sums == CHOOSE g : Sums(f, SUBSET S, g)
  <1>1. Sums(f, SUBSET S, sums)
    BY SumsExist
  <1>2. SumFunctionOnSet(f, S) = sums[S]
    BY DEF Sums, The, SumFunctionOnSet, FoldFunctionOnSet, MapThenFoldSet
  <1>. QED BY <1>1, <1>2

\* The partial sums do not depend on the set they were computed for.
LEMMA SumsAgree ==
    ASSUME NEW f, NEW g, NEW h, NEW S, IsFiniteSet(S), NEW T, S \subseteq T,
           Sums(f, SUBSET S, g), Sums(f, SUBSET T, h)
    PROVE  \A s \in SUBSET S : g[s] = h[s]
  <1>. DEFINE P == {s \in SUBSET S : g[s] = h[s]}
  <1>1. ASSUME NEW s \in SUBSET S,
               \A u \in SUBSET S : Cardinality(u) < Cardinality(s) => u \in P
        PROVE  s \in P
    <2>1. CASE s = {}
      BY <2>1 DEF Sums
    <2>2. CASE s # {}
      <3>1. The(s) \in s
        BY <2>2 DEF The
      <3>2. g[s \ {The(s)}] = h[s \ {The(s)}]
        BY <1>1, <3>1, WithoutOne
      <3>. QED BY <2>2, <3>2 DEF Sums
    <2>. QED BY <2>1, <2>2
  <1>. HIDE DEF P
  <1>2. SUBSET S \subseteq P
    BY <1>1, SubsetInduction
  <1>. QED BY <1>2 DEF P

\* The equation of the fold.
LEMMA SumStep ==
    ASSUME NEW f, NEW S, IsFiniteSet(S)
    PROVE  SumFunctionOnSet(f, S) =
             IF S = {} THEN 0
             ELSE f[The(S)] + SumFunctionOnSet(f, S \ {The(S)})
  <1>1. PICK g : Sums(f, SUBSET S, g) /\ SumFunctionOnSet(f, S) = g[S]
    BY SumIsSums
  <1>2. CASE S = {}
    BY <1>1, <1>2 DEF Sums
  <1>3. CASE S # {}
    <2>1. IsFiniteSet(S \ {The(S)}) /\ S \ {The(S)} \subseteq S
      BY FS_Subset
    <2>2. PICK h : /\ Sums(f, SUBSET (S \ {The(S)}), h)
                   /\ SumFunctionOnSet(f, S \ {The(S)}) = h[S \ {The(S)}]
      BY <2>1, SumIsSums
    <2>3. h[S \ {The(S)}] = g[S \ {The(S)}]
      BY <1>1, <2>1, <2>2, SumsAgree
    <2>. QED BY <1>1, <1>3, <2>2, <2>3 DEF Sums
  <1>. QED BY <1>2, <1>3

\* A sum over no indices is zero.
LEMMA SumOfNone == ASSUME NEW f PROVE SumFunctionOnSet(f, {}) = 0
  BY SumStep, FS_EmptySet

\* A sum of integers, or of naturals, is one.
LEMMA SumType ==
    ASSUME NEW f, NEW S, IsFiniteSet(S), NEW Z, Z = Int \/ Z = Nat, \A x \in S : f[x] \in Z
    PROVE  SumFunctionOnSet(f, S) \in Z
  <1>. DEFINE P == {s \in SUBSET S : SumFunctionOnSet(f, s) \in Z}
  <1>1. ASSUME NEW s \in SUBSET S,
               \A u \in SUBSET S : Cardinality(u) < Cardinality(s) => u \in P
        PROVE  s \in P
    <2>0. IsFiniteSet(s)
      BY FS_Subset
    <2>1. CASE s = {}
      BY <2>1, SumOfNone
    <2>2. CASE s # {}
      <3>1. The(s) \in s
        BY <2>2 DEF The
      <3>2. SumFunctionOnSet(f, s \ {The(s)}) \in Z
        BY <1>1, <3>1, WithoutOne
      <3>3. SumFunctionOnSet(f, s) = f[The(s)] + SumFunctionOnSet(f, s \ {The(s)})
        BY <2>0, <2>2, SumStep
      <3>. QED BY <3>1, <3>2, <3>3
    <2>. QED BY <2>1, <2>2
  <1>. HIDE DEF P
  <1>2. SUBSET S \subseteq P
    BY <1>1, SubsetInduction
  <1>. QED BY <1>2 DEF P

\* Any element can be summed last.
LEMMA SumTakesAny ==
    ASSUME NEW f, NEW S, IsFiniteSet(S), \A x \in S : f[x] \in Int
    PROVE  \A x \in S : SumFunctionOnSet(f, S) = f[x] + SumFunctionOnSet(f, S \ {x})
  <1>. DEFINE P == {s \in SUBSET S : \A x \in s :
                      SumFunctionOnSet(f, s) = f[x] + SumFunctionOnSet(f, s \ {x})}
  <1>1. ASSUME NEW s \in SUBSET S,
               \A u \in SUBSET S : Cardinality(u) < Cardinality(s) => u \in P
        PROVE  s \in P
    <2>. SUFFICES ASSUME NEW x \in s
                  PROVE  SumFunctionOnSet(f, s) = f[x] + SumFunctionOnSet(f, s \ {x})
      OBVIOUS
    <2>. DEFINE p == The(s)
    <2>1. IsFiniteSet(s) /\ p \in s
      BY FS_Subset DEF The
    <2>. HIDE DEF p
    <2>2. SumFunctionOnSet(f, s) = f[p] + SumFunctionOnSet(f, s \ {p})
      BY <2>1, SumStep DEF p
    <2>3. CASE x # p
      <3>1. s \ {p} \in P /\ s \ {x} \in P
        BY <1>1, <2>1, WithoutOne
      <3>2. SumFunctionOnSet(f, s \ {p}) = f[x] + SumFunctionOnSet(f, (s \ {p}) \ {x})
        BY <2>3, <3>1
      <3>3. SumFunctionOnSet(f, s \ {x}) = f[p] + SumFunctionOnSet(f, (s \ {x}) \ {p})
        BY <2>1, <2>3, <3>1
      <3>4. (s \ {p}) \ {x} = (s \ {x}) \ {p} /\ IsFiniteSet((s \ {x}) \ {p})
        BY <2>1, FS_Subset
      <3>5. SumFunctionOnSet(f, (s \ {x}) \ {p}) \in Int
        BY <3>4, SumType
      <3>6. f[p] \in Int /\ f[x] \in Int
        BY <2>1
      <3>. DEFINE a == SumFunctionOnSet(f, s \ {p})
                  b == SumFunctionOnSet(f, s \ {x})
                  c == SumFunctionOnSet(f, (s \ {x}) \ {p})
      <3>7. a = f[x] + c /\ b = f[p] + c /\ c \in Int
        BY <3>2, <3>3, <3>4, <3>5
      <3>8. SumFunctionOnSet(f, s) = f[p] + a
        BY <2>2
      <3>9. f[p] + a = f[x] + b
        <4>. HIDE DEF a, b, c
        <4>. QED BY <3>6, <3>7
      <3>. QED BY <3>8, <3>9
    <2>. QED BY <2>2, <2>3
  <1>. HIDE DEF P
  <1>2. SUBSET S \subseteq P
    BY <1>1, SubsetInduction
  <1>. QED BY <1>2 DEF P

\* A sum only looks at its indices.
LEMMA SumLocal ==
    ASSUME NEW f, NEW g, NEW S, IsFiniteSet(S), \A x \in S : f[x] = g[x]
    PROVE  SumFunctionOnSet(f, S) = SumFunctionOnSet(g, S)
  <1>. DEFINE P == {s \in SUBSET S : SumFunctionOnSet(f, s) = SumFunctionOnSet(g, s)}
  <1>1. ASSUME NEW s \in SUBSET S,
               \A u \in SUBSET S : Cardinality(u) < Cardinality(s) => u \in P
        PROVE  s \in P
    <2>0. IsFiniteSet(s)
      BY FS_Subset
    <2>1. CASE s = {}
      BY <2>1, SumOfNone
    <2>2. CASE s # {}
      <3>1. The(s) \in s
        BY <2>2 DEF The
      <3>2. SumFunctionOnSet(f, s \ {The(s)}) = SumFunctionOnSet(g, s \ {The(s)})
        BY <1>1, <3>1, WithoutOne
      <3>3. /\ SumFunctionOnSet(f, s) = f[The(s)] + SumFunctionOnSet(f, s \ {The(s)})
            /\ SumFunctionOnSet(g, s) = g[The(s)] + SumFunctionOnSet(g, s \ {The(s)})
        BY <2>0, <2>2, SumStep
      <3>. QED BY <3>1, <3>2, <3>3
    <2>. QED BY <2>1, <2>2
  <1>. HIDE DEF P
  <1>2. SUBSET S \subseteq P
    BY <1>1, SubsetInduction
  <1>. QED BY <1>2 DEF P

\* More terms that are not negative never make less.
LEMMA SumGrows ==
    ASSUME NEW f, NEW S, IsFiniteSet(S), \A x \in S : f[x] \in Nat, NEW R \in SUBSET S
    PROVE  SumFunctionOnSet(f, R) <= SumFunctionOnSet(f, S)
  <1>. DEFINE P == {s \in SUBSET S : R \subseteq s =>
                      SumFunctionOnSet(f, R) <= SumFunctionOnSet(f, s)}
  <1>1. ASSUME NEW s \in SUBSET S,
               \A u \in SUBSET S : Cardinality(u) < Cardinality(s) => u \in P
        PROVE  s \in P
    <2>. SUFFICES ASSUME R \subseteq s
                  PROVE  SumFunctionOnSet(f, R) <= SumFunctionOnSet(f, s)
      OBVIOUS
    <2>0. IsFiniteSet(s) /\ IsFiniteSet(R)
      BY FS_Subset
    <2>1. SumFunctionOnSet(f, s) \in Nat /\ SumFunctionOnSet(f, R) \in Nat
      BY <2>0, SumType
    <2>2. CASE R # s
      <3>1. PICK x \in s : x \notin R
        BY <2>2
      <3>2. SumFunctionOnSet(f, R) <= SumFunctionOnSet(f, s \ {x})
        BY <1>1, <3>1, WithoutOne
      <3>3. SumFunctionOnSet(f, s) = f[x] + SumFunctionOnSet(f, s \ {x})
        BY <2>0, SumTakesAny
      <3>4. IsFiniteSet(s \ {x})
        BY <2>0, FS_Subset
      <3>5. SumFunctionOnSet(f, s \ {x}) \in Nat
        BY <3>4, SumType
      <3>. QED BY <2>1, <3>2, <3>3, <3>5
    <2>. QED BY <2>1, <2>2
  <1>. HIDE DEF P
  <1>2. SUBSET S \subseteq P
    BY <1>1, SubsetInduction
  <1>. QED BY <1>2 DEF P

-------------------------------------------------------------------------------
(* What the paystubs say of the year *)

\* A computed run's paystub is the calculation's, of the payroll the run holds.
Figured ==
    \A r \in Computed : \E p \in payroll[r] :
        stub[r] = {Stored(Calculate(employee, p.hours, p.override))}

LEMMA InitFigured == Init => Figured
  BY DEF Init, Figured, Computed

LEMMA StepFigured == Shape /\ Typed /\ Figured /\ [Next]_vars => Figured'
  <1>. SUFFICES ASSUME Shape, Typed, Figured, [Next]_vars PROVE Figured'
    OBVIOUS
  <1>. USE DEF Shape
  <1>1. ASSUME NEW r \in Run, NEW p \in Payroll, Process(r, p) PROVE Figured'
    <2>. DEFINE new == {Stored(Calculate(employee, p.hours, p.override))}
    <2>1. /\ employee' = employee /\ payroll' = [payroll EXCEPT ![r] = {p}]
          /\ \/ status' = [status EXCEPT ![r] = "awaiting_reply"] /\ stub' = stub
             \/ status' = [status EXCEPT ![r] = "awaiting_approval"]
                /\ stub' = [stub EXCEPT ![r] = new]
      BY <1>1 DEF Process, ReplaceLineItems
    <2>. SUFFICES ASSUME NEW k \in Computed'
                  PROVE  \E q \in payroll'[k] :
                           stub'[k] = {Stored(Calculate(employee, q.hours, q.override))}
      BY <2>1 DEF Figured
    <2>2. CASE k = r
      <3>1. payroll'[r] = {p} /\ stub'[r] = new
        BY <2>1, <2>2 DEF Computed, Typed
      <3>. QED BY <2>2, <3>1
    <2>3. CASE k # r
      <3>1. k \in Computed /\ payroll'[k] = payroll[k] /\ stub'[k] = stub[k]
        BY <2>1, <2>3 DEF Computed, Typed
      <3>. QED BY <3>1 DEF Figured
    <2>. QED BY <2>2, <2>3
  <1>2. ASSUME NEW r \in Run,
               Fail(r) \/ Approve(r) \/ Reject(r) \/ Deliver(r) \/ DeliveryFails(r) \/ Retrigger(r)
        PROVE  Figured'
    <2>1. UNCHANGED <<employee, payroll, stub>> /\ \A k \in Computed' : k \in Computed
      BY <1>2 DEF Fail, Approve, Reject, Deliver, DeliveryFails, Retrigger, Computed
    <2>. QED BY <2>1 DEF Figured
  <1>3. CASE UNCHANGED vars
    BY <1>3 DEF vars, Figured, Computed
  <1>. QED BY <1>1, <1>2, <1>3 DEF Next

\* The net is an integer, and may be negative.
LEMMA FiguresAreWhole ==
    ASSUME NEW e \in Employee, NEW p \in Payload
    PROVE  \A c \in Category : Stored(Calculate(e, p.hours, p.override))[c] \in Int
  <1>. DEFINE s == Stored(Calculate(e, p.hours, p.override))
  <1>1. \A c \in Amounts : s[c] \in Nat
    BY AmountsAreWhole
  <1>2. s.net = s.gross - s.k401 - s.ss - s.medicare - s.federal
    BY DEF Stored, Calculate
  <1>. HIDE DEF s
  <1>3. s.net \in Int
    BY <1>1, <1>2 DEF Amounts
  <1>. QED BY <1>1, <1>3 DEF Category, Amounts, s

LEMMA ComputedFigures ==
    ASSUME Typed, Figured
    PROVE  \A r \in Computed : \A c \in Category : The(stub[r])[c] \in Int
  <1>. SUFFICES ASSUME NEW r \in Computed
                PROVE  \A c \in Category : The(stub[r])[c] \in Int
    OBVIOUS
  <1>1. PICK p \in payroll[r] : stub[r] = {Stored(Calculate(employee, p.hours, p.override))}
    BY DEF Figured
  <1>2. p \in Payload /\ employee \in Employee
    BY PayYearAssumption DEF Typed, Computed
  <1>3. The(stub[r]) = Stored(Calculate(employee, p.hours, p.override))
    BY <1>1 DEF The
  <1>. QED BY <1>2, <1>3, FiguresAreWhole

\* Totals of one category, as a sum over some of the runs.
LEMMA TotalsAreSums ==
    ASSUME NEW S \in SUBSET Run, IsFiniteSet(Run), NEW c \in Category
    PROVE  Totals(S)[c] = SumFunctionOnSet([q \in Run |-> The(stub[q])[c]], S)
  <1>1. IsFiniteSet(S)
    BY FS_Subset
  <1>2. Totals(S)[c] = SumFunctionOnSet([q \in S |-> The(stub[q])[c]], S)
    BY DEF Totals, SumFunction
  <1>. QED BY <1>1, <1>2, SumLocal

\* For finitely many payrolls, that give both their dates and do not overlap, the year
\* columns of a paystub (PaystubYtdTotals.from_prior()) are its own amounts and those of
\* every earlier reconciled payroll of the year, each once.
THEOREM TheColumnsAreTheYear ==
    ASSUME IsFiniteSet(Run)
    PROVE  Spec => []YearToDateIsTheYear
  <1>1. CountsTheYear /\ Typed /\ Figured => YearToDateIsTheYear
    <2>. SUFFICES ASSUME CountsTheYear, Typed, Figured, Tidy, NEW r \in Computed, NEW c \in Category
                  PROVE  YearToDate(r)[c] = Totals(EarlierInYear(r) \cup {r})[c]
      BY DEF YearToDateIsTheYear
    <2>. DEFINE f == [q \in Run |-> The(stub[q])[c]]
               E == EarlierInYear(r)
    <2>1. r \in Run /\ E \in SUBSET Computed /\ Computed \subseteq Run
      BY DEF EarlierInYear, Computed
    <2>2. r \notin E
      <3>1. Period(r).start \in Int
        <4>1. PICK p \in Payroll : payroll[r] = {p}
          BY <2>1 DEF Typed
        <4>2. Period(r) = p.period
          BY <4>1 DEF Period, The
        <4>. QED BY <4>1, <4>2, PayYearAssumption DEF Payload, NoDate
      <3>. QED BY <3>1 DEF EarlierInYear
    <2>3. YearToDate(r)[c] = Totals(E)[c] + f[r]
      BY <2>1 DEF YearToDate, CountsTheYear
    <2>. HIDE DEF E
    <2>4. \A q \in E \cup {r} : f[q] \in Int
      BY <2>1, ComputedFigures
    <2>5. Totals(E)[c] = SumFunctionOnSet(f, E)
      BY <2>1, TotalsAreSums
    <2>6. Totals(E \cup {r})[c] = SumFunctionOnSet(f, E \cup {r})
      BY <2>1, TotalsAreSums
    <2>. HIDE DEF f
    <2>7. IsFiniteSet(E \cup {r}) /\ (E \cup {r}) \ {r} = E
      BY <2>1, <2>2, FS_Subset
    <2>8. SumFunctionOnSet(f, E \cup {r}) = f[r] + SumFunctionOnSet(f, E)
      BY <2>4, <2>7, SumTakesAny
    <2>9. SumFunctionOnSet(f, E) \in Int /\ f[r] \in Int
      BY <2>1, <2>4, FS_Subset, SumType
    <2>. QED BY <2>3, <2>5, <2>6, <2>8, <2>9 DEF E
  <1>2. Spec => []CountsTheYear
    BY TheYearIsCounted
  <1>3. Init => IInv /\ Typed /\ Figured
    BY InitIsSlotted, InitTyped, InitFigured
  <1>4. IInv /\ Typed /\ Figured /\ [Next]_vars => IInv' /\ Typed' /\ Figured'
    BY StepIsSlotted, StepTyped, StepFigured DEF IInv
  <1>. QED BY <1>1, <1>2, <1>3, <1>4, PTL DEF Spec

\* The figures of a frozen run, and of the payrolls it counts, are no longer touched, and
\* what it counts only grows.
LEMMA BooksOnlyGrow ==
    ASSUME Shape, Typed, [Next]_vars, NEW r \in Run, status[r] \in {"approved", "reconciled"}
    PROVE  /\ payroll'[r] = payroll[r] /\ stub'[r] = stub[r]
           /\ Prior(r) \subseteq Prior(r)'
           /\ \A q \in Prior(r) : q \in Computed /\ stub'[q] = stub[q]
  <1>1. \A q \in Run : status[q] \in {"approved", "reconciled"} =>
                         payroll'[q] = payroll[q] /\ stub'[q] = stub[q]
    <2>1. ASSUME NEW k \in Run, NEW p \in Payroll, Process(k, p), NEW q \in Run,
                 status[q] \in {"approved", "reconciled"}
          PROVE  payroll'[q] = payroll[q] /\ stub'[q] = stub[q]
      <3>1. q # k
        BY <2>1 DEF Process
      <3>2. \E s, t : /\ payroll' = [payroll EXCEPT ![k] = s]
                      /\ stub' = [stub EXCEPT ![k] = t] \/ stub' = stub
        BY <2>1 DEF Process, ReplaceLineItems
      <3>. QED BY <2>1, <3>1, <3>2 DEF Shape, Typed
    <2>2. ASSUME NEW k \in Run,
                 Fail(k) \/ Approve(k) \/ Reject(k) \/ Deliver(k) \/ DeliveryFails(k) \/ Retrigger(k)
          PROVE  payroll' = payroll /\ stub' = stub
      BY <2>2 DEF Fail, Approve, Reject, Deliver, DeliveryFails, Retrigger
    <2>. QED BY <2>1, <2>2 DEF Next, vars
  <1>2. \A q \in Run : status[q] = "reconciled" => status'[q] = "reconciled"
    BY DEF Shape, Next, vars, Process, Fail, Approve, Reject, Deliver, DeliveryFails, Retrigger
  <1>3. Prior(r) \subseteq {q \in Run : status[q] = "reconciled"}
    BY DEF Prior, Counted
  <1>4. Period(r)' = Period(r) /\ \A q \in Prior(r) : Period(q)' = Period(q)
    BY <1>1, <1>3 DEF Period
  <1>5. Prior(r) \subseteq Prior(r)'
    BY <1>2, <1>3, <1>4 DEF Prior, Counted
  <1>. QED BY <1>1, <1>3, <1>5 DEF Computed

\* A snapshot's year columns are integers, and no more than the books say.
Honest ==
    \A r \in Computed : \A m \in slot[r] : \A c \in Amounts :
        m.ytd[c] \in Int /\ m.ytd[c] <= YearToDate(r)[c]

LEMMA YearToDateIsWhole ==
    ASSUME IsFiniteSet(Run), Typed, Figured, NEW r \in Computed, NEW c \in Category
    PROVE  YearToDate(r)[c] \in Int
  <1>1. Prior(r) \in SUBSET Computed /\ Prior(r) \in SUBSET Run /\ r \in Run
    BY DEF Prior, Counted, Computed
  <1>. DEFINE f == [q \in Run |-> The(stub[q])[c]]
  <1>2. Totals(Prior(r))[c] = SumFunctionOnSet(f, Prior(r))
    BY <1>1, TotalsAreSums
  <1>3. f[r] \in Int /\ \A q \in Prior(r) : f[q] \in Int
    BY <1>1, ComputedFigures
  <1>4. YearToDate(r)[c] = SumFunctionOnSet(f, Prior(r)) + f[r]
    BY <1>1, <1>2 DEF YearToDate
  <1>. HIDE DEF f
  <1>5. IsFiniteSet(Prior(r))
    BY <1>1, FS_Subset
  <1>6. SumFunctionOnSet(f, Prior(r)) \in Int
    BY <1>3, <1>5, SumType
  <1>. QED BY <1>3, <1>4, <1>6

LEMMA YearToDateGrows ==
    ASSUME IsFiniteSet(Run), Shape, Typed, Figured, [Next]_vars,
           NEW r \in Run, status[r] \in {"approved", "reconciled"}, NEW c \in Amounts
    PROVE  YearToDate(r)[c] <= (YearToDate(r)[c])' /\ (YearToDate(r)[c])' \in Int
  <1>. DEFINE f == [q \in Run |-> The(stub'[q])[c]]
             P == Prior(r)
             Q == Prior(r)'
  <1>0. c \in Category /\ r \in Computed
    BY DEF Category, Amounts, Computed
  <1>1. /\ P \subseteq Q /\ P \in SUBSET Run /\ Q \in SUBSET Run /\ IsFiniteSet(P) /\ IsFiniteSet(Q)
        /\ \A q \in P : stub'[q] = stub[q]
        /\ stub'[r] = stub[r]
    BY BooksOnlyGrow, FS_Subset DEF Prior
  <1>2. Typed' /\ Figured'
    BY StepTyped, StepFigured
  <1>3. \A q \in Run : status'[q] = "reconciled" => q \in Computed'
    BY DEF Computed
  <1>4. \A q \in Q : f[q] \in Nat
    <2>. SUFFICES ASSUME NEW q \in Q PROVE The(stub'[q])[c] \in Nat
      BY <1>1
    <2>1. q \in Computed' /\ q \in Run
      BY <1>1, <1>3 DEF Prior, Counted
    <2>2. \E s : stub'[q] = {s}
      BY <1>2, <2>1 DEF Figured
    <2>3. The(stub'[q]) \in stub'[q]
      BY <2>2 DEF The
    <2>. QED BY <1>2, <2>1, <2>3 DEF Typed
  <1>5. f[r] \in Int
    BY <1>0, <1>1, ComputedFigures
  <1>6. (YearToDate(r)[c])' = SumFunctionOnSet(f, Q) + f[r]
    <2>1. (YearToDate(r)[c])' = SumFunctionOnSet([q \in Q |-> The(stub'[q])[c]], Q) + f[r]
      BY <1>0 DEF YearToDate, Totals, SumFunction
    <2>. DEFINE g == [q \in Q |-> The(stub'[q])[c]]
    <2>2. \A q \in Q : g[q] = f[q]
      BY <1>1
    <2>3. SumFunctionOnSet(g, Q) = SumFunctionOnSet(f, Q)
      <3>. HIDE DEF f, g, Q
      <3>. QED BY <1>1, <2>2, SumLocal
    <2>. QED BY <2>1, <2>3
  <1>7. YearToDate(r)[c] = SumFunctionOnSet(f, P) + f[r]
    <2>1. YearToDate(r)[c] = SumFunctionOnSet([q \in P |-> The(stub[q])[c]], P) + f[r]
      BY <1>0, <1>1 DEF YearToDate, Totals, SumFunction
    <2>. DEFINE g == [q \in P |-> The(stub[q])[c]]
    <2>2. \A q \in P : g[q] = f[q]
      BY <1>1
    <2>3. SumFunctionOnSet(g, P) = SumFunctionOnSet(f, P)
      <3>. HIDE DEF f, g, P
      <3>. QED BY <1>1, <2>2, SumLocal
    <2>. QED BY <2>1, <2>3
  <1>. HIDE DEF f, P, Q
  <1>8. SumFunctionOnSet(f, P) \in Nat /\ SumFunctionOnSet(f, Q) \in Nat
    BY <1>1, <1>4, SumType
  <1>9. SumFunctionOnSet(f, P) <= SumFunctionOnSet(f, Q)
    BY <1>1, <1>4, SumGrows
  <1>. QED BY <1>5, <1>6, <1>7, <1>8, <1>9

LEMMA StepHonest ==
    ASSUME IsFiniteSet(Run)
    PROVE  IInv /\ Typed /\ Figured /\ Honest /\ [Next]_vars => Honest'
  <1>. SUFFICES ASSUME IInv, Typed, Figured, Honest, [Next]_vars,
                       NEW r \in Computed', NEW m \in slot'[r], NEW c \in Amounts
                PROVE  m.ytd[c] \in Int /\ m.ytd[c] <= (YearToDate(r)[c])'
    BY DEF Honest
  <1>1. CASE Approve(r)
    <2>1. r \in Run /\ slot[r] = {} /\ r \in Computed
      BY <1>1 DEF IInv, Slotted, Approve, Computed
    <2>2. m = [stub |-> The(stub[r]), ytd |-> YearToDate(r)]
      <3>1. slot'[r] = Reserved(r)
        BY <1>1, <2>1 DEF Approve, IInv, Shape
      <3>. DEFINE frozen == [stub |-> The(stub[r]), ytd |-> YearToDate(r)]
      <3>2. Reserved(r) = {frozen}
        BY <2>1 DEF Reserved
      <3>. HIDE DEF frozen
      <3>. QED BY <3>1, <3>2 DEF frozen
    <2>3. (YearToDate(r)[c])' = YearToDate(r)[c]
      <3>1. UNCHANGED <<payroll, stub>>
        BY <1>1 DEF Approve
      <3>2. Prior(r)' = Prior(r)
        BY <1>1, <3>1 DEF Approve, Prior, Counted, Period, IInv, Shape
      <3>. QED BY <3>1, <3>2 DEF YearToDate, Totals
    <2>4. m.ytd[c] = YearToDate(r)[c]
      BY <2>2
    <2>5. YearToDate(r)[c] \in Int
      BY <2>1, YearToDateIsWhole DEF Amounts, Category
    <2>. QED BY <2>3, <2>4, <2>5
  <1>2. CASE ~Approve(r)
    <2>1. r \in Run /\ status'[r] \in {"awaiting_approval", "approved", "reconciled"}
      BY DEF Computed
    <2>2. slot'[r] = slot[r] /\ status[r] \in {"approved", "reconciled"}
      <3>0. IInv'
        BY StepIsSlotted
      <3>1. status'[r] \in {"approved", "reconciled"}
        BY <2>1, <3>0 DEF IInv, Slotted
      <3>2. status[r] \in {"approved", "reconciled"}
        BY <1>2, <2>1, <3>1 DEF IInv, Shape, Next, vars, Process, Fail, Approve, Reject,
           Deliver, DeliveryFails, Retrigger
      <3>3. \A k \in Run : ~Retrigger(r) /\ (Approve(k) => k # r)
        BY <1>2, <2>1, <3>1 DEF IInv, Shape, Retrigger
      <3>4. slot'[r] = slot[r]
        BY <2>1, <3>3 DEF IInv, Shape, Next, vars, Process, Fail, Approve, Reject,
           Deliver, DeliveryFails, Retrigger
      <3>. QED BY <3>2, <3>4
    <2>3. m.ytd[c] \in Int /\ m.ytd[c] <= YearToDate(r)[c]
      BY <2>1, <2>2 DEF Honest, Computed
    <2>4. YearToDate(r)[c] <= (YearToDate(r)[c])' /\ (YearToDate(r)[c])' \in Int
      BY <2>1, <2>2, YearToDateGrows DEF IInv
    <2>5. YearToDate(r)[c] \in Int
      BY <2>1, <2>2, YearToDateIsWhole DEF Amounts, Category, Computed
    <2>. QED BY <2>3, <2>4, <2>5
  <1>. QED BY <1>1, <1>2

\* However the payrolls of the year go on, a mailed paystub never claims more of the year
\* than the books of the moment (deliver(), paystub_pdf()).
THEOREM MailedStaysTrue ==
    ASSUME IsFiniteSet(Run)
    PROVE  Spec => []MailedNeverOverstates
  <1>1. Honest => MailedNeverOverstates
    BY DEF Honest, MailedNeverOverstates, Downloaded
  <1>2. Init => IInv /\ Typed /\ Figured /\ Honest
    <2>1. Init => Honest
      BY DEF Init, Honest, Computed
    <2>. QED BY <2>1, InitIsSlotted, InitTyped, InitFigured
  <1>3. IInv /\ Typed /\ Figured /\ Honest /\ [Next]_vars
        => IInv' /\ Typed' /\ Figured' /\ Honest'
    BY StepIsSlotted, StepTyped, StepFigured, StepHonest DEF IInv
  <1>. QED BY <1>1, <1>2, <1>3, PTL DEF Spec

-------------------------------------------------------------------------------
(* The withholding *)

\* A whole bracket at its rate.
Full(rows, i) == ((rows[i + 1].lower - rows[i].lower) * rows[i].rate) \div 100

\* The rows rise, no rate is above 37%, and each base is the tax of the brackets below, up
\* to the printed rounding.
Marginal(rows) ==
    /\ \A i \in 1..7 : rows[i].lower < rows[i + 1].lower
    /\ \A i \in 1..8 : rows[i].rate <= 37
    /\ \E below \in [1..8 -> Nat] :
         /\ below[1] = 0 /\ \A i \in 1..7 : below[i + 1] = below[i] + Full(rows, i)
         /\ \A i \in 1..8 : rows[i].base - below[i] \in -12..11

\* Row by row, the four tables of tax_tables_2026.py.
LEMMA TablesAreMarginal == \A e \in Employee : Marginal(Brackets(e))
  <1>1. Marginal(MFJ_STANDARD)
    <2>1. \A i \in 1..7 : MFJ_STANDARD[i].lower < MFJ_STANDARD[i + 1].lower
      BY DEF MFJ_STANDARD, Row
    <2>. DEFINE below == <<0, 0, 248000, 1160000, 3593200, 8204800, 11689600, 20658350>>
    <2>2. below \in [1..8 -> Nat] /\ below[1] = 0
      OBVIOUS
    <2>3. \A i \in 1..7 : below[i + 1] = below[i] + Full(MFJ_STANDARD, i)
      BY DEF MFJ_STANDARD, Row, Full
    <2>4. \A i \in 1..8 : MFJ_STANDARD[i].base - below[i] \in -12..11
      BY DEF MFJ_STANDARD, Row
    <2>5. \A i \in 1..8 : MFJ_STANDARD[i].rate <= 37
      BY DEF MFJ_STANDARD, Row
    <2>. HIDE DEF below
    <2>. QED BY <2>1, <2>2, <2>3, <2>4, <2>5 DEF Marginal
  <1>2. Marginal(SINGLE_STANDARD)
    <2>1. \A i \in 1..7 : SINGLE_STANDARD[i].lower < SINGLE_STANDARD[i + 1].lower
      BY DEF SINGLE_STANDARD, Row
    <2>. DEFINE below == <<0, 0, 124000, 580000, 1796600, 4102400, 5844800, 19297925>>
    <2>2. below \in [1..8 -> Nat] /\ below[1] = 0
      OBVIOUS
    <2>3. \A i \in 1..7 : below[i + 1] = below[i] + Full(SINGLE_STANDARD, i)
      BY DEF SINGLE_STANDARD, Row, Full
    <2>4. \A i \in 1..8 : SINGLE_STANDARD[i].base - below[i] \in -12..11
      BY DEF SINGLE_STANDARD, Row
    <2>5. \A i \in 1..8 : SINGLE_STANDARD[i].rate <= 37
      BY DEF SINGLE_STANDARD, Row
    <2>. HIDE DEF below
    <2>. QED BY <2>1, <2>2, <2>3, <2>4, <2>5 DEF Marginal
  <1>3. Marginal(MFJ_STEP2)
    <2>1. \A i \in 1..7 : MFJ_STEP2[i].lower < MFJ_STEP2[i + 1].lower
      BY DEF MFJ_STEP2, Row
    <2>. DEFINE below == <<0, 0, 124000, 580000, 1796600, 4102400, 5844800, 10329175>>
    <2>2. below \in [1..8 -> Nat] /\ below[1] = 0
      OBVIOUS
    <2>3. \A i \in 1..7 : below[i + 1] = below[i] + Full(MFJ_STEP2, i)
      BY DEF MFJ_STEP2, Row, Full
    <2>4. \A i \in 1..8 : MFJ_STEP2[i].base - below[i] \in -12..11
      BY DEF MFJ_STEP2, Row
    <2>5. \A i \in 1..8 : MFJ_STEP2[i].rate <= 37
      BY DEF MFJ_STEP2, Row
    <2>. HIDE DEF below
    <2>. QED BY <2>1, <2>2, <2>3, <2>4, <2>5 DEF Marginal
  <1>4. Marginal(SINGLE_STEP2)
    <2>1. \A i \in 1..7 : SINGLE_STEP2[i].lower < SINGLE_STEP2[i + 1].lower
      BY DEF SINGLE_STEP2, Row
    <2>. DEFINE below == <<0, 0, 62000, 290000, 898300, 2051212, 2922412, 9648957>>
    <2>2. below \in [1..8 -> Nat] /\ below[1] = 0
      OBVIOUS
    <2>3. \A i \in 1..7 : below[i + 1] = below[i] + Full(SINGLE_STEP2, i)
      BY DEF SINGLE_STEP2, Row, Full
    <2>4. \A i \in 1..8 : SINGLE_STEP2[i].base - below[i] \in -12..11
      BY DEF SINGLE_STEP2, Row
    <2>5. \A i \in 1..8 : SINGLE_STEP2[i].rate <= 37
      BY DEF SINGLE_STEP2, Row
    <2>. HIDE DEF below
    <2>. QED BY <2>1, <2>2, <2>3, <2>4, <2>5 DEF Marginal
  <1>. QED BY <1>1, <1>2, <1>3, <1>4 DEF Brackets

LEMMA SumOfEight ==
    ASSUME NEW f, \A i \in 1..8 : f[i] \in Int
    PROVE  SumFunctionOnSet(f, 1..8)
             = f[1] + f[2] + f[3] + f[4] + f[5] + f[6] + f[7] + f[8]
  <1>1. ASSUME NEW n \in 1..8
        PROVE  /\ SumFunctionOnSet(f, 1..n) = f[n] + SumFunctionOnSet(f, 1..(n - 1))
               /\ SumFunctionOnSet(f, 1..n) \in Int
    <2>. DEFINE S == 1..n
    <2>1. S \ {n} = 1..(n - 1) /\ n \in S /\ \A i \in S : f[i] \in Int
      OBVIOUS
    <2>2. IsFiniteSet(S)
      BY FS_Interval
    <2>. HIDE DEF S
    <2>3. SumFunctionOnSet(f, S) = f[n] + SumFunctionOnSet(f, S \ {n})
      BY <2>1, <2>2, SumTakesAny
    <2>4. SumFunctionOnSet(f, S) \in Int
      BY <2>1, <2>2, SumType
    <2>. QED BY <2>1, <2>3, <2>4 DEF S
  <1>. DEFINE s(n) == SumFunctionOnSet(f, 1..n)
  <1>2. s(0) = 0
    BY SumOfNone
  <1>3. \A n \in 1..8 : s(n) = f[n] + s(n - 1) /\ s(n) \in Int
    BY <1>1
  <1>. HIDE DEF s
  <1>4. /\ s(1) = f[1] /\ s(2) = f[2] + s(1) /\ s(3) = f[3] + s(2) /\ s(4) = f[4] + s(3)
        /\ s(5) = f[5] + s(4) /\ s(6) = f[6] + s(5) /\ s(7) = f[7] + s(6) /\ s(8) = f[8] + s(7)
    <2>1. s(1) = f[1] + s(0) /\ s(2) = f[2] + s(1) /\ s(3) = f[3] + s(2) /\ s(4) = f[4] + s(3)
      BY <1>3
    <2>2. s(5) = f[5] + s(4) /\ s(6) = f[6] + s(5) /\ s(7) = f[7] + s(6) /\ s(8) = f[8] + s(7)
      BY <1>3
    <2>. QED BY <1>2, <2>1, <2>2
  <1>5. /\ f[1] \in Int /\ f[2] \in Int /\ f[3] \in Int /\ f[4] \in Int
        /\ f[5] \in Int /\ f[6] \in Int /\ f[7] \in Int /\ f[8] \in Int
    OBVIOUS
  <1>6. s(8) = f[1] + f[2] + f[3] + f[4] + f[5] + f[6] + f[7] + f[8]
    BY <1>4, <1>5
  <1>. QED BY <1>6 DEF s

LEMMA LesserOfTwo ==
    ASSUME NEW a \in Int, NEW b \in Int
    PROVE  Min({a, b}) = IF a <= b THEN a ELSE b
  <1>1. \E x \in {a, b} : \A y \in {a, b} : x =< y
    OBVIOUS
  <1>2. Min({a, b}) \in {a, b} /\ \A y \in {a, b} : Min({a, b}) =< y
    BY <1>1 DEF Min
  <1>. QED BY <1>2

\* With the wage in bracket n, the brackets below are full and those above are empty.
LEMMA SlicesOfAWage ==
    ASSUME NEW rows \in Tables, Marginal(rows), NEW w \in Nat, NEW n \in 1..8,
           rows[n].lower <= w, \A i \in 1..8 : i > n => w < rows[i].lower
    PROVE  \A i \in 1..8 :
             Slice(w, rows, i) = IF i < n THEN rows[i + 1].lower - rows[i].lower
                                 ELSE IF i = n THEN w - rows[n].lower ELSE 0
  <1>1. \A i \in 1..8 : rows[i].lower \in Nat
    BY DEF Tables, Bracket
  <1>2. \A i, j \in 1..8 : i <= j => rows[i].lower <= rows[j].lower
    <2>. DEFINE l(i) == rows[i].lower
    <2>1. \A i \in 1..8 : l(i) \in Nat
      BY <1>1
    <2>2. \A i \in 1..7 : l(i) < l(i + 1)
      BY DEF Marginal
    <2>. HIDE DEF l
    <2>3. l(1) < l(2) /\ l(2) < l(3) /\ l(3) < l(4) /\ l(4) < l(5)
      BY <2>2
    <2>4. l(5) < l(6) /\ l(6) < l(7) /\ l(7) < l(8)
      BY <2>2
    <2>5. \A i, j \in 1..8 : i <= j => l(i) <= l(j)
      BY <2>1, <2>3, <2>4
    <2>. QED BY <2>5 DEF l
  <1>3. Len(rows) = 8
    BY DEF Tables
  <1>. SUFFICES ASSUME NEW i \in 1..8
                PROVE  Slice(w, rows, i) = IF i < n THEN rows[i + 1].lower - rows[i].lower
                                           ELSE IF i = n THEN w - rows[n].lower ELSE 0
    OBVIOUS
  <1>4. i < 8 => Min({w, rows[i + 1].lower})
                   = IF w <= rows[i + 1].lower THEN w ELSE rows[i + 1].lower
    BY <1>1, LesserOfTwo
  <1>5. CASE i < n
    <2>1. rows[i + 1].lower <= w /\ rows[i].lower < rows[i + 1].lower
      BY <1>1, <1>2, <1>5 DEF Marginal
    <2>. QED BY <1>1, <1>3, <1>4, <1>5, <2>1 DEF Slice, AtLeastZero
  <1>6. CASE i = n
    BY <1>1, <1>3, <1>4, <1>6 DEF Slice, AtLeastZero
  <1>7. CASE i > n
    BY <1>1, <1>3, <1>4, <1>7 DEF Slice, AtLeastZero
  <1>. QED BY <1>5, <1>6, <1>7

\* The base of a row and the rate on what is above it are the tax slice by slice, up to
\* the rounding of the printed base and of one amount.
LEMMA RowIsMarginal ==
    ASSUME NEW rows \in Tables, Marginal(rows), NEW w \in Nat
    PROVE  LET row == FindBracket(w, rows)
               tax == SumFunction([i \in DOMAIN rows |->
                                     (Slice(w, rows, i) * rows[i].rate) \div 100])
           IN  /\ (row.base + Cents((w - row.lower) * row.rate, 100)) - tax \in -12..12
               /\ tax \in Nat
  <1>. DEFINE f == [i \in 1..8 |-> (Slice(w, rows, i) * rows[i].rate) \div 100]
  <1>1. PICK n \in 1..8 : /\ FindBracket(w, rows) = rows[n] /\ rows[n].lower <= w
                          /\ \A i \in 1..8 : i > n => w < rows[i].lower
    BY BracketIsFound
  <1>2. PICK below \in [1..8 -> Nat] :
          /\ below[1] = 0 /\ \A i \in 1..7 : below[i + 1] = below[i] + Full(rows, i)
          /\ \A i \in 1..8 : rows[i].base - below[i] \in -12..11
    BY DEF Marginal
  <1>3. \A i \in 1..8 : rows[i].lower \in Nat /\ rows[i].base \in Nat /\ rows[i].rate \in Nat
    BY DEF Tables, Bracket
  <1>. DEFINE x == (w - rows[n].lower) * rows[n].rate
  <1>4. x \in Nat
    BY <1>1, <1>3
  <1>5. \A i \in 1..8 : f[i] = IF i < n THEN Full(rows, i) ELSE IF i = n THEN x \div 100 ELSE 0
    <2>. SUFFICES ASSUME NEW i \in 1..8
                  PROVE  f[i] = IF i < n THEN Full(rows, i)
                                ELSE IF i = n THEN x \div 100 ELSE 0
      OBVIOUS
    <2>1. Slice(w, rows, i) = IF i < n THEN rows[i + 1].lower - rows[i].lower
                              ELSE IF i = n THEN w - rows[n].lower ELSE 0
      BY <1>1, SlicesOfAWage
    <2>2. CASE i < n
      BY <2>1, <2>2 DEF Full
    <2>3. CASE i = n
      BY <2>1, <2>3
    <2>4. CASE i > n
      <3>1. f[i] = (0 * rows[i].rate) \div 100
        BY <2>1, <2>4
      <3>2. 0 * rows[i].rate = 0
        BY <1>3
      <3>. QED BY <2>4, <3>1, <3>2
    <2>. QED BY <2>2, <2>3, <2>4
  <1>6. DOMAIN rows = 1..8
    BY DEF Tables
  <1>7. SumFunction([i \in DOMAIN rows |-> (Slice(w, rows, i) * rows[i].rate) \div 100])
          = SumFunctionOnSet(f, 1..8)
    BY <1>6 DEF SumFunction
  <1>. HIDE DEF f
  <1>8. Cents(x, 100) - x \div 100 \in {0, 1} /\ x \div 100 \in Nat /\ Cents(x, 100) \in Nat
    BY <1>4 DEF Cents
  <1>9. FindBracket(w, rows).base + Cents((w - FindBracket(w, rows).lower) * FindBracket(w, rows).rate, 100)
          = rows[n].base + Cents(x, 100)
    BY <1>1
  <1>. HIDE DEF x
  <1>10. \A i \in 1..7 : Full(rows, i) \in Int
    BY <1>3 DEF Full
  <1>11. \A i \in 1..8 : f[i] \in Int
    BY <1>5, <1>8, <1>10
  <1>12. SumFunctionOnSet(f, 1..8) = below[n] + x \div 100
    <2>1. SumFunctionOnSet(f, 1..8) = f[1] + f[2] + f[3] + f[4] + f[5] + f[6] + f[7] + f[8]
      BY <1>11, SumOfEight
    <2>. DEFINE b(i) == below[i]
    <2>2. b(1) = 0 /\ \A i \in 1..8 : b(i) \in Nat
      BY <1>2
    <2>3. \A i \in 1..7 : i < n => b(i + 1) = b(i) + f[i]
      BY <1>2, <1>5
    <2>4. f[n] = x \div 100 /\ \A i \in 1..8 : i > n => f[i] = 0
      BY <1>5
    <2>. HIDE DEF b
    <2>5. n \in {1, 2, 3, 4, 5, 6, 7, 8}
      OBVIOUS
    <2>6. SumFunctionOnSet(f, 1..8) = b(n) + x \div 100
      <3>1. CASE n = 1
        BY <1>8, <1>11, <2>1, <2>2, <2>4, <3>1
      <3>2. CASE n = 2
        BY <1>8, <1>11, <2>1, <2>2, <2>3, <2>4, <3>2
      <3>3. CASE n = 3
        BY <1>8, <1>11, <2>1, <2>2, <2>3, <2>4, <3>3
      <3>4. CASE n = 4
        BY <1>8, <1>11, <2>1, <2>2, <2>3, <2>4, <3>4
      <3>5. CASE n = 5
        BY <1>8, <1>11, <2>1, <2>2, <2>3, <2>4, <3>5
      <3>6. CASE n = 6
        BY <1>8, <1>11, <2>1, <2>2, <2>3, <2>4, <3>6
      <3>7. CASE n = 7
        BY <1>8, <1>11, <2>1, <2>2, <2>3, <2>4, <3>7
      <3>8. CASE n = 8
        BY <1>8, <1>11, <2>1, <2>2, <2>3, <2>4, <3>8
      <3>. QED BY <2>5, <3>1, <3>2, <3>3, <3>4, <3>5, <3>6, <3>7, <3>8
    <2>. QED BY <2>6 DEF b
  <1>13. rows[n].base - below[n] \in -12..11 /\ below[n] \in Nat /\ rows[n].base \in Nat
    BY <1>2, <1>3
  <1>14. (rows[n].base + Cents(x, 100)) - SumFunctionOnSet(f, 1..8) \in -12..12
    BY <1>8, <1>12, <1>13
  <1>15. LET row == FindBracket(w, rows)
         IN  (row.base + Cents((w - row.lower) * row.rate, 100)) - SumFunctionOnSet(f, 1..8)
               \in -12..12
    BY <1>9, <1>14
  <1>16. SumFunctionOnSet(f, 1..8) \in Nat
    BY <1>8, <1>12, <1>13
  <1>. QED BY <1>7, <1>15, <1>16

\* _money() is never more than half a cent off.
LEMMA HalfACent ==
    ASSUME NEW n \in Nat, NEW p \in {12, 24, 26, 52}
    PROVE  Cents(n, p) \in Nat /\ Distance(p * Cents(n, p), n) <= p \div 2
  <1>1. CASE p = 12
    BY <1>1 DEF Cents, Distance
  <1>2. CASE p = 24
    BY <1>2 DEF Cents, Distance
  <1>3. CASE p = 26
    BY <1>3 DEF Cents, Distance
  <1>4. CASE p = 52
    BY <1>4 DEF Cents, Distance
  <1>. QED BY <1>1, <1>2, <1>3, <1>4

\* The year's tax of Worksheet 1A, and how far it is from the slices.
LEMMA TentativeIsClose ==
    ASSUME NEW e \in Employee, NEW w \in Nat
    PROVE  /\ Tentative(e, w) \in Nat /\ SliceBySlice(e, w) \in Nat
           /\ Tentative(e, w) - SliceBySlice(e, w) \in -12..12
  <1>1. Tentative(e, w) \in Nat
    <2>. DEFINE row == FindBracket(w, Brackets(e))
    <2>1. row \in Bracket /\ row.lower <= w
      BY TheTables, BracketIsFound DEF Tables
    <2>2. Tentative(e, w) = row.base + Cents((w - row.lower) * row.rate, 100)
      BY DEF Tentative
    <2>. HIDE DEF row
    <2>3. row.base \in Nat /\ (w - row.lower) * row.rate \in Nat
      BY <2>1 DEF Bracket
    <2>. QED BY <2>2, <2>3, MoneyIsWhole
  <1>2. SliceBySlice(e, w) \in Nat /\ Tentative(e, w) - SliceBySlice(e, w) \in -12..12
    BY TheTables, TablesAreMarginal, RowIsMarginal DEF Tentative, SliceBySlice
  <1>. QED BY <1>1, <1>2

\* What the pay periods of a year withhold is the year's tax slice by slice less the
\* credits.
LEMMA AYearIsWithheld ==
    ASSUME NEW e \in Employee, NEW taxable \in Int
    PROVE  Distance(FederalWithholding(e, taxable) * e.periods,
                    AtLeastZero(SliceBySlice(e, AdjustedAnnual(e, taxable)) - e.dependents))
             <= 12 + e.periods
  <1>. DEFINE w == AdjustedAnnual(e, taxable)
             t == Tentative(e, w)
             b == SliceBySlice(e, w)
             d == e.dependents
             p == e.periods
             fed == FederalWithholding(e, taxable)
  <1>1. /\ p \in {12, 24, 26, 52} /\ d \in Nat /\ e.other \in Nat /\ e.deductions \in Nat
        /\ StepOneAmount(e) \in Nat
    BY DEF Employee, StepOneAmount
  <1>2. w \in Nat
    <2>1. taxable * e.periods + e.other - (e.deductions + StepOneAmount(e)) \in Int
      BY <1>1
    <2>. QED BY <2>1, FlooredIsWhole DEF AdjustedAnnual
  <1>3. t \in Nat /\ b \in Nat /\ t - b \in -12..12
    BY <1>2, TentativeIsClose
  <1>4. fed = AtLeastZero(Cents(t, p) - Cents(d, p))
    BY DEF FederalWithholding
  <1>. HIDE DEF t, b, d, p, fed
  <1>. DEFINE x == Cents(t, p)
             y == Cents(d, p)
  <1>5. /\ x \in Nat /\ y \in Nat
        /\ Distance(p * x, t) <= p \div 2 /\ Distance(p * y, d) <= p \div 2
    BY <1>1, <1>3, HalfACent
  <1>. HIDE DEF x, y
  <1>6. Distance(AtLeastZero(x - y) * p, AtLeastZero(b - d)) <= 12 + p
    <2>1. CASE p = 12
      BY <1>1, <1>3, <1>5, <2>1 DEF Distance, AtLeastZero
    <2>2. CASE p = 24
      BY <1>1, <1>3, <1>5, <2>2 DEF Distance, AtLeastZero
    <2>3. CASE p = 26
      BY <1>1, <1>3, <1>5, <2>3 DEF Distance, AtLeastZero
    <2>4. CASE p = 52
      BY <1>1, <1>3, <1>5, <2>4 DEF Distance, AtLeastZero
    <2>. QED BY <1>1, <2>1, <2>2, <2>3, <2>4
  <1>7. Distance(fed * p, AtLeastZero(b - d)) <= 12 + p
    BY <1>4, <1>6 DEF x, y
  <1>. QED BY <1>7 DEF fed, p, b, d, w

\* Whatever the roster and the hours, what the pay periods of a year withhold is the tax
\* of the year's wage taken slice by slice, less the credits, up to 12 cents of printed
\* rounding and a cent a pay period (federal_withholding_2026(), _find_bracket(),
\* tax_tables_2026.py).
THEOREM WithholdingFollowsTheTables == Spec => []WithholdingIsMarginal
  <1>1. Typed /\ Figured => WithholdingIsMarginal
    <2>. SUFFICES ASSUME Typed, Figured, NEW r \in Computed, NEW s \in stub[r]
                  PROVE  LET w == AdjustedAnnual(employee, s.gross - s.k401)
                             owed == AtLeastZero(SliceBySlice(employee, w) - employee.dependents)
                         IN  Distance(s.federal * employee.periods, owed) <= 12 + employee.periods
      BY DEF WithholdingIsMarginal
    <2>1. PICK p \in payroll[r] : stub[r] = {Stored(Calculate(employee, p.hours, p.override))}
      BY DEF Figured
    <2>2. p \in Payload /\ employee \in Employee
      BY PayYearAssumption DEF Typed, Computed
    <2>3. s = Stored(Calculate(employee, p.hours, p.override))
      BY <2>1
    <2>4. s.federal = FederalWithholding(employee, s.gross - s.k401)
      BY <2>3 DEF Stored, Calculate
    <2>5. s.gross \in Nat /\ s.k401 \in Nat
      BY <2>2, <2>3, AmountsAreWhole DEF Amounts
    <2>6. s.gross - s.k401 \in Int
      BY <2>5
    <2>. QED BY <2>2, <2>4, <2>6, AYearIsWithheld
  <1>2. Init => IInv /\ Typed /\ Figured
    BY InitIsSlotted, InitTyped, InitFigured
  <1>3. IInv /\ Typed /\ Figured /\ [Next]_vars => IInv' /\ Typed' /\ Figured'
    BY StepIsSlotted, StepTyped, StepFigured DEF IInv
  <1>. QED BY <1>1, <1>2, <1>3, PTL DEF Spec

-------------------------------------------------------------------------------
(* More hours, more pay *)

\* The slices of a wage are the wage.
LEMMA SlicesAreTheWage ==
    ASSUME NEW rows \in Tables, Marginal(rows), NEW w \in Nat
    PROVE  /\ \A i \in 1..8 : Slice(w, rows, i) \in Nat
           /\ Slice(w, rows, 1) + Slice(w, rows, 2) + Slice(w, rows, 3) + Slice(w, rows, 4)
              + Slice(w, rows, 5) + Slice(w, rows, 6) + Slice(w, rows, 7) + Slice(w, rows, 8) = w
  <1>1. PICK n \in 1..8 : /\ rows[n].lower <= w
                          /\ \A i \in 1..8 : i > n => w < rows[i].lower
    BY BracketIsFound
  <1>. DEFINE l(i) == rows[i].lower
             a(i) == Slice(w, rows, i)
  <1>2. l(1) = 0 /\ \A i \in 1..8 : l(i) \in Nat
    BY DEF Tables, Bracket
  <1>3. \A i \in 1..8 : a(i) = IF i < n THEN l(i + 1) - l(i) ELSE IF i = n THEN w - l(n) ELSE 0
    BY <1>1, SlicesOfAWage
  <1>4. \A i \in 1..7 : l(i) < l(i + 1)
    BY DEF Marginal
  <1>5. l(n) <= w
    BY <1>1
  <1>. HIDE DEF l, a
  <1>6. \A i \in 1..8 : a(i) \in Nat
    BY <1>2, <1>3, <1>4, <1>5
  <1>7. a(1) + a(2) + a(3) + a(4) + a(5) + a(6) + a(7) + a(8) = w
    <2>1. n \in {1, 2, 3, 4, 5, 6, 7, 8}
      OBVIOUS
    <2>2. /\ l(1) \in Int /\ l(2) \in Int /\ l(3) \in Int /\ l(4) \in Int /\ l(5) \in Int
          /\ l(6) \in Int /\ l(7) \in Int /\ l(8) \in Int
      BY <1>2
    <2>3. CASE n = 1
      BY <1>2, <1>3, <2>2, <2>3
    <2>4. CASE n = 2
      BY <1>2, <1>3, <2>2, <2>4
    <2>5. CASE n = 3
      BY <1>2, <1>3, <2>2, <2>5
    <2>6. CASE n = 4
      BY <1>2, <1>3, <2>2, <2>6
    <2>7. CASE n = 5
      BY <1>2, <1>3, <2>2, <2>7
    <2>8. CASE n = 6
      BY <1>2, <1>3, <2>2, <2>8
    <2>9. CASE n = 7
      BY <1>2, <1>3, <2>2, <2>9
    <2>10. CASE n = 8
      BY <1>2, <1>3, <2>2, <2>10
    <2>. QED BY <2>1, <2>3, <2>4, <2>5, <2>6, <2>7, <2>8, <2>9, <2>10
  <1>. QED BY <1>6, <1>7 DEF a

LEMMA SliceGrows ==
    ASSUME NEW rows \in Tables, NEW v \in Nat, NEW w \in Nat, v <= w, NEW i \in 1..8
    PROVE  Slice(v, rows, i) <= Slice(w, rows, i)
  <1>1. Len(rows) = 8 /\ rows[i].lower \in Nat
    BY DEF Tables, Bracket
  <1>2. CASE i = 8
    BY <1>1, <1>2 DEF Slice, AtLeastZero
  <1>3. CASE i # 8
    <2>1. rows[i + 1].lower \in Nat
      BY <1>3 DEF Tables, Bracket
    <2>2. \A u \in Nat : Min({u, rows[i + 1].lower})
                           = IF u <= rows[i + 1].lower THEN u ELSE rows[i + 1].lower
      BY <2>1, LesserOfTwo
    <2>. QED BY <1>1, <1>3, <2>1, <2>2 DEF Slice, AtLeastZero
  <1>. QED BY <1>2, <1>3

\* A slice that grows is taxed by no more than 37% of what it grows, and a rounding.
LEMMA RateIsBounded ==
    ASSUME NEW a \in Nat, NEW b \in Nat, a <= b, NEW r \in 0..37
    PROVE  /\ (a * r) \div 100 \in Int /\ (b * r) \div 100 \in Int
           /\ 100 * ((b * r) \div 100) <= 100 * ((a * r) \div 100) + 37 * (b - a) + 100
  <1>. DEFINE d == b - a
             x == a * r
             y == b * r
             z == d * r
  <1>1. x \in Nat /\ y \in Nat /\ z \in Nat /\ d \in Nat /\ y = x + z
    OBVIOUS
  <1>2. z <= 37 * d
    <2>1. (37 - r) * d >= 0 /\ (37 - r) * d = 37 * d - z
      OBVIOUS
    <2>. QED BY <1>1, <2>1
  <1>. HIDE DEF x, y, z, d
  <1>3. /\ x \div 100 \in Int /\ y \div 100 \in Int
        /\ 100 * (y \div 100) <= 100 * (x \div 100) + 37 * d + 100
    BY <1>1, <1>2
  <1>. QED BY <1>3 DEF x, y, d

\* The tax of a year grows by no more than 37% of what the wage grows.
LEMMA TaxGrows ==
    ASSUME NEW e \in Employee, NEW v \in Nat, NEW w \in Nat, v <= w
    PROVE  100 * SliceBySlice(e, w) <= 100 * SliceBySlice(e, v) + 37 * (w - v) + 800
  <1>. DEFINE rows == Brackets(e)
             a(i) == Slice(v, rows, i)
             b(i) == Slice(w, rows, i)
             f == [i \in 1..8 |-> (a(i) * rows[i].rate) \div 100]
             g == [i \in 1..8 |-> (b(i) * rows[i].rate) \div 100]
  <1>1. rows \in Tables /\ Marginal(rows)
    BY TheTables, TablesAreMarginal
  <1>2. SliceBySlice(e, v) = SumFunctionOnSet(f, 1..8) /\ SliceBySlice(e, w) = SumFunctionOnSet(g, 1..8)
    <2>1. DOMAIN rows = 1..8
      BY <1>1 DEF Tables
    <2>. QED BY <2>1 DEF SliceBySlice, SumFunction
  <1>. HIDE DEF rows
  <1>3. /\ \A i \in 1..8 : a(i) \in Nat /\ b(i) \in Nat /\ a(i) <= b(i)
        /\ a(1) + a(2) + a(3) + a(4) + a(5) + a(6) + a(7) + a(8) = v
        /\ b(1) + b(2) + b(3) + b(4) + b(5) + b(6) + b(7) + b(8) = w
    <2>1. /\ \A i \in 1..8 : a(i) \in Nat
          /\ a(1) + a(2) + a(3) + a(4) + a(5) + a(6) + a(7) + a(8) = v
      BY <1>1, SlicesAreTheWage
    <2>2. /\ \A i \in 1..8 : b(i) \in Nat
          /\ b(1) + b(2) + b(3) + b(4) + b(5) + b(6) + b(7) + b(8) = w
      BY <1>1, SlicesAreTheWage
    <2>3. \A i \in 1..8 : a(i) <= b(i)
      BY <1>1, SliceGrows
    <2>. QED BY <2>1, <2>2, <2>3
  <1>4. \A i \in 1..8 : rows[i].rate \in 0..37
    <2>1. \A i \in 1..8 : rows[i].rate \in Nat
      BY <1>1 DEF Tables, Bracket
    <2>2. \A i \in 1..8 : rows[i].rate <= 37
      BY <1>1 DEF Marginal
    <2>. QED BY <2>1, <2>2
  <1>. HIDE DEF a, b
  <1>5. \A i \in 1..8 : /\ f[i] \in Int /\ g[i] \in Int
                        /\ 100 * g[i] <= 100 * f[i] + 37 * (b(i) - a(i)) + 100
    <2>. SUFFICES ASSUME NEW i \in 1..8
                  PROVE  /\ f[i] \in Int /\ g[i] \in Int
                         /\ 100 * g[i] <= 100 * f[i] + 37 * (b(i) - a(i)) + 100
      OBVIOUS
    <2>1. a(i) \in Nat /\ b(i) \in Nat /\ a(i) <= b(i) /\ rows[i].rate \in 0..37
      BY <1>3, <1>4
    <2>2. f[i] = (a(i) * rows[i].rate) \div 100 /\ g[i] = (b(i) * rows[i].rate) \div 100
      OBVIOUS
    <2>. HIDE DEF f, g
    <2>. QED BY <2>1, <2>2, RateIsBounded
  <1>. HIDE DEF f, g
  <1>6. /\ SumFunctionOnSet(f, 1..8) = f[1] + f[2] + f[3] + f[4] + f[5] + f[6] + f[7] + f[8]
        /\ SumFunctionOnSet(g, 1..8) = g[1] + g[2] + g[3] + g[4] + g[5] + g[6] + g[7] + g[8]
    BY <1>5, SumOfEight
  <1>7. 100 * SumFunctionOnSet(g, 1..8) <= 100 * SumFunctionOnSet(f, 1..8) + 37 * (w - v) + 800
    <2>. DEFINE q(i) == f[i]
               h(i) == g[i]
    <2>1. \A i \in 1..8 : /\ q(i) \in Int /\ h(i) \in Int /\ a(i) \in Int /\ b(i) \in Int
                          /\ 100 * h(i) <= 100 * q(i) + 37 * (b(i) - a(i)) + 100
      BY <1>3, <1>5
    <2>2. /\ SumFunctionOnSet(f, 1..8) = q(1) + q(2) + q(3) + q(4) + q(5) + q(6) + q(7) + q(8)
          /\ SumFunctionOnSet(g, 1..8) = h(1) + h(2) + h(3) + h(4) + h(5) + h(6) + h(7) + h(8)
      BY <1>6
    <2>. HIDE DEF q, h
    <2>3. 100 * (h(1) + h(2) + h(3) + h(4))
            <= 100 * (q(1) + q(2) + q(3) + q(4))
               + 37 * (b(1) + b(2) + b(3) + b(4) - (a(1) + a(2) + a(3) + a(4))) + 400
      BY <2>1
    <2>4. 100 * (h(5) + h(6) + h(7) + h(8))
            <= 100 * (q(5) + q(6) + q(7) + q(8))
               + 37 * (b(5) + b(6) + b(7) + b(8) - (a(5) + a(6) + a(7) + a(8))) + 400
      BY <2>1
    <2>5. /\ q(1) + q(2) + q(3) + q(4) \in Int /\ q(5) + q(6) + q(7) + q(8) \in Int
          /\ h(1) + h(2) + h(3) + h(4) \in Int /\ h(5) + h(6) + h(7) + h(8) \in Int
          /\ a(1) + a(2) + a(3) + a(4) \in Int /\ a(5) + a(6) + a(7) + a(8) \in Int
          /\ b(1) + b(2) + b(3) + b(4) \in Int /\ b(5) + b(6) + b(7) + b(8) \in Int
      BY <2>1
    <2>. QED BY <1>3, <2>1, <2>2, <2>3, <2>4, <2>5
  <1>. QED BY <1>2, <1>7

\* A raise of the pay period is withheld from by no more than 37% of it, and a few cents.
LEMMA WithholdingGrows ==
    ASSUME NEW e \in Employee, NEW x \in Int, NEW y \in Int, x <= y
    PROVE  100 * FederalWithholding(e, y) <= 100 * FederalWithholding(e, x) + 37 * (y - x) + 367
  <1>. DEFINE v == AdjustedAnnual(e, x)
             w == AdjustedAnnual(e, y)
             p == e.periods
             less == e.deductions + StepOneAmount(e)
             s == SliceBySlice(e, v)
             t == SliceBySlice(e, w)
             a == Cents(Tentative(e, v), p)
             b == Cents(Tentative(e, w), p)
             d == Cents(e.dependents, p)
  <1>1. /\ p \in {12, 24, 26, 52} /\ e.other \in Nat /\ less \in Nat /\ e.dependents \in Nat
    BY DEF Employee, StepOneAmount
  <1>2. v = AtLeastZero(x * p + e.other - less) /\ w = AtLeastZero(y * p + e.other - less)
    BY DEF AdjustedAnnual
  <1>3. /\ FederalWithholding(e, x) = AtLeastZero(a - d)
        /\ FederalWithholding(e, y) = AtLeastZero(b - d)
    BY DEF FederalWithholding
  <1>. HIDE DEF less, p, v, w
  <1>4. v \in Nat /\ w \in Nat /\ v <= w /\ w - v <= p * (y - x)
    <2>1. CASE p = 12
      BY <1>1, <1>2, <2>1 DEF AtLeastZero
    <2>2. CASE p = 24
      BY <1>1, <1>2, <2>2 DEF AtLeastZero
    <2>3. CASE p = 26
      BY <1>1, <1>2, <2>3 DEF AtLeastZero
    <2>4. CASE p = 52
      BY <1>1, <1>2, <2>4 DEF AtLeastZero
    <2>. QED BY <1>1, <2>1, <2>2, <2>3, <2>4
  <1>5. /\ Tentative(e, v) \in Nat /\ s \in Nat /\ Tentative(e, v) - s \in -12..12
        /\ Tentative(e, w) \in Nat /\ t \in Nat /\ Tentative(e, w) - t \in -12..12
    BY <1>4, TentativeIsClose
  <1>6. 100 * t <= 100 * s + 37 * (w - v) + 800
    BY <1>4, TaxGrows
  <1>7. /\ a \in Nat /\ Distance(p * a, Tentative(e, v)) <= p \div 2
        /\ b \in Nat /\ Distance(p * b, Tentative(e, w)) <= p \div 2
        /\ d \in Nat
    BY <1>1, <1>5, HalfACent
  <1>. HIDE DEF s, t, a, b, d
  <1>8. 100 * AtLeastZero(b - d) <= 100 * AtLeastZero(a - d) + 37 * (y - x) + 367
    <2>1. CASE p = 12
      BY <1>4, <1>5, <1>6, <1>7, <2>1 DEF AtLeastZero, Distance
    <2>2. CASE p = 24
      BY <1>4, <1>5, <1>6, <1>7, <2>2 DEF AtLeastZero, Distance
    <2>3. CASE p = 26
      BY <1>4, <1>5, <1>6, <1>7, <2>3 DEF AtLeastZero, Distance
    <2>4. CASE p = 52
      BY <1>4, <1>5, <1>6, <1>7, <2>4 DEF AtLeastZero, Distance
    <2>. QED BY <1>1, <2>1, <2>2, <2>3, <2>4
  <1>. QED BY <1>3, <1>8

\* _money() of a bigger amount, at the scales calculate() uses.
LEMMA CentsGrow ==
    ASSUME NEW m \in Nat, NEW n \in Nat, m <= n, NEW d \in {8, 100, 1000, 8320, 10000}
    PROVE  /\ Cents(m, d) \in Nat /\ Cents(n, d) \in Nat
           /\ d * (Cents(n, d) - Cents(m, d)) \in (n - m - d)..(n - m + d)
  <1>1. CASE d = 8
    BY <1>1 DEF Cents
  <1>2. CASE d = 100
    BY <1>2 DEF Cents
  <1>3. CASE d = 1000
    BY <1>3 DEF Cents
  <1>4. CASE d = 8320
    BY <1>4 DEF Cents
  <1>5. CASE d = 10000
    BY <1>5 DEF Cents
  <1>. QED BY <1>1, <1>2, <1>3, <1>4, <1>5

\* Six dollars an hour, or a year of them, and a contribution that leaves a fifth.
Decent(e) == e.rate >= IF e.pay = "hourly" THEN 600 ELSE 1248000

Share(e, override) == IF override # NotGiven THEN override ELSE e.k401

\* calculate() from the gross on.
Net(e, gross, share) ==
    LET k401 == Cents(gross * share, 100)
    IN  gross - k401 - Cents(SocialSecurityWages(e, gross) * 62, 1000)
        - Cents(gross * 145, 10000) - FederalWithholding(e, gross - k401)

\* A quarter of an hour more is worth at least 149 cents, or nothing at all of a salary.
LEMMA GrossGrows ==
    ASSUME NEW e \in Employee, Decent(e), NEW a \in Payload, NEW b \in Payload,
           LessWork(a.hours, b.hours)
    PROVE  \/ Gross(e, b.hours) >= Gross(e, a.hours) + 149
           \/ e.pay # "hourly" /\ Gross(e, b.hours) = Gross(e, a.hours)
  <1>. DEFINE h == a.hours
             g == b.hours
  <1>1. /\ h \in [regular : Nat, overtime : Nat, leave : Nat]
        /\ g \in [regular : Nat, overtime : Nat, leave : Nat] /\ LessWork(h, g)
    BY DEF Payload
  <1>2. e.rate \in Nat /\ e.periods \in Nat
    BY DEF Employee
  <1>. HIDE DEF h, g
  <1>3. /\ h.regular <= g.regular /\ h.overtime <= g.overtime /\ h.leave <= g.leave
        /\ h.regular # g.regular \/ h.overtime # g.overtime \/ h.leave # g.leave
    BY <1>1 DEF LessWork
  <1>4. \A c, j, k \in Nat : j <= k => c * j <= c * k
    <2>. SUFFICES ASSUME NEW c \in Nat, NEW j \in Nat, NEW k \in Nat, j <= k
                  PROVE  c * j <= c * k
      OBVIOUS
    <2>1. c * (k - j) >= 0 /\ c * (k - j) = c * k - c * j /\ c * k \in Nat /\ c * j \in Nat
      OBVIOUS
    <2>. QED BY <2>1
  <1>5. CASE e.pay = "hourly"
    <2>. DEFINE m == 2 * (h.regular + h.leave) + 3 * h.overtime
               n == 2 * (g.regular + g.leave) + 3 * g.overtime
    <2>1. m \in Nat /\ n \in Nat /\ n >= m + 2
      <3>1. /\ h.regular \in Nat /\ h.overtime \in Nat /\ h.leave \in Nat
            /\ g.regular \in Nat /\ g.overtime \in Nat /\ g.leave \in Nat
        BY <1>1
      <3>. QED BY <1>3, <3>1
    <2>2. Gross(e, h) = Cents(e.rate * m, 8) /\ Gross(e, g) = Cents(e.rate * n, 8)
      BY <1>5 DEF Gross
    <2>3. e.rate >= 600
      BY <1>5 DEF Decent
    <2>. HIDE DEF m, n
    <2>4. e.rate * (m + 2) <= e.rate * n /\ e.rate * (m + 2) = e.rate * m + 2 * e.rate
      BY <1>2, <1>4, <2>1
    <2>5. e.rate * m \in Nat /\ e.rate * n \in Nat
      BY <1>2, <2>1
    <2>. DEFINE x == e.rate * m
               y == e.rate * n
    <2>6. x \in Nat /\ y \in Nat /\ y >= x + 1200
      BY <1>2, <2>3, <2>4, <2>5
    <2>. HIDE DEF x, y
    <2>7. /\ Cents(x, 8) \in Nat /\ Cents(y, 8) \in Nat
          /\ 8 * (Cents(y, 8) - Cents(x, 8)) >= y - x - 8
      BY <2>6, CentsGrow
    <2>8. Cents(y, 8) >= Cents(x, 8) + 149
      BY <2>6, <2>7
    <2>. QED BY <2>2, <2>8 DEF x, y, h, g
  <1>6. CASE e.pay # "hourly" /\ h.leave = g.leave
    BY <1>6 DEF Gross, h, g
  <1>7. CASE e.pay # "hourly" /\ h.leave # g.leave
    <2>1. e.rate >= 1248000
      BY <1>7 DEF Decent
    <2>2. g.leave >= h.leave + 1 /\ g.leave \in Nat /\ h.leave \in Nat
      BY <1>1, <1>3, <1>7
    <2>. DEFINE x == e.rate * h.leave
               y == e.rate * g.leave
    <2>3. x \in Nat /\ y \in Nat
      BY <1>2, <2>2
    <2>4. y >= x + 1248000
      <3>1. e.rate * (h.leave + 1) <= e.rate * g.leave
        BY <1>2, <1>4, <2>2
      <3>2. e.rate * (h.leave + 1) = x + e.rate
        BY <1>2, <2>2
      <3>. QED BY <1>2, <2>1, <2>3, <3>1, <3>2
    <2>5. /\ Gross(e, h) = Cents(e.rate, e.periods) + Cents(x, 8320)
          /\ Gross(e, g) = Cents(e.rate, e.periods) + Cents(y, 8320)
      BY <1>7 DEF Gross
    <2>6. Cents(e.rate, e.periods) \in Nat
      BY <1>2, MoneyIsWhole DEF Employee
    <2>. HIDE DEF x, y
    <2>7. /\ Cents(x, 8320) \in Nat /\ Cents(y, 8320) \in Nat
          /\ 8320 * (Cents(y, 8320) - Cents(x, 8320)) >= y - x - 8320
      BY <2>3, <2>4, CentsGrow
    <2>8. Cents(y, 8320) >= Cents(x, 8320) + 149
      BY <2>3, <2>4, <2>7
    <2>. DEFINE base == Cents(e.rate, e.periods)
    <2>. HIDE DEF base
    <2>9. base + Cents(y, 8320) >= base + Cents(x, 8320) + 149
      BY <2>6, <2>7, <2>8 DEF base
    <2>. QED BY <2>5, <2>9 DEF h, g, base
  <1>. QED BY <1>5, <1>6, <1>7

LEMMA NetGrows ==
    ASSUME NEW e \in Employee, NEW x \in Nat, NEW y \in Nat, y >= x + 149, NEW c \in 0..80
    PROVE  Net(e, x, c) < Net(e, y, c)
  <1>. DEFINE left == AtLeastZero(SS_WAGE_BASE - e.ytd)
             u == SocialSecurityWages(e, x)
             v == SocialSecurityWages(e, y)
             k == Cents(x * c, 100)
             l == Cents(y * c, 100)
             s == Cents(u * 62, 1000)
             t == Cents(v * 62, 1000)
             m == Cents(x * 145, 10000)
             n == Cents(y * 145, 10000)
             f == FederalWithholding(e, x - k)
             g == FederalWithholding(e, y - l)
  <1>1. u \in Nat /\ v \in Nat /\ u <= v /\ v - u <= y - x
    <2>1. left \in Nat
      BY FlooredIsWhole DEF Employee, SS_WAGE_BASE
    <2>. HIDE DEF left
    <2>2. Min({x, left}) = IF x <= left THEN x ELSE left
      BY <2>1, LesserOfTwo
    <2>3. Min({y, left}) = IF y <= left THEN y ELSE left
      BY <2>1, LesserOfTwo
    <2>4. u = Min({x, left}) /\ v = Min({y, left})
      BY DEF SocialSecurityWages, left
    <2>. HIDE DEF u, v
    <2>. QED BY <2>1, <2>2, <2>3, <2>4
  <1>. HIDE DEF u, v, left
  <1>2. s \in Nat /\ t \in Nat /\ 1000 * (t - s) <= 62 * (y - x) + 1000
    <2>. DEFINE a == u * 62
               b == v * 62
    <2>1. a \in Nat /\ b \in Nat /\ a <= b /\ b - a <= 62 * (y - x)
      BY <1>1
    <2>. HIDE DEF a, b
    <2>2. /\ Cents(a, 1000) \in Nat /\ Cents(b, 1000) \in Nat
          /\ 1000 * (Cents(b, 1000) - Cents(a, 1000)) \in (b - a - 1000)..(b - a + 1000)
      BY <2>1, CentsGrow
    <2>3. 1000 * (Cents(b, 1000) - Cents(a, 1000)) <= 62 * (y - x) + 1000
      BY <2>1, <2>2
    <2>. QED BY <2>2, <2>3 DEF a, b
  <1>3. m \in Nat /\ n \in Nat /\ 10000 * (n - m) <= 145 * (y - x) + 10000
    BY CentsGrow
  <1>4. /\ k \in Nat /\ l \in Nat
        /\ 100 * (l - k) <= 80 * (y - x) + 100
    <2>1. (y - x) * c <= 80 * (y - x)
      <3>1. (80 - c) * (y - x) >= 0 /\ (80 - c) * (y - x) = 80 * (y - x) - (y - x) * c
        OBVIOUS
      <3>. QED BY <3>1
    <2>. DEFINE a == x * c
               b == y * c
    <2>2. a \in Nat /\ b \in Nat /\ (y - x) * c = b - a /\ (y - x) * c >= 0
      OBVIOUS
    <2>. HIDE DEF a, b
    <2>3. a <= b
      BY <2>2
    <2>4. /\ Cents(a, 100) \in Nat /\ Cents(b, 100) \in Nat
          /\ 100 * (Cents(b, 100) - Cents(a, 100)) <= b - a + 100
      <3>1. /\ Cents(a, 100) \in Nat /\ Cents(b, 100) \in Nat
            /\ 100 * (Cents(b, 100) - Cents(a, 100)) \in (b - a - 100)..(b - a + 100)
        BY <2>2, <2>3, CentsGrow
      <3>. QED BY <2>2, <3>1
    <2>5. 100 * (Cents(b, 100) - Cents(a, 100)) <= 80 * (y - x) + 100
      BY <2>1, <2>2, <2>4
    <2>. QED BY <2>4, <2>5 DEF a, b
  <1>. HIDE DEF k, l
  <1>5. x - k \in Int /\ y - l \in Int /\ x - k <= y - l
    BY <1>4
  <1>6. f \in Nat /\ g \in Nat /\ 100 * g <= 100 * f + 37 * ((y - l) - (x - k)) + 367
    BY <1>5, WithholdingGrows, WithholdingIsWhole
  <1>7. Net(e, x, c) = x - k - s - m - f /\ Net(e, y, c) = y - l - t - n - g
    BY DEF Net, k, l, u, v
  <1>. HIDE DEF s, t, m, n, f, g
  <1>. QED BY <1>2, <1>3, <1>4, <1>6, <1>7

\* With the same contribution, a payroll with more hours never nets less, and nets an
\* hourly employee more: no bracket, wage base or credit of calculate() is a cliff, for
\* any roster paid at least six dollars an hour and any contributions up to 80%.  Below
\* that the roundings of five amounts can eat a quarter of an hour's cents, above it
\* nothing is left of a raise in the highest bracket.
THEOREM MoreHoursNeverCost ==
    ASSUME \A e \in Staff : Decent(e) /\ e.k401 <= 80,
           \A p \in Payroll : p.override <= 80
    PROVE  Spec => []MoreHoursMorePay
  <1>1. Typed /\ Figured => MoreHoursMorePay
    <2>. SUFFICES ASSUME Typed, Figured, NEW q \in Computed, NEW r \in Computed,
                         NEW a \in payroll[q], NEW b \in payroll[r],
                         a.override = b.override, LessWork(a.hours, b.hours),
                         NEW s \in stub[q], NEW t \in stub[r]
                  PROVE  s.net <= t.net /\ (employee.pay = "hourly" => s.net < t.net)
      BY DEF MoreHoursMorePay
    <2>. DEFINE e == employee
               c == Share(e, a.override)
               x == Gross(e, a.hours)
               y == Gross(e, b.hours)
    <2>1. /\ a \in Payroll /\ b \in Payroll /\ a \in Payload /\ b \in Payload
          /\ e \in Staff /\ e \in Employee
      BY PayYearAssumption DEF Typed, Computed
    <2>2. payroll[q] = {a} /\ payroll[r] = {b}
      BY DEF Typed, Computed
    <2>3. /\ s = Stored(Calculate(e, a.hours, a.override))
          /\ t = Stored(Calculate(e, b.hours, b.override))
      BY <2>2 DEF Figured
    <2>4. s.net = Net(e, x, c) /\ t.net = Net(e, y, c)
      BY <2>3 DEF Stored, Calculate, Net, Share
    <2>5. s.net \in Int /\ t.net \in Int
      BY <2>1, <2>3, FiguresAreWhole DEF Category
    <2>6. c \in 0..80
      <3>1. e.k401 \in 0..100 /\ a.override \in (0..100) \cup {NotGiven}
        BY <2>1 DEF Employee, Payload
      <3>. QED BY <2>1, <3>1 DEF Share
    <2>7. x \in Nat /\ y \in Nat
      BY <2>1, GrossIsWhole
    <2>8. y >= x + 149 \/ (e.pay # "hourly" /\ y = x)
      BY <2>1, GrossGrows
    <2>. HIDE DEF c, x, y
    <2>9. CASE y >= x + 149
      BY <2>1, <2>4, <2>5, <2>6, <2>7, <2>9, NetGrows
    <2>10. CASE e.pay # "hourly" /\ y = x
      BY <2>4, <2>5, <2>10
    <2>. QED BY <2>8, <2>9, <2>10
  <1>2. Init => IInv /\ Typed /\ Figured
    BY InitIsSlotted, InitTyped, InitFigured
  <1>3. IInv /\ Typed /\ Figured /\ [Next]_vars => IInv' /\ Typed' /\ Figured'
    BY StepIsSlotted, StepTyped, StepFigured DEF IInv
  <1>. QED BY <1>1, <1>2, <1>3, PTL DEF Spec
===============================================================================
