------------------------------- MODULE Paystub --------------------------------
(***************************************************************************)
(* What calculate() makes of one employee's hours (app/pipeline/             *)
(* calculate.py): gross, pre-tax 401k, FICA, the federal withholding of IRS  *)
(* Pub 15-T Worksheet 1A (federal_withholding.py) over the tables of         *)
(* tax_tables_2026.py, and net; and the questions validate() has about the   *)
(* hours before anything is paid.                                            *)
(*                                                                           *)
(* Money is in cents, time in quarters of an hour, a contribution in whole   *)
(* percent.  Vacation, sick and holiday are paid alike: one field, leave.    *)
(* Head of household is left out: no employee can have that status.          *)
(***************************************************************************)
EXTENDS Integers, Sequences, FiniteSets, FiniteSetsExt

NotGiven == -1            \* an override the client did not send

\* _money(): n/d to the cent, half a cent up.  d > 0 and n >= 0 throughout.
Cents(n, d) == (n \div d) + (IF 2 * (n % d) >= d THEN 1 ELSE 0)

AtLeastZero(n) == IF n > 0 THEN n ELSE 0

-------------------------------------------------------------------------------
(* The tables *)

Row(lower, base, rate) == [lower |-> 100 * lower, base |-> base, rate |-> rate]

MFJ_STANDARD ==
    << Row(0, 0, 0),              Row(19300, 0, 10),         Row(44100, 248000, 12),
       Row(120100, 1160000, 22),  Row(230700, 3593200, 24),  Row(422850, 8204800, 32),
       Row(531750, 11689600, 35), Row(788000, 20658350, 37) >>

SINGLE_STANDARD ==
    << Row(0, 0, 0),              Row(7500, 0, 10),          Row(19900, 124000, 12),
       Row(57900, 580000, 22),    Row(113200, 1796600, 24),  Row(209275, 4102400, 32),
       Row(263725, 5844800, 35),  Row(648100, 19297925, 37) >>

MFJ_STEP2 ==
    << Row(0, 0, 0),              Row(16100, 0, 10),         Row(28500, 124000, 12),
       Row(66500, 580000, 22),    Row(121800, 1796600, 24),  Row(217875, 4102400, 32),
       Row(272325, 5844800, 35),  Row(400450, 10329175, 37) >>

\* Variant of SINGLE_STEP2: one row's base copied from the row above it.
SINGLE_STEP2_SLIPPED ==
    << Row(0, 0, 0),              Row(8050, 0, 10),          Row(14250, 62000, 12),
       Row(33250, 290000, 22),    Row(60900, 290000, 24),    Row(108938, 2051200, 32),
       Row(136163, 2922400, 35),  Row(328350, 9648963, 37) >>

SINGLE_STEP2 ==
    << Row(0, 0, 0),              Row(8050, 0, 10),          Row(14250, 62000, 12),
       Row(33250, 290000, 22),    Row(60900, 898300, 24),    Row(108938, 2051200, 32),
       Row(136163, 2922400, 35),  Row(328350, 9648963, 37) >>

\* Married filing separately uses the single tables.
Brackets(e) ==
    IF e.filing = "married_jointly"
    THEN IF e.checkbox THEN MFJ_STEP2 ELSE MFJ_STANDARD
    ELSE IF e.checkbox THEN SINGLE_STEP2 ELSE SINGLE_STANDARD

StepOneAmount(e) ==
    CASE e.checkbox -> 0
      [] e.filing = "married_jointly" -> 1290000
      [] OTHER -> 860000

SS_WAGE_BASE == 18450000
AdditionalMedicareThreshold ==
    [single |-> 20000000, married_jointly |-> 25000000, married_separately |-> 12500000]

-------------------------------------------------------------------------------
(* Worksheet 1A *)

\* _find_bracket(): the last row whose lower bound the wage reaches.
FindBracket(w, rows) == rows[Max({i \in DOMAIN rows : rows[i].lower <= w})]

\* Lines 1a to 1i, the adjusted annual wage.
AdjustedAnnual(e, taxable) ==
    AtLeastZero(taxable * e.periods + e.other - (e.deductions + StepOneAmount(e)))

\* Variant of Tentative: the row's rate on the whole wage.
TentativeWhole(e, w) ==
    LET row == FindBracket(w, Brackets(e))
    IN  row.base + (w \div 100) * row.rate

\* Lines 2e to 2g, the tentative tax of a year.
Tentative(e, w) ==
    LET row == FindBracket(w, Brackets(e))
    IN  row.base + Cents((w - row.lower) * row.rate, 100)

\* Lines 2h to 4b, what this pay period withholds of it after the credits.
FederalWithholding(e, taxable) ==
    AtLeastZero(Cents(Tentative(e, AdjustedAnnual(e, taxable)), e.periods)
                - Cents(e.dependents, e.periods))

-------------------------------------------------------------------------------
(* The paystub *)

\* Overtime counts one and a half; a salary adds leave at 1/2080 of the year.
Gross(e, h) ==
    IF e.pay = "hourly"
    THEN Cents(e.rate * (2 * (h.regular + h.leave) + 3 * h.overtime), 8)
    ELSE Cents(e.rate, e.periods) + Cents(e.rate * h.leave, 8320)

SocialSecurityWages(e, gross) == Min({gross, AtLeastZero(SS_WAGE_BASE - e.ytd)})

\* calculate(): the FICA base is gross, the federal base is gross less the 401k.
Calculate(e, h, override) ==
    LET gross == Gross(e, h)
        k401  == Cents(gross * (IF override # NotGiven THEN override ELSE e.k401), 100)
        ss    == Cents(SocialSecurityWages(e, gross) * 62, 1000)
        med   == Cents(gross * 145, 10000)
        fed   == FederalWithholding(e, gross - k401)
    IN  [gross |-> gross, k401 |-> k401, ss |-> ss, medicare |-> med, federal |-> fed,
         net |-> gross - k401 - ss - med - fed,
         disclaimed |-> e.ytd + gross > AdditionalMedicareThreshold[e.filing]]

-------------------------------------------------------------------------------
(* validate(): what must be asked before these hours are paid *)

Questions(e, h) ==
    (IF e.pay = "hourly" /\ h.regular + h.overtime + h.leave = 0
     THEN {"missing_hours"} ELSE {})
    \cup (IF h.overtime = 0 /\ ( \/ e.periods = 52 /\ h.regular > 160
                                 \/ e.periods = 26 /\ h.regular > 320 )
          THEN {"missing_overtime"} ELSE {})

-------------------------------------------------------------------------------
(* The definition the tables stand for: each slice of the year's wage at the *)
(* rate of the row it falls in.                                              *)

Slice(w, rows, i) ==
    LET top == IF i < Len(rows) THEN Min({w, rows[i + 1].lower}) ELSE w
    IN  AtLeastZero(top - rows[i].lower)

SliceBySlice(e, w) ==
    LET rows == Brackets(e)
    IN  SumFunction([i \in DOMAIN rows |-> (Slice(w, rows, i) * rows[i].rate) \div 100])
===============================================================================
