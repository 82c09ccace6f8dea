------------------------------- MODULE PayYear --------------------------------
(***************************************************************************)
(* One employee's payrolls of a year: what a run computes and stores         *)
(* (_compute_line_items, replace_line_items), what the operator approves,    *)
(* what the confirmation freezes and mails (deliver), and the               *)
(* year-to-date columns of a paystub, mailed or downloaded                   *)
(* (load_prior_reconciled_paystub_totals, PaystubYtdTotals.from_prior).      *)
(*                                                                           *)
(* A payroll is what the extraction reads in an email: the period, either    *)
(* date of it possibly not given, the hours and a contribution for this run. *)
(* The way of an email through the pipeline is one step here, and so is a    *)
(* delivery: PayrollRun and Delivery have what happens inside them.          *)
(***************************************************************************)
EXTENDS Paystub

CONSTANTS Run,
          Staff,       \* the employees the roster may have
          Payroll,     \* [period : [start, end], hours, override]
          MaxEpoch     \* bound on retriggers of a run

NoDate == -1

\* What the contracts let through: an Employee of the roster, the extraction's Payload.
Employee ==
    [pay : {"hourly", "salary"}, rate : Nat, k401 : 0..100,
     filing : {"single", "married_jointly", "married_separately"}, checkbox : BOOLEAN,
     dependents : Nat, other : Nat, deductions : Nat, ytd : Nat, periods : {12, 24, 26, 52}]

Payload ==
    [period : [start : Nat \cup {NoDate}, end : Nat \cup {NoDate}],
     hours : [regular : Nat, overtime : Nat, leave : Nat],
     override : (0..100) \cup {NotGiven}]

ASSUME PayYearAssumption ==
    MaxEpoch \in Nat /\ Staff \subseteq Employee /\ Payroll \subseteq Payload

VARIABLES employee,    \* the roster's row, which no payroll changes
          status,      \* payroll_runs.status
          epoch,       \* reply_epoch
          payroll,     \* extracted_data and the period's columns, {} or one
          stub,        \* paystub_line_items, {} or one
          slot         \* the confirmation's snapshot of this epoch, {} or one

vars == <<employee, status, epoch, payroll, stub, slot>>

Init ==
    /\ employee \in Staff
    /\ status = [r \in Run |-> "received"] /\ epoch = [r \in Run |-> 0]
    /\ payroll = [r \in Run |-> {}] /\ stub = [r \in Run |-> {}]
    /\ slot = [r \in Run |-> {}]

The(s) == CHOOSE x \in s : TRUE
Period(r) == The(payroll[r]).period

-------------------------------------------------------------------------------
(* The year to date *)

Category == {"gross", "federal", "ss", "medicare", "k401", "net"}

\* A date is 1000 * year + day of the year: date_trunc('year', d).
YearStart(d) == (d \div 1000) * 1000

\* Variant of Counted: every run of the year, the run itself included.
CountedAll(q, r) ==
    /\ status[q] = "reconciled"
    /\ Period(q).start >= YearStart(Period(r).start)

\* Variant of Counted: a payroll counts as soon as it is approved.
CountedWhenApproved(q, r) ==
    /\ status[q] \in {"approved", "reconciled"}
    /\ Period(q).start >= YearStart(Period(r).start)
    /\ Period(q).end # NoDate /\ Period(q).end < Period(r).start

\* The WHERE clause: a date that is not given compares as NULL.
Counted(q, r) ==
    /\ status[q] = "reconciled"
    /\ Period(q).start >= YearStart(Period(r).start)
    /\ Period(q).end # NoDate /\ Period(q).end < Period(r).start

Prior(r) == IF Period(r).start = NoDate THEN {} ELSE {q \in Run : Counted(q, r)}

Totals(S) == [c \in Category |-> SumFunction([q \in S |-> The(stub[q])[c]])]

\* PaystubYtdTotals.from_prior(): what the year columns of r's paystub say now.
YearToDate(r) == [c \in Category |-> Totals(Prior(r))[c] + The(stub[r])[c]]

\* paystub_pdf(): the operator's download is composed from the books of the moment.
Downloaded(r) == [stub |-> The(stub[r]), ytd |-> YearToDate(r)]

-------------------------------------------------------------------------------
(* The pipeline *)

\* load_line_items(): the table has no column for the disclaimer.
Stored(s) == [s EXCEPT !.disclaimed = FALSE]

\* replace_line_items(): the rows of an earlier pass go.
ReplaceLineItems(r, s) == stub' = [stub EXCEPT ![r] = {s}]

\* The extraction is persisted whatever the gate says; the paystub only if there
\* is nothing to ask.
Process(r, p) ==
    /\ status[r] \in {"received", "awaiting_reply"}
    /\ payroll' = [payroll EXCEPT ![r] = {p}]
    /\ IF Questions(employee, p.hours) # {}
       THEN /\ status' = [status EXCEPT ![r] = "awaiting_reply"]
            /\ UNCHANGED stub
       ELSE /\ status' = [status EXCEPT ![r] = "awaiting_approval"]
            /\ ReplaceLineItems(r, Stored(Calculate(employee, p.hours, p.override)))
    /\ UNCHANGED <<employee, epoch, slot>>

\* Any stage may raise before its persist transaction.
Fail(r) ==
    /\ status[r] \in {"received", "awaiting_reply"}
    /\ status' = [status EXCEPT ![r] = "error"]
    /\ UNCHANGED <<employee, epoch, payroll, stub, slot>>

-------------------------------------------------------------------------------
(* The operator and the delivery *)

\* deliver(): an existing snapshot is replayed, never composed again.
Reserved(r) ==
    IF slot[r] # {} THEN slot[r]
    ELSE {[stub |-> The(stub[r]), ytd |-> YearToDate(r)]}

Approve(r) ==
    /\ status[r] = "awaiting_approval"
    /\ status' = [status EXCEPT ![r] = "approved"]
    /\ slot' = [slot EXCEPT ![r] = Reserved(r)]
    /\ UNCHANGED <<employee, epoch, payroll, stub>>

Reject(r) ==
    /\ status[r] = "awaiting_approval"
    /\ status' = [status EXCEPT ![r] = "rejected"]
    /\ UNCHANGED <<employee, epoch, payroll, stub, slot>>

Deliver(r) ==
    /\ status[r] = "approved"
    /\ status' = [status EXCEPT ![r] = "reconciled"]
    /\ UNCHANGED <<employee, epoch, payroll, stub, slot>>

DeliveryFails(r) ==
    /\ status[r] = "approved"
    /\ status' = [status EXCEPT ![r] = "error"]
    /\ UNCHANGED <<employee, epoch, payroll, stub, slot>>

\* Variant of NewSlot: the snapshot is looked up by run and purpose alone.
NewSlotOfRun(r) == slot[r]

\* A retrigger bumps the epoch, and slots are looked up by epoch.
NewSlot(r) == {}

\* The paystub of the dead attempt stays until the next one replaces it.
Retrigger(r) ==
    /\ status[r] \in {"error", "approved"} /\ epoch[r] < MaxEpoch
    /\ status' = [status EXCEPT ![r] = "received"]
    /\ epoch' = [epoch EXCEPT ![r] = @ + 1]
    /\ slot' = [slot EXCEPT ![r] = NewSlot(r)]
    /\ UNCHANGED <<employee, payroll, stub>>

Next ==
    \E r \in Run :
        \/ \E p \in Payroll : Process(r, p)
        \/ Fail(r) \/ Approve(r) \/ Reject(r)
        \/ Deliver(r) \/ DeliveryFails(r) \/ Retrigger(r)

Spec == Init /\ [][Next]_vars

-------------------------------------------------------------------------------
(* Properties *)

Status == {"received", "awaiting_reply", "awaiting_approval", "approved",
           "reconciled", "rejected", "error"}

Amounts == {"gross", "federal", "ss", "medicare", "k401"}

\* The runs whose stored paystub belongs to the payroll they hold.
Computed == {r \in Run : status[r] \in {"awaiting_approval", "approved", "reconciled"}}

\* Every variable keeps its type, and nothing but net is ever negative.
TypeOK ==
    /\ employee \in Staff
    /\ status \in [Run -> Status] /\ epoch \in [Run -> 0..MaxEpoch]
    /\ \A r \in Run :
         /\ payroll[r] \subseteq Payroll /\ Cardinality(payroll[r]) <= 1
         /\ Cardinality(stub[r]) <= 1 /\ Cardinality(slot[r]) <= 1
         /\ \A s \in stub[r] : \A c \in Amounts : s[c] >= 0

Distance(a, b) == IF a > b THEN a - b ELSE b - a

\* The tables are transcribed row by row, and calculate()'s own backstop cannot
\* see a wrong row.  What the pay periods withhold over a year is the tax of the
\* wage taken slice by slice, up to the printed rounding of the tables (12 cents)
\* and one cent a pay period.
WithholdingIsMarginal ==
    \A r \in Computed : \A s \in stub[r] :
        LET w == AdjustedAnnual(employee, s.gross - s.k401)
            owed == AtLeastZero(SliceBySlice(employee, w) - employee.dependents)
        IN  Distance(s.federal * employee.periods, owed) <= 12 + employee.periods

LessWork(h, g) ==
    /\ h.regular <= g.regular /\ h.overtime <= g.overtime /\ h.leave <= g.leave
    /\ h # g

\* No bracket, cap or credit is a cliff: with the same contribution, a payroll
\* with more hours never nets less, and nets an hourly employee more.
MoreHoursMorePay ==
    \A q, r \in Computed : \A a \in payroll[q], b \in payroll[r] :
        a.override = b.override /\ LessWork(a.hours, b.hours)
        => \A s \in stub[q], t \in stub[r] :
             /\ s.net <= t.net
             /\ employee.pay = "hourly" => s.net < t.net

\* A delivered confirmation carries the figures the run keeps, however often it
\* failed and was computed anew before.
MailedIsPaid ==
    \A r \in Run : status[r] = "reconciled" => {m.stub : m \in slot[r]} = stub[r]

\* What a mailed paystub says of the year stays true: it never claims more than
\* the books show later.
MailedNeverOverstates ==
    \A r \in Computed : \A m \in slot[r] : \A c \in Amounts :
        m.ytd[c] <= Downloaded(r).ytd[c]

SameYear(q, r) == YearStart(Period(q).start) = YearStart(Period(r).start)

Tidy ==
    \A q, r \in Computed :
        /\ Period(q).start # NoDate /\ Period(q).start <= Period(q).end
        /\ \/ Period(q) = Period(r)
           \/ Period(q).end < Period(r).start \/ Period(r).end < Period(q).start

EarlierInYear(r) ==
    {q \in Run : /\ status[q] = "reconciled" /\ SameYear(q, r)
                 /\ Period(q).start < Period(r).start}

\* When every payroll gives both its dates and no two overlap, the year columns
\* are the pay itself and every earlier reconciled pay of the year, each once.
YearToDateIsTheYear ==
    Tidy => \A r \in Computed : \A c \in Category :
              YearToDate(r)[c] = Totals(EarlierInYear(r) \cup {r})[c]

\* What calculate() says of its disclaimer: a high earner's paystub shows it.
DisclaimerIsShown ==
    \A r \in Computed : \A p \in payroll[r], m \in slot[r] :
        Calculate(employee, p.hours, p.override).disclaimed => m.stub.disclaimed

\* What calculate() says of the wage base: only the remaining cap is taxed.
SocialSecurityStopsAtTheBase ==
    Totals({r \in Computed : status[r] = "reconciled"}).ss
        <= Cents(AtLeastZero(SS_WAGE_BASE - employee.ytd) * 62, 1000)

\* What calculate() says of its backstop: no negative net ships.
NetIsNeverNegative == \A r \in Computed : \A s \in stub[r] : s.net >= 0

\* What the year columns are said to be: the completed totals before this period.
EarlierPayCounts ==
    \A r \in Computed : \A q \in EarlierInYear(r) \ {r} : Counted(q, r)

\* What the download route says of itself: it shows what was mailed.
DownloadIsTheMail ==
    \A r \in Computed : \A m \in slot[r] : m = Downloaded(r)
===============================================================================
