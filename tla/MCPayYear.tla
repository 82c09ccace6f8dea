------------------------------- MODULE MCPayYear -------------------------------
\* Instances of PayYear small enough for TLC.
EXTENDS PayYear, TLC

CONSTANTS r1, r2

Hourly(rate, filing, checkbox, periods) ==
    [pay |-> "hourly", rate |-> rate, k401 |-> 0, filing |-> filing,
     checkbox |-> checkbox, dependents |-> 0, other |-> 0, deductions |-> 0,
     ytd |-> 0, periods |-> periods]

Salaried(annual, filing, checkbox, periods) ==
    [Hourly(annual, filing, checkbox, periods) EXCEPT !.pay = "salary"]

\* Salaries that reach every row of the four tables.
Ladder ==
    {Salaried(a, "single", c, 12) : c \in BOOLEAN,
        a \in {1500000, 2600000, 5600000, 9500000, 13000000, 22000000, 30000000, 68000000}}
    \cup
    {Salaried(a, "married_jointly", c, 26) : c \in BOOLEAN,
        a \in {2500000, 4000000, 7500000, 15000000, 26000000, 44000000, 62000000, 85000000}}

\* The seed's kinds of employee: credits, contributions, the last of the wage base.
Seed ==
    { [Hourly(1850, "single", FALSE, 52) EXCEPT !.k401 = 3],
      [Hourly(2200, "married_separately", TRUE, 26) EXCEPT !.dependents = 200000],
      [Hourly(7250, "married_jointly", FALSE, 52) EXCEPT !.deductions = 120000],
      Hourly(3197, "single", FALSE, 52),
      [Salaried(7800000, "single", TRUE, 52) EXCEPT !.other = 200000],
      [Salaried(24000000, "single", FALSE, 12) EXCEPT !.ytd = 18390000],
      [Salaried(24000000, "married_jointly", FALSE, 26) EXCEPT
         !.k401 = 8, !.dependents = 800000, !.ytd = 18390000] }

Hours(regular, overtime, leave) ==
    [regular |-> regular, overtime |-> overtime, leave |-> leave]

Period_(start, end) == [start |-> start, end |-> end]
January == Period_(2026005, 2026018)
February == Period_(2026033, 2026046)
NewYear == Period_(2025360, 2026004)

Pay(period, hours, override) ==
    [period |-> period, hours |-> hours, override |-> override]

StatedPayrolls ==
    { Pay(January, Hours(160, 0, 0), NotGiven),
      Pay(February, Hours(160, 1, 0), NotGiven),
      Pay(February, Hours(340, 0, 0), 10),
      Pay(NewYear, Hours(160, 24, 24), NotGiven),
      Pay(NewYear, Hours(0, 0, 0), NotGiven),
      Pay(Period_(2026019, NoDate), Hours(120, 0, 24), 10),
      Pay(Period_(NoDate, NoDate), Hours(160, 0, 1), NotGiven) }

\* A client who sends the whole pay to the plan.
WholePay == {Pay(January, Hours(160, 0, 0), 100), Pay(February, Hours(160, 0, 0), NotGiven)}

Everybody == Ladder \cup Seed
Alike == Permutations(Run)
===============================================================================
