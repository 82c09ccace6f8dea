SPECIFICATION Spec
CONSTANTS
    r1 = r1
    r2 = r2
    Run = {r1, r2}
    Staff <- Everybody
    Payroll <- StatedPayrolls
    MaxEpoch = 1
SYMMETRY Alike
INVARIANTS
    WithholdingIsMarginal
    MoreHoursMorePay
    MailedIsPaid
    MailedNeverOverstates
    YearToDateIsTheYear
CHECK_DEADLOCK FALSE
