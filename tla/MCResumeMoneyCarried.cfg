SPECIFICATION Spec
CONSTANTS
    Field = {"hours_regular", "hours_overtime"}
    FirstHours = {1}
    ReplyHours <- Corrections
    MaxRounds = 3
    MaxReplies = 3
    MaxFaults = 0
INVARIANT CarriedForwardIsPaid
CHECK_DEADLOCK FALSE
