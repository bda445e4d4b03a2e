\* A leader that stays in office.
SPECIFICATION ProgressSpec
CONSTANTS
    a = a
    N = 3
    Command = {a}
    MaxTerm = 1
    MaxLate = 0
    MaxLostReply = 0
    MaxCrash = 0
    Campaigner = {0}
    Ticker = {0}
    Crasher = {}
PROPERTIES
    StartedIsApplied
\* the bounds end every behaviour
CHECK_DEADLOCK FALSE
