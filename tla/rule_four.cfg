\* One leader elected twice, no faults.
SPECIFICATION ProgressSpec
CONSTANTS
    a = a
    b = b
    N = 2
    Command = {a, b}
    MaxTerm = 2
    MaxLate = 0
    MaxLostReply = 0
    MaxCrash = 0
    Campaigner = {0}
    Ticker = {0}
    Crasher = {}
PROPERTIES
    CoveredIsCommitted
\* the bounds end every behaviour
CHECK_DEADLOCK FALSE
