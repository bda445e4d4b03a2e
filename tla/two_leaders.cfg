\* Three candidates, no faults.
SPECIFICATION Spec
CONSTANTS
    N = 3
    Command = {}
    MaxTerm = 2
    MaxLate = 0
    MaxLostReply = 0
    MaxCrash = 0
    Campaigner = {0, 1, 2}
    Ticker = {}
    Crasher = {}
INVARIANTS
    OneLeaderPerTerm
\* the bounds end every behaviour
CHECK_DEADLOCK FALSE
