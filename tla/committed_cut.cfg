\* A deposed leader that goes on sending; no faults.
SPECIFICATION Spec
CONSTANTS
    a = a
    b = b
    N = 3
    Command = {a, b}
    MaxTerm = 2
    MaxLate = 0
    MaxLostReply = 0
    MaxCrash = 0
    Campaigner = {0, 1}
    Ticker = {}
    Crasher = {}
SYMMETRY Symmetry
PROPERTIES
    CommitGrowsInLog
\* the bounds end every behaviour
CHECK_DEADLOCK FALSE
