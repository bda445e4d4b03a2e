\* One server elected again and again, with a crash.
SPECIFICATION Spec
CONSTANTS
    a = a
    b = b
    N = 3
    Command = {a, b}
    MaxTerm = 3
    MaxLate = 0
    MaxLostReply = 0
    MaxCrash = 1
    Campaigner = {0}
    Ticker = {}
    Crasher = {0}
SYMMETRY Symmetry
INVARIANTS
    AppliedIsDurable
PROPERTIES
    AppliedIsOneLog
    CommitGrowsInLog
\* the bounds end every behaviour
CHECK_DEADLOCK FALSE
