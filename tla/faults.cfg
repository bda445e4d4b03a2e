\* Leaders that take turns, and a lost or torn reply.
SPECIFICATION Spec
CONSTANTS
    a = a
    b = b
    N = 2
    Command = {a, b}
    MaxTerm = 3
    MaxLate = 0
    MaxLostReply = 1
    MaxCrash = 0
    Campaigner = {0, 1}
    Ticker = {}
    Crasher = {}
SYMMETRY Symmetry
INVARIANTS
    SendInRange
    EntryTermSaved
    AppliedWasStarted
\* the bounds end every behaviour
CHECK_DEADLOCK FALSE
