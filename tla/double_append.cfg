\* One leader, one lost reply.
SPECIFICATION Spec
CONSTANTS
    a = a
    b = b
    N = 3
    Command = {a, b}
    MaxTerm = 1
    MaxLate = 0
    MaxLostReply = 1
    MaxCrash = 0
    Campaigner = {0}
    Ticker = {0}
    Crasher = {}
SYMMETRY Symmetry
INVARIANTS
    StateMachineSafety
\* the bounds end every behaviour
CHECK_DEADLOCK FALSE
