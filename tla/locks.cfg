\* Two candidates that wait for each other.
SPECIFICATION CallSpec
CONSTANTS
    N = 3
    Command = {}
    MaxTerm = 2
    MaxLate = 0
    MaxLostReply = 0
    MaxCrash = 0
    Campaigner = {0, 1}
    Ticker = {}
    Crasher = {}
PROPERTIES
    LocksReleased
\* the bounds end every behaviour
CHECK_DEADLOCK FALSE
