\* Two candidates and a client.
SPECIFICATION Spec
CONSTANTS
    a = a
    N = 3
    Command = {a}
    MaxTerm = 2
    MaxLate = 0
    MaxLostReply = 0
    MaxCrash = 0
    Campaigner = {0, 1}
    Ticker = {}
    Crasher = {}
PROPERTIES
    StartByLeader
\* the bounds end every behaviour
CHECK_DEADLOCK FALSE
