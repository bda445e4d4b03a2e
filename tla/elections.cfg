\* Two candidates, two terms, one late request and one crash.
SPECIFICATION Spec
CONSTANTS
    N = 3
    Command = {}
    MaxTerm = 2
    MaxLate = 1
    MaxLostReply = 0
    MaxCrash = 1
    Campaigner = {0, 1}
    Ticker = {}
    Crasher = {0, 2}
INVARIANTS
    TypeOK
    VoteOncePerTerm
    WinnersClash
    DiskIsMemory
PROPERTIES
    DurableBallots
\* the bounds end every behaviour
CHECK_DEADLOCK FALSE
