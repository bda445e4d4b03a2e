\* Two files, two parts, two workers.
SPECIFICATION FairSpec
CONSTANTS
    NFiles = 2
    NReduce = 2
    NWorker = 2
    MaxGhosts = 1
    MaxMishaps = 1
    NWord = 2
    MaxWords = 2
INVARIANTS
    TypeOK
    NoInputTwice
    CleanOutputIsComplete
    CleanOutputIsSequential
PROPERTIES
    JobIsKept
    JobEnds
\* the job ends
CHECK_DEADLOCK FALSE
