\* One file, one part, two workers, one mishap.
SPECIFICATION Spec
CONSTANTS
    NFiles = 1
    NReduce = 1
    NWorker = 2
    MaxGhosts = 1
    MaxMishaps = 1
    NWord = 1
    MaxWords = 1
INVARIANT
    OutputIsSequential
\* the job ends
CHECK_DEADLOCK FALSE
