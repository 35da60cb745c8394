SPECIFICATION FairRunnerSpec
CONSTANTS
    NumQuestions = 4
    MaxWorkers = 2
    ErrorLimit = 2
    DiskFaults = TRUE
INVARIANTS
    RunnerInv
PROPERTIES
    RunEnds
CHECK_DEADLOCK FALSE
