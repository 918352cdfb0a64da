SPECIFICATION FairSpec
CONSTANTS
    Job = {routes, ddns}
    MaxRetryCount = 2
    MaxStarts = 2
CHECK_DEADLOCK FALSE
INVARIANTS
    TypeOK
    RunsDoNotOverlap
    OneLoopPerJob
PROPERTIES
    CancelledLoopsEnd
    JobsRunAgain
