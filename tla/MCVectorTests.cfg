SPECIFICATION Spec
CONSTANTS
    Files <- MCFiles
    MaxTests = 2
INVARIANTS
    TypeOK
    NothingNullIsUsed
    PassComparesAllButIgnored
    FailMeansFault
    NothingIsReadEarly
PROPERTY
    EveryTestEnds
\* A process ends after its last test.
CHECK_DEADLOCK FALSE
