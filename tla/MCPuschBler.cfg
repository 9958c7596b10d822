\* Any number of calls that simulate one or two SNR points.
CONSTANTS
    t1 = t1
    t2 = t2
    Blocks <- MCBlocks
    NoBlock = NoBlock
    NoPool = NoPool
    BufIds <- MCProcesses
    NHARQ = 2
    RVs <- MCRVs
    MaxNCB = 2
    NCodeblocks = 2
    SNRs <- MCPoints
    nFrames = 1
    QuickLimit = 1
    Properties <- MCProperties
SPECIFICATION Spec
INVARIANTS
    TypeOK
    BlocksDoNotMix
    EveryBlockIsCountedOnce
    ThroughputIsBounded
    ReceivedOrMissedAtOnce
PROPERTIES
    StepsSucceed
    ResultsCombine
