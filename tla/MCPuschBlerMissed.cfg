\* HARQ: a block received in a retransmission is counted as missed.
CONSTANTS
    t1 = t1
    t2 = t2
    Blocks <- MCBlocks
    NoBlock = NoBlock
    NoPool = NoPool
    BufIds <- MCProcesses
    NHARQ = 2
    RVs <- MCRVs
    MaxNCB = 2
    NCodeblocks = 2
    SNRs <- MCPoints
    nFrames = 1
    QuickLimit = 2
    Properties <- MCOcuduHARQ
SPECIFICATION Spec
INVARIANT ReceivedOrMissed
