\* The same objects when 'new' may fail and the MEX function may be cleared.
CONSTANTS
    d1 = d1
    d2 = d2
    t1 = t1
    t2 = t2
    b1 = b1
    Decoders <- MCDecoders
    UserConfigs <- MCOneConfig
    NofCodeblocks <- MCSameSize
    Keys <- MCKeys
    BufIds <- MCBufIds
    Blocks <- MCBlocks
    NoBlock = NoBlock
    NoPool = NoPool
    MaxNCB = 1
SPECIFICATION FaultySpec
INVARIANT NoLeak
