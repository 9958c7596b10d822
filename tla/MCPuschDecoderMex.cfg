\* Two objects, pools of one or two codeblocks, blocks of one and two.
CONSTANTS
    d1 = d1
    d2 = d2
    t1 = t1
    t2 = t2
    b1 = b1
    Decoders <- MCDecoders
    UserConfigs <- MCConfigs
    NofCodeblocks <- MCTwoSizes
    Keys <- MCKeys
    BufIds <- MCBufIds
    Blocks <- MCBlocks
    NoBlock = NoBlock
    NoPool = NoPool
    MaxNCB = 2
SPECIFICATION Spec
INVARIANTS
    TypeOK
    ExclusivePools
    LockedHasPool
    NoSpuriousAbort
    PoolMatchesConfig
    SegmentationMatches
PROPERTIES
    Isolation
