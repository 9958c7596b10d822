\* Format 1: reset leaves two counters as they were.
CONSTANTS
    o1 = o1
    o2 = o2
    Objects <- MCObjects
    SNRs <- MCTwoSNRs
    SNRLists <- MCAllLists
    Frames = {1}
    UserProperties <- MCF1
    NoHandle = NoHandle
    NoDetails = NoDetails
SPECIFICATION Spec
INVARIANT RowsMatch
