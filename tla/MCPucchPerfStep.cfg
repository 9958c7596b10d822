\* Format 2: a second call with two SNR values.
CONSTANTS
    o1 = o1
    o2 = o2
    Objects <- MCObjects
    SNRs <- MCSNRs
    SNRLists <- MCAllLists
    Frames = {1}
    UserProperties <- MCF2
    NoHandle = NoHandle
    NoDetails = NoDetails
SPECIFICATION Spec
INVARIANT StepsSucceed
