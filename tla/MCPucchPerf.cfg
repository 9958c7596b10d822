\* All formats: any lists of SNR values, setups that are rejected, copies and clones.
CONSTANTS
    o1 = o1
    o2 = o2
    Objects <- MCObjects
    SNRs <- MCSNRs
    SNRLists <- MCSoundLists
    Frames = {1, 2}
    UserProperties <- MCSound
    NoHandle = NoHandle
    NoDetails = NoDetails
SPECIFICATION Spec
INVARIANTS TypeOK StepsSucceed FirstCounterMatches
PROPERTY ResultsCombine
