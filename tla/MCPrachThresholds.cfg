\* Calls with the same arguments, interrupted at any time.
CONSTANTS
    NConfs = 3
    NCSs <- MCNCSs
    Requests <- MCOneFormat
    MaxTH = 1000
    PFAs = {0, 15, 19, 300}
    targetPFA = 20
    fineLow = 18
    roughLow = 5
    roughHigh = 200
SPECIFICATION Spec
INVARIANTS
    TypeOK
    ResumesWhereItStopped
    NarrowsDown
    BracketHoldsTarget
PROPERTY CallsEnd
