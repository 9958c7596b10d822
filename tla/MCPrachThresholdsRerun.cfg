\* Calls for one format and for the other, in any order.
CONSTANTS
    NConfs = 2
    NCSs <- MCNCSs
    Requests <- MCFormats
    MaxTH = 8
    PFAs = {0, 19, 40}
    targetPFA = 20
    fineLow = 18
    roughLow = 5
    roughHigh = 200
SPECIFICATION MixedSpec
INVARIANT NoRerun
