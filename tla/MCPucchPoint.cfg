\* Every format and test.  The point ends: no deadlock check.
CONSTANTS
    Configurations <- MCConfigurations
    NSlots = 4
    QuickLimit = 2
    Nothing = Nothing
SPECIFICATION Spec
INVARIANTS
    TypeOK
    RatesAreProbabilities
    ReceiversAreComparable
CHECK_DEADLOCK FALSE
