\* Each class in turn: every request at every moment of the life of two objects.
CONSTANTS
    Objects = {o1, o2}
    Settings = {A, B}
    NoMEX = NoMEX
    Fixed = Fixed
    Null = Null
    Nobody = Nobody
    MaxPorts = 3
    Spacings = {120, 480}
    MuxLists <- MCMuxLists
SPECIFICATION Spec
INVARIANTS
    TypeOK
    LockedHasProcessor
    LastSetupRules
    
    DuplicatesStayInMatlab
    ResultsAnswerRequest
