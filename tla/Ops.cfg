SPECIFICATION MCSpec
CONSTANTS
    Sessions = {s1, s2, s3}
    NoFile = NoFile
    Rereads = TRUE
    MaxCrashes = 1
    MaxFaults = 1
    Operators = {r1, r2}
    Operations = {"backup", "restore"}
    Archives = {a1, a2}
    Writers = {w1, w2}
    Timers = {w2}
    Nobody = Nobody
    NoJournal = NoJournal
    NoArchive = NoArchive
    MaxRunCrashes = 2
    MaxRunFaults = 2
    MaxStrays = 1
    Callers = {c1, c2, c3}
    Issuer = c1
    NoMarker = NoMarker
    MaxCallCrashes = 1
    MaxCallFaults = 1
    Ids = {i1, i2}
    NoWrite = NoWrite
    MaxDamages = 2
    MaxTrouble = 2
SYMMETRY MCSymmetry
INVARIANTS
    ExclusiveWithoutTakeover
    NothingLeftBehind
    
    AnswersAreTrue
PROPERTIES
    StepsSpareTheTree
CHECK_DEADLOCK FALSE
