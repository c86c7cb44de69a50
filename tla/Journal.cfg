CONSTANTS
    Clients = {c1, c2}
    Keys = {1, 2, 3}
    Bodies = {local, saga, bank}
    NoBody = NoBody
    NoExec = NoExec
    Execs = {1, 2, 3}
    LocalBodies = {local}
    BankBodies = {bank}
    SagaBodies = {saga}
    LegacyKeys = {3}
    LegacyBodies = {saga}
    MaxNonterminal = 2
    MaxTerminal = 1
    MaxPending = 2
    MaxSubmits = 3
SPECIFICATION Spec
INVARIANTS
    TypeOK
    UnresolvedHoldsKey
    FailedHadNoEffect
    RecordsAndRepliesAreTrue
PROPERTIES
    ImplementsOutcome
SYMMETRY MCSymmetry
CHECK_DEADLOCK FALSE
