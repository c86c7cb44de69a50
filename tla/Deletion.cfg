SPECIFICATION FairSpec
CONSTANTS
    Sagas = {1, 2}
    Txns = {t1, t2}
    Files = {f1, f2}
    NoSaga = NoSaga
    t1 = t1
    t2 = t2
    f1 = f1
    f2 = f2
    RefSteps <- MCRefSteps
    InitialReceipts <- SharedReceipt
    MaxTrouble = 2

    
PROPERTIES
    DestroysOnlyWhatWasAdmitted
    CompletionIsClean
    HealthyIsNotStranded
