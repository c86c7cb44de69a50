SPECIFICATION MCSpec
CONSTANTS
    d1 = d1
    d2 = d2
    Slots = {s1, s2}
    Bills = {b1}
    MaxScheduleSessions = 2
    MaxCopies = 3
    MaxScheduleTrouble = 1
    Things = {t1}
    Cumulative = FALSE
    MaxAlertSessions = 5
    MaxAlertTrouble = 2
    noRecord = noRecord
    Scopes = {p1, p2}
    Demo = demo
    Nobody = nobody
    MaxPurges = 1
    MaxRuns = 2
    MaxFailures = 2
    Digests <- MCDigests
    MaxKeys = 3
    MaxTrouble = 1
INVARIANT RequestsAlwaysKeepTheirRecord
CHECK_DEADLOCK FALSE
