SPECIFICATION MCSpec
CONSTANTS
    i1 = i1
    i2 = i2
    e1 = e1
    e2 = e2
    k1 = k1
    k2 = k2
    x1 = x1
    u1 = u1
    h1 = h1
    s1 = s1
    s2 = s2
    Nobody = Nobody
    Inflows = {i1, i2}
    Expenses = {e1, e2}
    Owed = {i1}
    Keys = {k1}
    Amount <- MCAmount
    Account <- MCAccount
    FirstLinks <- MCFirst
    MaxTrouble = 1
    NoTag = NoTag
INVARIANT OnlyDriftIsUnresolved
