SPECIFICATION FairSpec
CONSTANTS
    c1 = c1  c2 = c2  c3 = c3  k1 = k1  f1 = f1  f2 = f2  None = None
    Clients = {c1, c2, c3}
    Keys = {k1}
    Fingerprints = {f1, f2}
    KeyOf <- OneKey
    FingerprintOf <- TwoActions
CHECK_DEADLOCK FALSE
INVARIANTS
    OneWorker
    UnsettledKept
    ReplayIsSettled
PROPERTIES
    LedgerSpec
    ClaimReturns
