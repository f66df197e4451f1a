SPECIFICATION Spec
CONSTANTS
    c1 = c1  c2 = c2  c3 = c3  r1 = r1  r2 = r2
    k1 = k1  g1 = g1  f1 = f1  f2 = f2  None = None
    Calls = {c1, c2, c3}
    Runtimes = {r1, r2}
    Keys = {k1}
    Grants = {g1}
    Fingerprints = {f1, f2}
    RuntimeOf <- TwoProcesses
    ToolOf <- IdempotentTools
    KeyOf <- OneKey
    FingerprintOf <- TwoActions
    GrantOf <- NoGrants
    MaxActions = 3
    MaxConcurrent = 3
    MaxFanOut = 3
    MaxCost = 3
    MaxWorkers = 4
    MaxIssues = 0
    MaxCrashes = 1
    Decisions = {"allow"}
    Faults = {"output"}
    TimeoutOps = {"handler"}
INVARIANTS
    ClaimHeld
    UnsettledKeepsKey
    ReplayIsTrue
PROPERTIES
    LedgerSpec
