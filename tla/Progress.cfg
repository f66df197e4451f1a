SPECIFICATION BoundedWaits
CONSTANTS
    c1 = c1  c2 = c2  c3 = c3  r1 = r1  r2 = r2
    k1 = k1  g1 = g1  f1 = f1  f2 = f2  None = None
    Calls = {c1, c2}
    Runtimes = {r1}
    Keys = {k1}
    Grants = {g1}
    Fingerprints = {f1}
    RuntimeOf <- OneProcess
    ToolOf <- ReconciledIdempotent
    KeyOf <- KeyForgotten
    FingerprintOf <- OneAction
    GrantOf <- NoGrants
    MaxActions = 2
    MaxConcurrent = 2
    MaxFanOut = 2
    MaxCost = 2
    MaxWorkers = 2
    MaxIssues = 0
    MaxCrashes = 0
    Decisions = {"allow"}
    Faults = {"store", "audit"}
    TimeoutOps <- AllOps
INVARIANTS
    ExecutedIsDurable
PROPERTIES
    EveryCallReturns
    CapacityReturns
