SPECIFICATION Spec
CONSTANTS
    c1 = c1  c2 = c2  c3 = c3  r1 = r1  r2 = r2
    k1 = k1  g1 = g1  f1 = f1  f2 = f2  None = None
    Calls = {c1, c2}
    Runtimes = {r1}
    Keys = {k1}
    Grants = {g1}
    Fingerprints = {f1}
    RuntimeOf <- OneProcess
    ToolOf <- PlainTools
    KeyOf <- NoKeys
    FingerprintOf <- OneAction
    GrantOf <- NoGrants
    MaxActions = 2
    MaxConcurrent = 2
    MaxFanOut = 2
    MaxCost = 2
    MaxWorkers = 3
    MaxIssues = 0
    MaxCrashes = 0
    Decisions = {"allow"}
    Faults = {}
    TimeoutOps = {"handler", "audit"}
INVARIANTS
    SlotCoversHandler
