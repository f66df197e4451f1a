SPECIFICATION Spec
CONSTANTS
    c1 = c1  c2 = c2  c3 = c3  r1 = r1  r2 = r2
    k1 = k1  g1 = g1  f1 = f1  f2 = f2  None = None
    Calls = {c1, c2, c3}
    Runtimes = {r1}
    Keys = {k1}
    Grants = {g1}
    Fingerprints = {f1, f2}
    RuntimeOf <- OneProcess
    ToolOf <- ApprovedTools
    KeyOf <- NoKeys
    FingerprintOf <- TwoActions
    GrantOf <- OneGrant
    MaxActions = 3
    MaxConcurrent = 2
    MaxFanOut = 2
    MaxCost = 3
    MaxWorkers = 4
    MaxIssues = 1
    MaxCrashes = 0
    Decisions = {"allow", "deny"}
    Faults = {"approval", "rate", "policy", "credential"}
    TimeoutOps = {"approval", "handler"}
INVARIANTS
    SlotCoversHandler
    GrantSpentOnce
