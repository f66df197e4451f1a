SPECIFICATION Spec
CONSTANTS
    o1 = o1  o2 = o2  k1 = k1  k2 = k2  k3 = k3  NoKey = NoKey
    d1 = d1  d2 = d2  d3 = d3  s1 = s1  s2 = s2  NoDelivery = NoDelivery
    w1 = w1  j0 = j0  j1 = j1  NoJob = NoJob
    Operators = {o1, o2}
    Keys = {k1, k2, k3}
    MaxChanges = 4
    Deliveries = {d1, d2, d3}
    Senders = {s1, s2}
    OutboxBound = 2
    MaxMishaps = 2
    Jobs = {j0, j1}
    Writers = {w1}
    MaxVersions = 2
    MaxDays = 2
    MaxPolicies = 2
    MaxLapses = 2
    MaxQueued = 1
    MaxReceives = 2
    Reviewers = {o1, o2}
    Governors = {s1, s2}
    MaxRuleVersions = 3
    Nobody = Nobody
    Agents = {s1, s2}
    Tokens = {}
    Sessions = {}
    Cases = {k1, k2}
    Workers = {w1}
    MaxRevision = 4
    Nothing = Nothing
    Evaluations = {s1, s2}
    MaxActions = 1
    MaxOccurrences = 2
    MaxLedger = 2
    AgentOf <- Correlated
    Responder = Responder
    Endpoints = {s1, s2}
    BucketOf <- OneInAQuarter
    Contents = {k1, k2}
    NoContent = NoContent
    Lapsed = Lapsed
    Shares = {25, 100}
    Schedules <- LaterWindow
    Publishers = {o1, o2}
    Reconcilers = {w1}
    LegacyRows <- ActiveRow
    MaxConfigurations = 3
    MaxPackages = 2
    MaxRolloutRevision = 4
    MaxTime = 2
CHECK_DEADLOCK FALSE
INVARIANTS
    KnownKeySigns
    AuditMatchesState
    CoveredWhenApplied
    ResponseWithinApproval
    KnownGoodIsProved
PROPERTIES
    EndedIsFinal
    DeliveryEnds
    ApplyingEnds
