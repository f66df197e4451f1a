SPECIFICATION MCSpec
CONSTANTS
    r1 = r1  r2 = r2  u1 = u1  u2 = u2  e1 = e1  e2 = e2  None = None
    a1 = a1  a2 = a2  t1 = t1  Nothing = Nothing
    failover = failover  failback = failback  NoTransition = NoTransition
    MaxVersion = 3
    Requests <- TwoRequests
    Operators = {u1, u2}
    ExceptionIds = {e1, e2}
    Agents = {a1, a2}
    Tokens = {t1}
    Sessions = {e1, e2}
    Cases = {u1, u2}
    Workers <- TwoRequests
    MaxRevision = 4
    Executors <- TwoRequests
    Transitions = {failover, failback}
    DirectionOf <- Directions
    GenerationOf <- Generations
    Administrators <- TwoRequests
    Collections = {t1}
    MaxTokens = 2
    MaxCredentials = 3
    Publishers <- TwoRequests
    GenerationIds = {u1, u2}
    Contents = {e1, e2}
    MaxPages = 2
    MaxEvidence = 2
    WithBaseline = TRUE
    Nowhere = Nowhere
SYMMETRY Symmetry
CHECK_DEADLOCK FALSE
INVARIANTS
    RefreshFallsBack
