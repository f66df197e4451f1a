SPECIFICATION Spec
CONSTANTS
    e1 = e1  e2 = e2  failover = failover
    NoTransition = NoTransition
    Executors = {e1, e2}
    Transitions = {failover}
    DirectionOf <- OneFailover
    GenerationOf <- FirstGeneration
SYMMETRY Symmetry
CHECK_DEADLOCK FALSE
INVARIANTS
    RouteFollowsJournal
