--------------------------- MODULE RegionalTransition ---------------------------
(***************************************************************************)
(* A failover, a failback or a rolled back cutover of the control plane    *)
(* between its two Regions (scripts/manage_aws_transition_journal.py,      *)
(* deploy_aws_active_cell.py, execute_aws_regional_routing.py).            *)
(*                                                                         *)
(* The journal is one item in a third Region, changed by conditional       *)
(* transactions.  An operator runs one command for each step: it claims    *)
(* the step's phase in the journal, changes the cells or the DNS, proves   *)
(* the result, and advances the journal.  Commands may run side by side,   *)
(* stop anywhere and be run again, and the cells and the DNS know nothing  *)
(* of the journal.                                                         *)
(*                                                                         *)
(* A cell is the state of its execution paths: its event sources, which    *)
(* AWS Lambda enables and disables some time after it was asked to, and    *)
(* its functions.  The jobs that reconcile-target dispatches are left out, *)
(* and so is the step's evidence: a late or repeated completion is refused *)
(* or accepted by it, and changes nothing.  A phase names its revision,    *)
(* since no transition comes to a phase twice.                             *)
(***************************************************************************)
EXTENDS Naturals, Sequences

CONSTANTS
    Executors,     \* runs of the two scripts at a time
    Transitions,   \* the approved manifests
    DirectionOf,   \* "failover" or "failback"
    GenerationOf,  \* expectedRoutingGeneration of each
    NoTransition

VARIABLES
    journal,       \* the AUTHORITY item of the witness table
    route,         \* the stable aliases and their marker in Route 53
    cell,          \* the execution paths of each Region
    stack,         \* the recovery stack in CloudFormation
    expired,       \* the manifests that are past expiresAt
    executor,      \* what each run of a script does
    trespass       \* history: a cell or the DNS was handled out of phase

regional == <<journal, route, cell, stack, expired, executor, trespass>>

Regions == {"primary", "recovery"}
Paths == {"sources", "functions"}
States == {"on", "off", "starting", "stopping"}
All(state) == [p \in Paths |-> state]

Source(t) == IF DirectionOf[t] = "failover" THEN "primary" ELSE "recovery"
Target(t) == IF DirectionOf[t] = "failover" THEN "recovery" ELSE "primary"

\* The phases a command starts from, works in and ends with.
Phases ==
    [fence_source        |-> <<"STABLE", "FENCING_SOURCE", "SOURCE_FENCED">>,
     activate_target     |-> <<"SOURCE_FENCED", "ACTIVATING_TARGET", "TARGET_ACTIVE_NOT_ROUTED">>,
     reconcile_target    |-> <<"TARGET_ACTIVE_NOT_ROUTED", "RECONCILING_TARGET_JOBS",
                               "TARGET_JOBS_RECONCILED_NOT_ROUTED">>,
     verify_ingress      |-> <<"TARGET_JOBS_RECONCILED_NOT_ROUTED", "VERIFYING_TARGET_INGRESS",
                               "TARGET_INGRESS_VERIFIED_NOT_ROUTED">>,
     route_target        |-> <<"TARGET_INGRESS_VERIFIED_NOT_ROUTED", "ROUTING_TARGET",
                               "VERIFYING_STABLE_ROUTE">>,
     verify_stable       |-> <<"VERIFYING_STABLE_ROUTE", "VERIFYING_STABLE_ROUTE", "STABLE">>,
     fence_failed_target |-> <<"VERIFYING_STABLE_ROUTE", "FENCING_FAILED_TARGET",
                               "FAILED_TARGET_FENCED">>,
     reactivate_source   |-> <<"FAILED_TARGET_FENCED", "REACTIVATING_SOURCE",
                               "SOURCE_REACTIVATED_NOT_ROUTED">>,
     verify_source_ingress |-> <<"SOURCE_REACTIVATED_NOT_ROUTED", "VERIFYING_SOURCE_INGRESS",
                               "SOURCE_INGRESS_VERIFIED_NOT_ROUTED">>,
     route_source_rollback |-> <<"SOURCE_INGRESS_VERIFIED_NOT_ROUTED", "ROUTING_SOURCE_ROLLBACK",
                               "VERIFYING_SOURCE_ROLLBACK">>,
     verify_source_rollback |-> <<"VERIFYING_SOURCE_ROLLBACK", "VERIFYING_SOURCE_ROLLBACK",
                               "STABLE">>]

Commands == DOMAIN Phases
Before(c) == Phases[c][1]
During(c) == Phases[c][2]
After(c) == Phases[c][3]

\* What a command does after its claim.  A step the journal has is not claimed.
Work(c, t) ==
    CASE c \in {"fence_source", "fence_failed_target"} -> <<"disable", "prove">>
      [] c = "activate_target" /\ DirectionOf[t] = "failover" -> <<"precheck", "deploy", "settle">>
      [] c = "activate_target" /\ DirectionOf[t] = "failback" -> <<"precheck", "enable", "prove">>
      [] c = "reactivate_source" -> <<"precheck", "enable", "prove">>
      [] c = "reconcile_target" -> <<"precheck", "prove">>
      [] c \in {"route_target", "route_source_rollback"} -> <<"read", "change", "prove">>
      [] OTHER -> <<"prove">>

Routes == [region : Regions, generation : Nat, transition : Transitions \cup {NoTransition}]

\* Before the first transition the DNS has no marker.
Marked(region, generation, t) ==
    [region |-> region, generation |-> generation, transition |-> t]

NoMove == [from |-> Marked("primary", 0, NoTransition), to |-> Marked("primary", 0, NoTransition)]

IdleExecutor ==
    [command |-> "none", transition |-> NoTransition, left |-> <<>>, paths |-> <<>>,
     failed |-> FALSE, fresh |-> FALSE, move |-> NoMove]

NewJournal(phase) ==
    [phase |-> phase, generation |-> 0, active |-> "primary",
     last |-> NoTransition, transition |-> NoTransition]

RegionalTypeOK ==
    /\ journal \in [phase : {"NONE", "STABLE"} \cup {During(c) : c \in Commands}
                                \cup {After(c) : c \in Commands},
                   generation : Nat, active : Regions,
                   last : Transitions \cup {NoTransition},
                   transition : Transitions \cup {NoTransition}]
    /\ route \in Routes
    /\ cell \in [Regions -> [Paths -> States]]
    /\ stack \in {"staged", "updating", "active", "rolled_back"}
    /\ expired \subseteq Transitions
    /\ \A e \in Executors :
           /\ executor[e].command \in Commands \cup {"none"}
           /\ executor[e].transition \in Transitions \cup {NoTransition}
           /\ executor[e].move \in [from : Routes, to : Routes]
    /\ trespass \in BOOLEAN

RegionalInit ==
    /\ journal = NewJournal("NONE")
    /\ route = Marked("primary", 0, NoTransition)
    /\ cell = [r \in Regions |-> All(IF r = "primary" THEN "on" ELSE "off")]
    /\ stack = "staged"
    /\ expired = {}
    /\ executor = [e \in Executors |-> IdleExecutor]
    /\ trespass = FALSE
-----------------------------------------------------------------------------
\* Mutant: a path that is being disabled is taken to be disabled.
FencedWhenAsked(r) == \A p \in Paths : cell[r][p] \in {"off", "stopping"}

Fenced(r) == \A p \in Paths : cell[r][p] = "off"
Live(r) == \A p \in Paths : cell[r][p] = "on"

\* smoke_ingress asks the functions only.
Answers(r) == cell[r]["functions"] = "on"

TargetRoute(t) == Marked(Target(t), GenerationOf[t] + 1, t)
RollbackRoute(t) == Marked(Source(t), GenerationOf[t] + 2, t)

Owns(t) == journal.transition = t /\ t \notin expired

\* The provider preflight of every command: the recovery stack's status.
Preflight(c, t) ==
    stack = IF DirectionOf[t] = "failover" /\ c \in {"fence_source", "activate_target"}
            THEN "staged" ELSE "active"

\* fence-source finds the source as its template says before its first claim.
SourceAsReviewed(c, t) ==
    c = "fence_source" /\ journal.phase = "STABLE" => Live(Source(t))

\* prove_pre_route_runtime
RouteProved(c, t) ==
    c = "route_target" => Fenced(Source(t)) /\ Live(Target(t))

RunCommand(e, c, t) ==
    /\ executor[e] = IdleExecutor
    /\ journal.phase # "NONE"
    /\ Preflight(c, t)
    /\ SourceAsReviewed(c, t)
    /\ RouteProved(c, t)
    /\ executor' = [executor EXCEPT ![e] =
           [IdleExecutor EXCEPT !.command = c, !.transition = t, !.left = <<"claim">>]]
    /\ UNCHANGED <<journal, route, cell, stack, expired, trespass>>

\* A refusal, an exception, a failed call of a provider, or the end of the process.
StopCommand(e) ==
    /\ executor[e] # IdleExecutor
    /\ executor' = [executor EXCEPT ![e] = IdleExecutor]
    /\ UNCHANGED <<journal, route, cell, stack, expired, trespass>>

At(e, place) == executor[e].left # <<>> /\ Head(executor[e].left) = place

GoOn(e) == executor' = [executor EXCEPT ![e].left = Tail(@)]

\* Mutant: an item that exists is written over.
InitializeAgain(t) ==
    /\ DirectionOf[t] = "failover"
    /\ GenerationOf[t] = 0
    /\ t \notin expired
    /\ Preflight("fence_source", t)
    /\ journal' = NewJournal("STABLE")
    /\ UNCHANGED <<route, cell, stack, expired, executor, trespass>>

InitializeJournal(t) ==
    /\ journal.phase = "NONE"
    /\ DirectionOf[t] = "failover"
    /\ GenerationOf[t] = 0
    /\ t \notin expired
    /\ Preflight("fence_source", t)
    /\ journal' = NewJournal("STABLE")
    /\ UNCHANGED <<route, cell, stack, expired, executor, trespass>>

Claimed(e, fresh) ==
    LET x == executor[e] IN
    executor' = [executor EXCEPT
        ![e].left = Work(x.command, x.transition) \o <<"complete">>,
        ![e].paths = IF x.command \in {"fence_source", "fence_failed_target"}
                     THEN <<"sources", "functions">>
                     ELSE <<"functions", "sources">>,
        ![e].fresh = fresh]

\* claim_source_fence; its resumption does not ask whether the fence is done.
ClaimSourceFence(e) ==
    LET t == executor[e].transition IN
    /\ At(e, "claim")
    /\ executor[e].command = "fence_source"
    /\ \/ /\ journal.phase = "STABLE"
          /\ t \notin expired
          /\ journal.generation = GenerationOf[t]
          /\ journal.active = Source(t)
          /\ journal' = [journal EXCEPT !.phase = "FENCING_SOURCE", !.transition = t]
       \/ /\ journal.phase \in {"FENCING_SOURCE", "SOURCE_FENCED"}
          /\ Owns(t)
          /\ UNCHANGED journal
    /\ Claimed(e, FALSE)
    /\ UNCHANGED <<route, cell, stack, expired, trespass>>

\* advance_phase into the step's own phase, or into it again.
ClaimPhase(e) ==
    LET c == executor[e].command  t == executor[e].transition IN
    /\ At(e, "claim")
    /\ c # "fence_source"
    /\ Owns(t)
    /\ \/ /\ journal.phase = Before(c)
          /\ journal' = [journal EXCEPT !.phase = During(c)]
       \/ /\ journal.phase = During(c)
          /\ UNCHANGED journal
    /\ Claimed(e, journal.phase = Before(c))
    /\ UNCHANGED <<route, cell, stack, expired, trespass>>

\* Verification before a change.  A first restoration starts from a full fence.
PrecheckHolds(c, t, fresh) ==
    CASE c = "activate_target" ->
             /\ Fenced(Source(t))
             /\ DirectionOf[t] = "failback" /\ fresh => Fenced(Target(t))
      [] c = "reconcile_target" -> Fenced(Source(t)) /\ Live(Target(t))
      [] c = "reactivate_source" -> Fenced(Target(t)) /\ (fresh => Fenced(Source(t)))

Precheck(e) ==
    /\ At(e, "precheck")
    /\ PrecheckHolds(executor[e].command, executor[e].transition, executor[e].fresh)
    /\ GoOn(e)
    /\ UNCHANGED <<journal, route, cell, stack, expired, trespass>>

InPhase(e) ==
    /\ journal.transition = executor[e].transition
    /\ journal.phase = During(executor[e].command)

\* The cell a command disables or enables.
CellOf(e) ==
    IF executor[e].command \in {"fence_source", "reactivate_source"}
    THEN Source(executor[e].transition)
    ELSE Target(executor[e].transition)

\* A path that is changed already stays, one that is being changed refuses.
Changed(path, state, wanted) ==
    CASE state = wanted -> wanted
      [] state # wanted /\ path = "functions" -> wanted
      [] state # wanted /\ path = "sources" -> IF wanted = "on" THEN "starting" ELSE "stopping"

\* One more path; the call may fail, and the command then fails after the last.
ChangePath(e) ==
    LET x == executor[e]
        path == Head(x.paths)
        state == cell[CellOf(e)][path]
        wanted == IF Head(x.left) = "disable" THEN "off" ELSE "on"
    IN
    /\ At(e, "disable") \/ At(e, "enable")
    /\ x.paths # <<>>
    /\ \/ /\ state \in {"on", "off"}
          /\ cell' = [cell EXCEPT ![CellOf(e)][path] = Changed(path, state, wanted)]
          /\ trespass' = (trespass \/ (cell' # cell /\ ~InPhase(e)))
          /\ executor' = [executor EXCEPT ![e].paths = Tail(@)]
       \/ /\ executor' = [executor EXCEPT ![e].paths = Tail(@), ![e].failed = TRUE]
          /\ UNCHANGED <<cell, trespass>>
    /\ UNCHANGED <<journal, route, stack, expired>>

\* AWS Lambda has changed the queue mappings.
SourcesSettle(r) ==
    /\ cell[r]["sources"] \in {"starting", "stopping"}
    /\ cell' = [cell EXCEPT ![r]["sources"] = IF @ = "starting" THEN "on" ELSE "off"]
    /\ UNCHANGED <<journal, route, stack, expired, executor, trespass>>

AllPathsChanged(e) ==
    /\ At(e, "disable") \/ At(e, "enable")
    /\ executor[e].paths = <<>>
    /\ ~executor[e].failed
    /\ GoOn(e)
    /\ UNCHANGED <<journal, route, cell, stack, expired, trespass>>
-----------------------------------------------------------------------------
\* cdk deploy of the verified assembly: an unchanged stack is not touched.
Deploy(e) ==
    /\ At(e, "deploy")
    /\ \/ stack = "staged" /\ stack' = "updating"
       \/ stack = "active" /\ UNCHANGED stack
    /\ GoOn(e)
    /\ UNCHANGED <<journal, route, cell, expired, trespass>>

ActivatesRecovery ==
    journal.phase = "ACTIVATING_TARGET" /\ Target(journal.transition) = "recovery"

\* The update goes on when the command that started it has stopped.
UpdateEnds ==
    /\ stack = "updating"
    /\ \/ /\ stack' = "active"
          /\ cell' = [cell EXCEPT !["recovery"] = All("on")]
          /\ trespass' = (trespass \/ ~ActivatesRecovery)
       \/ /\ stack' = "rolled_back"
          /\ UNCHANGED <<cell, trespass>>
    /\ UNCHANGED <<journal, route, expired, executor>>

AwaitStack(e) ==
    /\ At(e, "settle")
    /\ stack = "active"
    /\ GoOn(e)
    /\ UNCHANGED <<journal, route, cell, stack, expired, trespass>>

\* deploy_aws_passive_cell.py does not ask the journal.  The stack's drift stays.
Restage ==
    /\ stack \in {"active", "rolled_back"}
    /\ stack' = "staged"
    /\ cell' = [cell EXCEPT !["recovery"] = IF stack = "active" THEN All("off") ELSE @]
    /\ trespass' = (trespass \/ (cell' # cell /\ ~ActivatesRecovery))
    /\ UNCHANGED <<journal, route, expired, executor>>
-----------------------------------------------------------------------------
\* The records of the cutover come from the journal as it is read now.
MoveOf(c, t) ==
    IF c = "route_target"
    THEN [from |-> Marked(Source(t), journal.generation, journal.last),
          to |-> Marked(Target(t), journal.generation + 1, t)]
    ELSE [from |-> TargetRoute(t), to |-> RollbackRoute(t)]

ReadRoute(e) ==
    LET move == MoveOf(executor[e].command, executor[e].transition) IN
    /\ At(e, "read")
    /\ route \in {move.from, move.to}
    /\ executor' = [executor EXCEPT
           ![e].move = move,
           ![e].left = IF route = move.from THEN Tail(@) ELSE Tail(Tail(@))]
    /\ trespass' = (trespass \/ ~InPhase(e))
    /\ UNCHANGED <<journal, route, cell, stack, expired>>

\* One batch deletes the records that were read and creates the others.
ChangeRoute(e) ==
    /\ At(e, "change")
    /\ route = executor[e].move.from
    /\ route' = executor[e].move.to
    /\ GoOn(e)
    /\ UNCHANGED <<journal, cell, stack, expired, trespass>>

\* Verification after a change.
Proof(c, t, move) ==
    CASE c = "fence_source" -> Fenced(Source(t))
      [] c = "fence_failed_target" -> Fenced(Target(t))
      [] c \in {"activate_target", "reconcile_target"} -> Live(Target(t))
      [] c = "reactivate_source" -> Live(Source(t))
      [] c = "verify_ingress" -> Answers(Target(t))
      [] c = "verify_source_ingress" -> Answers(Source(t))
      [] c \in {"route_target", "route_source_rollback"} -> route = move.to
      [] c = "verify_stable" -> route = TargetRoute(t) /\ Answers(route.region)
      [] c = "verify_source_rollback" -> route = RollbackRoute(t) /\ Answers(route.region)

Prove(e) ==
    /\ At(e, "prove")
    /\ Proof(executor[e].command, executor[e].transition, executor[e].move)
    /\ GoOn(e)
    /\ UNCHANGED <<journal, route, cell, stack, expired, trespass>>

Ended(e) == executor' = [executor EXCEPT ![e] = IdleExecutor]

\* advance_phase out of the step
AdvancePhase(e) ==
    LET c == executor[e].command  t == executor[e].transition IN
    /\ At(e, "complete")
    /\ After(c) # "STABLE"
    /\ Owns(t)
    /\ journal.phase = During(c)
    /\ journal' = [journal EXCEPT !.phase = After(c)]
    /\ Ended(e)
    /\ UNCHANGED <<route, cell, stack, expired, trespass>>

Settled(region, generation, t) ==
    [phase |-> "STABLE", generation |-> generation, active |-> region,
     last |-> t, transition |-> NoTransition]

CompleteTransition(e) ==
    LET t == executor[e].transition IN
    /\ At(e, "complete")
    /\ executor[e].command = "verify_stable"
    /\ Owns(t)
    /\ journal.phase = "VERIFYING_STABLE_ROUTE"
    /\ journal' = Settled(Target(t), GenerationOf[t] + 1, t)
    /\ Ended(e)
    /\ UNCHANGED <<route, cell, stack, expired, trespass>>

CompleteRollback(e) ==
    LET t == executor[e].transition IN
    /\ At(e, "complete")
    /\ executor[e].command = "verify_source_rollback"
    /\ Owns(t)
    /\ journal.phase = "VERIFYING_SOURCE_ROLLBACK"
    /\ journal' = Settled(Source(t), GenerationOf[t] + 2, t)
    /\ Ended(e)
    /\ UNCHANGED <<route, cell, stack, expired, trespass>>

ExpireManifest(t) ==
    /\ t \notin expired
    /\ expired' = expired \cup {t}
    /\ UNCHANGED <<journal, route, cell, stack, executor, trespass>>

Execute(e) ==
    \/ \E c \in Commands, t \in Transitions : RunCommand(e, c, t)
    \/ StopCommand(e)
    \/ ClaimSourceFence(e) \/ ClaimPhase(e)
    \/ Precheck(e) \/ ChangePath(e) \/ AllPathsChanged(e)
    \/ Deploy(e) \/ AwaitStack(e)
    \/ ReadRoute(e) \/ ChangeRoute(e)
    \/ Prove(e)
    \/ AdvancePhase(e) \/ CompleteTransition(e) \/ CompleteRollback(e)

RegionalNext ==
    \/ \E t \in Transitions : InitializeJournal(t) \/ ExpireManifest(t)
    \/ \E e \in Executors : Execute(e)
    \/ \E r \in Regions : SourcesSettle(r)
    \/ UpdateEnds
    \/ Restage
-----------------------------------------------------------------------------
(***************************************************************************)
(* Properties.  A command that was overtaken, and works on a cell or from  *)
(* the journal when its phase is over, is not stopped by anything: they    *)
(* speak of the behaviours before that happens.                            *)
(***************************************************************************)

\* No two Regions run at the same time, not even in part, whatever calls fail
\* or take effect late: some cell has every path off (fence_source,
\* activate_target_step, reactivate_source_step).
OneRegionRuns ==
    trespass \/ \E r \in Regions : \A p \in Paths : cell[r][p] = "off"

\* A stable journal tells the truth: the DNS serves its active Region under its
\* generation and its last transition, and that Region is the one that runs.
\* The DNS moves only away from a Region that is fenced to one that runs, also
\* by a batch that was prepared long before (complete_transition,
\* complete_rollback, route_target_step, route_source_rollback_step).
StableIsServed ==
    journal.phase = "STABLE" /\ ~trespass =>
        /\ route = Marked(journal.active, journal.generation, journal.last)
        /\ \A r \in Regions : IF r = journal.active THEN Live(r) ELSE Fenced(r)

RouteServes ==
    [][/\ StableIsServed'
       /\ route' # route /\ ~trespass => Fenced(route.region) /\ Live(route'.region)]_regional

\* docs/regional-transition-journal-design.md: the marker in the DNS and the
\* generation of the journal converge together, and a rollback's generation
\* keeps an older cutover from being carried out again.
RouteFollowsJournal ==
    journal.phase = "STABLE" =>
        route = Marked(journal.active, journal.generation, journal.last)
=============================================================================
