---------------------------- MODULE ManagedRollouts ----------------------------
(***************************************************************************)
(* One deployment's managed configuration (handler.py): the CONFIGURATION  *)
(* item with its rollout, its CONFIGURATION_VERSION items, the packages    *)
(* published for it, and the endpoints that fetch a package and report     *)
(* what they enforce.  Every change of the item is conditional on its      *)
(* rollout revision.  A start and a publication read other items before    *)
(* they write; a reconciliation reads the item, measures the endpoints one *)
(* by one and then judges.  All endpoints are active throughout.           *)
(***************************************************************************)
EXTENDS Integers, FiniteSets, Sequences

CONSTANTS
    Endpoints,
    BucketOf,        \* the bucket of an endpoint, of a hundred
    Contents,        \* desired configurations
    NoContent,       \* none
    Lapsed,          \* a report whose verification has expired
    Shares,          \* percentages that operators choose
    Schedules,       \* the windows they choose: <<notBefore, deadline>>
    Publishers,      \* bound on the starts and publications in flight
    Reconcilers,     \* bound on the reconciliations in flight
    LegacyRows,      \* state and percentage of the row before its migration
    MaxConfigurations, MaxPackages, MaxRolloutRevision, MaxTime

ASSUME RolloutAssumption ==
    /\ BucketOf \in [Endpoints -> 0 .. 99]
    /\ {NoContent, Lapsed} \cap Contents = {}
    /\ Shares \subseteq 1 .. 100
    /\ MaxConfigurations \in Nat \ {0}
    /\ {MaxPackages, MaxRolloutRevision, MaxTime} \subseteq Nat

VARIABLES
    configuration,   \* the CONFIGURATION item
    document,        \* the desired configuration of the CONFIGURATION_VERSION items
    package,         \* the target of each package; the last one is MANAGED_PACKAGE
    endpoint,        \* what each endpoint holds and last reported, and its session
    publisher,       \* a start or a publication and what it remembers
    reconciler,      \* a reconciliation and what it remembers
    clock,
    enforced         \* history: the contents each endpoint ever reported

rollouts == <<configuration, document, package, endpoint, publisher, reconciler, clock, enforced>>

\* The window of a rollout that starts at once and has no deadline.
Unscheduled == <<-1, MaxTime + 1>>

\* version 0 stands for a row of before the governance.
NoConfiguration ==
    [revision |-> 0, version |-> 0, desired |-> NoContent, state |-> "staged", requested |-> "none",
     share |-> 0, package |-> 0, good |-> 0, goodPackage |-> 0, schedule |-> Unscheduled,
     started |-> -1]

NoPublisher == [at |-> "idle", seen |-> NoConfiguration, content |-> NoContent, package |-> 0]

NoReconciler ==
    [at |-> "idle", seen |-> NoConfiguration, now |-> 0, schedule |-> Unscheduled,
     posture |-> [a \in Endpoints |-> "unseen"]]

RolloutInit ==
    /\ \/ configuration = NoConfiguration
       \/ \E row \in LegacyRows, c \in Contents :
             configuration = [NoConfiguration EXCEPT !.desired = c, !.state = row[1], !.share = row[2]]
    /\ document = [v \in 1 .. MaxConfigurations |-> NoContent]
    /\ package = <<>>
    /\ endpoint = [a \in Endpoints |-> [holds |-> NoContent, report |-> NoContent, up |-> TRUE]]
    /\ publisher = [p \in Publishers |-> NoPublisher]
    /\ reconciler = [r \in Reconcilers |-> NoReconciler]
    /\ clock = 0
    /\ enforced = [a \in Endpoints |-> {}]

Active == {"canary", "active", "rolling_back"}

Selected(a, percentage) == percentage > BucketOf[a]

\* Every handler migrates the row it reads, and keeps its version, before it goes on.
Governed ==
    /\ configuration.version # 0
    /\ document[configuration.version] # NoContent

Put(new) ==
    /\ configuration.revision < MaxRolloutRevision
    /\ configuration' = [new EXCEPT !.revision = configuration.revision + 1]

\* Mutant: a reconciliation's put asks for the state it read only.
SameState(r) == configuration.state = reconciler[r].seen.state

StillAsSeen(r) == configuration.revision = reconciler[r].seen.revision

-----------------------------------------------------------------------------
(* Operators *)

MigrateRow ==
    /\ configuration.version = 0
    /\ configuration.desired # NoContent
    /\ Put([configuration EXCEPT
          !.version = 1,
          !.requested = IF configuration.state \in Active THEN configuration.state ELSE "none"])
    /\ UNCHANGED <<document, package, endpoint, publisher, reconciler, clock, enforced>>

KeepVersion ==
    /\ configuration.version # 0
    /\ document[configuration.version] = NoContent
    /\ document' = [document EXCEPT ![configuration.version] = configuration.desired]
    /\ UNCHANGED <<configuration, package, endpoint, publisher, reconciler, clock, enforced>>

Stage(c) ==
    LET v == configuration.version + 1 IN
    /\ configuration.desired = NoContent \/ Governed
    /\ v <= MaxConfigurations
    /\ document[v] = NoContent
    /\ Put([NoConfiguration EXCEPT !.version = v, !.desired = c, !.good = configuration.good,
                                   !.goodPackage = configuration.goodPackage])
    /\ document' = [document EXCEPT ![v] = c]
    /\ UNCHANGED <<package, endpoint, publisher, reconciler, clock, enforced>>

\* A publication looks at what is desired, and then at the last package.
BeginPublish(p) ==
    /\ publisher[p].at = "idle"
    /\ configuration.desired # NoContent
    /\ publisher' = [publisher EXCEPT ![p] =
          [NoPublisher EXCEPT !.at = "look", !.content = configuration.desired]]
    /\ UNCHANGED <<configuration, document, package, endpoint, reconciler, clock, enforced>>

ReadPackage(p) ==
    /\ publisher[p].at = "look"
    /\ publisher' = [publisher EXCEPT ![p].at = "publish", ![p].package = Len(package)]
    /\ UNCHANGED <<configuration, document, package, endpoint, reconciler, clock, enforced>>

CommitPublish(p) ==
    /\ publisher[p].at = "publish"
    /\ Len(package) = publisher[p].package
    /\ Len(package) < MaxPackages
    /\ package' = Append(package, publisher[p].content)
    /\ publisher' = [publisher EXCEPT ![p] = NoPublisher]
    /\ UNCHANGED <<configuration, document, endpoint, reconciler, clock, enforced>>

BeginStart(p) ==
    /\ publisher[p].at = "idle"
    /\ Governed
    /\ configuration.state # "rolling_back"
    /\ publisher' = [publisher EXCEPT ![p] =
          [NoPublisher EXCEPT !.at = "bind", !.seen = configuration]]
    /\ UNCHANGED <<configuration, document, package, endpoint, reconciler, clock, enforced>>

\* The package is compared with what is desired now.
BindPackage(p) ==
    /\ publisher[p].at = "bind"
    /\ Len(package) > 0
    /\ package[Len(package)] = configuration.desired
    /\ publisher' = [publisher EXCEPT ![p].at = "start", ![p].package = Len(package)]
    /\ UNCHANGED <<configuration, document, package, endpoint, reconciler, clock, enforced>>

\* A canary takes a quarter at most.
CommitStart(p, target, share, schedule) ==
    LET seen == publisher[p].seen
        waits == schedule[1] > clock
    IN
    /\ publisher[p].at = "start"
    /\ configuration.revision = seen.revision
    /\ share >= seen.share
    /\ target = "canary" => share <= 25
    /\ schedule # Unscheduled => schedule[1] >= clock /\ schedule[2] > clock
    /\ Put([seen EXCEPT
          !.state = IF waits THEN "scheduled" ELSE target, !.requested = target, !.share = share,
          !.package = publisher[p].package, !.schedule = schedule,
          !.started = IF waits THEN -1 ELSE clock])
    /\ publisher' = [publisher EXCEPT ![p] = NoPublisher]
    /\ UNCHANGED <<document, package, endpoint, reconciler, clock, enforced>>

EndPublisher(p) ==
    /\ publisher[p].at # "idle"
    /\ publisher' = [publisher EXCEPT ![p] = NoPublisher]
    /\ UNCHANGED <<configuration, document, package, endpoint, reconciler, clock, enforced>>

Pause ==
    /\ Governed
    /\ configuration.state \in Active \cup {"scheduled"}
    /\ Put([configuration EXCEPT !.state = "paused"])
    /\ UNCHANGED <<document, package, endpoint, publisher, reconciler, clock, enforced>>

Rollback ==
    LET v == configuration.version + 1
        c == document[configuration.good]
    IN
    /\ Governed
    /\ configuration.good # 0
    /\ configuration.goodPackage # 0
    /\ v <= MaxConfigurations
    /\ document[v] = NoContent
    /\ Put([configuration EXCEPT
          !.version = v, !.desired = c, !.state = "rolling_back", !.requested = "rolling_back",
          !.share = 100, !.package = configuration.goodPackage, !.schedule = Unscheduled,
          !.started = clock])
    /\ document' = [document EXCEPT ![v] = c]
    /\ UNCHANGED <<package, endpoint, publisher, reconciler, clock, enforced>>

-----------------------------------------------------------------------------
(* Endpoints *)

\* A row of before the governance names no package: the last one is served.
ServedPackage == IF configuration.package # 0 THEN configuration.package ELSE Len(package)

Fetch(a) ==
    /\ configuration.state \in Active \cup {"converged", "drifted"}
    /\ Selected(a, configuration.share)
    /\ ServedPackage # 0
    /\ package[ServedPackage] = configuration.desired
    /\ endpoint[a].holds # package[ServedPackage]
    /\ endpoint' = [endpoint EXCEPT ![a].holds = package[ServedPackage]]
    /\ UNCHANGED <<configuration, document, package, publisher, reconciler, clock, enforced>>

Report(a) ==
    LET new == [endpoint[a] EXCEPT !.report = endpoint[a].holds, !.up = TRUE] IN
    /\ new # endpoint[a]
    /\ endpoint' = [endpoint EXCEPT ![a] = new]
    /\ enforced' = [enforced EXCEPT ![a] = @ \cup {endpoint[a].holds}]
    /\ UNCHANGED <<configuration, document, package, publisher, reconciler, clock>>

\* Its session, or the verification that it reported, expires.
Fade(a) ==
    /\ \/ /\ endpoint[a].up
          /\ endpoint' = [endpoint EXCEPT ![a].up = FALSE]
       \/ /\ endpoint[a].report \in Contents
          /\ endpoint' = [endpoint EXCEPT ![a].report = Lapsed]
    /\ UNCHANGED <<configuration, document, package, publisher, reconciler, clock, enforced>>

\* What it is measured as, against what is desired at that moment.
Posture(a) ==
    IF ~ endpoint[a].up THEN "unavailable"
    ELSE IF endpoint[a].report = NoContent THEN "pending"
    ELSE IF endpoint[a].report = configuration.desired THEN "converged"
    ELSE "drifted"

-----------------------------------------------------------------------------
(* The reconciliation *)

BeginReconcile(r) ==
    /\ reconciler[r].at = "idle"
    /\ Governed
    /\ reconciler' = [reconciler EXCEPT ![r] =
          [NoReconciler EXCEPT
             !.seen = configuration, !.now = clock, !.schedule = configuration.schedule,
             !.at = IF configuration.state = "scheduled" /\ configuration.schedule[1] <= clock
                    THEN "open" ELSE "measure"]]
    /\ UNCHANGED <<configuration, document, package, endpoint, publisher, clock, enforced>>

\* If the rollout has changed, the reconciliation goes on with what it is now.  A
\* row of before the governance that was scheduled names no state to go to.
OpenWindow(r) ==
    LET seen == reconciler[r].seen IN
    /\ reconciler[r].at = "open"
    /\ seen.requested \in {"canary", "active"}
    /\ IF StillAsSeen(r)
       THEN Put([seen EXCEPT !.state = seen.requested, !.started = reconciler[r].now])
       ELSE UNCHANGED configuration
    /\ reconciler' = [reconciler EXCEPT ![r].at = "measure", ![r].seen = configuration']
    /\ UNCHANGED <<document, package, endpoint, publisher, clock, enforced>>

Measure(r, a) ==
    /\ reconciler[r].at = "measure"
    /\ reconciler[r].posture[a] = "unseen"
    /\ reconciler' = [reconciler EXCEPT ![r].posture[a] = Posture(a)]
    /\ UNCHANGED <<configuration, document, package, endpoint, publisher, clock, enforced>>

SelectedAs(r, posture) ==
    {a \in Endpoints : Selected(a, reconciler[r].seen.share) /\ reconciler[r].posture[a] = posture}

FullConverged(r) ==
    /\ reconciler[r].seen.share = 100
    /\ SelectedAs(r, "converged") = Endpoints

\* More than the tenth of the selected endpoints that is tolerated by default.
TooMany(S, r) ==
    10 * Cardinality(S) > Cardinality({a \in Endpoints : Selected(a, reconciler[r].seen.share)})

\* The deadline is that of the record as it was first read.  The grace of a start
\* is the moment it was made in.
MustPause(r) ==
    LET R == reconciler[r] IN
    \/ R.now >= R.schedule[2] /\ ~ FullConverged(r)
    \/ /\ R.now # R.seen.started
       /\ TooMany(SelectedAs(r, "unavailable"), r) \/ TooMany(SelectedAs(r, "drifted"), r)

Judgement(r) ==
    LET seen == reconciler[r].seen IN
    IF seen.state \in Active /\ MustPause(r) THEN [seen EXCEPT !.state = "paused"]
    ELSE IF seen.state \in {"active", "rolling_back"} /\ FullConverged(r)
    THEN [seen EXCEPT !.state = "converged", !.good = seen.version, !.goodPackage = seen.package]
    ELSE IF seen.state = "converged" /\ ~ FullConverged(r) THEN [seen EXCEPT !.state = "drifted"]
    ELSE IF seen.state = "drifted" /\ FullConverged(r) THEN [seen EXCEPT !.state = "converged"]
    ELSE seen

Judge(r) ==
    /\ reconciler[r].at = "measure"
    /\ \A a \in Endpoints : reconciler[r].posture[a] # "unseen"
    /\ IF StillAsSeen(r) /\ Judgement(r) # reconciler[r].seen
       THEN Put(Judgement(r))
       ELSE UNCHANGED configuration
    /\ reconciler' = [reconciler EXCEPT ![r] = NoReconciler]
    /\ UNCHANGED <<document, package, endpoint, publisher, clock, enforced>>

EndReconcile(r) ==
    /\ reconciler[r].at # "idle"
    /\ reconciler' = [reconciler EXCEPT ![r] = NoReconciler]
    /\ UNCHANGED <<configuration, document, package, endpoint, publisher, clock, enforced>>

Tick ==
    /\ clock < MaxTime
    /\ clock' = clock + 1
    /\ UNCHANGED <<configuration, document, package, endpoint, publisher, reconciler, enforced>>

RolloutNext ==
    \/ MigrateRow \/ KeepVersion \/ Pause \/ Rollback \/ Tick
    \/ \E c \in Contents : Stage(c)
    \/ \E p \in Publishers :
          \/ BeginPublish(p) \/ ReadPackage(p) \/ CommitPublish(p)
          \/ BeginStart(p) \/ BindPackage(p) \/ EndPublisher(p)
          \/ \E target \in {"canary", "active"}, share \in Shares,
                schedule \in Schedules \cup {Unscheduled} : CommitStart(p, target, share, schedule)
    \/ \E a \in Endpoints : Fetch(a) \/ Report(a) \/ Fade(a)
    \/ \E r \in Reconcilers :
          \/ BeginReconcile(r) \/ OpenWindow(r) \/ Judge(r) \/ EndReconcile(r)
          \/ \E a \in Endpoints : Measure(r, a)

-----------------------------------------------------------------------------
(* Properties *)

\* However reconciliations race with stages, starts, pauses and rollbacks, the
\* configuration is its last version, the package bound to a rollout is one of what
\* it desires, and what a rollback would restore was enforced by every
\* endpoint and is in the package kept with it (_reconcile_deployment_rollout,
\* _start_managed_rollouts, _rollback_managed_configuration).
KnownGoodIsProved ==
    LET row == configuration IN
    /\ \A v \in DOMAIN document :
          /\ v > row.version => document[v] = NoContent
          /\ v = row.version => document[v] \in {row.desired, NoContent}
    /\ row.package # 0 => package[row.package] = row.desired
    /\ row.good # 0 => \A a \in Endpoints : document[row.good] \in enforced[a]
    /\ row.goodPackage # 0 => package[row.goodPackage] = document[row.good]
=============================================================================
