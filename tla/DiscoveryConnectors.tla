-------------------------- MODULE DiscoveryConnectors --------------------------
(***************************************************************************)
(* The credential of a discovery source and its managed collector          *)
(* (handler.py, discovery_collector.py).  A managed source has a job and a *)
(* connector in the table, a secret with the connector's token in Secrets  *)
(* Manager and a schedule in EventBridge, which no transaction spans.  A   *)
(* request of an administrator may end anywhere.                           *)
(***************************************************************************)
EXTENDS Naturals

CONSTANTS
    Administrators,   \* bound on the requests in flight
    Collections,       \* bound on the collections in flight
    MaxTokens,        \* bound on the tokens made
    MaxCredentials    \* bound on the connector's revision

ASSUME ConnectorAssumption == {MaxTokens, MaxCredentials} \subseteq Nat

VARIABLES
    connector,     \* the DISCOVERY_CONNECTOR item
    collector,     \* the status of the DISCOVERY_JOB item
    schedule,      \* whether the source's schedule exists
    vault,         \* the source's connector secret
    issued,        \* the tokens made so far
    admin,         \* what each administrator's request does and remembers (for a
                   \* creation, the token it made)
    collection,    \* what each collection does
    misreported    \* history: a creation that took place was reported failed

connectors == <<connector, collector, schedule, vault, issued, admin, collection, misreported>>

Scheduled == {"scheduled", "running", "healthy", "degraded"}

NoConnector == [status |-> "absent", revision |-> 0, token |-> 0, managed |-> FALSE]

NoSecret == [status |-> "absent", token |-> 0]

\* made: the resources a creation made, and cleans up if it fails; those that a
\* disable could not delete.
NoRequest == [at |-> "idle", seen |-> NoConnector, made |-> {}]

ConnectorInit ==
    /\ connector = NoConnector
    /\ collector = "absent"
    /\ schedule = FALSE
    /\ vault = NoSecret
    /\ issued = 0
    /\ admin = [a \in Administrators |-> NoRequest]
    /\ collection = [c \in Collections |-> "idle"]
    /\ misreported = FALSE

Keep(a, r) == admin' = [admin EXCEPT ![a] = r]

Goto(a, at) == Keep(a, [admin[a] EXCEPT !.at = at])

Conclude(a) == Keep(a, NoRequest)

-----------------------------------------------------------------------------
(* A managed source is created *)

CreateSecret(a) ==
    /\ admin[a].at = "idle"
    /\ vault.status = "absent"
    /\ issued < MaxTokens
    /\ issued' = issued + 1
    /\ vault' = [status |-> "held", token |-> issued']
    /\ Keep(a, [NoRequest EXCEPT !.at = "schedule", !.seen.token = issued',
                                   !.made = {"secret"}])
    /\ UNCHANGED <<connector, collector, schedule, collection, misreported>>

\* The name of the secret is taken, or reserved since its deletion.
RefuseSecret(a) ==
    /\ admin[a].at = "idle"
    /\ vault.status # "absent"
    /\ Goto(a, "abandon")
    /\ UNCHANGED <<connector, collector, schedule, vault, issued, collection, misreported>>

CreateSchedule(a) ==
    /\ admin[a].at = "schedule"
    /\ ~ schedule
    /\ schedule' = TRUE
    /\ Keep(a, [admin[a] EXCEPT !.at = "commit", !.made = @ \cup {"schedule"}])
    /\ UNCHANGED <<connector, collector, vault, issued, collection, misreported>>

\* There is a schedule of this name, or the call fails, or takes place and seems
\* to fail: the creation does not know of a schedule.
RefuseSchedule(a) ==
    /\ admin[a].at = "schedule"
    /\ schedule' \in {schedule, TRUE}
    /\ Goto(a, "abandon")
    /\ UNCHANGED <<connector, collector, vault, issued, collection, misreported>>

CreateManaged(a) ==
    /\ admin[a].at = "commit"
    /\ connector = NoConnector
    /\ collector = "absent"
    /\ connector' = [status |-> "active", revision |-> 1,
                     token |-> admin[a].seen.token, managed |-> TRUE]
    /\ collector' = "scheduled"

CommitManaged(a) ==
    /\ CreateManaged(a)
    /\ Conclude(a)
    /\ UNCHANGED <<schedule, vault, issued, collection, misreported>>

\* The transaction takes place and all its answers are lost.
ManagedUnanswered(a) ==
    /\ CreateManaged(a)
    /\ misreported' = TRUE
    /\ Goto(a, "abandon")
    /\ UNCHANGED <<schedule, vault, issued, collection>>

\* The transaction fails, as when the source has a connector or a job.
RefuseManaged(a) ==
    /\ admin[a].at = "commit"
    /\ Goto(a, "abandon")
    /\ UNCHANGED <<connector, collector, schedule, vault, issued, collection, misreported>>

\* Mutant: the cleanup goes by the names, whoever made the resources.
AbandonByName(a) ==
    /\ admin[a].at = "abandon"
    /\ schedule' \in {schedule, FALSE}
    /\ Goto(a, "abandonSecret")
    /\ UNCHANGED <<connector, collector, vault, issued, collection, misreported>>

\* A deletion may fail, with a warning.
AbandonSchedule(a) ==
    /\ admin[a].at = "abandon"
    /\ schedule' \in {schedule} \cup {FALSE : m \in admin[a].made \cap {"schedule"}}
    /\ Goto(a, "abandonSecret")
    /\ UNCHANGED <<connector, collector, vault, issued, collection, misreported>>

AbandonSecret(a) ==
    /\ admin[a].at = "abandonSecret"
    /\ \/ vault' = vault
       \/ "secret" \in admin[a].made /\ vault' = [vault EXCEPT !.status = "deleted"]
    /\ Conclude(a)
    /\ UNCHANGED <<connector, collector, schedule, issued, collection, misreported>>

\* The recovery window of a deleted secret is over, long after the request.
PurgeSecret ==
    /\ vault.status = "deleted"
    /\ \A a \in Administrators : admin[a].at = "idle"
    /\ vault' = NoSecret
    /\ UNCHANGED <<connector, collector, schedule, issued, admin, collection, misreported>>

-----------------------------------------------------------------------------
(* The connector is rotated or revoked, a managed source disabled *)

Read(a, at) ==
    /\ admin[a].at = "idle"
    /\ Keep(a, [NoRequest EXCEPT !.at = at, !.seen = connector])
    /\ UNCHANGED <<connector, collector, schedule, vault, issued, collection, misreported>>

BeginRotateToken(a) == Read(a, "rotate")

\* The token is the administrator's, and not in the secret of a collector.
CommitRotateToken(a) ==
    /\ admin[a].at = "rotate"
    /\ connector.revision = admin[a].seen.revision
    /\ issued < MaxTokens
    /\ issued' = issued + 1
    /\ connector' = [status |-> "active", revision |-> connector.revision + 1,
                     token |-> issued', managed |-> FALSE]
    /\ Conclude(a)
    /\ UNCHANGED <<collector, schedule, vault, collection, misreported>>

BeginRevoke(a) == connector # NoConnector /\ Read(a, "revoke")

\* The put has no condition: what was read is written, revoked, over a rotation.
WriteRevoke(a) ==
    /\ admin[a].at = "revoke"
    /\ connector' = [admin[a].seen EXCEPT !.status = "revoked", !.revision = @ + 1]
    /\ Conclude(a)
    /\ UNCHANGED <<collector, schedule, vault, issued, collection, misreported>>

BeginDisable(a) == collector \in Scheduled /\ connector # NoConnector /\ Read(a, "disable")

\* The revisions are the request's own, and may be newer than what it read.
CommitDisable(a) ==
    /\ admin[a].at = "disable"
    /\ collector \in Scheduled
    /\ connector.status = "active"
    /\ collector' = "disabled"
    /\ connector' = [admin[a].seen EXCEPT !.status = "revoked", !.revision = connector.revision + 1]
    /\ Goto(a, "unschedule")
    /\ UNCHANGED <<schedule, vault, issued, collection, misreported>>

Unschedule(a) ==
    /\ admin[a].at = "unschedule"
    /\ \/ schedule' = FALSE /\ Goto(a, "dropSecret")
       \/ /\ UNCHANGED schedule
          /\ Keep(a, [admin[a] EXCEPT !.at = "dropSecret", !.made = {"schedule"}])
    /\ UNCHANGED <<connector, collector, vault, issued, collection, misreported>>

DropSecret(a) ==
    /\ admin[a].at = "dropSecret"
    /\ \/ /\ vault' = [vault EXCEPT !.status = "deleted"]
          /\ IF admin[a].made = {} THEN Conclude(a) ELSE Goto(a, "cleanup")
       \/ UNCHANGED vault /\ Goto(a, "cleanup")
    /\ UNCHANGED <<connector, collector, schedule, issued, collection, misreported>>

\* The put of the disabled job that asks for a cleanup has no condition.
AskCleanup(a) ==
    /\ admin[a].at = "cleanup"
    /\ collector' = "disabled"
    /\ Conclude(a)
    /\ UNCHANGED <<connector, schedule, vault, issued, collection, misreported>>

\* The request ends: it conflicts, is refused, or its process stops.
EndRequest(a) ==
    /\ admin[a].at # "idle"
    /\ Conclude(a)
    /\ UNCHANGED <<connector, collector, schedule, vault, issued, collection, misreported>>

-----------------------------------------------------------------------------
(* Collections *)

\* An invocation, perhaps late, of the schedule, for a job that is live.
BindJob(c) ==
    /\ collection[c] = "idle"
    /\ collector \in Scheduled
    /\ collection' = [collection EXCEPT ![c] = "bound"]
    /\ UNCHANGED <<connector, collector, schedule, vault, issued, admin, misreported>>

\* _update_job_attempt: the revision of a live job never changes.
UpdateJob(status) == collector \in Scheduled /\ collector' = status

MarkRunning(c) ==
    /\ collection[c] = "bound"
    /\ UpdateJob("running")
    /\ collection' = [collection EXCEPT ![c] = "running"]
    /\ UNCHANGED <<connector, schedule, vault, issued, admin, misreported>>

\* The secret is there, and the generation published or not.
ReportHealth(c) ==
    /\ collection[c] = "running"
    /\ \/ vault.status = "held" /\ UpdateJob("healthy")
       \/ UpdateJob("degraded")
    /\ collection' = [collection EXCEPT ![c] = "idle"]
    /\ UNCHANGED <<connector, schedule, vault, issued, admin, misreported>>

EndCollection(c) ==
    /\ collection[c] # "idle"
    /\ collection' = [collection EXCEPT ![c] = "idle"]
    /\ UNCHANGED <<connector, collector, schedule, vault, issued, admin, misreported>>

ConnectorNext ==
    /\ \/ \E a \in Administrators :
             \/ CreateSecret(a) \/ RefuseSecret(a) \/ CreateSchedule(a) \/ RefuseSchedule(a)
             \/ CommitManaged(a) \/ ManagedUnanswered(a) \/ RefuseManaged(a)
             \/ AbandonSchedule(a) \/ AbandonSecret(a)
             \/ BeginRotateToken(a) \/ CommitRotateToken(a) \/ BeginRevoke(a) \/ WriteRevoke(a)
             \/ BeginDisable(a) \/ CommitDisable(a) \/ Unschedule(a) \/ DropSecret(a)
             \/ AskCleanup(a) \/ EndRequest(a)
       \/ \E c \in Collections :
             \/ BindJob(c) \/ MarkRunning(c) \/ ReportHealth(c) \/ EndCollection(c)
       \/ PurgeSecret
    /\ connector'.revision <= MaxCredentials

-----------------------------------------------------------------------------
(* Properties *)

\* While a source's job is not disabled and the connector is still its own, its
\* schedule is there and its secret holds the token that is accepted, however
\* creations, disables and late collections race; a creation that took place and
\* was reported failed is the exception (_create_managed_discovery).
LiveCollectorServed ==
    collector \in Scheduled /\ connector.managed /\ connector.status = "active" /\ ~ misreported
    => schedule /\ vault = [status |-> "held", token |-> connector.token]
=============================================================================
