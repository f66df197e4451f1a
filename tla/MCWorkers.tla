------------------------------- MODULE MCWorkers -------------------------------
(***************************************************************************)
(* Instances of the control plane's queue workers, automatic responses and *)
(* rollouts for TLC.  A behaviour is of one of eleven scenes, and the      *)
(* others' variables stay:                                                 *)
(*   keys       two operators do anything with a destination and its keys; *)
(*   change     an event with two senders, while one operator pauses or    *)
(*              retires the destination;                                   *)
(*   cycle      two events were refused by SQS and a third one is sent;    *)
(*              the cycle reaches the tenant from some moment on, one more *)
(*              call may fail, the worker does not stop, and its posts are *)
(*              answered;                                                  *)
(*   retention  the retention is raised by a job and by an update, with    *)
(*              no job before or after one that failed with a version      *)
(*              extended and another one not; an update is not under way   *)
(*              once a second call has failed;                             *)
(*   rule       requests do anything with a response rule, whose author is *)
(*              always the same;                                           *)
(*   limits     two evaluations of two alerts share the rule's limit;      *)
(*   duel       two evaluations meet on one alert, while responders work   *)
(*              on its case and may revoke the agent;                      *)
(*   alerts     one evaluation, while its alert is delivered, closed and   *)
(*              reopened, and the rule disabled;                           *)
(*   start      two operators stage, publish, start, pause and roll back   *)
(*              from a row of before the governance, or from none;         *)
(*   measure    a reconciliation races with such requests while endpoints  *)
(*              fetch and report; one of them is never away and reports    *)
(*              what it fetched before anything else happens;              *)
(*   window     rollouts with a window are reconciled while time passes.   *)
(***************************************************************************)
EXTENDS WebhookDelivery, EvidenceRetention, AutomaticResponse, ManagedRollouts, TLC

CONSTANTS o1, o2, k1, k2, k3, d1, d2, d3, s1, s2, w1, j0, j1

VARIABLE scene

ServedInit ==
    /\ destination = Created(k1)
    /\ secret = [made |-> {k1}, deleted |-> FALSE]
    /\ change = [o \in Operators |-> NoChange]
    /\ disclosed = {k1}
    /\ covered = FALSE

\* DeliveryInit but for the outbox.
RefusedInit ==
    /\ delivery = [d \in Deliveries |->
          IF d = d3 THEN NoRecord
          ELSE [NoRecord EXCEPT !.status = "pending", !.indexed = TRUE]]
    /\ outbox = {d1, d2}
    /\ reached \in BOOLEAN
    /\ queue = <<>>
    /\ recent = {}
    /\ dead = {}
    /\ sender = [s \in Senders |-> IdleSender]
    /\ worker = IdleWorker
    /\ audit = [d \in Deliveries |-> "none"]
    /\ posts = [d \in Deliveries |-> 0]
    /\ mishaps = MaxMishaps - 1

\* j0 stopped after its first page.
FailedInit ==
    /\ policy = [revision |-> 1, days |-> MaxDays, status |-> "failed", job |-> j0]
    /\ job = [j \in Jobs |->
          IF j = j0
          THEN [status |-> "failed", revision |-> 3, policy |-> 1, target |-> MaxDays,
                due |-> TRUE, marker |-> 1]
          ELSE NoJobRecord]
    /\ version = [p \in Positions |->
          [held |-> IF p = 1 THEN MaxDays ELSE 1, after |-> {}, aware |-> TRUE]]
    /\ writer = [w \in Writers |-> IdleWriter]
    /\ update = NoUpdate
    /\ jobQueue = [j \in Jobs |-> <<>>]
    /\ jobRecent = [j \in Jobs |-> {}]
    /\ jobWorker = [j \in Jobs |-> IdleJobWorker]
    /\ lapses = 0

Correlated == [c \in Cases |-> IF c = k1 THEN s1 ELSE s2]

Enrolled == AgentInit /\ \A a \in Agents : agent[a] = [Registered EXCEPT !.stop = TRUE]

ActiveRule ==
    /\ rule = [active |-> 1, latest |-> 1, enabled |-> TRUE]
    /\ ruleVersion = [v \in RuleVersions |->
          IF v = 1 THEN [Drafted(o1, 0) EXCEPT !.state = "active", !.decider = o2]
          ELSE NoRuleVersion]
    /\ governor = [g \in Governors |-> NoGovernor]
    /\ silenced = FALSE
    /\ reenabled = FALSE

Opened == [NoAlert EXCEPT !.occurrence = 1, !.open = TRUE]

\* ResponseInit but for the alerts.
AlertedInit(opened) ==
    /\ alert = [c \in Cases |-> IF c \in opened THEN Opened ELSE NoAlert]
    /\ owner = [c \in Cases |-> 0]
    /\ activator = [c \in Cases |-> 0]
    /\ hourly = [revision |-> 0, used |-> 0]
    /\ cooldown = [a \in Agents |-> [revision |-> 0, running |-> FALSE]]
    /\ lease = {}
    /\ execution = [t \in Triggers |-> "none"]
    /\ evaluation = [e \in Evaluations |-> NoEvaluation]
    /\ reserved = {}
    /\ overtaken = FALSE

Unresponsive == RuleInit /\ ResponseInit

OneInAQuarter == [a \in Endpoints |-> IF a = s1 THEN 0 ELSE 60]
LaterWindow == {<<1, 2>>}
ActiveRow == {<<"active", 100>>}

Unconfigured ==
    /\ configuration = NoConfiguration
    /\ document = [v \in 1 .. MaxConfigurations |-> NoContent]
    /\ package = <<>>
    /\ endpoint = [a \in Endpoints |-> [holds |-> NoContent, report |-> NoContent, up |-> TRUE]]

\* Version 1 was started at full some time ago, and every endpoint has fetched it.
MidRollout ==
    /\ configuration = [NoConfiguration EXCEPT
          !.revision = 1, !.version = 1, !.desired = k1, !.state = "active",
          !.requested = "active", !.share = 100, !.package = 1]
    /\ document = [v \in 1 .. MaxConfigurations |-> IF v = 1 THEN k1 ELSE NoContent]
    /\ package = <<k1>>
    /\ endpoint = [a \in Endpoints |-> [holds |-> k1, report |-> NoContent, up |-> TRUE]]

NoRequests ==
    /\ publisher = [p \in Publishers |-> NoPublisher]
    /\ reconciler = [r \in Reconcilers |-> NoReconciler]
    /\ clock = 0
    /\ enforced = [a \in Endpoints |-> {}]

Init ==
    /\ Enrolled
    /\ \/ scene = "keys" /\ DestinationInit /\ RetentionInit /\ Unresponsive /\ Unconfigured
       \/ scene \in {"change", "cycle"} /\ ServedInit /\ RetentionInit /\ Unresponsive /\ Unconfigured
       \/ /\ scene = "retention"
          /\ DestinationInit /\ (RetentionInit \/ FailedInit) /\ Unresponsive /\ Unconfigured
       \/ /\ DestinationInit /\ RetentionInit /\ Unconfigured
          /\ \/ scene = "rule" /\ Unresponsive
             \/ scene = "limits" /\ ActiveRule /\ AlertedInit({k1, k2})
             \/ scene = "duel" /\ ActiveRule /\ AlertedInit({k1})
             \/ scene = "alerts" /\ ActiveRule /\ ResponseInit
       \/ /\ DestinationInit /\ RetentionInit /\ Unresponsive
          /\ \/ scene = "start" /\ RolloutInit
             \/ scene \in {"measure", "window"} /\ MidRollout
    /\ scene # "start" => NoRequests
    /\ IF scene = "cycle" THEN RefusedInit ELSE DeliveryInit
    /\ scene # "cycle" => reached

\* One change of the destination's status, and the deletion that follows it.
OneChange ==
    \/ destination.revision = 1 /\ \E status \in {"paused", "retired"} : SetStatus(o1, status)
    \/ DeleteSecret(o1)

DeliveryScene ==
    \/ /\ scene = "change"
       /\ \/ DeliveryNext /\ \A d \in {d2, d3} : delivery'[d] = NoRecord
          \/ OneChange /\ UNCHANGED deliveries
       /\ UNCHANGED reached
    \/ /\ scene = "cycle"
       /\ DeliveryNext
       /\ sender'[s2] = IdleSender
       /\ reached => reached'
       /\ mishaps' # mishaps => sender' # sender
       /\ ~ worker'.raises

TimePasses ==
    HourPasses \/ (\E a \in Agents : CooldownPasses(a)) \/ \E t \in Triggers : ExpireLease(t)

\* The alert of an evaluation is k1, or k2 of s2's.
EachItsOwn == \A e \in Evaluations : evaluation'[e].case \in {Nothing, IF e = s2 THEN k2 ELSE k1}

ResponseScene ==
    \/ /\ scene = "rule"
       /\ RuleNext
       /\ \A v \in RuleVersions : ruleVersion'[v].author # o2
       /\ UNCHANGED <<agents, responses>>
    \/ scene = "limits" /\ (EvaluationStep \/ TimePasses) /\ EachItsOwn
    \/ scene = "duel" /\ (EvaluationStep \/ RespondStep \/ CloseAlert(k1))
    \/ /\ scene = "alerts"
       /\ \/ EvaluationStep \/ TimePasses \/ OpenAlert(k1) \/ DeliverAlert(k1) \/ CloseAlert(k1)
          \/ /\ \E g \in Governors : BeginRuleDisable(g) \/ CommitRuleDisable(g)
             /\ UNCHANGED <<agents, responses>>
       /\ evaluation'[s2] = NoEvaluation
       /\ governor'[s2] = NoGovernor

\* A request that nothing interrupts.
AtOnce ==
    \A p \in Publishers :
       /\ p # o1 => publisher'[p] = NoPublisher
       /\ publisher[p] # NoPublisher =>
             publisher'[p] # publisher[p] /\ <<publisher'[p], package', configuration'>>
                                             # <<NoPublisher, package, configuration>>

\* What is staged is the second configuration.
SecondStaged ==
    configuration' # configuration /\ configuration'.state = "staged" => configuration'.desired = k2

S1First == \A r \in Reconcilers :
    reconciler'[r].posture[s2] # "unseen" => reconciler'[r].posture[s1] # "unseen"

RolloutScene ==
    /\ scene \in {"start", "measure", "window"}
    /\ RolloutNext
    /\ SecondStaged
    /\ \/ /\ scene = "start"
          /\ configuration'.schedule = Unscheduled
          /\ UNCHANGED <<endpoint, reconciler, clock>>
       \/ /\ scene = "measure"
          /\ AtOnce /\ S1First
          /\ configuration'.schedule = Unscheduled /\ configuration'.share \in {0, 100}
          /\ endpoint'[s1].up /\ endpoint'[s2].up /\ endpoint'[s2].report # Lapsed
          /\ endpoint[s2].holds # endpoint[s2].report => endpoint'[s2] # endpoint[s2]
          /\ UNCHANGED clock
       \/ /\ scene = "window"
          /\ AtOnce /\ S1First
          /\ UNCHANGED <<document, package>>
          /\ endpoint' \in {endpoint, [endpoint EXCEPT ![s1].up = FALSE]}
          /\ configuration'.share = 100

Next ==
    /\ UNCHANGED scene
    /\ \/ RolloutScene /\ UNCHANGED <<destinations, deliveries, retention, rules, agents, responses>>
       \/ /\ scene \notin {"start", "measure", "window"}
          /\ UNCHANGED rollouts
          /\ \/ ResponseScene /\ UNCHANGED <<destinations, deliveries, retention>>
             \/ /\ scene = "keys"
                /\ DestinationNext
                /\ UNCHANGED <<deliveries, retention, rules, agents, responses>>
             \/ DeliveryScene /\ UNCHANGED <<retention, rules, agents, responses>>
             \/ /\ scene = "retention"
                /\ RetentionNext
                /\ job'[j0] = job[j0]
                /\ update' # NoUpdate => lapses' <= 1
                /\ UNCHANGED <<destinations, deliveries, rules, agents, responses>>

Spec ==
    /\ Init
    /\ [][Next]_<<destinations, deliveries, retention, rules, agents, responses, rollouts, scene>>
    /\ DeliveryFairness
    /\ RetentionFairness
=============================================================================
