------------------------------ MODULE MCAuthority ------------------------------
(***************************************************************************)
(* Instances of the control plane's authorities for TLC: PolicyGovernance, *)
(* PolicyExceptions, AgentAuthority, RegionalTransition and the discovery  *)
(* modules.  Their product is out of reach, so a behaviour is of one of    *)
(* nine scenes, and the others' variables stay:                            *)
(*   policy    requests do anything with the policy, and nobody asks for   *)
(*             an exception;                                               *)
(*   slot      requests do anything with two exceptions but serve them,    *)
(*             and the policy and the agent's binding stay as they are;    *)
(*   binding   one exception at a time, while the policy is migrated or    *)
(*             its staged version activated and the agent's binding comes  *)
(*             and goes;                                                   *)
(*   session   an agent is enrolled, sends heartbeats, is reviewed, and    *)
(*             has its sessions revoked once by a case;                    *)
(*   case      cases quarantine and release agents that are registered,    *)
(*             replaced, revoked and offboarded;                           *)
(*   failover and failback                                                 *)
(*             operators carry out one regional transition, or roll it     *)
(*             back, until a command trespasses;                           *)
(*   managed   administrators do anything with a discovery source, and its *)
(*             collector runs;                                             *)
(*   evidence  requests do anything with the evidence of a source, with a  *)
(*             generation of two pages and one of one page.                *)
(*                                                                         *)
(* The identifiers of one scene serve another one too (the requests of the *)
(* policy are the agents' workers and the runs of the regional scripts, the*)
(* exceptions' names those of sessions and contents, the operators' those  *)
(* of cases and generations): the permutations stay few.                   *)
(***************************************************************************)
EXTENDS PolicyExceptions, AgentAuthority, RegionalTransition, DiscoveryGenerations, TLC

CONSTANTS r1, r2, u1, u2, e1, e2, a1, a2, t1, failover, failback

VARIABLE scene

TwoRequests == {r1, r2}

Symmetry ==
    UNION {Permutations(S) : S \in {TwoRequests, {u1, u2}, {e1, e2}}}

InForceLedger ==
    [v \in Versions |->
        IF v = 1 THEN [state |-> "active", base |-> 0, author |-> None, decider |-> None]
        ELSE NoRecord]

InForceInit ==
    /\ row = [schema |-> 1, version |-> 1, latest |-> 1]
    /\ replica = row
    /\ ledger = InForceLedger
    /\ request = [r \in Requests |-> IdleRequest]
    /\ overwritten = FALSE

\* Version 1 is in force and version 2, its successor, staged.
StagedLedger(author, decider) ==
    [InForceLedger EXCEPT
        ![2] = [state |-> "staged", base |-> 1, author |-> author, decider |-> decider]]

StagedInit ==
    /\ row = [schema |-> 1, version |-> 1, latest |-> 2]
    /\ replica = row
    /\ \E a, d \in Operators : a # d /\ ledger = StagedLedger(a, d)
    /\ request = [r \in Requests |-> IdleRequest]
    /\ overwritten = FALSE

NoExceptions ==
    /\ exception = [e \in ExceptionIds |-> NoException]
    /\ slot = None
    /\ due = {}
    /\ bound = TRUE
    /\ task = [r \in Requests |-> NoTask]
    /\ since = [r \in Requests |-> NoSince]

AuthorityInit ==
    /\ NoExceptions
    /\ \/ scene = "policy" /\ Init
       \/ scene = "slot" /\ InForceInit
       \/ scene = "binding" /\ (Init \/ StagedInit) /\ row # NoRow

OneException ==
    \A e, f \in ExceptionIds :
        exception'[e] # NoException /\ exception'[f] # NoException => e = f

\* One subject asks for all exceptions, and has written the staged version.
OneAuthor ==
    \A e, f \in ExceptionIds : exception'[e] # NoException =>
        /\ exception'[f] # NoException => exception'[e].author = exception'[f].author
        /\ exception'[e].author = ledger[2].author \/ ~ IsRecorded(2)

PolicyUnderExceptions ==
    /\ \A r \in Requests : request'[r].op \in {"none", "activate", "scope"}
    /\ UNCHANGED replica

AuthorityNext ==
    \/ scene = "policy" /\ PolicyStep
    \/ scene = "slot" /\ ExceptionNext /\ OneAuthor /\ UNCHANGED <<row, replica, request, bound, since>>
    \/ scene = "binding" /\ ExceptionNext /\ OneException /\ OneAuthor /\ PolicyUnderExceptions

\* One agent, which has a stop of an older deployment.
OldAgent == \A a \in Agents : agent[a] = IF a = a1 THEN [Registered EXCEPT !.stop = TRUE] ELSE NoAgent

\* That agent, and an open case of it.
EnrolledInit ==
    /\ agent \in [Agents -> {NoAgent, [Registered EXCEPT !.stop = TRUE]}]
    /\ token = [t \in Tokens |-> NoToken]
    /\ session = [s \in Sessions |-> NoSession]
    /\ OldAgent
    /\ \E c \in Cases :
        incident = [d \in Cases |->
            IF d = c THEN [NoCase EXCEPT !.status = "open", !.agent = a1, !.life = 1,
                                         !.revision = 1]
            ELSE NoCase]
    /\ containment = [a \in Agents |-> NoContainment]
    /\ work = [w \in Workers |-> NoWork]
    /\ revocations = [a \in Agents |-> 0]
    /\ restored = {}

OneRevocation ==
    /\ \A c \in Cases : incident'[c].revision <= 2
    /\ \A a \in Agents : agent'[a].owner <= 2

AgentScene ==
    \/ /\ scene = "session"
       /\ \/ SessionStep \/ PutBackStep \/ RevokeSessionsStep \/ Revoke(a1)
          \/ \E w \in Workers : EndWork(w)
       /\ OneRevocation
    \/ /\ scene = "case"
       /\ \/ CaseStep \/ LifecycleStep \/ RevokeSessionsStep
          \/ \E w \in Workers : EndWork(w)

Directions == [t \in Transitions |-> IF t = failback THEN "failback" ELSE "failover"]
Generations == [t \in Transitions |-> IF t = failback THEN 1 ELSE 0]

\* The journal after a failover.
FailedOver ==
    /\ journal = Settled("recovery", 1, failover)
    /\ route = TargetRoute(failover)
    /\ cell = [r \in Regions |-> All(IF r = "recovery" THEN "on" ELSE "off")]
    /\ stack = "active"
    /\ expired = {}
    /\ executor = [e \in Executors |-> IdleExecutor]
    /\ trespass = FALSE

\* A manifest expires while its transition is under way, or not at all.
RegionalScene ==
    /\ scene \in Transitions
    /\ ~trespass
    /\ RegionalNext
    /\ \A e \in Executors : executor'[e].transition \in {scene, NoTransition}
    /\ expired' # expired => journal.transition \in expired'

NoAgents == AgentInit /\ \A a \in Agents : agent[a] = NoAgent

\* An administrator's connector, whose token publishers hold.
HandedInit ==
    /\ connector = [status |-> "active", revision |-> 1, token |-> 1, managed |-> FALSE]
    /\ collector = "absent"
    /\ schedule = FALSE
    /\ vault = NoSecret
    /\ issued = 1
    /\ admin = [a \in Administrators |-> NoRequest]
    /\ collection = [c \in Collections |-> "idle"]
    /\ misreported = FALSE

OneLongGeneration ==
    \A g, h \in GenerationIds : generation'[g].count = 2 /\ generation'[h].count = 2 => g = h

DiscoveryScene ==
    \/ scene = "managed" /\ ConnectorNext /\ UNCHANGED evidence
    \/ scene = "evidence" /\ GenerationNext /\ OneLongGeneration /\ UNCHANGED connectors

MCInit ==
    /\ GenerationInit
    /\ \/ RegionalInit /\ AuthorityInit /\ NoAgents /\ ConnectorInit
       \/ /\ NoExceptions /\ Init /\ row = NoRow
          /\ \/ scene = "session" /\ EnrolledInit /\ RegionalInit /\ ConnectorInit
             \/ scene = "case" /\ AgentInit /\ OldAgent /\ RegionalInit /\ ConnectorInit
             \/ scene = failover /\ NoAgents /\ RegionalInit /\ ConnectorInit
             \/ scene = failback /\ NoAgents /\ FailedOver /\ ConnectorInit
             \/ scene = "managed" /\ NoAgents /\ RegionalInit /\ ConnectorInit
             \/ scene = "evidence" /\ NoAgents /\ RegionalInit /\ HandedInit

MCNext ==
    /\ UNCHANGED scene
    /\ \/ AuthorityNext /\ UNCHANGED <<agents, regional, connectors, evidence>>
       \/ AgentScene /\ UNCHANGED <<governance, exceptions, regional, connectors, evidence>>
       \/ RegionalScene /\ UNCHANGED <<governance, exceptions, agents, connectors, evidence>>
       \/ DiscoveryScene /\ UNCHANGED <<governance, exceptions, agents, regional>>

MCSpec == MCInit /\ [][MCNext]_<<governance, exceptions, agents, regional, connectors, evidence, scene>>
=============================================================================
