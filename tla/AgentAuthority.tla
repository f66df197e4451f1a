---------------------------- MODULE AgentAuthority ----------------------------
(***************************************************************************)
(* The authority of enrolled agents in the AWS control plane (handler.py): *)
(* agent records, bootstrap tokens, sessions, and the incident cases that  *)
(* quarantine an agent or revoke its sessions.                             *)
(*                                                                         *)
(* Most handlers read an agent's record and put the whole of it back under *)
(* a condition on some of its fields; the fields the condition leaves out  *)
(* return to what was read.  Such a handler is a read and a write here,    *)
(* and other requests come in between.  A handler whose conditions cover   *)
(* everything it decided on is one step.  A request may end anywhere.      *)
(***************************************************************************)
EXTENDS Naturals

CONSTANTS
    Agents,
    Tokens,        \* bound on the bootstrap tokens
    Sessions,      \* bound on the session tokens
    Cases,         \* bound on the incident cases
    Workers,       \* bound on the requests in flight
    MaxRevision,   \* bound on the revisions of a record
    Nothing        \* no agent, token, session or case

ASSUME AgentAssumption ==
    /\ MaxRevision \in Nat \ {0}
    /\ Nothing \notin Agents \cup Tokens \cup Sessions \cup Cases

VARIABLES
    agent,         \* the AGENT items
    token,         \* the AGENT_BOOTSTRAP items
    session,       \* the AGENT_SESSION items
    incident,      \* the CASE items
    containment,   \* the CONTAINMENT items, one per agent
    work,          \* what each request does and remembers
    revocations,   \* history: session revocations committed, per agent
    restored       \* history: the agents whose session revision a stale put restored

agents == <<agent, token, session, incident, containment, work, revocations, restored>>

Revisions == 0 .. MaxRevision

\* life, session, owner: the revisions of the lifecycle, of the sessions'
\* authority and of the ownership; stop: emergencyStop of older deployments.
AgentRecords ==
    [state : {"absent", "active", "revoked", "deleted"},
     life : 0 .. 3, session : Revisions, owner : Revisions, stop : BOOLEAN]

NoAgent == [state |-> "absent", life |-> 0, session |-> 0, owner |-> 0, stop |-> FALSE]

Registered == [state |-> "active", life |-> 1, session |-> 1, owner |-> 1, stop |-> FALSE]

\* epoch: history, how many revocations there were when its revision was read.
NoToken == [state |-> "absent", agent |-> Nothing, revision |-> 0, epoch |-> 0]

NoSession == [state |-> "absent", agent |-> Nothing, revision |-> 0, epoch |-> 0]

NoCase ==
    [status |-> "absent", agent |-> Nothing, life |-> 0, revision |-> 0,
     quarantine |-> "none", held |-> 0]

NoContainment == [active |-> FALSE, revision |-> 0, case |-> Nothing]

\* seen: the agent record it read; revision, held: the revisions of the case and
\* of its containment; epoch: history, the revocations when the agent was read.
NoWork ==
    [op |-> "none", at |-> "idle", agent |-> Nothing, seen |-> NoAgent, epoch |-> 0,
     token |-> Nothing, session |-> Nothing, case |-> Nothing, revision |-> 0, held |-> 0]

AgentInit ==
    /\ agent \in [Agents -> {NoAgent, [Registered EXCEPT !.stop = TRUE]}]
    /\ token = [t \in Tokens |-> NoToken]
    /\ session = [s \in Sessions |-> NoSession]
    /\ incident = [c \in Cases |-> NoCase]
    /\ containment = [a \in Agents |-> NoContainment]
    /\ work = [w \in Workers |-> NoWork]
    /\ revocations = [a \in Agents |-> 0]
    /\ restored = {}

IsActive(a) == agent[a].state = "active"

\* _agent_identity: what every request of an agent passes first.
Accepted(s) ==
    /\ session[s].state = "live"
    /\ IsActive(session[s].agent)
    /\ session[s].revision = agent[session[s].agent].session

Take(w, t) == work' = [work EXCEPT ![w] = t]

Leave(w) == work' = [work EXCEPT ![w] = NoWork]

(***************************************************************************)
(* Handlers that put back the record they read.                            *)
(***************************************************************************)
\* A handler of an operator reads an active agent.
ReadAgent(w, op, a, at) ==
    /\ work[w].at = "idle"
    /\ IsActive(a)
    /\ Take(w, [NoWork EXCEPT !.op = op, !.at = at, !.agent = a,
                              !.seen = agent[a], !.epoch = revocations[a]])
    /\ UNCHANGED <<agent, token, session, incident, containment, revocations, restored>>

BeginOwnership(w, a) == ReadAgent(w, "ownership", a, "put")

BeginClearStop(w, a) == agent[a].stop /\ ReadAgent(w, "clear", a, "put")

\* The put of a record made from what was read; the session revision returns
\* to what it was then.
PutBack(w, record) ==
    LET a == work[w].agent IN
    /\ agent' = [agent EXCEPT ![a] = record]
    /\ restored' = IF record.session < agent[a].session
                   THEN restored \cup {a} ELSE restored

\* Mutant: conditional on the ownership revision alone.
PutOwnershipAnyState(w) ==
    LET seen == work[w].seen IN
    /\ work[w].op = "ownership"
    /\ agent[work[w].agent].owner = seen.owner
    /\ seen.owner < MaxRevision
    /\ PutBack(w, [seen EXCEPT !.owner = @ + 1])
    /\ Leave(w)
    /\ UNCHANGED <<token, session, incident, containment, revocations>>

\* Conditional on the state and the ownership revision.
PutOwnership(w) ==
    LET seen == work[w].seen
        now == agent[work[w].agent] IN
    /\ work[w].op = "ownership"
    /\ now.state = "active"
    /\ now.owner = seen.owner
    /\ seen.owner < MaxRevision
    /\ PutBack(w, [seen EXCEPT !.owner = @ + 1])
    /\ Leave(w)
    /\ UNCHANGED <<token, session, incident, containment, revocations>>

\* Conditional on the state and the lifecycle revision.
PutClearStop(w) ==
    LET seen == work[w].seen
        now == agent[work[w].agent] IN
    /\ work[w].op = "clear"
    /\ now.state = "active"
    /\ now.life = seen.life
    /\ PutBack(w, [seen EXCEPT !.stop = FALSE])
    /\ Leave(w)
    /\ UNCHANGED <<token, session, incident, containment, revocations>>

(***************************************************************************)
(* Heartbeats: the session is checked, the record read again and put back, *)
(* and a session near its end replaced by a new one and then deleted.      *)
(***************************************************************************)
BeginHeartbeat(w, s) ==
    /\ work[w].at = "idle"
    /\ Accepted(s)
    /\ Take(w, [NoWork EXCEPT !.op = "heartbeat", !.at = "read",
                              !.agent = session[s].agent, !.session = s])
    /\ UNCHANGED <<agent, token, session, incident, containment, revocations, restored>>

ReadHeartbeat(w) ==
    /\ work[w].at = "read"
    /\ Take(w, [work[w] EXCEPT !.at = "put", !.seen = agent[work[w].agent]])
    /\ UNCHANGED <<agent, token, session, incident, containment, revocations, restored>>

PutHeartbeat(w) ==
    LET seen == work[w].seen
        now == agent[work[w].agent] IN
    /\ work[w].op = "heartbeat"
    /\ work[w].at = "put"
    /\ now.state = "active"
    /\ now.life = seen.life
    /\ now.session = seen.session
    /\ PutBack(w, seen)
    /\ Take(w, [work[w] EXCEPT !.at = "renew"])
    /\ UNCHANGED <<token, session, incident, containment, revocations>>

\* The new session has the revision of the old one.
Renew(w, s) ==
    LET old == session[work[w].session] IN
    /\ work[w].at = "renew"
    /\ session[s].state = "absent"
    /\ session' = [session EXCEPT ![s] = [old EXCEPT !.state = "live"]]
    /\ Take(w, [work[w] EXCEPT !.at = "delete"])
    /\ UNCHANGED <<agent, token, incident, containment, revocations, restored>>

DeleteRenewed(w) ==
    /\ work[w].at = "delete"
    /\ session' = [session EXCEPT ![work[w].session].state = "ended"]
    /\ Leave(w)
    /\ UNCHANGED <<agent, token, incident, containment, revocations, restored>>

(***************************************************************************)
(* Enrolment: a bootstrap token is issued to an agent and exchanged for a  *)
(* session.                                                                *)
(***************************************************************************)
BeginIssue(w, a) == ReadAgent(w, "issue", a, "quarantine")

CheckQuarantine(w) ==
    /\ work[w].at = "quarantine"
    /\ ~ containment[work[w].agent].active
    /\ work[w].op = "enroll" => token[work[w].token].revision = work[w].seen.session
    /\ Take(w, [work[w] EXCEPT !.at = IF work[w].op = "enroll" THEN "consume" ELSE "put"])
    /\ UNCHANGED <<agent, token, session, incident, containment, revocations, restored>>

PutToken(w, t) ==
    /\ work[w].op = "issue"
    /\ work[w].at = "put"
    /\ token[t].state = "absent"
    /\ token' = [token EXCEPT ![t] =
          [state |-> "live", agent |-> work[w].agent,
           revision |-> work[w].seen.session, epoch |-> work[w].epoch]]
    /\ Leave(w)
    /\ UNCHANGED <<agent, session, incident, containment, revocations, restored>>

\* Reads the token and then its agent.
BeginEnroll(w, t) ==
    /\ work[w].at = "idle"
    /\ token[t].state = "live"
    /\ Take(w, [NoWork EXCEPT !.op = "enroll", !.at = "agent",
                              !.agent = token[t].agent, !.token = t])
    /\ UNCHANGED <<agent, token, session, incident, containment, revocations, restored>>

ReadEnrolled(w) ==
    /\ work[w].at = "agent"
    /\ IsActive(work[w].agent)
    /\ Take(w, [work[w] EXCEPT !.at = "quarantine", !.seen = agent[work[w].agent]])
    /\ UNCHANGED <<agent, token, session, incident, containment, revocations, restored>>

\* A delete on the condition that the token exists.
Consume(w) ==
    /\ work[w].at = "consume"
    /\ token[work[w].token].state = "live"
    /\ token' = [token EXCEPT ![work[w].token].state = "ended"]
    /\ Take(w, [work[w] EXCEPT !.at = "session"])
    /\ UNCHANGED <<agent, session, incident, containment, revocations, restored>>

\* Mutant: the session gets the revision that is current.
PutSessionNow(w, s) ==
    /\ work[w].at = "session"
    /\ session[s].state = "absent"
    /\ session' = [session EXCEPT ![s] =
          [state |-> "live", agent |-> work[w].agent,
           revision |-> agent[work[w].agent].session,
           epoch |-> token[work[w].token].epoch]]
    /\ Leave(w)
    /\ UNCHANGED <<agent, token, incident, containment, revocations, restored>>

PutSession(w, s) ==
    /\ work[w].at = "session"
    /\ session[s].state = "absent"
    /\ session' = [session EXCEPT ![s] =
          [state |-> "live", agent |-> work[w].agent, revision |-> work[w].seen.session,
           epoch |-> token[work[w].token].epoch]]
    /\ Leave(w)
    /\ UNCHANGED <<agent, token, incident, containment, revocations, restored>>

\* A token or a session passes its expires_at.
ExpireToken(t) ==
    /\ token[t].state = "live"
    /\ token' = [token EXCEPT ![t].state = "ended"]
    /\ UNCHANGED <<agent, session, incident, containment, work, revocations, restored>>

ExpireSession(s) ==
    /\ session[s].state = "live"
    /\ session' = [session EXCEPT ![s].state = "ended"]
    /\ UNCHANGED <<agent, token, incident, containment, work, revocations, restored>>

(***************************************************************************)
(* The lifecycle of an agent: each handler is one conditional write of all *)
(* it read, and what it puts back besides is of no use to a revoked agent. *)
(***************************************************************************)
Register(a) ==
    /\ agent[a].state = "absent"
    /\ agent' = [agent EXCEPT ![a] = Registered]
    /\ UNCHANGED <<token, session, incident, containment, work, revocations, restored>>

Revoked(a) == [agent[a] EXCEPT !.state = "revoked", !.life = @ + 1, !.stop = TRUE]

\* Mutant: the lifecycle revision stays.
RevokeInPlace(a) ==
    /\ IsActive(a)
    /\ agent' = [agent EXCEPT ![a].state = "revoked", ![a].stop = TRUE]
    /\ UNCHANGED <<token, session, incident, containment, work, revocations, restored>>

Revoke(a) ==
    /\ IsActive(a)
    /\ agent' = [agent EXCEPT ![a] = Revoked(a)]
    /\ UNCHANGED <<token, session, incident, containment, work, revocations, restored>>

\* The successor inherits the ownership, and starts a session authority of its own.
Replace(a, b) ==
    /\ IsActive(a)
    /\ agent[b].state = "absent"
    /\ agent' = [agent EXCEPT ![a] = Revoked(a),
                              ![b] = [Registered EXCEPT !.owner = agent[a].owner]]
    /\ UNCHANGED <<token, session, incident, containment, work, revocations, restored>>

\* The tombstone keeps no session revision.
Offboard(a) ==
    /\ agent[a].state = "revoked"
    /\ agent' = [agent EXCEPT ![a].state = "deleted", ![a].life = @ + 1, ![a].session = 0]
    /\ UNCHANGED <<token, session, incident, containment, work, revocations, restored>>

(***************************************************************************)
(* Incident cases.  A case is bound to the lifecycle revision its agent    *)
(* had; the rest of the binding (the alert, the group, the policy) is not  *)
(* modelled.                                                               *)
(***************************************************************************)
CreateCase(c, a) ==
    /\ incident[c].status = "absent"
    /\ IsActive(a)
    /\ incident' = [incident EXCEPT ![c] =
          [NoCase EXCEPT !.status = "open", !.agent = a, !.life = agent[a].life,
                         !.revision = 1]]
    /\ UNCHANGED <<agent, token, session, containment, work, revocations, restored>>

\* _case_current_binding: the agent is still the one the case was bound to.
Bound(c) == IsActive(incident[c].agent) /\ agent[incident[c].agent].life = incident[c].life

Quarantine(c) ==
    LET a == incident[c].agent
        held == containment[a].revision + 1 IN
    /\ incident[c].status \in {"open", "investigating"}
    /\ incident[c].revision < MaxRevision
    /\ held <= MaxRevision
    /\ Bound(c)
    /\ containment' = [containment EXCEPT ![a] =
          [active |-> TRUE, revision |-> held, case |-> c]]
    /\ incident' = [incident EXCEPT
          ![c].status = "contained", ![c].revision = @ + 1,
          ![c].quarantine = "active", ![c].held = held]
    /\ UNCHANGED <<agent, token, session, work, revocations, restored>>

\* Mutant: the containment is put whatever is there.
ContainBeside(c) == Quarantine(c)

\* _contain_case
Contain(c) == Quarantine(c) /\ ~ containment[incident[c].agent].active

\* Checks the case, its containment and that the agent recovered.
BeginRelease(w, c) ==
    LET a == incident[c].agent IN
    /\ work[w].at = "idle"
    /\ incident[c].status = "contained"
    /\ containment[a].active
    /\ containment[a].case = c
    /\ Bound(c)
    /\ Take(w, [NoWork EXCEPT !.op = "release", !.at = "put", !.agent = a, !.case = c,
                              !.revision = incident[c].revision,
                              !.held = containment[a].revision])
    /\ UNCHANGED <<agent, token, session, incident, containment, revocations, restored>>

CommitRelease(w) ==
    LET c == work[w].case
        a == work[w].agent IN
    /\ work[w].op = "release"
    /\ incident[c].revision = work[w].revision
    /\ containment[a].revision = work[w].held
    /\ containment[a].active
    /\ work[w].revision < MaxRevision
    /\ work[w].held < MaxRevision
    /\ containment' = [containment EXCEPT ![a].active = FALSE, ![a].revision = @ + 1]
    /\ incident' = [incident EXCEPT
          ![c].status = "investigating", ![c].revision = @ + 1,
          ![c].quarantine = "released", ![c].held = work[w].held + 1]
    /\ Leave(w)
    /\ UNCHANGED <<agent, token, session, revocations, restored>>

\* _revoke_case_sessions: reads the case and the agent.
BeginRevokeSessions(w, c) ==
    LET a == incident[c].agent IN
    /\ work[w].at = "idle"
    /\ incident[c].status \in {"open", "contained", "investigating"}
    /\ Bound(c)
    /\ Take(w, [NoWork EXCEPT !.op = "sessions", !.at = "put", !.agent = a, !.case = c,
                              !.revision = incident[c].revision, !.seen = agent[a]])
    /\ UNCHANGED <<agent, token, session, incident, containment, revocations, restored>>

\* Conditional on the case, the lifecycle and the session revision.
PutRevokedSessions(w) ==
    LET seen == work[w].seen
        a == work[w].agent IN
    /\ work[w].op = "sessions"
    /\ incident[work[w].case].revision = work[w].revision
    /\ IsActive(a)
    /\ agent[a].life = seen.life
    /\ agent[a].session = seen.session
    /\ work[w].revision < MaxRevision
    /\ seen.session < MaxRevision
    /\ PutBack(w, [seen EXCEPT !.session = @ + 1])
    /\ revocations' = [revocations EXCEPT ![a] = @ + 1]
    /\ incident' = [incident EXCEPT ![work[w].case].revision = @ + 1]
    /\ Leave(w)
    /\ UNCHANGED <<token, session, containment>>

\* _transition_case: reads "active" of the case's containment, which a case that
\* was never contained does not have; such a case can be neither resolved nor closed.
\* Nothing comes after them, so the revision needs no bound.
Resolve(c) ==
    /\ incident[c].status \in {"open", "investigating"}
    /\ incident[c].quarantine = "released"
    /\ incident' = [incident EXCEPT ![c].status = "resolved", ![c].revision = @ + 1]
    /\ UNCHANGED <<agent, token, session, containment, work, revocations, restored>>

Close(c) ==
    /\ incident[c].status = "resolved"
    /\ incident[c].quarantine = "released"
    /\ incident' = [incident EXCEPT ![c].status = "closed", ![c].revision = @ + 1]
    /\ UNCHANGED <<agent, token, session, containment, work, revocations, restored>>

\* A request ends: a condition failed, the caller went away, the process stopped.
EndWork(w) ==
    /\ work[w].at # "idle"
    /\ Leave(w)
    /\ UNCHANGED <<agent, token, session, incident, containment, revocations, restored>>

LifecycleStep ==
    \E a \in Agents :
        Register(a) \/ Revoke(a) \/ Offboard(a) \/ \E b \in Agents : Replace(a, b)

PutBackStep ==
    \E w \in Workers :
        \/ \E a \in Agents : BeginOwnership(w, a) \/ BeginClearStop(w, a)
        \/ PutOwnership(w)
        \/ PutClearStop(w)

SessionStep ==
    \/ \E w \in Workers :
        \/ \E a \in Agents : BeginIssue(w, a)
        \/ \E t \in Tokens : PutToken(w, t) \/ BeginEnroll(w, t)
        \/ CheckQuarantine(w)
        \/ ReadEnrolled(w)
        \/ Consume(w)
        \/ \E s \in Sessions : PutSession(w, s) \/ BeginHeartbeat(w, s) \/ Renew(w, s)
        \/ ReadHeartbeat(w)
        \/ PutHeartbeat(w)
        \/ DeleteRenewed(w)
    \/ \E t \in Tokens : ExpireToken(t)
    \/ \E s \in Sessions : ExpireSession(s)

CaseStep ==
    \/ \E c \in Cases :
        \/ \E a \in Agents : CreateCase(c, a)
        \/ Contain(c)
        \/ Resolve(c)
        \/ Close(c)
        \/ \E w \in Workers : BeginRelease(w, c)
    \/ \E w \in Workers : CommitRelease(w)

RevokeSessionsStep ==
    \E w \in Workers :
        (\E c \in Cases : BeginRevokeSessions(w, c)) \/ PutRevokedSessions(w)

AgentNext ==
    \/ LifecycleStep
    \/ PutBackStep
    \/ SessionStep
    \/ CaseStep
    \/ RevokeSessionsStep
    \/ \E w \in Workers : EndWork(w)

AgentSpec == AgentInit /\ [][AgentNext]_agents

(***************************************************************************)
(* Properties.                                                             *)
(***************************************************************************)
WorkRecords ==
    [op : {"none", "ownership", "clear", "heartbeat", "issue", "enroll", "release", "sessions"},
     at : {"idle", "put", "quarantine", "read", "renew", "delete", "agent", "consume", "session"},
     agent : Agents \cup {Nothing}, seen : AgentRecords, epoch : Nat,
     token : Tokens \cup {Nothing}, session : Sessions \cup {Nothing},
     case : Cases \cup {Nothing}, revision : 0 .. MaxRevision + 2, held : Revisions]

\* Every item has the shape its handlers write (items of handler.py).
AgentTypeOK ==
    /\ agent \in [Agents -> AgentRecords]
    /\ \A a \in Agents :
        agent[a].life = (CASE agent[a].state = "absent" -> 0
                           [] agent[a].state = "active" -> 1
                           [] agent[a].state = "revoked" -> 2
                           [] agent[a].state = "deleted" -> 3)
    /\ token \in [Tokens ->
          [state : {"absent", "live", "ended"}, agent : Agents \cup {Nothing},
           revision : Revisions, epoch : Nat]]
    /\ session \in [Sessions ->
          [state : {"absent", "live", "ended"}, agent : Agents \cup {Nothing},
           revision : Revisions, epoch : Nat]]
    /\ incident \in [Cases ->
          [status : {"absent", "open", "contained", "investigating", "resolved", "closed"},
           agent : Agents \cup {Nothing}, life : 0 .. 1, revision : 0 .. MaxRevision + 2,
           quarantine : {"none", "active", "released"}, held : Revisions]]
    /\ containment \in [Agents ->
          [active : BOOLEAN, revision : Revisions, case : Cases \cup {Nothing}]]
    /\ work \in [Workers -> WorkRecords]
    /\ revocations \in [Agents -> Nat]
    /\ restored \subseteq Agents

\* A session that an agent's request is accepted with (_agent_identity) comes from
\* enrolment material issued after the last revocation of that agent's sessions
\* (_revoke_case_sessions), unless a put of a stale agent record, conditional on
\* the ownership or the lifecycle alone, took the session revision back.
StaleSessionsRefused ==
    \A s \in Sessions :
        Accepted(s) /\ session[s].agent \notin restored
            => session[s].epoch = revocations[session[s].agent]

\* An agent is quarantined exactly while one contained case owns its containment
\* (_contain_case, _release_case): no quarantine without a case that can release
\* it, and no contained case whose quarantine another case took over.
QuarantineOwned ==
    \A a \in Agents :
        LET owners == {c \in Cases : incident[c].agent = a /\ incident[c].status = "contained"} IN
        IF containment[a].active
        THEN /\ owners = {containment[a].case}
             /\ incident[containment[a].case].held = containment[a].revision
        ELSE owners = {}

\* No put of a record read before makes a revoked or deleted agent active again,
\* or a deleted one revoked (_agent_lifecycle_condition and the other conditions).
RevokedIsFinal ==
    [][\A a \in Agents :
        /\ agent[a].state = "revoked" => agent'[a].state \in {"revoked", "deleted"}
        /\ agent[a].state = "deleted" => agent'[a].state = "deleted"]_agents
=============================================================================
