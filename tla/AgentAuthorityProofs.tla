------------------------- MODULE AgentAuthorityProofs -------------------------
(***************************************************************************)
(* Proofs about AgentAuthority, for every number of agents, tokens,        *)
(* sessions, cases, requests and revisions: its types, RevokedIsFinal,     *)
(* StaleSessionsRefused and QuarantineOwned; and about AutomaticResponse,  *)
(* for every number of rule versions, reviewers, evaluations and           *)
(* occurrences: its types and ResponseWithinApproval.                      *)
(***************************************************************************)
EXTENDS AutomaticResponse, TLAPS

(***************************************************************************)
(* The inductive invariant.                                                *)
(***************************************************************************)
\* The lifecycle revision that goes with a state.
LifeOf(state) ==
    CASE state = "absent" -> 0
      [] state = "active" -> 1
      [] state = "revoked" -> 2
      [] state = "deleted" -> 3

\* Enrolment material of an agent whose record no stale put took back has the
\* session revision that was current after so many revocations.
Current(material) ==
    material.state # "absent" =>
        /\ material.agent \in Agents
        /\ material.agent \notin restored => material.revision = 1 + material.epoch

MaterialPlaced ==
    /\ \A t \in Tokens : Current(token[t])
    /\ \A s \in Sessions : Current(session[s])

RevocationsCounted ==
    \A a \in Agents :
        /\ agent[a].state = "absent" => revocations[a] = 0
        /\ a \notin restored /\ agent[a].state \in {"active", "revoked"} =>
              agent[a].session = 1 + revocations[a]

CasesPlaced ==
    \A c \in Cases :
        /\ incident[c].status # "absent" => incident[c].agent \in Agents
        /\ incident[c].status \in {"absent", "open", "contained", "investigating"} =>
              incident[c].revision <= MaxRevision
        /\ incident[c].status = "resolved" => incident[c].revision <= MaxRevision + 1

\* What a request k is about, and what it knows of it.
WorkPlaced(k) ==
    /\ k.at = "idle" <=> k.op = "none"
    /\ k.op # "none" => k.agent \in Agents
    /\ k.seen.life = LifeOf(k.seen.state)
    /\ k.op \in {"ownership", "clear", "sessions", "release"} => k.at = "put"
    /\ k.op \in {"ownership", "clear", "sessions", "issue"} => k.seen.state = "active"
    /\ k.op \in {"ownership", "clear"} =>
          /\ agent[k.agent].state # "absent"
          /\ k.agent \notin restored /\ agent[k.agent].state \in {"active", "revoked"} =>
                k.seen.session <= agent[k.agent].session
    /\ k.op = "heartbeat" =>
          /\ k.at \in {"read", "put", "renew", "delete"}
          /\ k.session \in Sessions
          /\ session[k.session].state # "absent"
    /\ k.op = "issue" =>
          /\ k.at \in {"quarantine", "put"}
          /\ k.agent \notin restored => k.seen.session = 1 + k.epoch
    /\ k.op = "enroll" =>
          /\ k.at \in {"agent", "quarantine", "consume", "session"}
          /\ k.token \in Tokens
          /\ token[k.token].state # "absent"
          /\ token[k.token].agent = k.agent
          /\ k.at \in {"consume", "session"} => token[k.token].revision = k.seen.session
    /\ k.op \in {"sessions", "release"} =>
          /\ k.case \in Cases
          /\ incident[k.case].status # "absent"
          /\ incident[k.case].agent = k.agent
    /\ k.op = "release" =>
          /\ k.held <= containment[k.agent].revision
          /\ k.held = containment[k.agent].revision =>
                containment[k.agent].active /\ containment[k.agent].case = k.case

AgentInv ==
    /\ AgentTypeOK
    /\ MaterialPlaced
    /\ RevocationsCounted
    /\ CasesPlaced
    /\ QuarantineOwned
    /\ \A w \in Workers : WorkPlaced(work[w])

-----------------------------------------------------------------------------
(* What every step keeps *)

USE AgentAssumption

Materials ==
    [state : {"absent", "live", "ended"}, agent : Agents \cup {Nothing},
     revision : Revisions, epoch : Nat]

\* What no step takes back.
Onwards ==
    /\ \A a \in Agents : agent[a].state # "absent" =>
          /\ agent'[a].state # "absent"
          /\ a \notin restored' /\ agent'[a].state \in {"active", "revoked"} =>
                /\ agent[a].state \in {"active", "revoked"}
                /\ agent'[a].session \in Nat
                /\ agent[a].session <= agent'[a].session
    /\ restored \subseteq restored'
    /\ \A s \in Sessions : session[s].state # "absent" => session'[s].state # "absent"
    /\ \A t \in Tokens : token[t].state # "absent" =>
          /\ token'[t].state # "absent"
          /\ token'[t].agent = token[t].agent
          /\ token'[t].revision = token[t].revision
    /\ \A c \in Cases : incident[c].status # "absent" =>
          /\ incident'[c].status # "absent"
          /\ incident'[c].agent = incident[c].agent
    /\ \A a \in Agents :
          \/ containment'[a] = containment[a]
          \/ /\ containment'[a].revision \in Nat
             /\ containment'[a].revision > containment[a].revision

LEMMA AgentFacts ==
    /\ NoWork \in WorkRecords /\ NoWork.at = "idle" /\ NoWork.op = "none" /\ NoWork.seen = NoAgent
    /\ NoAgent \in AgentRecords /\ NoAgent.state = "absent" /\ NoAgent.life = 0
    /\ Registered \in AgentRecords /\ Registered.state = "active" /\ Registered.life = 1
    /\ Registered.session = 1
    /\ NoCase.status = "absent" /\ NoCase.revision = 0 /\ NoCase.agent = Nothing
  <1>1. 0 \in Revisions /\ 1 \in Revisions /\ 0 \in 0 .. MaxRevision + 2 /\ 0 \in Nat
    BY DEF Revisions
  <1>2. NoAgent \in AgentRecords /\ NoAgent.state = "absent" /\ NoAgent.life = 0
    BY <1>1 DEF NoAgent, AgentRecords
  <1>3. Registered \in AgentRecords /\ Registered.state = "active" /\ Registered.life = 1
        /\ Registered.session = 1
    BY <1>1 DEF Registered, AgentRecords
  <1>4. NoWork \in WorkRecords /\ NoWork.at = "idle" /\ NoWork.op = "none" /\ NoWork.seen = NoAgent
    BY <1>1, <1>2 DEF NoWork, WorkRecords
  <1>5. NoCase.status = "absent" /\ NoCase.revision = 0 /\ NoCase.agent = Nothing
    BY DEF NoCase
  <1> QED BY <1>2, <1>3, <1>4, <1>5

LEMMA NoAgentIsOne == NoAgent \in AgentRecords
  BY AgentFacts

LEMMA IdlePlaced == WorkPlaced(NoWork)'
  BY AgentFacts DEF WorkPlaced, LifeOf

LEMMA WorkOnward ==
    ASSUME AgentInv, Onwards, NEW k \in WorkRecords, WorkPlaced(k)
    PROVE  WorkPlaced(k)'
  <1>1. k.op # "none" => k.agent \in Agents
    BY DEF WorkPlaced
  <1>2. /\ k.at = "idle" <=> k.op = "none"
        /\ k.seen.life = LifeOf(k.seen.state)
        /\ k.op \in {"ownership", "clear", "sessions", "release"} => k.at = "put"
        /\ k.op \in {"ownership", "clear", "sessions", "issue"} => k.seen.state = "active"
    BY DEF WorkPlaced
  <1>3. k.op \in {"ownership", "clear"} =>
          /\ agent'[k.agent].state # "absent"
          /\ k.agent \notin restored' /\ agent'[k.agent].state \in {"active", "revoked"} =>
                k.seen.session <= agent'[k.agent].session
    <2>1. SUFFICES ASSUME k.op \in {"ownership", "clear"}
                   PROVE  /\ agent'[k.agent].state # "absent"
                          /\ k.agent \notin restored' /\ agent'[k.agent].state \in {"active", "revoked"} =>
                                k.seen.session <= agent'[k.agent].session
      OBVIOUS
    <2>2. k.agent \in Agents /\ agent[k.agent].state # "absent"
      BY <1>1, <2>1 DEF WorkPlaced
    <2>3. agent'[k.agent].state # "absent"
      BY <2>2 DEF Onwards
    <2>4. ASSUME k.agent \notin restored', agent'[k.agent].state \in {"active", "revoked"}
          PROVE  k.seen.session <= agent'[k.agent].session
      <3>1. agent[k.agent].state \in {"active", "revoked"} /\ k.agent \notin restored
            /\ agent[k.agent].session <= agent'[k.agent].session
        BY <2>2, <2>4 DEF Onwards
      <3>2. k.seen.session <= agent[k.agent].session
        BY <2>1, <3>1 DEF WorkPlaced
      <3>3. k.seen.session \in Nat /\ agent[k.agent].session \in Nat
        BY <2>2 DEF WorkRecords, AgentRecords, Revisions, AgentInv, AgentTypeOK
      <3>4. agent'[k.agent].session \in Nat
        BY <2>2, <2>4 DEF Onwards
      <3> QED BY <3>1, <3>2, <3>3, <3>4
    <2> QED BY <2>3, <2>4
  <1>4. k.op = "heartbeat" =>
          /\ k.at \in {"read", "put", "renew", "delete"}
          /\ k.session \in Sessions
          /\ session'[k.session].state # "absent"
    BY DEF WorkPlaced, Onwards
  <1>5. k.op = "issue" =>
          /\ k.at \in {"quarantine", "put"}
          /\ k.agent \notin restored' => k.seen.session = 1 + k.epoch
    BY DEF WorkPlaced, Onwards
  <1>6. k.op = "enroll" =>
          /\ k.at \in {"agent", "quarantine", "consume", "session"}
          /\ k.token \in Tokens
          /\ token'[k.token].state # "absent"
          /\ token'[k.token].agent = k.agent
          /\ k.at \in {"consume", "session"} => token'[k.token].revision = k.seen.session
    BY DEF WorkPlaced, Onwards
  <1>7. k.op \in {"sessions", "release"} =>
          /\ k.case \in Cases
          /\ incident'[k.case].status # "absent"
          /\ incident'[k.case].agent = k.agent
    BY DEF WorkPlaced, Onwards
  <1>8. k.op = "release" =>
          /\ k.held <= containment'[k.agent].revision
          /\ k.held = containment'[k.agent].revision =>
                containment'[k.agent].active /\ containment'[k.agent].case = k.case
    <2>1. SUFFICES ASSUME k.op = "release"
                   PROVE  /\ k.held <= containment'[k.agent].revision
                          /\ k.held = containment'[k.agent].revision =>
                                containment'[k.agent].active /\ containment'[k.agent].case = k.case
      OBVIOUS
    <2>2. /\ k.agent \in Agents /\ k.held \in Nat
          /\ containment[k.agent].revision \in Nat
          /\ k.held <= containment[k.agent].revision
      BY <1>1, <2>1 DEF WorkPlaced, WorkRecords, Revisions, AgentInv, AgentTypeOK
    <2>3. CASE containment'[k.agent] = containment[k.agent]
      BY <2>1, <2>2, <2>3 DEF WorkPlaced
    <2>4. CASE /\ containment'[k.agent].revision \in Nat
               /\ containment'[k.agent].revision > containment[k.agent].revision
      BY <2>2, <2>4
    <2> QED BY <2>2, <2>3, <2>4 DEF Onwards
  <1> QED BY <1>1, <1>2, <1>3, <1>4, <1>5, <1>6, <1>7, <1>8 DEF WorkPlaced

LEMMA WorksOnward ==
    ASSUME AgentInv, Onwards, NEW w \in Workers, NEW k \in WorkRecords,
           work' = [work EXCEPT ![w] = k], WorkPlaced(k)'
    PROVE  work' \in [Workers -> WorkRecords] /\ \A v \in Workers : WorkPlaced(work[v])'
  <1>1. work' \in [Workers -> WorkRecords]
        /\ \A v \in Workers : work'[v] = IF v = w THEN k ELSE work[v]
    BY DEF AgentInv, AgentTypeOK
  <1>2. ASSUME NEW v \in Workers PROVE WorkPlaced(work[v])'
    <2>1. CASE v = w
      BY <1>1, <2>1
    <2>2. CASE v # w
      <3>1. work[v] \in WorkRecords /\ WorkPlaced(work[v])
        BY DEF AgentInv, AgentTypeOK
      <3>2. PICK j : j = work[v]
        OBVIOUS
      <3>3. WorkPlaced(j)'
        BY <3>1, <3>2, WorkOnward
      <3> QED BY <1>1, <2>2, <3>2, <3>3
    <2> QED BY <2>1, <2>2
  <1> QED BY <1>1, <1>2

\* A step that changes nothing but what one request remembers.
LEMMA WorkMoves ==
    ASSUME AgentInv, NEW w \in Workers, NEW k \in WorkRecords,
           work' = [work EXCEPT ![w] = k], WorkPlaced(k),
           UNCHANGED <<agent, token, session, incident, containment, revocations, restored>>
    PROVE  AgentInv'
  <1>1. Onwards
    BY DEF Onwards, AgentInv, AgentTypeOK, AgentRecords, Revisions
  <1>2. WorkPlaced(k)'
    BY <1>1, WorkOnward
  <1>3. work' \in [Workers -> WorkRecords] /\ \A v \in Workers : WorkPlaced(work[v])'
    BY <1>1, <1>2, WorksOnward
  <1>4. AgentTypeOK'
    BY <1>3 DEF AgentInv, AgentTypeOK
  <1>5. MaterialPlaced' /\ RevocationsCounted'
    BY DEF AgentInv, MaterialPlaced, Current, RevocationsCounted
  <1>6. CasesPlaced' /\ QuarantineOwned'
    BY DEF AgentInv, CasesPlaced, QuarantineOwned
  <1> QED BY <1>3, <1>4, <1>5, <1>6 DEF AgentInv

LEMMA AgentsTyped ==
    ASSUME AgentInv, NEW a \in Agents
    PROVE  agent[a] \in AgentRecords /\ agent[a].life = LifeOf(agent[a].state)
  BY DEF AgentInv, AgentTypeOK, LifeOf

-----------------------------------------------------------------------------
(* Reading *)

LEMMA ReadAgentKeeps ==
    ASSUME AgentInv, NEW w \in Workers, NEW a \in Agents, NEW op, NEW at,
           \/ op \in {"ownership", "clear"} /\ at = "put"
           \/ op = "issue" /\ at = "quarantine",
           ReadAgent(w, op, a, at)
    PROVE  AgentInv'
  <1>k. PICK k : k = [NoWork EXCEPT !.op = op, !.at = at, !.agent = a,
                                   !.seen = agent[a], !.epoch = revocations[a]]
    OBVIOUS
  <1>1. /\ agent[a] \in AgentRecords /\ agent[a].life = LifeOf(agent[a].state)
        /\ agent[a].state = "active" /\ revocations[a] \in Nat
    BY AgentsTyped DEF ReadAgent, IsActive, AgentInv, AgentTypeOK
  <1>2. /\ k \in WorkRecords /\ k.op = op /\ k.at = at /\ k.agent = a
        /\ k.seen = agent[a] /\ k.epoch = revocations[a]
    <2>1. k = [op |-> op, at |-> at, agent |-> a, seen |-> agent[a], epoch |-> revocations[a],
               token |-> Nothing, session |-> Nothing, case |-> Nothing, revision |-> 0, held |-> 0]
      BY <1>k DEF NoWork
    <2>2. /\ op \in {"none", "ownership", "clear", "heartbeat", "issue", "enroll", "release",
                     "sessions"}
          /\ at \in {"idle", "put", "quarantine", "read", "renew", "delete", "agent", "consume",
                     "session"}
      OBVIOUS
    <2>3. 0 \in 0 .. MaxRevision + 2 /\ 0 \in Revisions
      BY DEF Revisions
    <2>4. k \in WorkRecords
      BY <1>1, <2>1, <2>2, <2>3 DEF WorkRecords
    <2> QED BY <2>1, <2>4
  <1>3. work' = [work EXCEPT ![w] = k]
    BY <1>k DEF ReadAgent, Take
  <1>4. agent[a].session \in Nat
    BY <1>1 DEF AgentRecords, Revisions
  <1>5. op = "issue" /\ a \notin restored => agent[a].session = 1 + revocations[a]
    BY <1>1 DEF AgentInv, RevocationsCounted
  <1>6. WorkPlaced(k)
    BY <1>1, <1>2, <1>4, <1>5 DEF WorkPlaced
  <1> QED BY <1>2, <1>3, <1>6, WorkMoves DEF ReadAgent

LEMMA BeginHeartbeatKeeps ==
    ASSUME AgentInv, NEW w \in Workers, NEW s \in Sessions, BeginHeartbeat(w, s)
    PROVE  AgentInv'
  <1>k. PICK k : k = [NoWork EXCEPT !.op = "heartbeat", !.at = "read",
                                   !.agent = session[s].agent, !.session = s]
    OBVIOUS
  <1>1. session[s].state = "live" /\ session[s].agent \in Agents
    BY DEF BeginHeartbeat, Accepted, AgentInv, MaterialPlaced, Current
  <1>2. /\ k \in WorkRecords /\ k.op = "heartbeat" /\ k.at = "read" /\ k.agent \in Agents
        /\ k.seen = NoAgent /\ k.session = s
    <2>1. k = [op |-> "heartbeat", at |-> "read", agent |-> session[s].agent, seen |-> NoAgent,
               epoch |-> 0, token |-> Nothing, session |-> s, case |-> Nothing,
               revision |-> 0, held |-> 0]
      BY <1>k DEF NoWork
    <2>2. 0 \in 0 .. MaxRevision + 2 /\ 0 \in Revisions
      BY DEF Revisions
    <2>3. k \in WorkRecords
      BY <1>1, <2>1, <2>2, NoAgentIsOne DEF WorkRecords
    <2> QED BY <1>1, <2>1, <2>3
  <1>3. work' = [work EXCEPT ![w] = k]
    BY <1>k DEF BeginHeartbeat, Take
  <1>4. WorkPlaced(k)
    BY <1>1, <1>2, AgentFacts DEF WorkPlaced, LifeOf
  <1> QED BY <1>2, <1>3, <1>4, WorkMoves DEF BeginHeartbeat

LEMMA ReadHeartbeatKeeps ==
    ASSUME AgentInv, NEW w \in Workers, ReadHeartbeat(w)
    PROVE  AgentInv'
  <1>a. PICK j : j = work[w]
    OBVIOUS
  <1>b. PICK k : k = [j EXCEPT !.at = "put", !.seen = agent[j.agent]]
    OBVIOUS
  <1>1. j \in WorkRecords /\ WorkPlaced(j) /\ j.at = "read" /\ j.op = "heartbeat"
    BY <1>a DEF AgentInv, AgentTypeOK, ReadHeartbeat, WorkRecords, WorkPlaced
  <1>2. j.agent \in Agents
    BY <1>1 DEF WorkPlaced
  <1>3. agent[j.agent] \in AgentRecords /\ agent[j.agent].life = LifeOf(agent[j.agent].state)
    BY <1>2, AgentsTyped
  <1>4. /\ k \in WorkRecords /\ k.op = "heartbeat" /\ k.at = "put" /\ k.agent = j.agent
        /\ k.seen = agent[j.agent] /\ k.session = j.session
    BY <1>b, <1>1, <1>3 DEF WorkRecords
  <1>5. WorkPlaced(k)
    BY <1>1, <1>2, <1>3, <1>4 DEF WorkPlaced
  <1>6. work' = [work EXCEPT ![w] = k]
    BY <1>a, <1>b DEF ReadHeartbeat, Take
  <1> QED BY <1>4, <1>5, <1>6, WorkMoves DEF ReadHeartbeat

LEMMA CheckQuarantineKeeps ==
    ASSUME AgentInv, NEW w \in Workers, CheckQuarantine(w)
    PROVE  AgentInv'
  <1>a. PICK j : j = work[w]
    OBVIOUS
  <1>b. PICK k : k = [j EXCEPT !.at = IF j.op = "enroll" THEN "consume" ELSE "put"]
    OBVIOUS
  <1>1. /\ j \in WorkRecords /\ WorkPlaced(j) /\ j.at = "quarantine"
        /\ j.op = "enroll" => token[j.token].revision = j.seen.session
        /\ j.op \in {"issue", "enroll"}
    BY <1>a DEF AgentInv, AgentTypeOK, CheckQuarantine, WorkRecords, WorkPlaced
  <1>2. /\ k \in WorkRecords /\ k.op = j.op /\ k.agent = j.agent /\ k.seen = j.seen
        /\ k.at = IF j.op = "enroll" THEN "consume" ELSE "put"
        /\ k.token = j.token /\ k.epoch = j.epoch
    BY <1>b, <1>1 DEF WorkRecords
  <1>3. WorkPlaced(k)
    BY <1>1, <1>2 DEF WorkPlaced
  <1>4. work' = [work EXCEPT ![w] = k]
    BY <1>a, <1>b DEF CheckQuarantine, Take
  <1> QED BY <1>2, <1>3, <1>4, WorkMoves DEF CheckQuarantine

LEMMA BeginEnrollKeeps ==
    ASSUME AgentInv, NEW w \in Workers, NEW t \in Tokens, BeginEnroll(w, t)
    PROVE  AgentInv'
  <1>k. PICK k : k = [NoWork EXCEPT !.op = "enroll", !.at = "agent",
                                   !.agent = token[t].agent, !.token = t]
    OBVIOUS
  <1>1. token[t].state = "live" /\ token[t].agent \in Agents
    BY DEF BeginEnroll, AgentInv, MaterialPlaced, Current
  <1>2. /\ k \in WorkRecords /\ k.op = "enroll" /\ k.at = "agent" /\ k.agent = token[t].agent
        /\ k.seen = NoAgent /\ k.token = t
    <2>1. k = [op |-> "enroll", at |-> "agent", agent |-> token[t].agent, seen |-> NoAgent,
               epoch |-> 0, token |-> t, session |-> Nothing, case |-> Nothing,
               revision |-> 0, held |-> 0]
      BY <1>k DEF NoWork
    <2>2. 0 \in 0 .. MaxRevision + 2 /\ 0 \in Revisions
      BY DEF Revisions
    <2>3. k \in WorkRecords
      BY <1>1, <2>1, <2>2, NoAgentIsOne DEF WorkRecords
    <2> QED BY <1>1, <2>1, <2>3
  <1>3. work' = [work EXCEPT ![w] = k]
    BY <1>k DEF BeginEnroll, Take
  <1>4. WorkPlaced(k)
    BY <1>1, <1>2, AgentFacts DEF WorkPlaced, LifeOf
  <1> QED BY <1>2, <1>3, <1>4, WorkMoves DEF BeginEnroll

LEMMA ReadEnrolledKeeps ==
    ASSUME AgentInv, NEW w \in Workers, ReadEnrolled(w)
    PROVE  AgentInv'
  <1>a. PICK j : j = work[w]
    OBVIOUS
  <1>b. PICK k : k = [j EXCEPT !.at = "quarantine", !.seen = agent[j.agent]]
    OBVIOUS
  <1>1. j \in WorkRecords /\ WorkPlaced(j) /\ j.at = "agent" /\ j.op = "enroll"
    BY <1>a DEF AgentInv, AgentTypeOK, ReadEnrolled, WorkRecords, WorkPlaced
  <1>2. j.agent \in Agents
    BY <1>1 DEF WorkPlaced
  <1>3. agent[j.agent] \in AgentRecords /\ agent[j.agent].life = LifeOf(agent[j.agent].state)
    BY <1>2, AgentsTyped
  <1>4. /\ k \in WorkRecords /\ k.op = "enroll" /\ k.at = "quarantine" /\ k.agent = j.agent
        /\ k.seen = agent[j.agent] /\ k.token = j.token
    BY <1>b, <1>1, <1>3 DEF WorkRecords
  <1>5. WorkPlaced(k)
    BY <1>1, <1>2, <1>3, <1>4 DEF WorkPlaced
  <1>6. work' = [work EXCEPT ![w] = k]
    BY <1>a, <1>b DEF ReadEnrolled, Take
  <1> QED BY <1>4, <1>5, <1>6, WorkMoves DEF ReadEnrolled

LEMMA BeginReleaseKeeps ==
    ASSUME AgentInv, NEW w \in Workers, NEW c \in Cases, BeginRelease(w, c)
    PROVE  AgentInv'
  <1>a. PICK a : a = incident[c].agent
    OBVIOUS
  <1>b. PICK k : k = [NoWork EXCEPT !.op = "release", !.at = "put", !.agent = a, !.case = c,
                                    !.revision = incident[c].revision,
                                    !.held = containment[a].revision]
    OBVIOUS
  <1>1. /\ incident[c].status = "contained" /\ a \in Agents
        /\ containment[a].active /\ containment[a].case = c
    BY <1>a DEF BeginRelease, AgentInv, CasesPlaced
  <1>2. incident[c].revision \in 0 .. MaxRevision + 2 /\ containment[a].revision \in Revisions
    BY <1>1 DEF AgentInv, AgentTypeOK
  <1>3. /\ k \in WorkRecords /\ k.op = "release" /\ k.at = "put" /\ k.agent = a
        /\ k.seen = NoAgent /\ k.case = c /\ k.held = containment[a].revision
    <2>1. k = [op |-> "release", at |-> "put", agent |-> a, seen |-> NoAgent, epoch |-> 0,
               token |-> Nothing, session |-> Nothing, case |-> c,
               revision |-> incident[c].revision, held |-> containment[a].revision]
      BY <1>b DEF NoWork
    <2>2. k \in WorkRecords
      BY <1>1, <1>2, <2>1, NoAgentIsOne DEF WorkRecords
    <2> QED BY <2>1, <2>2
  <1>4. WorkPlaced(k)
    BY <1>a, <1>1, <1>2, <1>3, AgentFacts DEF WorkPlaced, LifeOf, Revisions
  <1>5. work' = [work EXCEPT ![w] = k]
    BY <1>a, <1>b DEF BeginRelease, Take
  <1> QED BY <1>3, <1>4, <1>5, WorkMoves DEF BeginRelease

LEMMA BeginRevokeSessionsKeeps ==
    ASSUME AgentInv, NEW w \in Workers, NEW c \in Cases, BeginRevokeSessions(w, c)
    PROVE  AgentInv'
  <1>a. PICK a : a = incident[c].agent
    OBVIOUS
  <1>b. PICK k : k = [NoWork EXCEPT !.op = "sessions", !.at = "put", !.agent = a, !.case = c,
                                    !.revision = incident[c].revision, !.seen = agent[a]]
    OBVIOUS
  <1>1. /\ incident[c].status \in {"open", "contained", "investigating"} /\ a \in Agents
        /\ agent[a].state = "active"
    BY <1>a DEF BeginRevokeSessions, Bound, IsActive, AgentInv, CasesPlaced
  <1>2. incident[c].revision \in 0 .. MaxRevision + 2
    BY DEF AgentInv, AgentTypeOK
  <1>3. agent[a] \in AgentRecords /\ agent[a].life = LifeOf(agent[a].state)
    BY <1>1, AgentsTyped
  <1>4. /\ k \in WorkRecords /\ k.op = "sessions" /\ k.at = "put" /\ k.agent = a
        /\ k.seen = agent[a] /\ k.case = c
    <2>1. k = [op |-> "sessions", at |-> "put", agent |-> a, seen |-> agent[a], epoch |-> 0,
               token |-> Nothing, session |-> Nothing, case |-> c,
               revision |-> incident[c].revision, held |-> 0]
      BY <1>b DEF NoWork
    <2>2. 0 \in Revisions
      BY DEF Revisions
    <2>3. k \in WorkRecords
      BY <1>1, <1>2, <1>3, <2>1, <2>2 DEF WorkRecords
    <2> QED BY <2>1, <2>3
  <1>5. WorkPlaced(k)
    BY <1>a, <1>1, <1>3, <1>4 DEF WorkPlaced
  <1>6. work' = [work EXCEPT ![w] = k]
    BY <1>a, <1>b DEF BeginRevokeSessions, Take
  <1> QED BY <1>4, <1>5, <1>6, WorkMoves DEF BeginRevokeSessions

LEMMA EndWorkKeeps == ASSUME AgentInv, NEW w \in Workers, EndWork(w) PROVE AgentInv'
  <1>1. WorkPlaced(NoWork)
    BY AgentFacts DEF WorkPlaced, LifeOf
  <1> QED BY <1>1, AgentFacts, WorkMoves DEF EndWork, Leave

-----------------------------------------------------------------------------
(* The lifecycle of an agent *)

LEMMA AgentChanges ==
    ASSUME AgentInv,
           UNCHANGED <<token, session, incident, containment, work, revocations, restored>>,
           agent' \in [Agents -> AgentRecords],
           \A a \in Agents :
              /\ agent'[a].life = LifeOf(agent'[a].state)
              /\ agent'[a].state = "absent" => agent[a].state = "absent"
              /\ agent'[a].state \in {"active", "revoked"} =>
                    \/ agent[a].state \in {"active", "revoked"} /\ agent'[a].session = agent[a].session
                    \/ agent[a].state = "absent" /\ agent'[a].session = 1
    PROVE  AgentInv'
  <1>1. \A a \in Agents : agent[a].session \in Nat
    BY DEF AgentInv, AgentTypeOK, AgentRecords, Revisions
  <1>2. Onwards
    BY <1>1 DEF Onwards
  <1>3. ASSUME NEW w \in Workers PROVE WorkPlaced(work[w])'
    <2>1. work[w] \in WorkRecords /\ WorkPlaced(work[w])
      BY DEF AgentInv, AgentTypeOK
    <2>2. PICK k : k = work[w]
      OBVIOUS
    <2>3. WorkPlaced(k)'
      BY <1>2, <2>1, <2>2, WorkOnward
    <2> QED BY <2>2, <2>3
  <1>4. AgentTypeOK'
    BY DEF AgentInv, AgentTypeOK, LifeOf
  <1>5. RevocationsCounted'
    BY DEF AgentInv, AgentTypeOK, RevocationsCounted
  <1>6. MaterialPlaced' /\ CasesPlaced' /\ QuarantineOwned'
    BY DEF AgentInv, MaterialPlaced, Current, CasesPlaced, QuarantineOwned
  <1> QED BY <1>3, <1>4, <1>5, <1>6 DEF AgentInv

LEMMA RegisterKeeps == ASSUME AgentInv, NEW a \in Agents, Register(a) PROVE AgentInv'
  <1>1. agent[a].state = "absent" /\ agent' = [agent EXCEPT ![a] = Registered]
    BY DEF Register
  <1>2. agent' \in [Agents -> AgentRecords]
        /\ \A b \in Agents : agent'[b] = IF b = a THEN Registered ELSE agent[b]
    BY <1>1, AgentFacts DEF AgentInv, AgentTypeOK
  <1>3. LifeOf("active") = 1
    BY DEF LifeOf
  <1> QED BY <1>1, <1>2, <1>3, AgentFacts, AgentsTyped, AgentChanges DEF Register

LEMMA RevokedTyped ==
    ASSUME AgentInv, NEW a \in Agents, IsActive(a)
    PROVE  /\ Revoked(a) \in AgentRecords
           /\ Revoked(a).state = "revoked" /\ Revoked(a).life = LifeOf("revoked")
           /\ Revoked(a).session = agent[a].session
  <1>1. agent[a] \in AgentRecords /\ agent[a].life = 1
    BY AgentsTyped DEF IsActive, LifeOf
  <1>2. /\ Revoked(a).state = "revoked" /\ Revoked(a).life = 2
        /\ Revoked(a).session = agent[a].session
    BY <1>1 DEF Revoked, AgentRecords
  <1>3. Revoked(a) \in AgentRecords
    <2>1. Revoked(a) = [[[agent[a] EXCEPT !.state = "revoked"] EXCEPT !.life = 2] EXCEPT !.stop = TRUE]
      BY <1>1 DEF Revoked, AgentRecords
    <2>2. [agent[a] EXCEPT !.state = "revoked"] \in AgentRecords
      BY <1>1 DEF AgentRecords
    <2>3. \A x \in AgentRecords : [x EXCEPT !.life = 2] \in AgentRecords
      BY DEF AgentRecords
    <2>4. \A x \in AgentRecords : [x EXCEPT !.stop = TRUE] \in AgentRecords
      BY DEF AgentRecords
    <2> QED BY <2>1, <2>2, <2>3, <2>4
  <1> QED BY <1>2, <1>3 DEF LifeOf

LEMMA RevokeKeeps == ASSUME AgentInv, NEW a \in Agents, Revoke(a) PROVE AgentInv'
  <1>1. IsActive(a) /\ agent' = [agent EXCEPT ![a] = Revoked(a)]
    BY DEF Revoke
  <1>2. agent' \in [Agents -> AgentRecords]
        /\ \A b \in Agents : agent'[b] = IF b = a THEN Revoked(a) ELSE agent[b]
    BY <1>1, RevokedTyped DEF AgentInv, AgentTypeOK
  <1>3. \A b \in Agents :
           /\ agent'[b].life = LifeOf(agent'[b].state)
           /\ agent'[b].state = "absent" => agent[b].state = "absent"
           /\ agent'[b].state \in {"active", "revoked"} =>
                 agent[b].state \in {"active", "revoked"} /\ agent'[b].session = agent[b].session
    BY <1>1, <1>2, RevokedTyped, AgentsTyped DEF IsActive
  <1> QED BY <1>2, <1>3, AgentChanges DEF Revoke

LEMMA ReplaceKeeps ==
    ASSUME AgentInv, NEW a \in Agents, NEW b \in Agents, Replace(a, b)
    PROVE  AgentInv'
  <1>1. PICK next : next = [Registered EXCEPT !.owner = agent[a].owner]
    OBVIOUS
  <1>2. IsActive(a) /\ agent[b].state = "absent" /\ a # b
        /\ agent' = [agent EXCEPT ![a] = Revoked(a), ![b] = next]
    BY <1>1 DEF Replace, IsActive
  <1>3. next \in AgentRecords /\ next.state = "active" /\ next.life = LifeOf("active")
        /\ next.session = 1
    BY <1>1, AgentFacts, AgentsTyped DEF AgentRecords, LifeOf
  <1>4. agent' \in [Agents -> AgentRecords]
        /\ \A c \in Agents :
              agent'[c] = IF c = b THEN next ELSE IF c = a THEN Revoked(a) ELSE agent[c]
    BY <1>2, <1>3, RevokedTyped DEF AgentInv, AgentTypeOK
  <1>5. \A c \in Agents :
           /\ agent'[c].life = LifeOf(agent'[c].state)
           /\ agent'[c].state = "absent" => agent[c].state = "absent"
           /\ agent'[c].state \in {"active", "revoked"} =>
                 \/ agent[c].state \in {"active", "revoked"} /\ agent'[c].session = agent[c].session
                 \/ agent[c].state = "absent" /\ agent'[c].session = 1
    BY <1>2, <1>3, <1>4, RevokedTyped, AgentsTyped DEF IsActive
  <1> QED BY <1>4, <1>5, AgentChanges DEF Replace

LEMMA OffboardKeeps == ASSUME AgentInv, NEW a \in Agents, Offboard(a) PROVE AgentInv'
  <1>1. PICK gone : gone = [agent[a] EXCEPT !.state = "deleted", !.life = 3, !.session = 0]
    OBVIOUS
  <1>2. agent[a] \in AgentRecords /\ agent[a].state = "revoked" /\ agent[a].life = 2
    BY AgentsTyped DEF Offboard, LifeOf
  <1>3. gone.state = "deleted" /\ gone.life = LifeOf("deleted")
    BY <1>1, <1>2 DEF AgentRecords, LifeOf
  <1>4. gone \in AgentRecords
    <2>1. gone = [[[agent[a] EXCEPT !.state = "deleted"] EXCEPT !.life = 3] EXCEPT !.session = 0]
      BY <1>1, <1>2 DEF AgentRecords
    <2>2. [agent[a] EXCEPT !.state = "deleted"] \in AgentRecords
      BY <1>2 DEF AgentRecords
    <2>3. \A x \in AgentRecords : [x EXCEPT !.life = 3] \in AgentRecords
      BY DEF AgentRecords
    <2>4. \A x \in AgentRecords : [x EXCEPT !.session = 0] \in AgentRecords
      BY DEF AgentRecords, Revisions
    <2> QED BY <2>1, <2>2, <2>3, <2>4
  <1>5. agent' = [agent EXCEPT ![a] = gone]
    <2>1. agent[a].life + 1 = 3
      BY <1>2
    <2>2. agent' = [agent EXCEPT ![a].state = "deleted", ![a].life = 3, ![a].session = 0]
      BY <1>2, <2>1 DEF Offboard, AgentInv, AgentTypeOK, AgentRecords
    <2> QED BY <1>1, <2>2 DEF AgentInv, AgentTypeOK
  <1>6. agent' \in [Agents -> AgentRecords]
        /\ \A b \in Agents : agent'[b] = IF b = a THEN gone ELSE agent[b]
    BY <1>4, <1>5 DEF AgentInv, AgentTypeOK
  <1>7. \A b \in Agents :
           /\ agent'[b].life = LifeOf(agent'[b].state)
           /\ agent'[b].state = "absent" => agent[b].state = "absent"
           /\ agent'[b].state \in {"active", "revoked"} =>
                 agent[b].state \in {"active", "revoked"} /\ agent'[b].session = agent[b].session
    BY <1>3, <1>6, AgentsTyped
  <1> QED BY <1>6, <1>7, AgentChanges DEF Offboard

-----------------------------------------------------------------------------
(* Putting back the record that was read *)

IncidentRecords ==
    [status : {"absent", "open", "contained", "investigating", "resolved", "closed"},
     agent : Agents \cup {Nothing}, life : 0 .. 1, revision : 0 .. MaxRevision + 2,
     quarantine : {"none", "active", "released"}, held : Revisions]

LEMMA PutBackKeeps ==
    ASSUME AgentInv, NEW w \in Workers, NEW k \in WorkRecords, work' = [work EXCEPT ![w] = k],
           NEW record \in AgentRecords, record.state = "active", record.life = 1,
           work[w].agent \in Agents, agent[work[w].agent].state = "active",
           PutBack(w, record),
           work[w].agent \notin restored' => record.session = 1 + revocations'[work[w].agent],
           revocations' \in [Agents -> Nat],
           \A a \in Agents \ {work[w].agent} : revocations'[a] = revocations[a],
           UNCHANGED <<token, session, containment>>,
           incident' \in [Cases -> IncidentRecords],
           \A c \in Cases : /\ incident'[c].status = incident[c].status
                            /\ incident'[c].agent = incident[c].agent
                            /\ incident'[c].held = incident[c].held,
           CasesPlaced',
           Onwards => WorkPlaced(k)'
    PROVE  AgentInv'
  <1>a. PICK a \in Agents : a = work[w].agent
    OBVIOUS
  <1>1. /\ agent' = [agent EXCEPT ![a] = record]
        /\ restored' = IF record.session < agent[a].session THEN restored \cup {a} ELSE restored
    BY <1>a DEF PutBack
  <1>2. agent' \in [Agents -> AgentRecords]
        /\ \A b \in Agents : agent'[b] = IF b = a THEN record ELSE agent[b]
    BY <1>1 DEF AgentInv, AgentTypeOK
  <1>3. restored \subseteq restored' /\ restored' \subseteq Agents
    BY <1>1 DEF AgentInv, AgentTypeOK
  <1>4. /\ \A b \in Agents : agent[b].session \in Nat
        /\ record.session \in Nat
    BY DEF AgentInv, AgentTypeOK, AgentRecords, Revisions
  <1>5. a \notin restored' => agent[a].session <= record.session
    BY <1>1, <1>4
  <1>6. Onwards
    BY <1>a, <1>2, <1>3, <1>4, <1>5 DEF Onwards
  <1>7. work' \in [Workers -> WorkRecords] /\ \A v \in Workers : WorkPlaced(work[v])'
    BY <1>6, WorksOnward
  <1>8. \A b \in Agents : agent'[b].life = LifeOf(agent'[b].state)
    BY <1>2, AgentsTyped DEF LifeOf
  <1>9. AgentTypeOK'
    BY <1>2, <1>3, <1>7, <1>8 DEF AgentInv, AgentTypeOK, IncidentRecords, LifeOf
  <1>10. MaterialPlaced'
    BY <1>3 DEF AgentInv, MaterialPlaced, Current
  <1>11. RevocationsCounted'
    BY <1>a, <1>2, <1>3 DEF AgentInv, RevocationsCounted
  <1>12. QuarantineOwned'
    <2>1. ASSUME NEW b \in Agents
          PROVE  {c \in Cases : incident'[c].agent = b /\ incident'[c].status = "contained"}
                 = {c \in Cases : incident[c].agent = b /\ incident[c].status = "contained"}
      OBVIOUS
    <2>2. \A b \in Agents : containment[b].active => containment[b].case \in Cases
      BY DEF AgentInv, QuarantineOwned
    <2> QED BY <2>1, <2>2 DEF AgentInv, QuarantineOwned
  <1> QED BY <1>7, <1>9, <1>10, <1>11, <1>12 DEF AgentInv

LEMMA IncidentsStay ==
    ASSUME AgentInv, UNCHANGED incident
    PROVE  /\ incident' \in [Cases -> IncidentRecords] /\ CasesPlaced'
           /\ \A c \in Cases : /\ incident'[c].status = incident[c].status
                               /\ incident'[c].agent = incident[c].agent
                               /\ incident'[c].held = incident[c].held
  BY DEF AgentInv, AgentTypeOK, IncidentRecords, CasesPlaced

\* Unless the put takes the session revision back, it leaves it as it is.
LEMMA SameSession ==
    ASSUME AgentInv, NEW w \in Workers, NEW a \in Agents, a = work[w].agent, a \notin restored',
           NEW record \in AgentRecords, record.session = work[w].seen.session, PutBack(w, record),
           work[w].op \in {"ownership", "clear"}, agent[a].state = "active"
    PROVE  record.session = 1 + revocations[a]
  <1>1. a \notin restored /\ ~ record.session < agent[a].session
    BY DEF PutBack
  <1>2. record.session <= agent[a].session
    BY <1>1 DEF AgentInv, WorkPlaced
  <1>3. record.session \in Nat /\ agent[a].session \in Nat
    BY DEF AgentInv, AgentTypeOK, AgentRecords, Revisions
  <1>4. agent[a].session = 1 + revocations[a]
    BY <1>1 DEF AgentInv, RevocationsCounted
  <1> QED BY <1>1, <1>2, <1>3, <1>4

LEMMA PutOwnershipKeeps == ASSUME AgentInv, NEW w \in Workers, PutOwnership(w) PROVE AgentInv'
  <1>a. PICK k : k = work[w]
    OBVIOUS
  <1>b. PICK record : record = [k.seen EXCEPT !.owner = @ + 1]
    OBVIOUS
  <1>1. /\ k.op = "ownership" /\ agent[k.agent].state = "active" /\ k.seen.owner < MaxRevision
        /\ PutBack(w, record) /\ Leave(w)
        /\ UNCHANGED <<token, session, incident, containment, revocations>>
    BY <1>a, <1>b DEF PutOwnership
  <1>2. k \in WorkRecords /\ WorkPlaced(k)
    BY <1>a DEF AgentInv, AgentTypeOK
  <1>3. k.agent \in Agents /\ k.seen \in AgentRecords /\ k.seen.state = "active" /\ k.seen.life = 1
    BY <1>1, <1>2 DEF WorkPlaced, WorkRecords, LifeOf
  <1>4. /\ record.state = "active" /\ record.life = 1 /\ record.session = k.seen.session
        /\ record \in AgentRecords
    BY <1>b, <1>1, <1>3 DEF AgentRecords, Revisions
  <1>5. k.agent \notin restored' => record.session = 1 + revocations[k.agent]
    BY <1>a, <1>1, <1>3, <1>4, SameSession
  <1>6. revocations \in [Agents -> Nat]
    BY DEF AgentInv, AgentTypeOK
  <1> QED
    BY <1>a, <1>1, <1>3, <1>4, <1>5, <1>6, AgentFacts, IdlePlaced, IncidentsStay, PutBackKeeps DEF Leave

LEMMA PutClearStopKeeps == ASSUME AgentInv, NEW w \in Workers, PutClearStop(w) PROVE AgentInv'
  <1>a. PICK k : k = work[w]
    OBVIOUS
  <1>b. PICK record : record = [k.seen EXCEPT !.stop = FALSE]
    OBVIOUS
  <1>1. /\ k.op = "clear" /\ agent[k.agent].state = "active"
        /\ PutBack(w, record) /\ Leave(w)
        /\ UNCHANGED <<token, session, incident, containment, revocations>>
    BY <1>a, <1>b DEF PutClearStop
  <1>2. k \in WorkRecords /\ WorkPlaced(k)
    BY <1>a DEF AgentInv, AgentTypeOK
  <1>3. k.agent \in Agents /\ k.seen \in AgentRecords /\ k.seen.state = "active" /\ k.seen.life = 1
    BY <1>1, <1>2 DEF WorkPlaced, WorkRecords, LifeOf
  <1>4. /\ record.state = "active" /\ record.life = 1 /\ record.session = k.seen.session
        /\ record \in AgentRecords
    BY <1>b, <1>3 DEF AgentRecords
  <1>5. k.agent \notin restored' => record.session = 1 + revocations[k.agent]
    BY <1>a, <1>1, <1>3, <1>4, SameSession
  <1>6. revocations \in [Agents -> Nat]
    BY DEF AgentInv, AgentTypeOK
  <1> QED
    BY <1>a, <1>1, <1>3, <1>4, <1>5, <1>6, AgentFacts, IdlePlaced, IncidentsStay, PutBackKeeps DEF Leave

LEMMA PutHeartbeatKeeps == ASSUME AgentInv, NEW w \in Workers, PutHeartbeat(w) PROVE AgentInv'
  <1>a. PICK j : j = work[w]
    OBVIOUS
  <1>b. PICK k : k = [j EXCEPT !.at = "renew"]
    OBVIOUS
  <1>1. /\ j.op = "heartbeat" /\ agent[j.agent].state = "active"
        /\ agent[j.agent].life = j.seen.life /\ agent[j.agent].session = j.seen.session
        /\ PutBack(w, j.seen) /\ work' = [work EXCEPT ![w] = k]
        /\ UNCHANGED <<token, session, incident, containment, revocations>>
    BY <1>a, <1>b DEF PutHeartbeat, Take
  <1>2. j \in WorkRecords /\ WorkPlaced(j)
    BY <1>a DEF AgentInv, AgentTypeOK
  <1>3. j.agent \in Agents /\ j.seen \in AgentRecords /\ j.seen.life = LifeOf(j.seen.state)
    BY <1>1, <1>2 DEF WorkPlaced, WorkRecords
  <1>4. j.seen.life = 1 /\ j.seen.state = "active"
    <2>1. agent[j.agent].life = LifeOf("active")
      BY <1>1, <1>3, AgentsTyped
    <2>2. j.seen.state \in {"absent", "active", "revoked", "deleted"}
      BY <1>3 DEF AgentRecords
    <2> QED BY <1>1, <1>3, <2>1, <2>2 DEF LifeOf
  <1>5. k \in WorkRecords /\ k.op = "heartbeat" /\ k.at = "renew" /\ k.agent = j.agent
        /\ k.seen = j.seen /\ k.session = j.session
    BY <1>b, <1>1, <1>2 DEF WorkRecords
  <1>6. WorkPlaced(k)
    BY <1>1, <1>2, <1>3, <1>5 DEF WorkPlaced
  <1>7. Onwards => WorkPlaced(k)'
    BY <1>5, <1>6, WorkOnward
  <1>8. j.agent \notin restored' => j.seen.session = 1 + revocations[j.agent]
    <2>1. j.agent \notin restored' => j.agent \notin restored
      BY <1>a, <1>1 DEF PutBack
    <2> QED BY <1>1, <1>3, <2>1 DEF AgentInv, RevocationsCounted
  <1>9. revocations \in [Agents -> Nat]
    BY DEF AgentInv, AgentTypeOK
  <1> QED
    BY <1>a, <1>1, <1>3, <1>4, <1>5, <1>7, <1>8, <1>9, IncidentsStay, PutBackKeeps

\* One more revocation, and a session revision one above that of every session.
LEMMA PutRevokedSessionsKeeps ==
    ASSUME AgentInv, NEW w \in Workers, PutRevokedSessions(w)
    PROVE  AgentInv'
  <1>a. PICK k : k = work[w]
    OBVIOUS
  <1>b. PICK record : record = [k.seen EXCEPT !.session = @ + 1]
    OBVIOUS
  <1>1. /\ k.op = "sessions" /\ agent[k.agent].state = "active"
        /\ agent[k.agent].session = k.seen.session
        /\ incident[k.case].revision = k.revision
        /\ k.revision < MaxRevision /\ k.seen.session < MaxRevision
        /\ PutBack(w, record) /\ Leave(w)
        /\ revocations' = [revocations EXCEPT ![k.agent] = @ + 1]
        /\ incident' = [incident EXCEPT ![k.case].revision = @ + 1]
        /\ UNCHANGED <<token, session, containment>>
    BY <1>a, <1>b DEF PutRevokedSessions, IsActive
  <1>2. k \in WorkRecords /\ WorkPlaced(k)
    BY <1>a DEF AgentInv, AgentTypeOK
  <1>3. /\ k.agent \in Agents /\ k.seen \in AgentRecords /\ k.seen.state = "active"
        /\ k.seen.life = 1 /\ k.case \in Cases
    BY <1>1, <1>2 DEF WorkPlaced, WorkRecords, LifeOf
  <1>4. /\ record.state = "active" /\ record.life = 1 /\ record.session = k.seen.session + 1
        /\ record \in AgentRecords
    BY <1>b, <1>1, <1>3 DEF AgentRecords, Revisions
  <1>5. /\ revocations \in [Agents -> Nat] /\ revocations' \in [Agents -> Nat]
        /\ revocations'[k.agent] = revocations[k.agent] + 1
        /\ \A a \in Agents \ {k.agent} : revocations'[a] = revocations[a]
    BY <1>1, <1>3 DEF AgentInv, AgentTypeOK
  <1>6. k.agent \notin restored' => record.session = 1 + revocations'[k.agent]
    <2>1. k.agent \notin restored' => k.agent \notin restored
      BY <1>a, <1>1 DEF PutBack
    <2>2. k.agent \notin restored => agent[k.agent].session = 1 + revocations[k.agent]
      BY <1>1, <1>3 DEF AgentInv, RevocationsCounted
    <2>3. revocations[k.agent] \in Nat
      BY <1>3, <1>5
    <2> QED BY <1>1, <1>4, <1>5, <2>1, <2>2, <2>3
  <1>7. PICK new : new = [incident[k.case] EXCEPT !.revision = @ + 1]
    OBVIOUS
  <1>8. incident[k.case] \in IncidentRecords
    BY <1>3 DEF AgentInv, AgentTypeOK, IncidentRecords
  <1>9. /\ new \in IncidentRecords /\ new.status = incident[k.case].status
        /\ new.agent = incident[k.case].agent /\ new.held = incident[k.case].held
        /\ new.revision <= MaxRevision
    BY <1>1, <1>7, <1>8 DEF IncidentRecords
  <1>10. /\ incident' \in [Cases -> IncidentRecords]
         /\ \A c \in Cases : incident'[c] = IF c = k.case THEN new ELSE incident[c]
    BY <1>1, <1>3, <1>7, <1>9 DEF AgentInv, AgentTypeOK, IncidentRecords
  <1>11. CasesPlaced'
    BY <1>3, <1>9, <1>10 DEF AgentInv, CasesPlaced, IncidentRecords
  <1>12. \A c \in Cases : /\ incident'[c].status = incident[c].status
                          /\ incident'[c].agent = incident[c].agent
                          /\ incident'[c].held = incident[c].held
    BY <1>9, <1>10
  <1> QED
    BY <1>a, <1>1, <1>3, <1>4, <1>5, <1>6, <1>10, <1>11, <1>12, AgentFacts, IdlePlaced, PutBackKeeps
    DEF Leave

-----------------------------------------------------------------------------
(* Tokens and sessions *)

LEMMA WorksStay ==
    ASSUME AgentInv, Onwards, UNCHANGED work
    PROVE  work' \in [Workers -> WorkRecords] /\ \A v \in Workers : WorkPlaced(work[v])'
  <1>1. work' \in [Workers -> WorkRecords]
    BY DEF AgentInv, AgentTypeOK
  <1>2. ASSUME NEW v \in Workers PROVE WorkPlaced(work[v])'
    <2>1. work[v] \in WorkRecords /\ WorkPlaced(work[v])
      BY DEF AgentInv, AgentTypeOK
    <2>2. PICK k : k = work[v]
      OBVIOUS
    <2>3. WorkPlaced(k)'
      BY <2>1, <2>2, WorkOnward
    <2> QED BY <2>2, <2>3
  <1> QED BY <1>1, <1>2

LEMMA MaterialMoves ==
    ASSUME AgentInv, UNCHANGED <<agent, incident, containment, revocations, restored>>,
           token' \in [Tokens -> Materials], session' \in [Sessions -> Materials],
           \A t \in Tokens :
              \/ token'[t] = token[t]
              \/ /\ Current(token'[t])
                 /\ token[t].state # "absent" =>
                       /\ token'[t].state # "absent"
                       /\ token'[t].agent = token[t].agent
                       /\ token'[t].revision = token[t].revision,
           \A s \in Sessions :
              \/ session'[s] = session[s]
              \/ Current(session'[s]) /\ session'[s].state # "absent",
           Onwards => work' \in [Workers -> WorkRecords] /\ \A v \in Workers : WorkPlaced(work[v])'
    PROVE  AgentInv'
  <1>1. Onwards
    BY DEF Onwards, AgentInv, AgentTypeOK, AgentRecords, Revisions
  <1>2. AgentTypeOK'
    BY <1>1 DEF AgentInv, AgentTypeOK, Materials
  <1>3. \A x \in Materials : Current(x) => Current(x)'
    BY DEF Current
  <1>4. MaterialPlaced'
    <2>1. ASSUME NEW t \in Tokens PROVE Current(token[t])'
      <3>1. Current(token'[t])
        BY DEF AgentInv, MaterialPlaced
      <3> QED BY <3>1 DEF Current
    <2>2. ASSUME NEW s \in Sessions PROVE Current(session[s])'
      <3>1. Current(session'[s])
        BY DEF AgentInv, MaterialPlaced
      <3> QED BY <3>1 DEF Current
    <2> QED BY <2>1, <2>2 DEF MaterialPlaced
  <1>5. RevocationsCounted' /\ CasesPlaced' /\ QuarantineOwned'
    BY DEF AgentInv, RevocationsCounted, CasesPlaced, QuarantineOwned
  <1> QED BY <1>1, <1>2, <1>4, <1>5 DEF AgentInv

LEMMA TokenMoves ==
    ASSUME AgentInv, UNCHANGED <<agent, session, incident, containment, revocations, restored>>,
           NEW t \in Tokens, NEW x \in Materials, Current(x), token' = [token EXCEPT ![t] = x],
           token[t].state # "absent" =>
              x.state # "absent" /\ x.agent = token[t].agent /\ x.revision = token[t].revision,
           Onwards => work' \in [Workers -> WorkRecords] /\ \A v \in Workers : WorkPlaced(work[v])'
    PROVE  AgentInv'
  <1>1. /\ token' \in [Tokens -> Materials] /\ session' \in [Sessions -> Materials]
        /\ \A u \in Tokens : token'[u] = IF u = t THEN x ELSE token[u]
    BY DEF AgentInv, AgentTypeOK, Materials
  <1> QED BY <1>1, MaterialMoves

LEMMA SessionMoves ==
    ASSUME AgentInv, UNCHANGED <<agent, token, incident, containment, revocations, restored>>,
           NEW s \in Sessions, NEW x \in Materials, Current(x), x.state # "absent",
           session' = [session EXCEPT ![s] = x],
           Onwards => work' \in [Workers -> WorkRecords] /\ \A v \in Workers : WorkPlaced(work[v])'
    PROVE  AgentInv'
  <1>1. /\ token' \in [Tokens -> Materials] /\ session' \in [Sessions -> Materials]
        /\ \A u \in Sessions : session'[u] = IF u = s THEN x ELSE session[u]
    BY DEF AgentInv, AgentTypeOK, Materials
  <1> QED BY <1>1, MaterialMoves

LEMMA MaterialTyped ==
    ASSUME AgentInv
    PROVE  /\ \A t \in Tokens : token[t] \in Materials /\ Current(token[t])
           /\ \A s \in Sessions : session[s] \in Materials /\ Current(session[s])
  BY DEF AgentInv, AgentTypeOK, MaterialPlaced, Materials

\* A token or a session that ends.
LEMMA Ending ==
    ASSUME NEW x \in Materials, Current(x), x.state # "absent"
    PROVE  LET y == [x EXCEPT !.state = "ended"] IN
           /\ y \in Materials /\ Current(y) /\ y.state = "ended"
           /\ y.agent = x.agent /\ y.revision = x.revision
  BY DEF Materials, Current

LEMMA ExpireTokenKeeps == ASSUME AgentInv, NEW t \in Tokens, ExpireToken(t) PROVE AgentInv'
  <1>1. PICK x : x = [token[t] EXCEPT !.state = "ended"]
    OBVIOUS
  <1>2. token[t].state = "live" /\ token' = [token EXCEPT ![t] = x]
    BY <1>1 DEF ExpireToken, AgentInv, AgentTypeOK
  <1>3. x \in Materials /\ Current(x) /\ x.state = "ended"
        /\ x.agent = token[t].agent /\ x.revision = token[t].revision
    BY <1>1, <1>2, MaterialTyped, Ending
  <1> QED BY <1>2, <1>3, WorksStay, TokenMoves DEF ExpireToken

LEMMA ExpireSessionKeeps == ASSUME AgentInv, NEW s \in Sessions, ExpireSession(s) PROVE AgentInv'
  <1>1. PICK x : x = [session[s] EXCEPT !.state = "ended"]
    OBVIOUS
  <1>2. session[s].state = "live" /\ session' = [session EXCEPT ![s] = x]
    BY <1>1 DEF ExpireSession, AgentInv, AgentTypeOK
  <1>3. x \in Materials /\ Current(x) /\ x.state = "ended"
    BY <1>1, <1>2, MaterialTyped, Ending
  <1> QED BY <1>2, <1>3, WorksStay, SessionMoves DEF ExpireSession

LEMMA DeleteRenewedKeeps == ASSUME AgentInv, NEW w \in Workers, DeleteRenewed(w) PROVE AgentInv'
  <1>a. PICK s : s = work[w].session
    OBVIOUS
  <1>1. PICK x : x = [session[s] EXCEPT !.state = "ended"]
    OBVIOUS
  <1>2. s \in Sessions /\ session[s].state # "absent"
    <2>1. work[w] \in WorkRecords /\ WorkPlaced(work[w]) /\ work[w].at = "delete"
      BY DEF DeleteRenewed, AgentInv, AgentTypeOK
    <2>2. work[w].op = "heartbeat"
      BY <2>1 DEF WorkPlaced, WorkRecords
    <2> QED BY <1>a, <2>1, <2>2 DEF WorkPlaced
  <1>3. session' = [session EXCEPT ![s] = x] /\ work' = [work EXCEPT ![w] = NoWork]
    BY <1>a, <1>1, <1>2 DEF DeleteRenewed, Leave, AgentInv, AgentTypeOK
  <1>4. x \in Materials /\ Current(x) /\ x.state = "ended"
    BY <1>1, <1>2, MaterialTyped, Ending
  <1> QED
    BY <1>2, <1>3, <1>4, AgentFacts, IdlePlaced, WorksOnward, SessionMoves DEF DeleteRenewed

LEMMA RenewKeeps ==
    ASSUME AgentInv, NEW w \in Workers, NEW s \in Sessions, Renew(w, s)
    PROVE  AgentInv'
  <1>a. PICK j : j = work[w]
    OBVIOUS
  <1>b. PICK k : k = [j EXCEPT !.at = "delete"]
    OBVIOUS
  <1>c. PICK x : x = [session[j.session] EXCEPT !.state = "live"]
    OBVIOUS
  <1>1. /\ j \in WorkRecords /\ WorkPlaced(j) /\ j.at = "renew"
        /\ session' = [session EXCEPT ![s] = x]
        /\ work' = [work EXCEPT ![w] = k]
    BY <1>a, <1>b, <1>c DEF Renew, Take, AgentInv, AgentTypeOK
  <1>2. j.op = "heartbeat"
    BY <1>1 DEF WorkPlaced, WorkRecords
  <1>3. j.session \in Sessions /\ session[j.session].state # "absent"
    BY <1>1, <1>2 DEF WorkPlaced
  <1>4. x \in Materials /\ Current(x) /\ x.state = "live"
    BY <1>c, <1>3, MaterialTyped DEF Materials, Current
  <1>5. k \in WorkRecords /\ k.op = "heartbeat" /\ k.at = "delete" /\ k.agent = j.agent
        /\ k.seen = j.seen /\ k.session = j.session
    BY <1>b, <1>1, <1>2 DEF WorkRecords
  <1>6. WorkPlaced(k)
    BY <1>1, <1>2, <1>5 DEF WorkPlaced
  <1>7. Onwards => work' \in [Workers -> WorkRecords] /\ \A v \in Workers : WorkPlaced(work[v])'
    BY <1>1, <1>5, <1>6, WorkOnward, WorksOnward
  <1> QED BY <1>1, <1>4, <1>7, SessionMoves DEF Renew

LEMMA PutTokenKeeps ==
    ASSUME AgentInv, NEW w \in Workers, NEW t \in Tokens, PutToken(w, t)
    PROVE  AgentInv'
  <1>a. PICK k : k = work[w]
    OBVIOUS
  <1>b. PICK x : x = [state |-> "live", agent |-> k.agent, revision |-> k.seen.session,
                      epoch |-> k.epoch]
    OBVIOUS
  <1>1. /\ k \in WorkRecords /\ WorkPlaced(k) /\ k.op = "issue"
        /\ token[t].state = "absent" /\ token' = [token EXCEPT ![t] = x]
        /\ work' = [work EXCEPT ![w] = NoWork]
    BY <1>a, <1>b DEF PutToken, Leave, AgentInv, AgentTypeOK
  <1>2. /\ k.agent \in Agents /\ (k.agent \notin restored => k.seen.session = 1 + k.epoch)
        /\ k.seen.session \in Revisions /\ k.epoch \in Nat
    BY <1>1 DEF WorkPlaced, WorkRecords, AgentRecords
  <1>3. x \in Materials /\ Current(x)
    BY <1>b, <1>2 DEF Materials, Current
  <1> QED
    BY <1>1, <1>3, AgentFacts, IdlePlaced, WorksOnward, TokenMoves DEF PutToken

LEMMA ConsumeKeeps == ASSUME AgentInv, NEW w \in Workers, Consume(w) PROVE AgentInv'
  <1>a. PICK j : j = work[w]
    OBVIOUS
  <1>b. PICK k : k = [j EXCEPT !.at = "session"]
    OBVIOUS
  <1>c. PICK x : x = [token[j.token] EXCEPT !.state = "ended"]
    OBVIOUS
  <1>1. /\ j \in WorkRecords /\ WorkPlaced(j) /\ j.at = "consume"
        /\ token[j.token].state = "live"
        /\ token' = [token EXCEPT ![j.token].state = "ended"]
        /\ work' = [work EXCEPT ![w] = k]
    BY <1>a, <1>b DEF Consume, Take, AgentInv, AgentTypeOK
  <1>2. j.op = "enroll"
    BY <1>1 DEF WorkPlaced, WorkRecords
  <1>3. j.token \in Tokens /\ token' = [token EXCEPT ![j.token] = x]
    BY <1>c, <1>1, <1>2 DEF WorkPlaced, AgentInv, AgentTypeOK
  <1>4. x \in Materials /\ Current(x) /\ x.state = "ended"
        /\ x.agent = token[j.token].agent /\ x.revision = token[j.token].revision
    BY <1>c, <1>1, <1>3, MaterialTyped, Ending
  <1>5. k \in WorkRecords /\ k.op = "enroll" /\ k.at = "session" /\ k.agent = j.agent
        /\ k.seen = j.seen /\ k.token = j.token
    BY <1>b, <1>1, <1>2 DEF WorkRecords
  <1>6. WorkPlaced(k)
    BY <1>1, <1>2, <1>5 DEF WorkPlaced
  <1>7. Onwards => work' \in [Workers -> WorkRecords] /\ \A v \in Workers : WorkPlaced(work[v])'
    BY <1>1, <1>5, <1>6, WorkOnward, WorksOnward
  <1> QED BY <1>1, <1>3, <1>4, <1>7, TokenMoves DEF Consume

LEMMA PutSessionKeeps ==
    ASSUME AgentInv, NEW w \in Workers, NEW s \in Sessions, PutSession(w, s)
    PROVE  AgentInv'
  <1>a. PICK k : k = work[w]
    OBVIOUS
  <1>b. PICK x : x = [state |-> "live", agent |-> k.agent, revision |-> k.seen.session,
                      epoch |-> token[k.token].epoch]
    OBVIOUS
  <1>1. /\ k \in WorkRecords /\ WorkPlaced(k) /\ k.at = "session"
        /\ session' = [session EXCEPT ![s] = x]
        /\ work' = [work EXCEPT ![w] = NoWork]
    BY <1>a, <1>b DEF PutSession, Leave, AgentInv, AgentTypeOK
  <1>2. k.op = "enroll"
    BY <1>1 DEF WorkPlaced, WorkRecords
  <1>3. /\ k.token \in Tokens /\ token[k.token].state # "absent"
        /\ token[k.token].agent = k.agent /\ token[k.token].revision = k.seen.session
    BY <1>1, <1>2 DEF WorkPlaced
  <1>4. token[k.token] \in Materials /\ Current(token[k.token])
    BY <1>3, MaterialTyped
  <1>5. x \in Materials /\ Current(x) /\ x.state = "live"
    BY <1>b, <1>3, <1>4 DEF Materials, Current
  <1> QED
    BY <1>1, <1>5, AgentFacts, IdlePlaced, WorksOnward, SessionMoves DEF PutSession

-----------------------------------------------------------------------------
(* Incident cases *)

ContainmentRecords == [active : BOOLEAN, revision : Revisions, case : Cases \cup {Nothing}]

LEMMA IncidentEdits ==
    \A x \in IncidentRecords, r \in 0 .. MaxRevision + 2, held \in Revisions :
        /\ [x EXCEPT !.status = "resolved", !.revision = r] \in IncidentRecords
        /\ [x EXCEPT !.status = "closed", !.revision = r] \in IncidentRecords
        /\ [x EXCEPT !.status = "contained", !.revision = r,
                     !.quarantine = "active", !.held = held] \in IncidentRecords
        /\ [x EXCEPT !.status = "investigating", !.revision = r,
                     !.quarantine = "released", !.held = held] \in IncidentRecords
  <1>1. \A y \in IncidentRecords :
           /\ [y EXCEPT !.status = "resolved"] \in IncidentRecords
           /\ [y EXCEPT !.status = "closed"] \in IncidentRecords
           /\ [y EXCEPT !.status = "contained"] \in IncidentRecords
           /\ [y EXCEPT !.status = "investigating"] \in IncidentRecords
    BY DEF IncidentRecords
  <1>2. \A y \in IncidentRecords, r \in 0 .. MaxRevision + 2 :
           [y EXCEPT !.revision = r] \in IncidentRecords
    BY DEF IncidentRecords
  <1>3. \A y \in IncidentRecords :
           /\ [y EXCEPT !.quarantine = "active"] \in IncidentRecords
           /\ [y EXCEPT !.quarantine = "released"] \in IncidentRecords
    BY DEF IncidentRecords
  <1>4. \A y \in IncidentRecords, held \in Revisions : [y EXCEPT !.held = held] \in IncidentRecords
    BY DEF IncidentRecords
  <1>5. TAKE x \in IncidentRecords, r \in 0 .. MaxRevision + 2, held \in Revisions
  <1>6. [x EXCEPT !.status = "resolved", !.revision = r] \in IncidentRecords
    BY <1>1, <1>2
  <1>7. [x EXCEPT !.status = "closed", !.revision = r] \in IncidentRecords
    BY <1>1, <1>2
  <1>8. [x EXCEPT !.status = "contained", !.revision = r,
                  !.quarantine = "active", !.held = held] \in IncidentRecords
    BY <1>1, <1>2, <1>3, <1>4
  <1>9. [x EXCEPT !.status = "investigating", !.revision = r,
                  !.quarantine = "released", !.held = held] \in IncidentRecords
    BY <1>1, <1>2, <1>3, <1>4
  <1> QED BY <1>6, <1>7, <1>8, <1>9

LEMMA CaseMoves ==
    ASSUME AgentInv, NEW c \in Cases, NEW x \in IncidentRecords,
           incident' = [incident EXCEPT ![c] = x],
           x.status # "absent", x.agent \in Agents,
           incident[c].status # "absent" => x.agent = incident[c].agent,
           x.status \in {"open", "contained", "investigating"} => x.revision <= MaxRevision,
           x.status = "resolved" => x.revision <= MaxRevision + 1,
           containment' \in [Agents -> ContainmentRecords],
           \A a \in Agents : \/ containment'[a] = containment[a]
                             \/ containment'[a].revision > containment[a].revision,
           QuarantineOwned',
           UNCHANGED <<agent, token, session, revocations, restored>>,
           Onwards => work' \in [Workers -> WorkRecords] /\ \A v \in Workers : WorkPlaced(work[v])'
    PROVE  AgentInv'
  <1>1. /\ incident' \in [Cases -> IncidentRecords]
        /\ \A d \in Cases : incident'[d] = IF d = c THEN x ELSE incident[d]
    BY DEF AgentInv, AgentTypeOK, IncidentRecords
  <1>2. \A a \in Agents : containment'[a].revision \in Nat
    BY DEF ContainmentRecords, Revisions
  <1>3. \A a \in Agents : agent[a].session \in Nat
    BY DEF AgentInv, AgentTypeOK, AgentRecords, Revisions
  <1>4. Onwards
    BY <1>1, <1>2, <1>3 DEF Onwards
  <1>5. AgentTypeOK'
    BY <1>1, <1>4 DEF AgentInv, AgentTypeOK, IncidentRecords, ContainmentRecords
  <1>6. CasesPlaced'
    BY <1>1 DEF AgentInv, CasesPlaced
  <1>7. MaterialPlaced' /\ RevocationsCounted'
    BY DEF AgentInv, MaterialPlaced, Current, RevocationsCounted
  <1> QED BY <1>4, <1>5, <1>6, <1>7 DEF AgentInv

\* A case that is contained neither before nor after changes no quarantine.
LEMMA UncontainedCase ==
    ASSUME AgentInv, NEW c \in Cases, NEW x \in IncidentRecords,
           incident' = [incident EXCEPT ![c] = x], UNCHANGED containment,
           incident[c].status # "contained", x.status # "contained"
    PROVE  QuarantineOwned'
  <1>1. \A d \in Cases : incident'[d] = IF d = c THEN x ELSE incident[d]
    BY DEF AgentInv, AgentTypeOK
  <1>2. ASSUME NEW a \in Agents
        PROVE  {d \in Cases : incident'[d].agent = a /\ incident'[d].status = "contained"}
               = {d \in Cases : incident[d].agent = a /\ incident[d].status = "contained"}
    BY <1>1
  <1>3. ASSUME NEW a \in Agents, containment[a].active
        PROVE  containment[a].case \in Cases /\ containment[a].case # c
    BY <1>3 DEF AgentInv, QuarantineOwned
  <1> QED BY <1>1, <1>2, <1>3 DEF AgentInv, QuarantineOwned

LEMMA CreateCaseKeeps ==
    ASSUME AgentInv, NEW c \in Cases, NEW a \in Agents, CreateCase(c, a)
    PROVE  AgentInv'
  <1>1. PICK x : x = [NoCase EXCEPT !.status = "open", !.agent = a, !.life = agent[a].life,
                                    !.revision = 1]
    OBVIOUS
  <1>2. /\ incident[c].status = "absent" /\ agent[a].state = "active"
        /\ incident' = [incident EXCEPT ![c] = x]
    BY <1>1 DEF CreateCase, IsActive
  <1>3. agent[a].life = 1
    BY <1>2, AgentsTyped DEF LifeOf
  <1>4. x = [status |-> "open", agent |-> a, life |-> 1, revision |-> 1,
             quarantine |-> "none", held |-> 0]
    BY <1>1, <1>3 DEF NoCase
  <1>5. x \in IncidentRecords /\ x.status = "open" /\ x.agent = a /\ x.revision = 1
    BY <1>4 DEF IncidentRecords, Revisions
  <1>6. QuarantineOwned'
    BY <1>2, <1>5, UncontainedCase DEF CreateCase
  <1>7. containment' \in [Agents -> ContainmentRecords]
    BY DEF CreateCase, AgentInv, AgentTypeOK, ContainmentRecords
  <1>8. UNCHANGED <<agent, token, session, containment, work, revocations, restored>>
    BY DEF CreateCase
  <1>9. Onwards => work' \in [Workers -> WorkRecords] /\ \A v \in Workers : WorkPlaced(work[v])'
    BY <1>8, WorksStay
  <1>10. /\ x.status # "absent" /\ x.agent \in Agents
         /\ incident[c].status # "absent" => x.agent = incident[c].agent
         /\ x.status \in {"open", "contained", "investigating"} => x.revision <= MaxRevision
         /\ x.status = "resolved" => x.revision <= MaxRevision + 1
    BY <1>2, <1>5
  <1> QED BY <1>2, <1>5, <1>6, <1>7, <1>8, <1>9, <1>10, CaseMoves

LEMMA ResolveKeeps == ASSUME AgentInv, NEW c \in Cases, Resolve(c) PROVE AgentInv'
  <1>1. PICK x : x = [incident[c] EXCEPT !.status = "resolved", !.revision = @ + 1]
    OBVIOUS
  <1>2. incident[c] \in IncidentRecords
    BY DEF AgentInv, AgentTypeOK, IncidentRecords
  <1>3. /\ incident[c].status \in {"open", "investigating"}
        /\ incident' = [incident EXCEPT ![c] = x]
    BY <1>1, <1>2 DEF Resolve, AgentInv, AgentTypeOK
  <1>4. incident[c].agent \in Agents /\ incident[c].revision <= MaxRevision
    BY <1>3 DEF AgentInv, CasesPlaced
  <1>5. /\ x.status = "resolved" /\ x.agent = incident[c].agent
        /\ x.revision = incident[c].revision + 1
    BY <1>1, <1>2 DEF IncidentRecords
  <1>6. x \in IncidentRecords /\ x.revision <= MaxRevision + 1
    <2>1. incident[c].revision \in Nat
      BY <1>2 DEF IncidentRecords
    <2>2. incident[c].revision + 1 \in 0 .. MaxRevision + 2
      BY <1>4, <2>1
    <2>3. PICK r : r = incident[c].revision + 1
      OBVIOUS
    <2>4. x = [incident[c] EXCEPT !.status = "resolved", !.revision = r]
      BY <1>1, <2>3
    <2>5. 0 \in Revisions
      BY DEF Revisions
    <2>6. x \in IncidentRecords
      BY <1>2, <2>2, <2>3, <2>4, <2>5, IncidentEdits
    <2> QED BY <1>4, <1>5, <2>1, <2>6
  <1>7. QuarantineOwned'
    BY <1>3, <1>5, <1>6, UncontainedCase DEF Resolve
  <1>8. containment' \in [Agents -> ContainmentRecords]
    BY DEF Resolve, AgentInv, AgentTypeOK, ContainmentRecords
  <1> QED BY <1>3, <1>4, <1>5, <1>6, <1>7, <1>8, WorksStay, CaseMoves, ZenonT(40) DEF Resolve

LEMMA CloseKeeps == ASSUME AgentInv, NEW c \in Cases, Close(c) PROVE AgentInv'
  <1>1. PICK x : x = [incident[c] EXCEPT !.status = "closed", !.revision = @ + 1]
    OBVIOUS
  <1>2. incident[c] \in IncidentRecords
    BY DEF AgentInv, AgentTypeOK, IncidentRecords
  <1>3. /\ incident[c].status = "resolved"
        /\ incident' = [incident EXCEPT ![c] = x]
    BY <1>1, <1>2 DEF Close, AgentInv, AgentTypeOK
  <1>4. incident[c].agent \in Agents /\ incident[c].revision <= MaxRevision + 1
    BY <1>3 DEF AgentInv, CasesPlaced
  <1>5. /\ x.status = "closed" /\ x.agent = incident[c].agent
        /\ x.revision = incident[c].revision + 1
    BY <1>1, <1>2 DEF IncidentRecords
  <1>6. x \in IncidentRecords
    <2>1. incident[c].revision \in Nat
      BY <1>2 DEF IncidentRecords
    <2>2. incident[c].revision + 1 \in 0 .. MaxRevision + 2
      BY <1>4, <2>1
    <2>3. PICK r : r = incident[c].revision + 1
      OBVIOUS
    <2>4. x = [incident[c] EXCEPT !.status = "closed", !.revision = r]
      BY <1>1, <2>3
    <2>5. 0 \in Revisions
      BY DEF Revisions
    <2> QED BY <1>2, <2>2, <2>3, <2>4, <2>5, IncidentEdits
  <1>7. QuarantineOwned'
    BY <1>3, <1>5, <1>6, UncontainedCase DEF Close
  <1>8. containment' \in [Agents -> ContainmentRecords]
    BY DEF Close, AgentInv, AgentTypeOK, ContainmentRecords
  <1> QED BY <1>3, <1>4, <1>5, <1>6, <1>7, <1>8, WorksStay, CaseMoves DEF Close

\* No case is contained for the agent, so that c becomes the one owner.
LEMMA ContainKeeps == ASSUME AgentInv, NEW c \in Cases, Contain(c) PROVE AgentInv'
  <1>a. PICK a : a = incident[c].agent
    OBVIOUS
  <1>b. PICK held : held = containment[a].revision + 1
    OBVIOUS
  <1>c. PICK x : x = [incident[c] EXCEPT !.status = "contained", !.revision = @ + 1,
                                         !.quarantine = "active", !.held = held]
    OBVIOUS
  <1>d. PICK box : box = [active |-> TRUE, revision |-> held, case |-> c]
    OBVIOUS
  <1>1. incident[c] \in IncidentRecords
    BY DEF AgentInv, AgentTypeOK, IncidentRecords
  <1>2. /\ incident[c].status \in {"open", "investigating"}
        /\ incident[c].revision < MaxRevision /\ held <= MaxRevision
        /\ ~ containment[a].active
        /\ containment' = [containment EXCEPT ![a] = box]
        /\ UNCHANGED <<agent, token, session, work, revocations, restored>>
    BY <1>a, <1>b, <1>d DEF Contain, Quarantine
  <1>3. a \in Agents
    BY <1>a, <1>2 DEF AgentInv, CasesPlaced
  <1>4. incident' = [incident EXCEPT ![c] = x]
    BY <1>a, <1>b, <1>c, <1>1 DEF Contain, Quarantine, AgentInv, AgentTypeOK
  <1>5. containment[a].revision \in Nat /\ held \in Revisions
    BY <1>b, <1>2, <1>3 DEF AgentInv, AgentTypeOK, Revisions
  <1>6. /\ x.status = "contained" /\ x.agent = a /\ x.held = held
        /\ x.revision = incident[c].revision + 1
    BY <1>a, <1>c, <1>1 DEF IncidentRecords
  <1>7. x.revision <= MaxRevision /\ x \in IncidentRecords
    <2>1. incident[c].revision \in Nat
      BY <1>1 DEF IncidentRecords
    <2>2. incident[c].revision + 1 \in 0 .. MaxRevision + 2
      BY <1>2, <2>1
    <2>3. PICK r : r = incident[c].revision + 1
      OBVIOUS
    <2>4. x = [incident[c] EXCEPT !.status = "contained", !.revision = r,
                                  !.quarantine = "active", !.held = held]
      BY <1>c, <2>3
    <2>5. x \in IncidentRecords
      BY <1>1, <1>5, <2>2, <2>3, <2>4, IncidentEdits
    <2> QED BY <1>2, <1>6, <2>1, <2>5
  <1>8. /\ containment' \in [Agents -> ContainmentRecords]
        /\ \A b \in Agents : containment'[b] = IF b = a THEN box ELSE containment[b]
        /\ box.active /\ box.case = c /\ box.revision = held
    BY <1>d, <1>2, <1>5 DEF AgentInv, AgentTypeOK, ContainmentRecords
  <1>9. \A d \in Cases : incident'[d] = IF d = c THEN x ELSE incident[d]
    BY <1>4 DEF AgentInv, AgentTypeOK
  <1>10. QuarantineOwned'
    <2>1. {d \in Cases : incident[d].agent = a /\ incident[d].status = "contained"} = {}
      BY <1>2, <1>3 DEF AgentInv, QuarantineOwned
    <2>2. {d \in Cases : incident'[d].agent = a /\ incident'[d].status = "contained"} = {c}
      BY <1>6, <1>9, <2>1
    <2>3. ASSUME NEW b \in Agents, b # a
          PROVE  /\ {d \in Cases : incident'[d].agent = b /\ incident'[d].status = "contained"}
                    = {d \in Cases : incident[d].agent = b /\ incident[d].status = "contained"}
                 /\ containment[b].active =>
                       containment[b].case \in Cases /\ containment[b].case # c
      <3>1. {d \in Cases : incident'[d].agent = b /\ incident'[d].status = "contained"}
            = {d \in Cases : incident[d].agent = b /\ incident[d].status = "contained"}
        BY <1>a, <1>6, <1>9, <2>3
      <3>2. containment[b].active => containment[b].case \in Cases /\ containment[b].case # c
        BY <1>a, <2>3 DEF AgentInv, QuarantineOwned
      <3> QED BY <3>1, <3>2
    <2>4. ASSUME NEW b \in Agents
          PROVE  LET owners == {d \in Cases : incident'[d].agent = b /\ incident'[d].status = "contained"} IN
                 IF containment'[b].active
                 THEN /\ owners = {containment'[b].case}
                      /\ incident'[containment'[b].case].held = containment'[b].revision
                 ELSE owners = {}
      <3>1. CASE b = a
        BY <1>6, <1>8, <1>9, <2>2, <3>1
      <3>2. CASE b # a
        BY <1>8, <1>9, <2>3, <3>2 DEF AgentInv, QuarantineOwned
      <3> QED BY <3>1, <3>2
    <2> QED BY <2>4 DEF QuarantineOwned
  <1>11. \A b \in Agents : \/ containment'[b] = containment[b]
                           \/ containment'[b].revision > containment[b].revision
    BY <1>b, <1>5, <1>8
  <1>12. Onwards => work' \in [Workers -> WorkRecords] /\ \A v \in Workers : WorkPlaced(work[v])'
    BY <1>2, WorksStay
  <1>13. /\ x.status # "absent" /\ x.agent \in Agents /\ x.agent = incident[c].agent
         /\ x.status # "resolved"
    BY <1>a, <1>3, <1>6
  <1>14. UNCHANGED <<agent, token, session, revocations, restored>>
    BY <1>2
  <1> QED BY <1>4, <1>7, <1>8, <1>10, <1>11, <1>12, <1>13, <1>14, CaseMoves

\* The containment has not changed since it was read, so that it is this case's.
LEMMA CommitReleaseKeeps == ASSUME AgentInv, NEW w \in Workers, CommitRelease(w) PROVE AgentInv'
  <1>a. PICK k : k = work[w]
    OBVIOUS
  <1>b. PICK a, c : a = k.agent /\ c = k.case
    OBVIOUS
  <1>c. PICK x : x = [incident[c] EXCEPT !.status = "investigating", !.revision = @ + 1,
                                         !.quarantine = "released", !.held = k.held + 1]
    OBVIOUS
  <1>d. PICK box : box = [containment[a] EXCEPT !.active = FALSE, !.revision = @ + 1]
    OBVIOUS
  <1>1. /\ k \in WorkRecords /\ WorkPlaced(k) /\ k.op = "release"
        /\ incident[c].revision = k.revision /\ containment[a].revision = k.held
        /\ containment[a].active /\ k.revision < MaxRevision /\ k.held < MaxRevision
        /\ work' = [work EXCEPT ![w] = NoWork]
        /\ UNCHANGED <<agent, token, session, revocations, restored>>
    BY <1>a, <1>b DEF CommitRelease, Leave, AgentInv, AgentTypeOK
  <1>2. /\ a \in Agents /\ c \in Cases /\ incident[c].agent = a
        /\ incident[c].status # "absent" /\ containment[a].case = c
    BY <1>b, <1>1 DEF WorkPlaced
  <1>3. incident[c] \in IncidentRecords /\ containment[a] \in ContainmentRecords
    BY <1>2 DEF AgentInv, AgentTypeOK, IncidentRecords, ContainmentRecords
  <1>4. incident' = [incident EXCEPT ![c] = x]
    BY <1>a, <1>b, <1>c, <1>2, <1>3 DEF CommitRelease, AgentInv, AgentTypeOK
  <1>5. containment' = [containment EXCEPT ![a] = box]
    BY <1>a, <1>b, <1>d, <1>2, <1>3 DEF CommitRelease, AgentInv, AgentTypeOK
  <1>6. /\ x.status = "investigating" /\ x.agent = a
        /\ x.revision = incident[c].revision + 1
    BY <1>c, <1>2, <1>3 DEF IncidentRecords
  <1>7. k.held + 1 \in Revisions
    BY <1>1, <1>3 DEF ContainmentRecords, Revisions
  <1>8. x.revision <= MaxRevision /\ x \in IncidentRecords
    <2>1. incident[c].revision \in Nat
      BY <1>3 DEF IncidentRecords
    <2>2. incident[c].revision + 1 \in 0 .. MaxRevision + 2
      BY <1>1, <2>1
    <2>3. PICK r, h : r = incident[c].revision + 1 /\ h = k.held + 1
      OBVIOUS
    <2>4. x = [incident[c] EXCEPT !.status = "investigating", !.revision = r,
                                  !.quarantine = "released", !.held = h]
      BY <1>c, <2>3
    <2>5. x \in IncidentRecords
      BY <1>3, <1>7, <2>2, <2>3, <2>4, IncidentEdits
    <2> QED BY <1>1, <1>6, <2>1, <2>5
  <1>9. box.active = FALSE /\ box.revision = containment[a].revision + 1 /\ box \in ContainmentRecords
    BY <1>d, <1>1, <1>3, <1>7 DEF ContainmentRecords
  <1>10. /\ containment' \in [Agents -> ContainmentRecords]
         /\ \A b \in Agents : containment'[b] = IF b = a THEN box ELSE containment[b]
    BY <1>5, <1>9 DEF AgentInv, AgentTypeOK, ContainmentRecords
  <1>11. \A d \in Cases : incident'[d] = IF d = c THEN x ELSE incident[d]
    BY <1>4 DEF AgentInv, AgentTypeOK
  <1>12. QuarantineOwned'
    <2>1. {d \in Cases : incident[d].agent = a /\ incident[d].status = "contained"} = {c}
      BY <1>1, <1>2 DEF AgentInv, QuarantineOwned
    <2>2. {d \in Cases : incident'[d].agent = a /\ incident'[d].status = "contained"} = {}
      BY <1>6, <1>11, <2>1
    <2>3. ASSUME NEW b \in Agents, b # a
          PROVE  {d \in Cases : incident'[d].agent = b /\ incident'[d].status = "contained"}
                 = {d \in Cases : incident[d].agent = b /\ incident[d].status = "contained"}
      BY <1>2, <1>6, <1>11, <2>3
    <2>4. ASSUME NEW b \in Agents, b # a, containment[b].active
          PROVE  containment[b].case \in Cases /\ containment[b].case # c
      BY <1>2, <2>4 DEF AgentInv, QuarantineOwned
    <2>5. ASSUME NEW b \in Agents
          PROVE  LET owners == {d \in Cases : incident'[d].agent = b /\ incident'[d].status = "contained"} IN
                 IF containment'[b].active
                 THEN /\ owners = {containment'[b].case}
                      /\ incident'[containment'[b].case].held = containment'[b].revision
                 ELSE owners = {}
      <3>1. CASE b = a
        BY <1>9, <1>10, <2>2, <3>1
      <3>2. CASE b # a
        BY <1>10, <1>11, <2>3, <2>4, <3>2 DEF AgentInv, QuarantineOwned
      <3> QED BY <3>1, <3>2
    <2> QED BY <2>5 DEF QuarantineOwned
  <1>13. containment[a].revision \in Nat
    BY <1>3 DEF ContainmentRecords, Revisions
  <1>14. \A b \in Agents : \/ containment'[b] = containment[b]
                           \/ containment'[b].revision > containment[b].revision
    BY <1>9, <1>10, <1>13
  <1>15. Onwards => work' \in [Workers -> WorkRecords] /\ \A v \in Workers : WorkPlaced(work[v])'
    BY <1>1, AgentFacts, IdlePlaced, WorksOnward
  <1>16. /\ x.status # "absent" /\ x.agent \in Agents
         /\ incident[c].status # "absent" => x.agent = incident[c].agent
         /\ x.status \in {"open", "contained", "investigating"} => x.revision <= MaxRevision
         /\ x.status = "resolved" => x.revision <= MaxRevision + 1
    BY <1>2, <1>6, <1>8
  <1> QED BY <1>1, <1>2, <1>4, <1>8, <1>10, <1>12, <1>14, <1>15, <1>16, CaseMoves

-----------------------------------------------------------------------------
(* The invariant of the specification *)

LEMMA AgentsBegin == AgentInit => AgentInv
  <1> SUFFICES ASSUME AgentInit PROVE AgentInv
    OBVIOUS
  <1>1. PICK old : old = [Registered EXCEPT !.stop = TRUE]
    OBVIOUS
  <1>2. old \in AgentRecords /\ old.state = "active" /\ old.life = 1 /\ old.session = 1
    BY <1>1, AgentFacts DEF AgentRecords
  <1>3. \A a \in Agents : agent[a] = NoAgent \/ agent[a] = old
    BY <1>1 DEF AgentInit
  <1>4. agent \in [Agents -> AgentRecords]
    <2>1. agent \in [Agents -> {NoAgent, old}]
      BY <1>1 DEF AgentInit
    <2> QED BY <1>2, <2>1, AgentFacts
  <1>5. \A a \in Agents : agent[a].life = LifeOf(agent[a].state)
    BY <1>2, <1>3, AgentFacts DEF LifeOf
  <1>6. 0 \in Revisions /\ 0 \in Nat /\ 0 \in 0 .. MaxRevision + 2
    BY DEF Revisions
  <1>7. /\ NoToken \in Materials /\ NoToken.state = "absent"
        /\ NoSession \in Materials /\ NoSession.state = "absent"
    BY <1>6 DEF NoToken, NoSession, Materials
  <1>8. NoCase \in IncidentRecords /\ NoCase.status = "absent" /\ NoCase.revision = 0
    BY <1>6 DEF NoCase, IncidentRecords
  <1>9. NoContainment \in ContainmentRecords /\ NoContainment.active = FALSE
    BY <1>6 DEF NoContainment, ContainmentRecords
  <1>10. /\ token \in [Tokens -> Materials] /\ session \in [Sessions -> Materials]
         /\ incident \in [Cases -> IncidentRecords]
         /\ containment \in [Agents -> ContainmentRecords]
    BY <1>7, <1>8, <1>9 DEF AgentInit
  <1>11. /\ work \in [Workers -> WorkRecords] /\ revocations \in [Agents -> Nat]
         /\ restored \subseteq Agents
    BY <1>6, AgentFacts DEF AgentInit
  <1>12. AgentTypeOK
    BY <1>4, <1>5, <1>10, <1>11
    DEF AgentTypeOK, Materials, IncidentRecords, ContainmentRecords, LifeOf
  <1>13. MaterialPlaced
    BY <1>7 DEF AgentInit, MaterialPlaced, Current
  <1>14. RevocationsCounted
    <2>1. \A a \in Agents : revocations[a] = 0
      BY DEF AgentInit
    <2>2. \A a \in Agents :
             \/ agent[a].state = "absent"
             \/ agent[a].state = "active" /\ agent[a].session = 1
      BY <1>2, <1>3, AgentFacts
    <2>3. ASSUME NEW a \in Agents PROVE 1 + revocations[a] = 1
      <3>1. \A n \in Nat : n = 0 => 1 + n = 1
        OBVIOUS
      <3> QED BY <1>11, <2>1, <3>1
    <2>4. ASSUME NEW a \in Agents
          PROVE  /\ agent[a].state = "absent" => revocations[a] = 0
                 /\ a \notin restored /\ agent[a].state \in {"active", "revoked"} =>
                       agent[a].session = 1 + revocations[a]
      BY <2>1, <2>2, <2>3
    <2> QED BY <2>4 DEF RevocationsCounted
  <1>15. CasesPlaced
    BY <1>8 DEF AgentInit, CasesPlaced
  <1>16. QuarantineOwned
    BY <1>8, <1>9 DEF AgentInit, QuarantineOwned
  <1>17. WorkPlaced(NoWork)
    BY AgentFacts DEF WorkPlaced, LifeOf
  <1>18. \A w \in Workers : WorkPlaced(work[w])
    BY <1>17 DEF AgentInit
  <1> QED BY <1>12, <1>13, <1>14, <1>15, <1>16, <1>18 DEF AgentInv

LEMMA AgentsIdle == ASSUME AgentInv, UNCHANGED agents PROVE AgentInv'
  <1>1. UNCHANGED <<token, session, incident, containment, work, revocations, restored>>
        /\ agent' = agent
    BY DEF agents
  <1>2. agent' \in [Agents -> AgentRecords]
    BY <1>1 DEF AgentInv, AgentTypeOK
  <1>3. \A a \in Agents :
           /\ agent'[a].life = LifeOf(agent'[a].state)
           /\ agent'[a].state = "absent" => agent[a].state = "absent"
           /\ agent'[a].state \in {"active", "revoked"} =>
                 agent[a].state \in {"active", "revoked"} /\ agent'[a].session = agent[a].session
    BY <1>1, AgentsTyped
  <1> QED BY <1>1, <1>2, <1>3, AgentChanges

LEMMA AgentsStep == AgentInv /\ [AgentNext]_agents => AgentInv'
  <1> SUFFICES ASSUME AgentInv, [AgentNext]_agents PROVE AgentInv'
    OBVIOUS
  <1>1. CASE LifecycleStep
    BY <1>1, RegisterKeeps, RevokeKeeps, OffboardKeeps, ReplaceKeeps DEF LifecycleStep
  <1>2. CASE PutBackStep
    <2>1. ASSUME NEW w \in Workers, NEW a \in Agents, BeginOwnership(w, a) \/ BeginClearStop(w, a)
          PROVE  AgentInv'
      <3>1. ReadAgent(w, "ownership", a, "put") \/ ReadAgent(w, "clear", a, "put")
        BY <2>1 DEF BeginOwnership, BeginClearStop
      <3> QED BY <3>1, ReadAgentKeeps
    <2> QED BY <1>2, <2>1, PutOwnershipKeeps, PutClearStopKeeps DEF PutBackStep
  <1>3. CASE SessionStep
    <2>1. ASSUME NEW w \in Workers, NEW a \in Agents, BeginIssue(w, a)
          PROVE  AgentInv'
      BY <2>1, ReadAgentKeeps DEF BeginIssue
    <2>2. ASSUME NEW w \in Workers, NEW t \in Tokens, PutToken(w, t) \/ BeginEnroll(w, t)
          PROVE  AgentInv'
      BY <2>2, PutTokenKeeps, BeginEnrollKeeps
    <2>3. ASSUME NEW w \in Workers, CheckQuarantine(w) \/ ReadEnrolled(w) \/ Consume(w)
          PROVE  AgentInv'
      BY <2>3, CheckQuarantineKeeps, ReadEnrolledKeeps, ConsumeKeeps
    <2>4. ASSUME NEW w \in Workers, NEW s \in Sessions,
                 PutSession(w, s) \/ BeginHeartbeat(w, s) \/ Renew(w, s)
          PROVE  AgentInv'
      BY <2>4, PutSessionKeeps, BeginHeartbeatKeeps, RenewKeeps
    <2>5. ASSUME NEW w \in Workers, ReadHeartbeat(w) \/ PutHeartbeat(w) \/ DeleteRenewed(w)
          PROVE  AgentInv'
      BY <2>5, ReadHeartbeatKeeps, PutHeartbeatKeeps, DeleteRenewedKeeps
    <2> QED
      BY <1>3, <2>1, <2>2, <2>3, <2>4, <2>5, ExpireTokenKeeps, ExpireSessionKeeps DEF SessionStep
  <1>4. CASE CaseStep
    BY <1>4, CreateCaseKeeps, ContainKeeps, ResolveKeeps, CloseKeeps, BeginReleaseKeeps,
       CommitReleaseKeeps DEF CaseStep
  <1>5. CASE RevokeSessionsStep
    BY <1>5, BeginRevokeSessionsKeeps, PutRevokedSessionsKeeps DEF RevokeSessionsStep
  <1>6. CASE \E w \in Workers : EndWork(w)
    BY <1>6, EndWorkKeeps
  <1>7. CASE UNCHANGED agents
    BY <1>7, AgentsIdle
  <1> QED BY <1>1, <1>2, <1>3, <1>4, <1>5, <1>6, <1>7 DEF AgentNext

\* The inductive invariant of the requests on agents: their material, their
\* cases and what every request in flight knows.
THEOREM AgentInvariant == AgentSpec => []AgentInv
  BY AgentsBegin, AgentsStep, PTL DEF AgentSpec

\* Every item has the shape its handlers write (items of handler.py).
THEOREM AgentTypes == AgentSpec => []AgentTypeOK
  <1>1. AgentInv => AgentTypeOK
    BY DEF AgentInv
  <1> QED BY <1>1, AgentInvariant, PTL

\* A session that an agent's request is accepted with (_agent_identity) comes from
\* material issued after the last revocation of the agent's sessions, unless the
\* put of a stale record took the session revision back.
THEOREM StaleSessionsAreRefused == AgentSpec => []StaleSessionsRefused
  <1>1. AgentInv => StaleSessionsRefused
    <2> SUFFICES ASSUME AgentInv, NEW s \in Sessions, Accepted(s),
                        session[s].agent \notin restored
                 PROVE  session[s].epoch = revocations[session[s].agent]
      BY DEF StaleSessionsRefused
    <2>1. PICK a : a = session[s].agent
      OBVIOUS
    <2>2. a \in Agents /\ session[s].revision = 1 + session[s].epoch
      BY <2>1 DEF AgentInv, MaterialPlaced, Current, Accepted
    <2>3. agent[a].session = 1 + revocations[a]
      BY <2>1, <2>2 DEF AgentInv, RevocationsCounted, Accepted, IsActive
    <2>4. session[s].epoch \in Nat /\ revocations[a] \in Nat
      BY <2>2 DEF AgentInv, AgentTypeOK
    <2>5. session[s].revision = agent[a].session
      BY <2>1 DEF Accepted
    <2>6. 1 + session[s].epoch = 1 + revocations[a]
      BY <2>2, <2>3, <2>5
    <2>7. session[s].epoch = revocations[a]
      BY <2>4, <2>6
    <2> QED BY <2>1, <2>7
  <1> QED BY <1>1, AgentInvariant, PTL

\* An agent is quarantined exactly while one contained case owns its containment
\* (_contain_case, _release_case).
THEOREM QuarantineIsOwned == AgentSpec => []QuarantineOwned
  <1>1. AgentInv => QuarantineOwned
    BY DEF AgentInv
  <1> QED BY <1>1, AgentInvariant, PTL

\* A step that puts back a record finds its agent active.
LEMMA PutsFindActive ==
    ASSUME AgentInv, AgentNext, NEW a \in Agents,
           agent[a].state \in {"revoked", "deleted"}
    PROVE  \/ agent'[a] = agent[a]
           \/ agent[a].state = "revoked" /\ agent'[a].state = "deleted"
  <1>1. agent \in [Agents -> AgentRecords]
    BY DEF AgentInv, AgentTypeOK
  <1>2. CASE LifecycleStep
    <2>1. ASSUME NEW b \in Agents, Register(b) PROVE agent'[a] = agent[a]
      BY <2>1, <1>1 DEF Register
    <2>2. ASSUME NEW b \in Agents, Revoke(b) PROVE agent'[a] = agent[a]
      BY <2>2, <1>1 DEF Revoke, IsActive
    <2>3. ASSUME NEW b \in Agents, NEW c \in Agents, Replace(b, c) PROVE agent'[a] = agent[a]
      BY <2>3, <1>1 DEF Replace, IsActive
    <2>4. ASSUME NEW b \in Agents, Offboard(b)
          PROVE  \/ agent'[a] = agent[a]
                 \/ agent[a].state = "revoked" /\ agent'[a].state = "deleted"
      <3>1. CASE b # a
        BY <2>4, <3>1, <1>1 DEF Offboard
      <3>2. CASE b = a
        <4>1. agent[a] \in AgentRecords
          BY <1>1
        <4> QED BY <2>4, <3>2, <4>1, <1>1 DEF Offboard, AgentRecords
      <3> QED BY <3>1, <3>2
    <2> QED BY <1>2, <2>1, <2>2, <2>3, <2>4 DEF LifecycleStep
  <1>3. ASSUME NEW w \in Workers, NEW record, PutBack(w, record),
               agent[work[w].agent].state = "active"
        PROVE  agent'[a] = agent[a]
    BY <1>1, <1>3 DEF PutBack
  <1>4. CASE PutBackStep
    BY <1>3, <1>4 DEF PutBackStep, BeginOwnership, BeginClearStop, ReadAgent,
                      PutOwnership, PutClearStop
  <1>5. CASE SessionStep
    <2>1. ASSUME NEW w \in Workers, PutHeartbeat(w) PROVE agent'[a] = agent[a]
      BY <1>3, <2>1 DEF PutHeartbeat
    <2> QED BY <1>5, <2>1
            DEF SessionStep, BeginIssue, ReadAgent, PutToken, BeginEnroll, CheckQuarantine,
                ReadEnrolled, Consume, PutSession, BeginHeartbeat, Renew, ReadHeartbeat,
                DeleteRenewed, ExpireToken, ExpireSession
  <1>6. CASE CaseStep
    BY <1>6 DEF CaseStep, CreateCase, Contain, Quarantine, Resolve, Close, BeginRelease, CommitRelease
  <1>7. CASE RevokeSessionsStep
    <2>1. ASSUME NEW w \in Workers, PutRevokedSessions(w) PROVE agent'[a] = agent[a]
      BY <1>3, <2>1 DEF PutRevokedSessions, IsActive
    <2> QED BY <1>7, <2>1 DEF RevokeSessionsStep, BeginRevokeSessions
  <1>8. CASE \E w \in Workers : EndWork(w)
    BY <1>8 DEF EndWork
  <1> QED BY <1>2, <1>4, <1>5, <1>6, <1>7, <1>8 DEF AgentNext

\* No put of a record read before makes a revoked or deleted agent active again,
\* or a deleted one revoked (_agent_lifecycle_condition and the other conditions).
THEOREM RevocationIsFinal == AgentSpec => RevokedIsFinal
  <1>1. AgentInv /\ [AgentNext]_agents =>
          [\A a \in Agents :
            /\ agent[a].state = "revoked" => agent'[a].state \in {"revoked", "deleted"}
            /\ agent[a].state = "deleted" => agent'[a].state = "deleted"]_agents
    BY PutsFindActive
  <1> QED BY <1>1, AgentInvariant, PTL DEF AgentSpec, RevokedIsFinal

(***************************************************************************)
(*                           AUTOMATIC RESPONSE                            *)
(***************************************************************************)
(***************************************************************************)
(* A rule and its versions.                                                *)
(***************************************************************************)
RuleRecords == [active : RuleVersions \cup {0}, latest : Nat, enabled : BOOLEAN]

RuleStates == {"absent", "draft", "review", "approved", "rejected", "active", "superseded"}

RuleVersionRecords ==
    [state : RuleStates, base : RuleVersions \cup {0}, author : Reviewers \cup {Nobody},
     decider : Reviewers \cup {Nobody}]

GovernorRecords ==
    [at : {"idle", "list", "draft", "disable", "rollback"}, seen : RuleRecords]

RuleTypeOK ==
    /\ rule \in RuleRecords
    /\ ruleVersion \in [RuleVersions -> RuleVersionRecords]
    /\ governor \in [Governors -> GovernorRecords]
    /\ silenced \in BOOLEAN
    /\ reenabled \in BOOLEAN

\* The versions up to a rule's latest are there; the latest may have gone back.
Numbered(r) == \A v \in RuleVersions : v <= r.latest => ruleVersion[v].state # "absent"

\* What a request k has read of the rule.  Its draft is listed before any that is
\* pending now was made.
GovernorKnows(k) ==
    k.at # "idle" =>
        /\ k.seen.latest >= 1
        /\ Numbered(k.seen)
        /\ k.seen.enabled => k.seen.active # 0
        /\ k.at = "draft" =>
              \A v \in InState({"draft", "review", "approved"}) : k.seen.latest < v

VersionsInOrder ==
    /\ \A v, w \in RuleVersions :
          v <= w /\ ruleVersion[w].state # "absent" => ruleVersion[v].state # "absent"
    /\ Numbered(rule)
    /\ IF rule = NoRule THEN InState({"absent"}) = RuleVersions ELSE rule.latest >= 1

RuleInv ==
    /\ RuleTypeOK
    /\ VersionsInOrder
    /\ \A g \in Governors : GovernorKnows(governor[g])
    /\ RuleGoverned

(***************************************************************************)
(* Evaluations, their reservations and their cases.                        *)
(***************************************************************************)
AlertRecords ==
    [occurrence : 0 .. MaxOccurrences, open : BOOLEAN, cased : BOOLEAN, delivered : BOOLEAN]

EvaluationRecords ==
    [at : {"idle", "alerts", "match", "lease", "limits", "ledger", "reserve", "case", "contain",
           "skipped", "contained"},
     version : RuleVersions \cup {0}, case : Cases \cup {Nothing}, alert : AlertRecords,
     seen : Nat \X Nat, stale : BOOLEAN, revision : 0 .. MaxRevision + 2]

ResponseTypeOK ==
    /\ alert \in [Cases -> AlertRecords]
    /\ owner \in [Cases -> RuleVersions \cup {0, Responder}]
    /\ activator \in [Cases -> RuleVersions \cup {0, Responder}]
    /\ hourly \in [revision : Nat, used : Nat]
    /\ cooldown \in [Agents -> [revision : Nat, running : BOOLEAN]]
    /\ lease \in SUBSET Triggers
    /\ execution \in [Triggers -> {"none", "skipped", "contained"}]
    /\ evaluation \in [Evaluations -> EvaluationRecords]
    /\ reserved \in SUBSET Triggers
    /\ overtaken \in BOOLEAN

\* The versions that were activated once.
Activated == InState({"active", "superseded"})

ReservedFor(v, c) == \E t \in reserved : t[1] = v /\ t[2] = c

\* An open alert has occurred, and who owns or contains a case has one.
CasesKnown ==
    \A c \in Cases :
        /\ alert[c].open => alert[c].occurrence # 0
        /\ owner[c] # 0 \/ activator[c] # 0 => incident[c].status # "absent"
        /\ activator[c] \in RuleVersions =>
              /\ owner[c] = activator[c]
              /\ ReservedFor(activator[c], c)
              /\ activator[c] \in Activated

ReservationsKept ==
    /\ lease \subseteq reserved
    /\ \A t \in Triggers : execution[t] = "contained" => t \in reserved /\ activator[t[2]] # 0
    /\ overtaken \/ hourly.used <= MaxActions

Trigger(k) == <<k.version, k.case, k.alert.occurrence>>

\* What an evaluation k goes by.
Justified(k) ==
    /\ k.at # "idle" => k.version \in Activated
    /\ k.at \notin {"idle", "alerts"} => k.case \in Cases /\ k.alert.occurrence # 0
    /\ k.at \in {"case", "contain", "contained"} => Trigger(k) \in reserved
    /\ k.at = "contain" => owner[k.case] = k.version
    /\ k.at = "contained" => activator[k.case] # 0

\* The limit it checked is that of the ledger it will reserve against.
WithinLimit(k) ==
    k.at \in {"ledger", "reserve"} =>
        /\ k.seen[1] <= hourly.revision
        /\ k.seen[1] = hourly.revision /\ (k.at = "reserve" => ~ k.stale) =>
              hourly.used < MaxActions

ResponseInv ==
    /\ ResponseTypeOK
    /\ CasesKnown
    /\ ReservationsKept
    /\ \A e \in Evaluations : Justified(evaluation[e]) /\ WithinLimit(evaluation[e])

-----------------------------------------------------------------------------
(* The governance of a rule *)

\* A version's number is taken once, and what is pending was a draft first.
VersionsOnward ==
    \A v \in RuleVersions :
        /\ ruleVersion[v].state # "absent" => ruleVersion'[v].state # "absent"
        /\ ruleVersion'[v].state \in {"draft", "review", "approved"} =>
              ruleVersion[v].state \in {"absent", "draft", "review", "approved"}
        /\ ruleVersion[v].state \in {"active", "superseded"} =>
              ruleVersion'[v].state \in {"active", "superseded"}

LEMMA RuleFacts ==
    /\ NoRule \in RuleRecords /\ NoRule.latest = 0 /\ NoRule.active = 0 /\ ~ NoRule.enabled
    /\ NoRuleVersion \in RuleVersionRecords /\ NoRuleVersion.state = "absent"
    /\ NoGovernor \in GovernorRecords /\ NoGovernor.at = "idle"
    /\ \A u \in Reviewers : \A b \in RuleVersions \cup {0} :
          Drafted(u, b) \in RuleVersionRecords /\ Drafted(u, b).state = "draft"
    /\ RuleVersions \subseteq Nat \ {0}
  <1>1. NoRule \in RuleRecords /\ NoRule.latest = 0 /\ NoRule.active = 0 /\ ~ NoRule.enabled
    BY DEF NoRule, RuleRecords
  <1>2. NoRuleVersion \in RuleVersionRecords /\ NoRuleVersion.state = "absent"
    BY DEF NoRuleVersion, RuleVersionRecords, RuleStates
  <1>3. NoGovernor \in GovernorRecords /\ NoGovernor.at = "idle"
    BY <1>1 DEF NoGovernor, GovernorRecords
  <1>4. ASSUME NEW u \in Reviewers, NEW b \in RuleVersions \cup {0}
        PROVE  Drafted(u, b) \in RuleVersionRecords /\ Drafted(u, b).state = "draft"
    <2>1. PICK n : n = NoRuleVersion
      OBVIOUS
    <2>2. n \in RuleVersionRecords /\ "draft" \in RuleStates
      BY <1>2, <2>1 DEF RuleStates
    <2>3. Drafted(u, b) = [n EXCEPT !.state = "draft", !.base = b, !.author = u]
      BY <2>1 DEF Drafted
    <2> QED BY <2>2, <2>3 DEF RuleVersionRecords
  <1>5. RuleVersions \subseteq Nat \ {0}
    BY RuleAssumption DEF RuleVersions
  <1> QED BY <1>1, <1>2, <1>3, <1>4, <1>5

LEMMA RuleBegins == RuleInit => RuleInv
  <1> SUFFICES ASSUME RuleInit PROVE RuleInv
    OBVIOUS
  <1>1. /\ rule = NoRule /\ silenced = FALSE /\ reenabled = FALSE
        /\ ruleVersion \in [RuleVersions -> RuleVersionRecords]
        /\ governor \in [Governors -> GovernorRecords]
    BY RuleFacts DEF RuleInit
  <1>2. RuleTypeOK
    BY <1>1, RuleFacts DEF RuleTypeOK
  <1>3. /\ \A v \in RuleVersions : ruleVersion[v].state = "absent"
        /\ \A g \in Governors : governor[g].at = "idle"
    BY RuleFacts DEF RuleInit
  <1>4. VersionsInOrder
    <2>1. InState({"absent"}) = RuleVersions
      BY <1>3 DEF InState
    <2>2. Numbered(rule)
      BY <1>1, RuleFacts DEF Numbered
    <2> QED BY <1>1, <1>3, <2>1, <2>2 DEF VersionsInOrder
  <1>5. \A g \in Governors : GovernorKnows(governor[g])
    BY <1>3 DEF GovernorKnows
  <1>6. RuleGoverned
    BY <1>1, <1>3, RuleFacts DEF RuleGoverned, InState
  <1> QED BY <1>2, <1>4, <1>5, <1>6 DEF RuleInv

LEMMA GovernorOnward ==
    ASSUME RuleInv, VersionsOnward, NEW k \in GovernorRecords, GovernorKnows(k)
    PROVE  GovernorKnows(k)'
  <1> SUFFICES ASSUME k.at # "idle"
               PROVE  /\ Numbered(k.seen)'
                      /\ k.at = "draft" =>
                            \A v \in InState({"draft", "review", "approved"})' : k.seen.latest < v
    BY DEF GovernorKnows
  <1>1. k.seen.latest \in Nat /\ Numbered(k.seen)
    BY DEF GovernorKnows, GovernorRecords, RuleRecords
  <1>2. Numbered(k.seen)'
    BY <1>1 DEF Numbered, VersionsOnward
  <1>3. ASSUME k.at = "draft", NEW v \in InState({"draft", "review", "approved"})'
        PROVE  k.seen.latest < v
    <2>1. v \in RuleVersions /\ v \in Nat
      BY RuleFacts DEF InState
    <2>2. ruleVersion[v].state \in {"absent", "draft", "review", "approved"}
      BY <2>1 DEF InState, VersionsOnward
    <2>3. CASE ruleVersion[v].state = "absent"
      BY <1>1, <2>1, <2>3 DEF Numbered
    <2>4. CASE ruleVersion[v].state # "absent"
      BY <1>3, <2>1, <2>2, <2>4 DEF GovernorKnows, InState
    <2> QED BY <2>3, <2>4
  <1> QED BY <1>2, <1>3

\* A step of the governance, from what it does with the rule and its versions.
LEMMA RuleMoves ==
    ASSUME RuleInv, VersionsOnward, rule' \in RuleRecords,
           ruleVersion' \in [RuleVersions -> RuleVersionRecords],
           silenced' \in BOOLEAN, reenabled' \in BOOLEAN,
           VersionsInOrder', RuleGoverned',
           \/ UNCHANGED governor
           \/ \E g \in Governors : \E k \in GovernorRecords :
                 governor' = [governor EXCEPT ![g] = k] /\ GovernorKnows(k)'
    PROVE  RuleInv'
  <1>1. governor \in [Governors -> GovernorRecords]
    BY DEF RuleInv, RuleTypeOK
  <1>2. ASSUME NEW g \in Governors
        PROVE  governor'[g] \in GovernorRecords /\ GovernorKnows(governor[g])'
    <2>1. CASE governor'[g] = governor[g]
      <3>1. PICK k : k = governor[g]
        OBVIOUS
      <3>2. k \in GovernorRecords /\ GovernorKnows(k)
        BY <1>1, <3>1 DEF RuleInv
      <3>3. GovernorKnows(k)'
        BY <3>2, GovernorOnward
      <3> QED BY <2>1, <3>1, <3>2, <3>3 DEF GovernorKnows
    <2>2. CASE \E k \in GovernorRecords : governor'[g] = k /\ GovernorKnows(k)'
      BY <2>2 DEF GovernorKnows
    <2> QED BY <1>1, <2>1, <2>2
  <1>3. governor' \in [Governors -> GovernorRecords]
    BY <1>1, <1>2
  <1> QED BY <1>2, <1>3 DEF RuleInv, RuleTypeOK

LEMMA AdjournKnows == GovernorKnows(NoGovernor)' /\ NoGovernor \in GovernorRecords
  BY RuleFacts DEF GovernorKnows

\* A step that makes no version and takes the rule's numbers from one that was read.
LEMMA OrderStays ==
    ASSUME RuleInv, \A v \in RuleVersions :
               ruleVersion'[v].state = "absent" <=> ruleVersion[v].state = "absent",
           rule' = rule \/ (rule'.latest \in Nat /\ rule'.latest >= 1 /\ Numbered(rule'))
    PROVE  VersionsInOrder'
  <1>1. \A v, w \in RuleVersions :
           v <= w /\ ruleVersion'[w].state # "absent" => ruleVersion'[v].state # "absent"
    BY DEF RuleInv, VersionsInOrder
  <1>2. CASE rule' = rule
    <2>1. Numbered(rule)'
      BY <1>2 DEF RuleInv, VersionsInOrder, Numbered
    <2>2. InState({"absent"})' = InState({"absent"})
      BY DEF InState
    <2> QED BY <1>1, <1>2, <2>1, <2>2 DEF RuleInv, VersionsInOrder
  <1>3. CASE rule'.latest \in Nat /\ rule'.latest >= 1 /\ Numbered(rule')
    <2>1. Numbered(rule)'
      BY <1>3 DEF Numbered
    <2>2. rule' # NoRule
      BY <1>3, RuleFacts
    <2> QED BY <1>1, <1>3, <2>1, <2>2 DEF VersionsInOrder
  <1> QED BY <1>2, <1>3

\* What a request reads of a rule that is there.
LEMMA ReadRuleKeeps ==
    ASSUME RuleInv, NEW g \in Governors, NEW at \in {"list", "disable", "rollback"},
           ReadRule(g, at)
    PROVE  RuleInv' /\ VersionsOnward
  <1>1. PICK k : k = [at |-> at, seen |-> rule]
    OBVIOUS
  <1>2. /\ governor' = [governor EXCEPT ![g] = k] /\ rule # NoRule
        /\ UNCHANGED <<rule, ruleVersion, silenced, reenabled>>
    BY <1>1 DEF ReadRule
  <1>3. k \in GovernorRecords /\ k.at = at /\ k.seen = rule
    BY <1>1 DEF RuleInv, RuleTypeOK, GovernorRecords
  <1>4. GovernorKnows(k)
    BY <1>2, <1>3 DEF RuleInv, VersionsInOrder, RuleGoverned, GovernorKnows
  <1>5. VersionsOnward
    BY <1>2 DEF VersionsOnward
  <1>6. GovernorKnows(k)'
    BY <1>3, <1>4, <1>5, GovernorOnward
  <1>7. RuleGoverned'
    BY <1>2 DEF RuleInv, RuleGoverned, InState
  <1>8. VersionsInOrder'
    BY <1>2, OrderStays
  <1> QED BY <1>2, <1>3, <1>5, <1>6, <1>7, <1>8, RuleMoves DEF RuleInv, RuleTypeOK

LEMMA ListRuleVersionsKeeps ==
    ASSUME RuleInv, NEW g \in Governors, ListRuleVersions(g)
    PROVE  RuleInv' /\ VersionsOnward
  <1>1. PICK old : old = governor[g]
    OBVIOUS
  <1>2. PICK k : k = [old EXCEPT !.at = "draft"]
    OBVIOUS
  <1>3. old \in GovernorRecords /\ GovernorKnows(old) /\ governor \in [Governors -> GovernorRecords]
    BY <1>1 DEF RuleInv, RuleTypeOK
  <1>4. k \in GovernorRecords /\ k.at = "draft" /\ k.seen = old.seen
    BY <1>2, <1>3 DEF GovernorRecords
  <1>5. /\ governor' = [governor EXCEPT ![g] = k] /\ old.at = "list"
        /\ InState({"draft", "review", "approved"}) = {}
        /\ UNCHANGED <<rule, ruleVersion, silenced, reenabled>>
    BY <1>1, <1>2 DEF ListRuleVersions
  <1>6. GovernorKnows(k)
    BY <1>3, <1>4, <1>5 DEF GovernorKnows
  <1>7. VersionsOnward
    BY <1>5 DEF VersionsOnward
  <1>8. GovernorKnows(k)'
    BY <1>4, <1>6, <1>7, GovernorOnward
  <1>9. RuleGoverned'
    BY <1>5 DEF RuleInv, RuleGoverned, InState
  <1>10. VersionsInOrder'
    BY <1>5, OrderStays
  <1> QED BY <1>4, <1>5, <1>7, <1>8, <1>9, <1>10, RuleMoves DEF RuleInv, RuleTypeOK

LEMMA EndGovernorKeeps ==
    ASSUME RuleInv, NEW g \in Governors, EndGovernor(g)
    PROVE  RuleInv' /\ VersionsOnward
  <1>1. /\ governor' = [governor EXCEPT ![g] = NoGovernor]
        /\ UNCHANGED <<rule, ruleVersion, silenced, reenabled>>
    BY DEF EndGovernor, Adjourn
  <1>2. VersionsOnward
    BY <1>1 DEF VersionsOnward
  <1>3. RuleGoverned'
    BY <1>1 DEF RuleInv, RuleGoverned, InState
  <1>4. VersionsInOrder'
    BY <1>1, OrderStays
  <1> QED BY <1>1, <1>2, <1>3, <1>4, AdjournKnows, RuleMoves DEF RuleInv, RuleTypeOK

\* A draft takes the next number, which nobody has taken.
LEMMA DraftPlaced ==
    ASSUME RuleInv, NEW v \in RuleVersions, NEW x \in RuleVersionRecords,
           NEW r \in RuleRecords, r.latest = v - 1, Numbered(r), x.state = "draft",
           ruleVersion[v].state = "absent",
           InState({"draft", "review", "approved"}) = {},
           ruleVersion' = [ruleVersion EXCEPT ![v] = x],
           rule' \in RuleRecords, rule'.latest = v, rule'.active = rule.active,
           rule'.enabled => rule'.active # 0 /\ (silenced => reenabled'),
           silenced' = silenced
    PROVE  VersionsInOrder' /\ RuleGoverned' /\ VersionsOnward
  <1>1. /\ \A w \in RuleVersions : ruleVersion'[w] = IF w = v THEN x ELSE ruleVersion[w]
        /\ ruleVersion' \in [RuleVersions -> RuleVersionRecords]
    BY DEF RuleInv, RuleTypeOK
  <1>2. \A w \in RuleVersions : w < v => ruleVersion[w].state # "absent"
    BY RuleFacts DEF Numbered
  <1>3. VersionsOnward
    BY <1>1 DEF VersionsOnward
  <1>4. VersionsInOrder'
    <2>1. Numbered(rule)'
      BY <1>1, <1>2, RuleFacts DEF Numbered
    <2>2. ASSUME NEW u \in RuleVersions, NEW w \in RuleVersions, u <= w,
                 ruleVersion'[w].state # "absent"
          PROVE  ruleVersion'[u].state # "absent"
      <3>1. CASE w = v
        BY <1>1, <1>2, <2>2, <3>1, RuleFacts
      <3>2. CASE w # v
        BY <1>1, <2>2, <3>2 DEF RuleInv, VersionsInOrder
      <3> QED BY <3>1, <3>2
    <2>3. rule' # NoRule /\ rule'.latest >= 1
      BY RuleFacts
    <2> QED BY <2>1, <2>2, <2>3 DEF VersionsInOrder
  <1>5. RuleGoverned'
    <2>1. InState({"active"})' = {rule'.active} \ {0}
      <3>1. InState({"active"})' = InState({"active"})
        BY <1>1 DEF InState
      <3> QED BY <3>1 DEF RuleInv, RuleGoverned
    <2>2. \A w \in InState({"active", "superseded"})' :
             ruleVersion'[w].decider \notin {Nobody, ruleVersion'[w].author}
      BY <1>1 DEF RuleInv, RuleGoverned, InState
    <2>3. \A u, w \in InState({"draft", "review", "approved"})' : u = w
      <3>1. \A u \in InState({"draft", "review", "approved"})' : u = v
        BY <1>1 DEF InState
      <3> QED BY <3>1
    <2> QED BY <2>1, <2>2, <2>3 DEF RuleGoverned
  <1> QED BY <1>3, <1>4, <1>5

LEMMA CreateRuleKeeps ==
    ASSUME RuleInv, NEW u \in Reviewers, CreateRule(u)
    PROVE  RuleInv' /\ VersionsOnward
  <1>1. PICK n, x : n = NoRule /\ x = Drafted(u, 0)
    OBVIOUS
  <1>2. /\ rule = NoRule /\ rule' = [n EXCEPT !.latest = 1]
        /\ ruleVersion' = [ruleVersion EXCEPT ![1] = x]
        /\ UNCHANGED <<governor, silenced, reenabled>>
    BY <1>1 DEF CreateRule
  <1>3. /\ n \in RuleRecords /\ n.latest = 0 /\ n.active = 0 /\ ~ n.enabled
        /\ x \in RuleVersionRecords /\ x.state = "draft"
    BY <1>1, RuleFacts
  <1>4. /\ rule' \in RuleRecords /\ rule'.latest = 1 /\ rule'.active = 0 /\ ~ rule'.enabled
        /\ rule.active = 0
    BY <1>1, <1>2, <1>3 DEF RuleRecords
  <1>5. \A v \in RuleVersions : ruleVersion[v].state = "absent"
    BY <1>2 DEF RuleInv, VersionsInOrder, InState
  <1>6. VersionsInOrder' /\ RuleGoverned' /\ VersionsOnward
    <2>1. CASE 1 \in RuleVersions
      <3>1. Numbered(n) /\ n.latest = 1 - 1
        BY <1>3, RuleFacts DEF Numbered
      <3>2. InState({"draft", "review", "approved"}) = {}
        BY <1>5 DEF InState
      <3> QED BY <1>2, <1>3, <1>4, <1>5, <2>1, <3>1, <3>2, DraftPlaced
    <2>2. CASE 1 \notin RuleVersions
      <3>1. RuleVersions = {}
        BY <2>2, RuleAssumption DEF RuleVersions
      <3> QED BY <1>3, <1>4, <3>1, RuleFacts
              DEF VersionsInOrder, RuleGoverned, VersionsOnward, Numbered, InState
    <2> QED BY <2>1, <2>2
  <1>7. ruleVersion' \in [RuleVersions -> RuleVersionRecords]
    BY <1>2, <1>3 DEF RuleInv, RuleTypeOK
  <1> QED BY <1>2, <1>4, <1>6, <1>7, RuleMoves DEF RuleInv, RuleTypeOK

LEMMA CommitRuleDraftKeeps ==
    ASSUME RuleInv, NEW g \in Governors, NEW u \in Reviewers, CommitRuleDraft(g, u)
    PROVE  RuleInv' /\ VersionsOnward
  <1>1. PICK k, seen, v, x : /\ k = governor[g] /\ seen = k.seen /\ v = seen.latest + 1
                             /\ x = Drafted(u, seen.active)
    OBVIOUS
  <1>2. /\ k.at = "draft" /\ v \in InState({"absent"})
        /\ rule.latest = seen.latest /\ rule.active = seen.active
        /\ rule' = [seen EXCEPT !.latest = v]
        /\ ruleVersion' = [ruleVersion EXCEPT ![v] = x]
        /\ reenabled' = (reenabled \/ (seen.enabled /\ ~ rule.enabled))
        /\ governor' = [governor EXCEPT ![g] = NoGovernor]
        /\ UNCHANGED silenced
    BY <1>1 DEF CommitRuleDraft, Adjourn
  <1>3. k \in GovernorRecords /\ GovernorKnows(k) /\ seen \in RuleRecords
    BY <1>1 DEF RuleInv, RuleTypeOK, GovernorRecords
  <1>4. /\ Numbered(seen) /\ seen.latest \in Nat /\ (seen.enabled => seen.active # 0)
        /\ \A w \in InState({"draft", "review", "approved"}) : seen.latest < w
    BY <1>1, <1>2, <1>3 DEF GovernorKnows, RuleRecords
  <1>5. v \in RuleVersions /\ ruleVersion[v].state = "absent" /\ seen.latest = v - 1
    BY <1>1, <1>2, <1>4 DEF InState
  <1>6. x \in RuleVersionRecords /\ x.state = "draft"
    BY <1>1, <1>3, RuleFacts DEF RuleRecords
  <1>7. /\ rule' \in RuleRecords /\ rule'.latest = v /\ rule'.active = rule.active
        /\ rule'.enabled = seen.enabled
    BY <1>2, <1>3, <1>4, <1>1 DEF RuleRecords
  <1>8. InState({"draft", "review", "approved"}) = {}
    <2> SUFFICES ASSUME NEW w \in InState({"draft", "review", "approved"})
                 PROVE  FALSE
      OBVIOUS
    <2>1. w \in RuleVersions /\ w \in Nat /\ ruleVersion[w].state # "absent" /\ v <= w
      BY <1>1, <1>4, RuleFacts DEF InState
    <2> QED BY <1>5, <2>1 DEF RuleInv, VersionsInOrder
  <1>9. rule'.enabled => rule'.active # 0 /\ (silenced => reenabled')
    BY <1>2, <1>4, <1>7 DEF RuleInv, RuleGoverned
  <1>10. VersionsInOrder' /\ RuleGoverned' /\ VersionsOnward
    BY <1>2, <1>3, <1>4, <1>5, <1>6, <1>7, <1>8, <1>9, DraftPlaced
  <1>11. ruleVersion' \in [RuleVersions -> RuleVersionRecords] /\ reenabled' \in BOOLEAN
    BY <1>2, <1>3, <1>6 DEF RuleInv, RuleTypeOK, RuleRecords
  <1> QED BY <1>2, <1>7, <1>10, <1>11, AdjournKnows, RuleMoves DEF RuleInv, RuleTypeOK

\* A version that is pending changes, and stays pending or is rejected.
LEMMA PendingMoves ==
    ASSUME RuleInv, NEW v \in InState({"draft", "review"}), NEW x \in RuleVersionRecords,
           x.state \in {"review", "approved", "rejected"},
           ruleVersion' = [ruleVersion EXCEPT ![v] = x],
           UNCHANGED <<rule, governor, silenced, reenabled>>
    PROVE  RuleInv' /\ VersionsOnward
  <1>1. /\ v \in RuleVersions /\ ruleVersion[v].state \in {"draft", "review"}
        /\ \A w \in RuleVersions : ruleVersion'[w] = IF w = v THEN x ELSE ruleVersion[w]
        /\ ruleVersion' \in [RuleVersions -> RuleVersionRecords]
    BY DEF RuleInv, RuleTypeOK, InState
  <1>2. VersionsOnward
    BY <1>1 DEF VersionsOnward
  <1>3. VersionsInOrder'
    BY <1>1, OrderStays
  <1>4. RuleGoverned'
    <2>1. InState({"active"})' = InState({"active"})
      BY <1>1 DEF InState
    <2>2. \A w \in InState({"active", "superseded"})' :
             ruleVersion'[w].decider \notin {Nobody, ruleVersion'[w].author}
      BY <1>1 DEF RuleInv, RuleGoverned, InState
    <2>3. InState({"draft", "review", "approved"})' \subseteq InState({"draft", "review", "approved"})
      BY <1>1 DEF InState
    <2> QED BY <2>1, <2>2, <2>3 DEF RuleInv, RuleGoverned
  <1> QED BY <1>1, <1>2, <1>3, <1>4, RuleMoves DEF RuleInv, RuleTypeOK

LEMMA SubmitRuleKeeps ==
    ASSUME RuleInv, NEW v \in RuleVersions, SubmitRule(v)
    PROVE  RuleInv' /\ VersionsOnward
  <1>1. PICK old, x : old = ruleVersion[v] /\ x = [old EXCEPT !.state = "review"]
    OBVIOUS
  <1>2. /\ v \in InState({"draft"}) /\ ruleVersion' = [ruleVersion EXCEPT ![v] = x]
        /\ UNCHANGED <<rule, governor, silenced, reenabled>>
    BY <1>1 DEF SubmitRule
  <1>3. x \in RuleVersionRecords /\ x.state = "review"
    <2>1. old \in RuleVersionRecords
      BY <1>1 DEF RuleInv, RuleTypeOK
    <2> QED BY <1>1, <2>1 DEF RuleVersionRecords, RuleStates
  <1>4. v \in InState({"draft", "review"})
    BY <1>2 DEF InState
  <1> QED BY <1>2, <1>3, <1>4, PendingMoves

LEMMA DecideRuleKeeps ==
    ASSUME RuleInv, NEW v \in RuleVersions, NEW u \in Reviewers, DecideRule(v, u)
    PROVE  RuleInv' /\ VersionsOnward
  <1>1. PICK old, x, z : /\ old = ruleVersion[v]
                         /\ x = [old EXCEPT !.state = "approved", !.decider = u]
                         /\ z = [old EXCEPT !.state = "rejected", !.decider = u]
    OBVIOUS
  <1>2. /\ x \in RuleVersionRecords /\ x.state = "approved"
        /\ z \in RuleVersionRecords /\ z.state = "rejected"
        /\ ruleVersion \in [RuleVersions -> RuleVersionRecords]
    <2>1. old \in RuleVersionRecords /\ ruleVersion \in [RuleVersions -> RuleVersionRecords]
      BY <1>1 DEF RuleInv, RuleTypeOK
    <2> QED BY <1>1, <2>1 DEF RuleVersionRecords, RuleStates
  <1>3. v \in InState({"draft", "review"}) /\ UNCHANGED <<rule, governor, silenced, reenabled>>
    BY DEF DecideRule, InState
  <1>4. \/ ruleVersion' = [ruleVersion EXCEPT ![v] = x]
        \/ ruleVersion' = [ruleVersion EXCEPT ![v] = z]
    <2>1. CASE ruleVersion' = [ruleVersion EXCEPT ![v].state = "approved", ![v].decider = u]
      BY <1>1, <1>2, <2>1
    <2>2. CASE ruleVersion' = [ruleVersion EXCEPT ![v].state = "rejected", ![v].decider = u]
      BY <1>1, <1>2, <2>2
    <2> QED BY <2>1, <2>2 DEF DecideRule
  <1> QED BY <1>2, <1>3, <1>4, PendingMoves

\* The active version is superseded, if there is one, and another one active.
LEMMA ActiveMoves ==
    ASSUME RuleInv, NEW v \in RuleVersions,
           ruleVersion[v].state \in {"approved", "superseded"},
           ruleVersion[v].decider \notin {Nobody, ruleVersion[v].author},
           ruleVersion' \in [RuleVersions -> RuleVersionRecords],
           \A w \in RuleVersions :
              /\ ruleVersion'[w].decider = ruleVersion[w].decider
              /\ ruleVersion'[w].author = ruleVersion[w].author
              /\ ruleVersion'[w].state = IF w = v THEN "active"
                                         ELSE IF w = rule.active THEN "superseded"
                                         ELSE ruleVersion[w].state,
           rule' \in RuleRecords, rule'.active = v, rule'.latest >= 1, Numbered(rule'),
           rule'.enabled /\ silenced' => reenabled',
           silenced' \in BOOLEAN, UNCHANGED reenabled,
           \/ UNCHANGED governor
           \/ \E g \in Governors : governor' = [governor EXCEPT ![g] = NoGovernor]
    PROVE  RuleInv' /\ VersionsOnward
  <1>1. rule.active # 0 => rule.active \in RuleVersions /\ ruleVersion[rule.active].state = "active"
    BY DEF RuleInv, RuleGoverned, InState
  <1>2. \A w \in RuleVersions : ruleVersion[w].state = "active" => w = rule.active
    BY DEF RuleInv, RuleGoverned, InState
  <1>3. VersionsOnward
    BY <1>1, RuleFacts DEF VersionsOnward
  <1>4. VersionsInOrder'
    <2>1. \A w \in RuleVersions :
             ruleVersion'[w].state = "absent" <=> ruleVersion[w].state = "absent"
      BY <1>1, RuleFacts
    <2>2. rule'.latest \in Nat
      BY DEF RuleRecords
    <2> QED BY <2>1, <2>2, OrderStays
  <1>5. RuleGoverned'
    <2>1. InState({"active"})' = {v}
      BY <1>2 DEF InState
    <2>2. v # 0
      BY RuleFacts
    <2>3. \A w \in InState({"active", "superseded"})' :
             ruleVersion'[w].decider \notin {Nobody, ruleVersion'[w].author}
      BY <1>1, RuleFacts DEF RuleInv, RuleGoverned, InState
    <2>4. InState({"draft", "review", "approved"})' \subseteq InState({"draft", "review", "approved"})
      BY <1>3 DEF InState
    <2> QED BY <2>1, <2>2, <2>3, <2>4 DEF RuleInv, RuleGoverned
  <1> QED BY <1>3, <1>4, <1>5, AdjournKnows, RuleMoves DEF RuleInv, RuleTypeOK

LEMMA ActivateRuleKeeps ==
    ASSUME RuleInv, NEW v \in RuleVersions, ActivateRule(v)
    PROVE  RuleInv' /\ VersionsOnward
  <1>1. /\ ruleVersion[v].state = "approved"
        /\ ruleVersion[v].decider \notin {Nobody, ruleVersion[v].author}
        /\ rule' = [rule EXCEPT !.active = v, !.enabled = TRUE]
        /\ silenced' = FALSE /\ UNCHANGED <<governor, reenabled>>
    BY DEF ActivateRule, InState
  <1>2. ruleVersion' = [w \in RuleVersions |->
          IF w = v THEN [ruleVersion[w] EXCEPT !.state = "active"]
          ELSE IF w = rule.active THEN [ruleVersion[w] EXCEPT !.state = "superseded"]
          ELSE ruleVersion[w]]
    BY DEF ActivateRule
  <1>3. \A w \in RuleVersions :
           /\ ruleVersion'[w] \in RuleVersionRecords
           /\ ruleVersion'[w].decider = ruleVersion[w].decider
           /\ ruleVersion'[w].author = ruleVersion[w].author
           /\ ruleVersion'[w].state = IF w = v THEN "active"
                                      ELSE IF w = rule.active THEN "superseded"
                                      ELSE ruleVersion[w].state
    <2> SUFFICES ASSUME NEW w \in RuleVersions, NEW old, old = ruleVersion[w]
                 PROVE  /\ ruleVersion'[w] \in RuleVersionRecords
                        /\ ruleVersion'[w].decider = old.decider
                        /\ ruleVersion'[w].author = old.author
                        /\ ruleVersion'[w].state = IF w = v THEN "active"
                                                   ELSE IF w = rule.active THEN "superseded"
                                                   ELSE old.state
      OBVIOUS
    <2>1. old \in RuleVersionRecords
      BY DEF RuleInv, RuleTypeOK
    <2>2. ruleVersion'[w] = IF w = v THEN [old EXCEPT !.state = "active"]
                            ELSE IF w = rule.active THEN [old EXCEPT !.state = "superseded"]
                            ELSE old
      BY <1>2
    <2> QED BY <2>1, <2>2 DEF RuleVersionRecords, RuleStates
  <1>4. /\ rule' \in RuleRecords /\ rule'.active = v /\ rule'.latest = rule.latest
        /\ rule \in RuleRecords
    BY <1>1 DEF RuleInv, RuleTypeOK, RuleRecords
  <1>5. rule # NoRule
    BY <1>1 DEF RuleInv, VersionsInOrder, InState
  <1>6. rule'.latest >= 1 /\ Numbered(rule')
    BY <1>4, <1>5 DEF RuleInv, VersionsInOrder, Numbered
  <1>7. ruleVersion' \in [RuleVersions -> RuleVersionRecords]
    BY <1>2, <1>3
  <1> QED BY <1>1, <1>3, <1>4, <1>6, <1>7, ActiveMoves, ZenonT(40)

LEMMA CommitRuleDisableKeeps ==
    ASSUME RuleInv, NEW g \in Governors, CommitRuleDisable(g)
    PROVE  RuleInv' /\ VersionsOnward
  <1>1. PICK k, seen : k = governor[g] /\ seen = k.seen
    OBVIOUS
  <1>2. /\ k.at = "disable" /\ rule.active = seen.active
        /\ rule' = [seen EXCEPT !.enabled = FALSE]
        /\ silenced' = TRUE
        /\ governor' = [governor EXCEPT ![g] = NoGovernor]
        /\ UNCHANGED <<ruleVersion, reenabled>>
    BY <1>1 DEF CommitRuleDisable, Adjourn
  <1>3. k \in GovernorRecords /\ GovernorKnows(k) /\ seen \in RuleRecords
    BY <1>1 DEF RuleInv, RuleTypeOK, GovernorRecords
  <1>4. /\ rule' \in RuleRecords /\ rule'.latest = seen.latest /\ rule'.active = seen.active
        /\ ~ rule'.enabled /\ seen.latest \in Nat
    BY <1>2, <1>3 DEF RuleRecords
  <1>5. VersionsOnward
    BY <1>2 DEF VersionsOnward
  <1>6. seen.latest >= 1 /\ Numbered(seen)
    BY <1>1, <1>2, <1>3 DEF GovernorKnows
  <1>7. VersionsInOrder'
    <2>1. Numbered(rule')
      BY <1>4, <1>6 DEF Numbered
    <2> QED BY <1>2, <1>4, <1>6, <2>1, OrderStays
  <1>8. RuleGoverned'
    BY <1>2, <1>4 DEF RuleInv, RuleGoverned, InState
  <1> QED BY <1>2, <1>4, <1>5, <1>7, <1>8, AdjournKnows, RuleMoves DEF RuleInv, RuleTypeOK

LEMMA CommitRuleRollbackKeeps ==
    ASSUME RuleInv, NEW g \in Governors, NEW v \in RuleVersions, CommitRuleRollback(g, v)
    PROVE  RuleInv' /\ VersionsOnward
  <1>1. PICK k, seen, a : k = governor[g] /\ seen = k.seen /\ a = seen.active
    OBVIOUS
  <1>2. /\ k.at = "rollback" /\ ruleVersion[v].state = "superseded"
        /\ ruleVersion[v].decider \notin {Nobody, ruleVersion[v].author}
        /\ a \in RuleVersions /\ ruleVersion[a].state = "active"
        /\ rule.active = a /\ rule.enabled
        /\ rule' = [seen EXCEPT !.active = v]
        /\ governor' = [governor EXCEPT ![g] = NoGovernor]
        /\ UNCHANGED <<silenced, reenabled>>
    BY <1>1 DEF CommitRuleRollback, Adjourn, InState
  <1>3. ruleVersion' = [ruleVersion EXCEPT ![a].state = "superseded", ![v].state = "active"]
    BY <1>1 DEF CommitRuleRollback
  <1>4. k \in GovernorRecords /\ GovernorKnows(k) /\ seen \in RuleRecords
    BY <1>1 DEF RuleInv, RuleTypeOK, GovernorRecords
  <1>5. /\ rule' \in RuleRecords /\ rule'.latest = seen.latest /\ rule'.active = v
    BY <1>2, <1>4 DEF RuleRecords
  <1>6. rule'.latest >= 1 /\ Numbered(rule')
    BY <1>1, <1>2, <1>4, <1>5 DEF GovernorKnows, Numbered
  <1>7. rule'.enabled /\ silenced' => reenabled'
    BY <1>2 DEF RuleInv, RuleGoverned
  <1>8. \A w \in RuleVersions :
           /\ ruleVersion'[w] \in RuleVersionRecords
           /\ ruleVersion'[w].decider = ruleVersion[w].decider
           /\ ruleVersion'[w].author = ruleVersion[w].author
           /\ ruleVersion'[w].state = IF w = v THEN "active"
                                      ELSE IF w = rule.active THEN "superseded"
                                      ELSE ruleVersion[w].state
    <2>1. ruleVersion \in [RuleVersions -> RuleVersionRecords] /\ a # v
      BY <1>2 DEF RuleInv, RuleTypeOK
    <2> SUFFICES ASSUME NEW w \in RuleVersions, NEW old, old = ruleVersion[w]
                 PROVE  /\ ruleVersion'[w] \in RuleVersionRecords
                        /\ ruleVersion'[w].decider = old.decider
                        /\ ruleVersion'[w].author = old.author
                        /\ ruleVersion'[w].state = IF w = v THEN "active"
                                                   ELSE IF w = rule.active THEN "superseded"
                                                   ELSE old.state
      OBVIOUS
    <2>2. old \in RuleVersionRecords
      BY <2>1
    <2>3. ruleVersion'[w] = IF w = v THEN [old EXCEPT !.state = "active"]
                            ELSE IF w = a THEN [old EXCEPT !.state = "superseded"]
                            ELSE old
      BY <1>2, <1>3, <2>1
    <2> QED BY <1>2, <2>2, <2>3 DEF RuleVersionRecords, RuleStates
  <1>9. ruleVersion' \in [RuleVersions -> RuleVersionRecords]
    BY <1>3, <1>8 DEF RuleInv, RuleTypeOK
  <1>10. silenced' \in BOOLEAN
    BY <1>2 DEF RuleInv, RuleTypeOK
  <1>11. UNCHANGED reenabled /\ ruleVersion[v].state \in {"approved", "superseded"}
    BY <1>2
  <1>12. \E h \in Governors : governor' = [governor EXCEPT ![h] = NoGovernor]
    BY <1>2
  <1>13. ruleVersion[v].decider \notin {Nobody, ruleVersion[v].author}
    BY <1>2
  <1> QED BY <1>5, <1>6, <1>7, <1>8, <1>9, <1>10, <1>11, <1>12, <1>13, ActiveMoves, ZenonT(60)

LEMMA RulesIdle == ASSUME RuleInv, UNCHANGED rules PROVE RuleInv' /\ VersionsOnward
  <1>1. UNCHANGED <<rule, ruleVersion, governor, silenced, reenabled>>
    BY DEF rules
  <1>2. VersionsOnward
    BY <1>1 DEF VersionsOnward
  <1>3. RuleGoverned'
    BY <1>1 DEF RuleInv, RuleGoverned, InState
  <1>4. VersionsInOrder'
    BY <1>1, OrderStays
  <1> QED BY <1>1, <1>2, <1>3, <1>4, RuleMoves DEF RuleInv, RuleTypeOK

LEMMA RulesStep ==
    ASSUME RuleInv, [RuleNext]_rules
    PROVE  RuleInv' /\ VersionsOnward
  <1>1. ASSUME NEW g \in Governors,
               BeginRuleDraft(g) \/ BeginRuleDisable(g) \/ BeginRuleRollback(g)
        PROVE  RuleInv' /\ VersionsOnward
    <2>1. ReadRule(g, "list") \/ ReadRule(g, "disable") \/ ReadRule(g, "rollback")
      BY <1>1 DEF BeginRuleDraft, BeginRuleDisable, BeginRuleRollback
    <2> QED BY <2>1, ReadRuleKeeps
  <1>2. ASSUME NEW u \in Reviewers, CreateRule(u) \/ \E v \in RuleVersions : DecideRule(v, u)
        PROVE  RuleInv' /\ VersionsOnward
    BY <1>2, CreateRuleKeeps, DecideRuleKeeps
  <1>3. ASSUME NEW v \in RuleVersions, SubmitRule(v) \/ ActivateRule(v)
        PROVE  RuleInv' /\ VersionsOnward
    BY <1>3, SubmitRuleKeeps, ActivateRuleKeeps
  <1>4. ASSUME NEW g \in Governors,
               \/ ListRuleVersions(g) \/ CommitRuleDisable(g) \/ EndGovernor(g)
               \/ \E u \in Reviewers : CommitRuleDraft(g, u)
               \/ \E v \in RuleVersions : CommitRuleRollback(g, v)
        PROVE  RuleInv' /\ VersionsOnward
    BY <1>4, ListRuleVersionsKeeps, CommitRuleDisableKeeps, EndGovernorKeeps,
       CommitRuleDraftKeeps, CommitRuleRollbackKeeps
  <1> QED BY <1>1, <1>2, <1>3, <1>4, RulesIdle DEF RuleNext

-----------------------------------------------------------------------------
(* The cases and the agents *)

\* A case stays one.
CasesOnward ==
    \A c \in Cases : incident[c].status # "absent" => incident'[c].status # "absent"

\* _create_case, whether or not the case is bound to its agent.
LEMMA OpenCaseKeeps ==
    ASSUME AgentInv, NEW c \in Cases, NEW o, OpenCase(c, o)
    PROVE  AgentInv' /\ CasesOnward /\ incident[c].status = "absent"
           /\ incident'[c].status # "absent"
  <1>1. PICK a, life : /\ a = AgentOf[c]
                       /\ life = IF IsActive(AgentOf[c]) THEN agent[AgentOf[c]].life ELSE 0
    OBVIOUS
  <1>2. PICK x : x = [NoCase EXCEPT !.status = "open", !.agent = a, !.revision = 1, !.life = life]
    OBVIOUS
  <1>3. /\ incident[c] = NoCase /\ incident' = [incident EXCEPT ![c] = x]
        /\ UNCHANGED <<agent, token, session, containment, work, revocations, restored>>
    BY <1>1, <1>2 DEF OpenCase
  <1>4. a \in Agents /\ incident[c].status = "absent"
    BY <1>1, <1>3, ResponseAssumption, AgentFacts
  <1>5. life \in 0 .. 1
    BY <1>1, <1>4, AgentsTyped DEF LifeOf, IsActive
  <1>6. x = [status |-> "open", agent |-> a, life |-> life, revision |-> 1,
             quarantine |-> "none", held |-> 0]
    BY <1>2 DEF NoCase
  <1>7. x \in IncidentRecords /\ x.status = "open" /\ x.agent = a /\ x.revision = 1
    BY <1>4, <1>5, <1>6 DEF IncidentRecords, Revisions
  <1>8. QuarantineOwned'
    BY <1>3, <1>4, <1>7, UncontainedCase
  <1>9. containment' \in [Agents -> ContainmentRecords]
    BY <1>3 DEF AgentInv, AgentTypeOK, ContainmentRecords
  <1>10. Onwards => work' \in [Workers -> WorkRecords] /\ \A v \in Workers : WorkPlaced(work[v])'
    BY <1>3, WorksStay
  <1>11. /\ x.status # "absent" /\ x.agent \in Agents
         /\ incident[c].status # "absent" => x.agent = incident[c].agent
         /\ x.status \in {"open", "contained", "investigating"} => x.revision <= MaxRevision
         /\ x.status = "resolved" => x.revision <= MaxRevision + 1
    BY <1>4, <1>7
  <1>12. AgentInv'
    BY <1>3, <1>7, <1>8, <1>9, <1>10, <1>11, CaseMoves
  <1>13. \A d \in Cases : incident'[d] = IF d = c THEN x ELSE incident[d]
    BY <1>3 DEF AgentInv, AgentTypeOK
  <1> QED BY <1>4, <1>7, <1>12, <1>13 DEF CasesOnward

LEMMA ContainOnward ==
    ASSUME AgentInv, NEW c \in Cases, Contain(c)
    PROVE  AgentInv' /\ CasesOnward /\ incident[c].status # "absent"
  <1>1. AgentInv'
    BY ContainKeeps
  <1>2. incident \in [Cases -> IncidentRecords]
    BY DEF AgentInv, AgentTypeOK, IncidentRecords
  <1>3. incident[c].status \in {"open", "investigating"}
    BY DEF Contain, Quarantine
  <1>4. \A d \in Cases : incident'[d].status = IF d = c THEN "contained" ELSE incident[d].status
    BY <1>2 DEF Contain, Quarantine, IncidentRecords
  <1> QED BY <1>1, <1>3, <1>4 DEF CasesOnward

\* What responders do besides opening and containing cases.
LEMMA AgentsOnward ==
    ASSUME AgentInv,
           \/ UNCHANGED agents
           \/ \E w \in Workers, c \in Cases : BeginRelease(w, c)
           \/ \E w \in Workers : CommitRelease(w) \/ EndWork(w)
           \/ \E a \in Agents : Revoke(a)
           \/ \E c \in Cases : Resolve(c)
    PROVE  AgentInv' /\ CasesOnward
  <1>1. incident \in [Cases -> IncidentRecords]
    BY DEF AgentInv, AgentTypeOK, IncidentRecords
  <1>2. UNCHANGED incident => CasesOnward
    BY DEF CasesOnward
  <1>3. CASE UNCHANGED agents
    BY <1>2, <1>3, AgentsIdle DEF agents
  <1>4. ASSUME NEW w \in Workers, NEW c \in Cases, BeginRelease(w, c)
        PROVE  AgentInv' /\ CasesOnward
    BY <1>2, <1>4, BeginReleaseKeeps DEF BeginRelease
  <1>5. ASSUME NEW w \in Workers, CommitRelease(w)
        PROVE  AgentInv' /\ CasesOnward
    <2>1. PICK c : c = work[w].case
      OBVIOUS
    <2>2. \A d \in Cases : incident'[d].status = IF d = c THEN "investigating" ELSE incident[d].status
      <3>1. incident' = [incident EXCEPT
                ![c].status = "investigating", ![c].revision = @ + 1,
                ![c].quarantine = "released", ![c].held = work[w].held + 1]
        BY <1>5, <2>1 DEF CommitRelease
      <3>2. ASSUME NEW d \in Cases
            PROVE  incident'[d].status = IF d = c THEN "investigating" ELSE incident[d].status
        <4>1. incident[d] \in IncidentRecords
          BY <1>1
        <4>2. CASE d # c
          BY <1>1, <3>1, <4>2
        <4>3. CASE d = c
          BY <1>1, <3>1, <4>1, <4>3 DEF IncidentRecords
        <4> QED BY <4>2, <4>3
      <3> QED BY <3>2
    <2> QED BY <1>5, <2>2, CommitReleaseKeeps DEF CasesOnward
  <1>6. ASSUME NEW w \in Workers, EndWork(w)
        PROVE  AgentInv' /\ CasesOnward
    BY <1>2, <1>6, EndWorkKeeps DEF EndWork
  <1>7. ASSUME NEW a \in Agents, Revoke(a)
        PROVE  AgentInv' /\ CasesOnward
    BY <1>2, <1>7, RevokeKeeps DEF Revoke
  <1>8. ASSUME NEW c \in Cases, Resolve(c)
        PROVE  AgentInv' /\ CasesOnward
    <2>1. \A d \in Cases : incident'[d].status = IF d = c THEN "resolved" ELSE incident[d].status
      BY <1>1, <1>8 DEF Resolve, IncidentRecords
    <2> QED BY <1>8, <2>1, ResolveKeeps DEF CasesOnward
  <1> QED BY <1>3, <1>4, <1>5, <1>6, <1>7, <1>8

-----------------------------------------------------------------------------
(* Evaluations and the ledgers *)

EvaluationStates ==
    {"idle", "alerts", "match", "lease", "limits", "ledger", "reserve", "case", "contain",
     "skipped", "contained"}

LEMMA ResponseFacts ==
    /\ NoAlert \in AlertRecords /\ NoAlert.occurrence = 0 /\ ~ NoAlert.open
    /\ NoEvaluation \in EvaluationRecords /\ NoEvaluation.at = "idle"
    /\ NoEvaluation.version = 0 /\ NoEvaluation.case = Nothing
    /\ RuleVersions \subseteq Nat \ {0} /\ Responder \notin RuleVersions /\ Responder # 0
    /\ MaxActions \in Nat /\ MaxOccurrences \in Nat
  <1>1. MaxActions \in Nat /\ MaxOccurrences \in Nat /\ Responder \notin RuleVersions /\ Responder # 0
    BY ResponseAssumption
  <1>2. 0 \in 0 .. MaxOccurrences /\ 0 \in 0 .. MaxRevision + 2 /\ <<0, 0>> \in Nat \X Nat
    BY <1>1
  <1>3. NoAlert \in AlertRecords /\ NoAlert.occurrence = 0 /\ ~ NoAlert.open
    BY <1>2 DEF NoAlert, AlertRecords
  <1>4. /\ NoEvaluation \in EvaluationRecords /\ NoEvaluation.at = "idle"
        /\ NoEvaluation.version = 0 /\ NoEvaluation.case = Nothing
    BY <1>2, <1>3 DEF NoEvaluation, EvaluationRecords
  <1> QED BY <1>1, <1>3, <1>4, RuleFacts

LEMMA IdleJustified ==
    ASSUME NEW k, k.at = "idle"
    PROVE  /\ Justified(k) /\ WithinLimit(k)
           /\ Justified(k)' /\ WithinLimit(k)'
  BY DEF Justified, WithinLimit

LEMMA ResponseBegins ==
    ASSUME ResponseInit, RuleInv
    PROVE  ResponseInv
  <1>1. /\ alert \in [Cases -> AlertRecords] /\ \A c \in Cases : alert[c] = NoAlert
        /\ evaluation \in [Evaluations -> EvaluationRecords]
        /\ \A e \in Evaluations : evaluation[e] = NoEvaluation
    BY ResponseFacts DEF ResponseInit
  <1>2. /\ owner \in [Cases -> RuleVersions \cup {0, Responder}]
        /\ activator \in [Cases -> RuleVersions \cup {0, Responder}]
        /\ \A c \in Cases : owner[c] = 0 /\ activator[c] = 0
        /\ hourly = [revision |-> 0, used |-> 0]
        /\ cooldown \in [Agents -> [revision : Nat, running : BOOLEAN]]
        /\ lease = {} /\ reserved = {} /\ overtaken = FALSE
        /\ execution \in [Triggers -> {"none", "skipped", "contained"}]
        /\ \A t \in Triggers : execution[t] = "none"
    BY DEF ResponseInit
  <1>3. ResponseTypeOK
    BY <1>1, <1>2 DEF ResponseTypeOK
  <1>4. CasesKnown
    BY <1>1, <1>2, ResponseFacts DEF CasesKnown
  <1>5. ReservationsKept
    BY <1>2, ResponseFacts DEF ReservationsKept
  <1>6. \A e \in Evaluations : Justified(evaluation[e]) /\ WithinLimit(evaluation[e])
    BY <1>1, ResponseFacts, IdleJustified
  <1> QED BY <1>3, <1>4, <1>5, <1>6 DEF ResponseInv

\* What no step takes back.
ResponsesOnward ==
    /\ \A v \in Activated : v \in Activated'
    /\ reserved \subseteq reserved'
    /\ \A c \in Cases : owner[c] # 0 => owner'[c] = owner[c]
    /\ \A c \in Cases : activator[c] # 0 => activator'[c] # 0
    /\ \/ hourly' = hourly
       \/ hourly'.revision \in Nat /\ hourly'.revision > hourly.revision

LEMMA JustifiedOnward ==
    ASSUME ResponseInv, ResponsesOnward, NEW k \in EvaluationRecords, Justified(k), WithinLimit(k)
    PROVE  Justified(k)' /\ WithinLimit(k)'
  <1>1. k.at # "idle" => k.version \in Activated /\ k.version # 0
    BY ResponseFacts DEF Justified, Activated, InState
  <1>2. Justified(k)'
    <2>1. k.at = "contain" => owner'[k.case] = k.version
      BY <1>1 DEF Justified, ResponsesOnward
    <2>2. k.at = "contained" => activator'[k.case] # 0
      BY DEF Justified, ResponsesOnward
    <2>3. k.at \in {"case", "contain", "contained"} => Trigger(k) \in reserved'
      BY DEF Justified, ResponsesOnward
    <2> QED BY <1>1, <2>1, <2>2, <2>3 DEF Justified, ResponsesOnward, Trigger
  <1>3. WithinLimit(k)'
    <2>1. CASE hourly' = hourly
      BY <2>1 DEF WithinLimit
    <2>2. CASE hourly'.revision \in Nat /\ hourly'.revision > hourly.revision
      <3>1. hourly.revision \in Nat /\ k.seen[1] \in Nat
        BY DEF ResponseInv, ResponseTypeOK, EvaluationRecords
      <3> QED BY <2>2, <3>1 DEF WithinLimit
    <2> QED BY <2>1, <2>2 DEF ResponsesOnward
  <1> QED BY <1>2, <1>3

\* A step, from what it does with what the evaluations go by.
LEMMA ResponseMoves ==
    ASSUME ResponseInv, ResponsesOnward,
           evaluation' \in [Evaluations -> EvaluationRecords] => ResponseTypeOK',
           CasesKnown', ReservationsKept',
           \/ UNCHANGED evaluation
           \/ \E e \in Evaluations : \E k \in EvaluationRecords :
                 evaluation' = [evaluation EXCEPT ![e] = k] /\ Justified(k)' /\ WithinLimit(k)'
    PROVE  ResponseInv'
  <1>1. evaluation \in [Evaluations -> EvaluationRecords]
    BY DEF ResponseInv, ResponseTypeOK
  <1>2. ASSUME NEW e \in Evaluations
        PROVE  \E k \in EvaluationRecords :
                  evaluation'[e] = k /\ Justified(k)' /\ WithinLimit(k)'
    <2>1. CASE evaluation'[e] = evaluation[e]
      <3>1. PICK k : k = evaluation[e]
        OBVIOUS
      <3>2. k \in EvaluationRecords /\ Justified(k) /\ WithinLimit(k)
        BY <1>1, <3>1 DEF ResponseInv
      <3>3. Justified(k)' /\ WithinLimit(k)'
        BY <3>2, JustifiedOnward
      <3> QED BY <2>1, <3>1, <3>2, <3>3
    <2> QED BY <1>1, <2>1
  <1>3. evaluation' \in [Evaluations -> EvaluationRecords]
    BY <1>1, <1>2
  <1>4. ASSUME NEW e \in Evaluations
        PROVE  (Justified(evaluation[e]) /\ WithinLimit(evaluation[e]))'
    <2>1. PICK k \in EvaluationRecords : evaluation'[e] = k /\ Justified(k)' /\ WithinLimit(k)'
      BY <1>2
    <2>2. Justified(evaluation[e])'
      BY <2>1 DEF Justified, Trigger
    <2>3. WithinLimit(evaluation[e])'
      BY <2>1 DEF WithinLimit
    <2> QED BY <2>2, <2>3
  <1> QED BY <1>3, <1>4 DEF ResponseInv

LEMMA CasesStay ==
    ASSUME ResponseInv, CasesOnward, VersionsOnward, reserved \subseteq reserved',
           UNCHANGED <<alert, owner, activator>>
    PROVE  CasesKnown'
  <1> SUFFICES ASSUME NEW c \in Cases
               PROVE  /\ alert[c].open => alert[c].occurrence # 0
                      /\ owner[c] # 0 \/ activator[c] # 0 => incident'[c].status # "absent"
                      /\ activator[c] \in RuleVersions =>
                            /\ owner[c] = activator[c]
                            /\ ReservedFor(activator[c], c)'
                            /\ activator[c] \in Activated'
    BY DEF CasesKnown, ReservedFor
  <1>1. \A v \in Activated : v \in Activated'
    BY DEF Activated, InState, VersionsOnward
  <1>2. ReservedFor(activator[c], c) => ReservedFor(activator[c], c)'
    BY DEF ReservedFor
  <1> QED BY <1>1, <1>2 DEF ResponseInv, CasesKnown, CasesOnward

\* A step of an evaluation alone.
LEMMA EvaluationMoves ==
    ASSUME ResponseInv, NEW e \in Evaluations, NEW k \in EvaluationRecords, Evaluate(e, k),
           Justified(k), WithinLimit(k),
           UNCHANGED <<rules, cases, ledgers, execution>>
    PROVE  ResponseInv'
  <1>1. UNCHANGED <<rule, ruleVersion, incident, alert, owner, activator, hourly, cooldown,
                    lease, reserved, overtaken, execution>>
    BY DEF rules, cases, agents, ledgers
  <1>2. ResponsesOnward /\ VersionsOnward /\ CasesOnward
    BY <1>1 DEF ResponsesOnward, VersionsOnward, CasesOnward, Activated, InState
  <1>3. CasesKnown'
    BY <1>1, <1>2, CasesStay
  <1>4. ReservationsKept'
    BY <1>1 DEF ResponseInv, ReservationsKept
  <1>5. evaluation' \in [Evaluations -> EvaluationRecords] => ResponseTypeOK'
    BY <1>1 DEF ResponseInv, ResponseTypeOK
  <1>6. Justified(k)' /\ WithinLimit(k)'
    BY <1>2, JustifiedOnward
  <1> QED BY <1>2, <1>3, <1>4, <1>5, <1>6, ResponseMoves DEF Evaluate

Gone(k, at) == [k EXCEPT !.at = at]

LEMMA Going ==
    ASSUME NEW k \in EvaluationRecords, NEW at \in EvaluationStates
    PROVE  /\ Gone(k, at) \in EvaluationRecords /\ Gone(k, at).at = at
           /\ Gone(k, at).version = k.version /\ Gone(k, at).case = k.case
           /\ Gone(k, at).alert = k.alert /\ Gone(k, at).seen = k.seen
           /\ Gone(k, at).stale = k.stale /\ Gone(k, at).revision = k.revision
           /\ Trigger(Gone(k, at)) = Trigger(k)
  <1>1. PICK x : x = Gone(k, at)
    OBVIOUS
  <1>2. /\ x \in EvaluationRecords /\ x.at = at
        /\ x.version = k.version /\ x.case = k.case /\ x.alert = k.alert /\ x.seen = k.seen
        /\ x.stale = k.stale /\ x.revision = k.revision
    BY <1>1 DEF Gone, EvaluationRecords, EvaluationStates
  <1> QED BY <1>1, <1>2 DEF Trigger

\* What is there of an evaluation that has found its alert.
LEMMA EvaluationKnown ==
    ASSUME ResponseInv, NEW e \in Evaluations
    PROVE  LET k == evaluation[e] IN
           /\ k \in EvaluationRecords /\ Justified(k) /\ WithinLimit(k)
           /\ k.at \notin {"idle", "alerts"} =>
                 /\ k.case \in Cases /\ AgentOf[k.case] \in Agents
                 /\ k.version \in RuleVersions
                 /\ Trigger(k) \in Triggers /\ TriggerOf(e) = Trigger(k)
                 /\ Trigger(k)[1] = k.version /\ Trigger(k)[2] = k.case
           /\ \A at : Proceed(e, at) <=> Evaluate(e, Gone(k, at))
  <1>1. PICK k : k = evaluation[e]
    OBVIOUS
  <1>2. k \in EvaluationRecords /\ Justified(k) /\ WithinLimit(k)
    BY <1>1 DEF ResponseInv, ResponseTypeOK
  <1>3. ASSUME k.at \notin {"idle", "alerts"}
        PROVE  /\ k.case \in Cases /\ AgentOf[k.case] \in Agents
               /\ k.version \in RuleVersions
               /\ Trigger(k) \in Triggers /\ TriggerOf(e) = Trigger(k)
               /\ Trigger(k)[1] = k.version /\ Trigger(k)[2] = k.case
    <2>1. k.case \in Cases /\ k.alert.occurrence # 0 /\ k.version \in RuleVersions
      BY <1>2, <1>3 DEF Justified, Activated, InState
    <2>2. k.alert.occurrence \in 1 .. MaxOccurrences
      BY <1>2, <2>1, ResponseFacts DEF EvaluationRecords, AlertRecords
    <2>3. Trigger(k) \in Triggers
      BY <2>1, <2>2 DEF Trigger, Triggers
    <2> QED BY <1>1, <2>1, <2>3, ResponseAssumption DEF Trigger, TriggerOf
  <1>4. \A at : Proceed(e, at) <=> Evaluate(e, Gone(k, at))
    BY <1>1 DEF Proceed, Gone
  <1> QED BY <1>1, <1>2, <1>3, <1>4

LEMMA BeginEvaluationKeeps ==
    ASSUME RuleInv, ResponseInv, NEW e \in Evaluations, BeginEvaluation(e)
    PROVE  ResponseInv'
  <1>1. PICK n, k : n = NoEvaluation /\ k = [n EXCEPT !.at = "alerts", !.version = rule.active]
    OBVIOUS
  <1>2. rule.active \in Activated
    BY DEF BeginEvaluation, RuleInv, RuleGoverned, Activated, InState
  <1>3. n \in EvaluationRecords /\ rule.active \in RuleVersions
    BY <1>1, <1>2, ResponseFacts DEF Activated, InState
  <1>4. k \in EvaluationRecords /\ k.at = "alerts" /\ k.version = rule.active
    BY <1>1, <1>3 DEF EvaluationRecords
  <1>5. Justified(k) /\ WithinLimit(k)
    BY <1>2, <1>4 DEF Justified, WithinLimit
  <1> QED BY <1>1, <1>4, <1>5, EvaluationMoves DEF BeginEvaluation

LEMMA ListAlertsKeeps ==
    ASSUME ResponseInv, NEW e \in Evaluations, NEW c \in Cases, ListAlerts(e, c)
    PROVE  ResponseInv'
  <1>1. PICK x, now, k : /\ x = evaluation[e] /\ now = alert[c]
                         /\ k = [x EXCEPT !.at = "match", !.case = c, !.alert = now]
    OBVIOUS
  <1>2. x \in EvaluationRecords /\ Justified(x) /\ now \in AlertRecords
    BY <1>1, EvaluationKnown DEF ResponseInv, ResponseTypeOK
  <1>3. x.at = "alerts" /\ now.open /\ now.occurrence # 0
    BY <1>1 DEF ListAlerts, ResponseInv, CasesKnown
  <1>4. /\ k \in EvaluationRecords /\ k.at = "match" /\ k.version = x.version /\ k.case = c
        /\ k.alert = now
    BY <1>1, <1>2 DEF EvaluationRecords
  <1>5. Justified(k) /\ WithinLimit(k)
    BY <1>2, <1>3, <1>4 DEF Justified, WithinLimit
  <1> QED BY <1>1, <1>4, <1>5, EvaluationMoves DEF ListAlerts

\* An evaluation goes on to where it needs no more than it has.
LEMMA ProceedKeeps ==
    ASSUME ResponseInv, NEW e \in Evaluations, NEW at \in {"lease", "limits", "case", "skipped"},
           evaluation[e].at \notin {"idle", "alerts"},
           at = "case" => TriggerOf(e) \in reserved,
           Proceed(e, at), UNCHANGED <<rules, cases, ledgers, execution>>
    PROVE  ResponseInv'
  <1>1. PICK x, k : x = evaluation[e] /\ k = Gone(x, at)
    OBVIOUS
  <1>2. /\ x \in EvaluationRecords /\ Justified(x) /\ x.at \notin {"idle", "alerts"}
        /\ TriggerOf(e) = Trigger(x) /\ Evaluate(e, k)
    BY <1>1, EvaluationKnown
  <1>3. at \in EvaluationStates
    BY DEF EvaluationStates
  <1>4. /\ k \in EvaluationRecords /\ k.at = at /\ k.version = x.version /\ k.case = x.case
        /\ k.alert = x.alert /\ Trigger(k) = Trigger(x)
    BY <1>1, <1>2, <1>3, Going
  <1>5. Justified(k) /\ WithinLimit(k)
    BY <1>2, <1>4 DEF Justified, WithinLimit
  <1> QED BY <1>2, <1>4, <1>5, EvaluationMoves

LEMMA SearchKeeps ==
    ASSUME ResponseInv, NEW e \in Evaluations,
           \/ MatchAlert(e) \/ FindLease(e) \/ ReservationConflict(e)
           \/ CaseConflict(e) \/ ContainConflict(e)
    PROVE  ResponseInv'
  <1>1. TriggerOf(e) \in lease => TriggerOf(e) \in reserved
    BY DEF ResponseInv, ReservationsKept
  <1>2. PICK at \in {"lease", "limits", "case", "skipped"} :
           /\ Proceed(e, at) /\ evaluation[e].at \notin {"idle", "alerts"}
           /\ at = "case" => TriggerOf(e) \in lease
           /\ UNCHANGED <<rules, cases, ledgers, execution>>
    <2>1. CASE MatchAlert(e)
      BY <2>1 DEF MatchAlert
    <2>2. CASE FindLease(e)
      BY <2>2 DEF FindLease
    <2>3. CASE ReservationConflict(e)
      BY <2>3 DEF ReservationConflict
    <2>4. CASE CaseConflict(e)
      BY <2>4 DEF CaseConflict
    <2>5. CASE ContainConflict(e)
      BY <2>5 DEF ContainConflict
    <2> QED BY <2>1, <2>2, <2>3, <2>4, <2>5
  <1> QED BY <1>1, <1>2, ProceedKeeps

LEMMA LedgerTyped ==
    ASSUME ResponseInv, NEW a \in Agents
    PROVE  LedgerRevisions(a) \in Nat \X Nat /\ LedgerRevisions(a)[1] = hourly.revision
           /\ hourly.revision \in Nat /\ hourly.used \in Nat
  BY DEF LedgerRevisions, ResponseInv, ResponseTypeOK

LEMMA CheckLimitsKeeps ==
    ASSUME ResponseInv, NEW e \in Evaluations, CheckLimits(e)
    PROVE  ResponseInv'
  <1>1. PICK x, a, now, at, k :
           /\ x = evaluation[e] /\ a = AgentOf[x.case] /\ now = LedgerRevisions(a)
           /\ at = IF hourly.used >= MaxActions \/ cooldown[a].running THEN "skipped" ELSE "ledger"
           /\ k = [x EXCEPT !.seen = now, !.at = at]
    OBVIOUS
  <1>2. Evaluate(e, k) /\ x.at = "limits" /\ UNCHANGED <<rules, cases, ledgers, execution>>
    BY <1>1 DEF CheckLimits
  <1>3. x \in EvaluationRecords /\ Justified(x) /\ a \in Agents
    BY <1>1, <1>2, EvaluationKnown
  <1>4. /\ now \in Nat \X Nat /\ now[1] = hourly.revision
        /\ hourly.revision \in Nat /\ hourly.used \in Nat /\ MaxActions \in Nat
    BY <1>1, <1>3, LedgerTyped, ResponseFacts
  <1>5. at \in {"skipped", "ledger"} /\ (at = "ledger" => hourly.used < MaxActions)
    BY <1>1, <1>4
  <1>6. /\ k \in EvaluationRecords /\ k.at = at /\ k.version = x.version /\ k.case = x.case
        /\ k.alert = x.alert /\ k.seen = now
    <2>1. at \in {"idle", "alerts", "match", "lease", "limits", "ledger", "reserve", "case",
                 "contain", "skipped", "contained"}
      BY <1>5
    <2>2. k = [x EXCEPT !.seen = now, !.at = at]
      BY <1>1
    <2>3. now \in Nat \X Nat /\ x \in EvaluationRecords
      BY <1>3, <1>4
    <2> QED BY <2>1, <2>2, <2>3 DEF EvaluationRecords
  <1>7. Justified(k)
    BY <1>2, <1>3, <1>5, <1>6 DEF Justified
  <1>8. WithinLimit(k)
    BY <1>4, <1>5, <1>6 DEF WithinLimit
  <1> QED BY <1>2, <1>6, <1>7, <1>8, EvaluationMoves

LEMMA ReadLedgerKeeps ==
    ASSUME ResponseInv, NEW e \in Evaluations, ReadLedger(e)
    PROVE  ResponseInv'
  <1>1. PICK x, a, now, stale, k :
           /\ x = evaluation[e] /\ a = AgentOf[x.case] /\ now = LedgerRevisions(a)
           /\ stale = (now # x.seen)
           /\ k = [x EXCEPT !.at = "reserve", !.seen = now, !.stale = stale]
    OBVIOUS
  <1>2. Evaluate(e, k) /\ x.at = "ledger" /\ UNCHANGED <<rules, cases, ledgers, execution>>
    BY <1>1 DEF ReadLedger
  <1>3. x \in EvaluationRecords /\ Justified(x) /\ WithinLimit(x) /\ a \in Agents
    BY <1>1, <1>2, EvaluationKnown
  <1>4. /\ now \in Nat \X Nat /\ now[1] = hourly.revision
        /\ hourly.revision \in Nat
    BY <1>1, <1>3, LedgerTyped
  <1>5. stale \in BOOLEAN /\ (~ stale => now = x.seen)
    BY <1>1
  <1>6. /\ k \in EvaluationRecords /\ k.at = "reserve" /\ k.version = x.version
        /\ k.case = x.case /\ k.alert = x.alert /\ k.seen = now /\ k.stale = stale
    BY <1>1, <1>3, <1>4, <1>5 DEF EvaluationRecords
  <1>7. Justified(k)
    BY <1>2, <1>3, <1>6 DEF Justified
  <1>8. WithinLimit(k)
    BY <1>2, <1>3, <1>4, <1>5, <1>6 DEF WithinLimit
  <1> QED BY <1>2, <1>6, <1>7, <1>8, EvaluationMoves

LEMMA AdoptCaseKeeps ==
    ASSUME AgentInv, ResponseInv, NEW e \in Evaluations, AdoptCase(e)
    PROVE  ResponseInv'
  <1>1. PICK x, c, v, r, at, k :
           /\ x = evaluation[e] /\ c = x.case /\ v = x.version /\ r = incident[c].revision
           /\ at = IF owner[c] # v THEN "skipped"
                   ELSE IF incident[c].status # "contained" THEN "contain"
                   ELSE IF activator[c] = v THEN "contained"
                   ELSE "skipped"
           /\ k = [x EXCEPT !.revision = r, !.at = at]
    OBVIOUS
  <1>2. Evaluate(e, k) /\ x.at = "case" /\ UNCHANGED <<rules, cases, ledgers, execution>>
    BY <1>1 DEF AdoptCase
  <1>3. x \in EvaluationRecords /\ Justified(x) /\ c \in Cases /\ v \in RuleVersions
    BY <1>1, <1>2, EvaluationKnown
  <1>4. r \in 0 .. MaxRevision + 2
    BY <1>1, <1>3 DEF AgentInv, AgentTypeOK
  <1>5. /\ at \in {"skipped", "contain", "contained"}
        /\ at = "contain" => owner[c] = v
        /\ at = "contained" => activator[c] = v
    BY <1>1
  <1>6. /\ k \in EvaluationRecords /\ k.at = at /\ k.version = v /\ k.case = c
        /\ k.alert = x.alert
    <2>1. at \in {"idle", "alerts", "match", "lease", "limits", "ledger", "reserve", "case",
                 "contain", "skipped", "contained"}
      BY <1>5
    <2>2. k = [x EXCEPT !.revision = r, !.at = at] /\ x.case = c /\ x.version = v
      BY <1>1
    <2>3. r \in 0 .. MaxRevision + 2 /\ x \in EvaluationRecords
      BY <1>3, <1>4
    <2> QED BY <2>1, <2>2, <2>3 DEF EvaluationRecords
  <1>7. Trigger(k) = Trigger(x)
    BY <1>1, <1>6 DEF Trigger
  <1>8. Justified(k) /\ WithinLimit(k)
    <2>1. x.case = c /\ x.version = v
      BY <1>1
    <2>2. /\ v \in Activated /\ x.alert.occurrence # 0
          /\ Trigger(x) \in reserved
      BY <1>2, <1>3, <2>1 DEF Justified
    <2>3. activator[c] = v => activator[c] # 0
      BY <1>3, ResponseFacts
    <2>4. Justified(k)
      BY <1>3, <1>5, <1>6, <1>7, <2>2, <2>3 DEF Justified
    <2>5. WithinLimit(k)
      BY <1>5, <1>6 DEF WithinLimit
    <2> QED BY <2>4, <2>5
  <1> QED BY <1>2, <1>6, <1>8, EvaluationMoves

LEMMA EndEvaluationKeeps ==
    ASSUME ResponseInv, NEW e \in Evaluations, EndEvaluation(e)
    PROVE  ResponseInv'
  BY ResponseFacts, IdleJustified, EvaluationMoves DEF EndEvaluation

LEMMA RecordOutcomeKeeps ==
    ASSUME ResponseInv, NEW e \in Evaluations, RecordOutcome(e)
    PROVE  ResponseInv'
  <1>1. PICK x, t : x = evaluation[e] /\ t = TriggerOf(e)
    OBVIOUS
  <1>2. /\ x.at \in {"skipped", "contained"}
        /\ execution' = IF execution[t] = "none" THEN [execution EXCEPT ![t] = x.at] ELSE execution
        /\ evaluation' = [evaluation EXCEPT ![e] = NoEvaluation]
    BY <1>1 DEF RecordOutcome, Evaluate
  <1>3. UNCHANGED <<rule, ruleVersion, incident, alert, owner, activator, hourly, cooldown,
                    lease, reserved, overtaken>>
    BY DEF RecordOutcome, rules, cases, agents, ledgers
  <1>4. /\ Justified(x) /\ t \in Triggers /\ t = Trigger(x) /\ t[2] = x.case
    BY <1>1, <1>2, EvaluationKnown
  <1>5. x.at = "contained" => t \in reserved /\ activator[t[2]] # 0
    BY <1>4 DEF Justified
  <1>6. execution' \in [Triggers -> {"none", "skipped", "contained"}]
    BY <1>2, <1>4 DEF ResponseInv, ResponseTypeOK
  <1>7. ReservationsKept'
    <2>1. \A s \in Triggers : execution'[s] = "contained" => s \in reserved /\ activator[s[2]] # 0
      BY <1>2, <1>4, <1>5 DEF ResponseInv, ResponseTypeOK, ReservationsKept
    <2> QED BY <1>3, <2>1 DEF ResponseInv, ReservationsKept
  <1>8. ResponsesOnward /\ VersionsOnward /\ CasesOnward
    BY <1>3 DEF ResponsesOnward, VersionsOnward, CasesOnward, Activated, InState
  <1>9. CasesKnown'
    BY <1>3, <1>8, CasesStay
  <1>10. evaluation' \in [Evaluations -> EvaluationRecords] => ResponseTypeOK'
    BY <1>3, <1>6 DEF ResponseInv, ResponseTypeOK
  <1> QED BY <1>2, <1>7, <1>8, <1>9, <1>10, ResponseFacts, IdleJustified, ResponseMoves

\* While the rules stay, so do their versions.
LEMMA RulesKept ==
    ASSUME UNCHANGED rules
    PROVE  VersionsOnward /\ Activated' = Activated
  <1>1. UNCHANGED ruleVersion
    BY DEF rules
  <1> QED BY <1>1 DEF VersionsOnward, Activated, InState

\* _reserve_response_rule_action: the limit was checked against the ledger that the
\* transaction is conditional on, or the reservation was overtaken.
LEMMA ReserveKeeps ==
    ASSUME ResponseInv, NEW e \in Evaluations, Reserve(e)
    PROVE  ResponseInv'
  <1>1. PICK x, a, t, k :
           /\ x = evaluation[e] /\ a = AgentOf[x.case] /\ t = TriggerOf(e) /\ k = Gone(x, "case")
    OBVIOUS
  <1>2. /\ x \in EvaluationRecords /\ Justified(x) /\ WithinLimit(x) /\ x.at = "reserve"
        /\ a \in Agents /\ t \in Triggers /\ t = Trigger(x)
        /\ evaluation' = [evaluation EXCEPT ![e] = k]
    BY <1>1, EvaluationKnown DEF Reserve, Evaluate
  <1>3. /\ hourly' = [revision |-> hourly.revision + 1, used |-> hourly.used + 1]
        /\ cooldown' = [cooldown EXCEPT ![a] = [revision |-> @.revision + 1, running |-> TRUE]]
        /\ lease' = lease \cup {t} /\ reserved' = reserved \cup {t}
        /\ overtaken' = (overtaken \/ x.stale)
        /\ LedgerRevisions(a) = x.seen
        /\ UNCHANGED <<rules, cases, execution>>
    BY <1>1 DEF Reserve, Reservable
  <1>4. UNCHANGED <<incident, alert, owner, activator, execution>>
    BY <1>3 DEF cases, agents
  <1>5. /\ x.seen[1] = hourly.revision /\ hourly.revision \in Nat /\ hourly.used \in Nat
        /\ MaxActions \in Nat
    BY <1>2, <1>3, LedgerTyped, ResponseFacts
  <1>6. overtaken' \/ hourly'.used <= MaxActions
    <2>1. ~ x.stale => hourly.used < MaxActions
      BY <1>2, <1>5 DEF WithinLimit
    <2>2. CASE x.stale
      BY <1>3, <2>2, Zenon
    <2>3. CASE ~ x.stale
      <3>1. hourly.used < MaxActions
        BY <2>1, <2>3, Zenon
      <3> QED BY <1>3, <1>5, <3>1
    <2> QED BY <2>2, <2>3
  <1>7. ReservationsKept'
    BY <1>3, <1>4, <1>6 DEF ResponseInv, ReservationsKept
  <1>8. VersionsOnward /\ Activated' = Activated /\ CasesOnward
    BY <1>3, <1>4, RulesKept DEF CasesOnward
  <1>9. ResponsesOnward
    <2>1. hourly'.revision \in Nat /\ hourly'.revision > hourly.revision
      BY <1>3, <1>5
    <2> QED BY <1>3, <1>4, <1>8, <2>1 DEF ResponsesOnward
  <1>10. CasesKnown'
    BY <1>3, <1>4, <1>8, CasesStay
  <1>11. evaluation' \in [Evaluations -> EvaluationRecords] => ResponseTypeOK'
    <2>1. hourly' \in [revision : Nat, used : Nat]
      BY <1>3, <1>5
    <2>2. cooldown' \in [Agents -> [revision : Nat, running : BOOLEAN]]
      <3>1. PICK D : D = [revision : Nat, running : BOOLEAN]
        OBVIOUS
      <3>2. PICK d : d = [revision |-> cooldown[a].revision + 1, running |-> TRUE]
        OBVIOUS
      <3>3. d \in D
        BY <1>2, <3>1, <3>2 DEF ResponseInv, ResponseTypeOK
      <3>4. cooldown \in [Agents -> D] /\ cooldown' = [cooldown EXCEPT ![a] = d]
        BY <1>3, <3>1, <3>2 DEF ResponseInv, ResponseTypeOK
      <3> QED BY <3>1, <3>3, <3>4
    <2>3. overtaken' \in BOOLEAN
      BY <1>2, <1>3 DEF ResponseInv, ResponseTypeOK, EvaluationRecords
    <2> QED BY <1>2, <1>3, <1>4, <2>1, <2>2, <2>3 DEF ResponseInv, ResponseTypeOK
  <1>12. /\ k \in EvaluationRecords /\ k.at = "case" /\ k.version = x.version /\ k.case = x.case
         /\ k.alert = x.alert /\ Trigger(k) = t
    <2>1. "case" \in EvaluationStates
      BY DEF EvaluationStates
    <2> QED BY <1>1, <1>2, <2>1, Going
  <1>13. Trigger(k)' = t
    BY <1>12 DEF Trigger
  <1>14. Justified(k)' /\ WithinLimit(k)'
    BY <1>2, <1>3, <1>8, <1>12, <1>13 DEF Justified, WithinLimit
  <1> QED BY <1>2, <1>7, <1>9, <1>10, <1>11, <1>12, <1>14, ResponseMoves

\* The alert of a case is marked when _create_case opens one.
LEMMA AlertTyped ==
    ASSUME ResponseInv, NEW c \in Cases, alert' = [alert EXCEPT ![c].cased = TRUE]
    PROVE  /\ alert' \in [Cases -> AlertRecords]
           /\ \A d \in Cases : alert'[d].open => alert'[d].occurrence # 0
  <1>1. PICK old, x : old = alert[c] /\ x = [old EXCEPT !.cased = TRUE]
    OBVIOUS
  <1>2. alert' = [alert EXCEPT ![c] = x] /\ alert \in [Cases -> AlertRecords]
    BY <1>1 DEF ResponseInv, ResponseTypeOK
  <1>3. old \in AlertRecords /\ (old.open => old.occurrence # 0)
    BY <1>1, <1>2 DEF ResponseInv, CasesKnown
  <1>4. x \in AlertRecords /\ x.open = old.open /\ x.occurrence = old.occurrence
    BY <1>1, <1>3 DEF AlertRecords
  <1> QED BY <1>2, <1>3, <1>4 DEF ResponseInv, CasesKnown

\* A case that was not there had no owner, and nobody contained it.
LEMMA OpenedCase ==
    ASSUME AgentInv, ResponseInv, NEW c \in Cases, NEW o \in RuleVersions \cup {Responder},
           OpenCase(c, o), UNCHANGED <<rules, ledgers, execution>>
    PROVE  /\ AgentInv' /\ ResponsesOnward /\ CasesKnown' /\ ReservationsKept'
           /\ evaluation' \in [Evaluations -> EvaluationRecords] => ResponseTypeOK'
           /\ owner'[c] = o
  <1>1. /\ alert' = [alert EXCEPT ![c].cased = TRUE] /\ owner' = [owner EXCEPT ![c] = o]
        /\ UNCHANGED activator
    BY DEF OpenCase
  <1>2. UNCHANGED <<hourly, cooldown, lease, reserved, overtaken, execution>>
    BY DEF ledgers
  <1>3. /\ AgentInv' /\ CasesOnward /\ incident[c].status = "absent"
        /\ incident'[c].status # "absent"
    BY OpenCaseKeeps
  <1>4. owner[c] = 0 /\ activator[c] = 0
    BY <1>3 DEF ResponseInv, CasesKnown
  <1>5. owner' \in [Cases -> RuleVersions \cup {0, Responder}]
    BY <1>1 DEF ResponseInv, ResponseTypeOK
  <1>6. \A d \in Cases : owner'[d] = IF d = c THEN o ELSE owner[d]
    BY <1>1 DEF ResponseInv, ResponseTypeOK
  <1>7. VersionsOnward /\ Activated' = Activated
    BY RulesKept
  <1>8. ResponsesOnward
    BY <1>1, <1>2, <1>4, <1>6, <1>7 DEF ResponsesOnward
  <1>9. CasesKnown'
    <2>1. \A d \in Cases : alert'[d].open => alert'[d].occurrence # 0
      BY <1>1, AlertTyped
    <2>2. ASSUME NEW d \in Cases
          PROVE  /\ owner'[d] # 0 \/ activator[d] # 0 => incident'[d].status # "absent"
                 /\ activator[d] \in RuleVersions =>
                       /\ owner'[d] = activator[d]
                       /\ ReservedFor(activator[d], d)'
                       /\ activator[d] \in Activated'
      <3>1. ReservedFor(activator[d], d) => ReservedFor(activator[d], d)'
        BY <1>1, <1>2 DEF ReservedFor
      <3>2. CASE d = c
        BY <1>3, <1>4, <3>2, ResponseFacts
      <3>3. CASE d # c
        BY <1>3, <1>6, <1>7, <3>1, <3>3 DEF ResponseInv, CasesKnown, CasesOnward
      <3> QED BY <3>2, <3>3
    <2> QED BY <1>1, <2>1, <2>2 DEF CasesKnown, ReservedFor
  <1>10. ReservationsKept'
    BY <1>1, <1>2 DEF ResponseInv, ReservationsKept
  <1>11. evaluation' \in [Evaluations -> EvaluationRecords] => ResponseTypeOK'
    BY <1>1, <1>2, <1>5, AlertTyped DEF ResponseInv, ResponseTypeOK
  <1> QED BY <1>3, <1>6, <1>8, <1>9, <1>10, <1>11

LEMMA MakeCaseKeeps ==
    ASSUME AgentInv, ResponseInv, NEW e \in Evaluations, MakeCase(e)
    PROVE  AgentInv' /\ ResponseInv'
  <1>1. PICK x, c, v, k :
           /\ x = evaluation[e] /\ c = x.case /\ v = x.version
           /\ k = [x EXCEPT !.at = "contain", !.revision = 1]
    OBVIOUS
  <1>2. /\ OpenCase(c, v) /\ evaluation' = [evaluation EXCEPT ![e] = k] /\ x.at = "case"
        /\ UNCHANGED <<rules, ledgers, execution>>
    BY <1>1 DEF MakeCase, Evaluate
  <1>3. x \in EvaluationRecords /\ Justified(x) /\ c \in Cases /\ v \in RuleVersions
    BY <1>1, <1>2, EvaluationKnown
  <1>4. /\ AgentInv' /\ ResponsesOnward /\ CasesKnown' /\ ReservationsKept' /\ owner'[c] = v
        /\ evaluation' \in [Evaluations -> EvaluationRecords] => ResponseTypeOK'
    BY <1>2, <1>3, OpenedCase
  <1>5. 1 \in 0 .. MaxRevision + 2
    BY AgentAssumption
  <1>6. /\ k \in EvaluationRecords /\ k.at = "contain" /\ k.version = v /\ k.case = c
        /\ k.alert = x.alert
    BY <1>1, <1>3, <1>5 DEF EvaluationRecords
  <1>7. Trigger(k)' = Trigger(x)
    BY <1>1, <1>6 DEF Trigger
  <1>8. Justified(k)' /\ WithinLimit(k)'
    BY <1>1, <1>2, <1>3, <1>4, <1>6, <1>7 DEF Justified, WithinLimit, ResponsesOnward
  <1> QED BY <1>2, <1>4, <1>6, <1>8, ResponseMoves

\* A containment by a version of the rule is of a case it owns and reserved for.
LEMMA ContainedCase ==
    ASSUME AgentInv, ResponseInv, NEW c \in Cases, NEW o \in RuleVersions \cup {Responder},
           ContainAs(c, o), UNCHANGED <<rules, ledgers, execution>>,
           o \in RuleVersions => owner[c] = o /\ ReservedFor(o, c) /\ o \in Activated
    PROVE  /\ AgentInv' /\ ResponsesOnward /\ CasesKnown' /\ ReservationsKept'
           /\ evaluation' \in [Evaluations -> EvaluationRecords] => ResponseTypeOK'
           /\ activator'[c] # 0
  <1>1. /\ activator' = [activator EXCEPT ![c] = o] /\ UNCHANGED <<alert, owner>>
        /\ Contain(c)
    BY DEF ContainAs
  <1>2. UNCHANGED <<hourly, cooldown, lease, reserved, overtaken, execution>>
    BY DEF ledgers
  <1>3. AgentInv' /\ CasesOnward /\ incident[c].status # "absent"
    BY <1>1, ContainOnward
  <1>4. activator' \in [Cases -> RuleVersions \cup {0, Responder}]
    BY <1>1 DEF ResponseInv, ResponseTypeOK
  <1>5. \A d \in Cases : activator'[d] = IF d = c THEN o ELSE activator[d]
    BY <1>1 DEF ResponseInv, ResponseTypeOK
  <1>6. VersionsOnward /\ Activated' = Activated /\ o # 0
    BY RulesKept, ResponseFacts
  <1>7. ResponsesOnward
    BY <1>1, <1>2, <1>5, <1>6 DEF ResponsesOnward
  <1>8. CasesKnown'
    <2>1. ASSUME NEW d \in Cases
          PROVE  /\ alert[d].open => alert[d].occurrence # 0
                 /\ owner[d] # 0 \/ activator'[d] # 0 => incident'[d].status # "absent"
                 /\ activator'[d] \in RuleVersions =>
                       /\ owner[d] = activator'[d]
                       /\ ReservedFor(activator'[d], d)
                       /\ activator'[d] \in Activated'
      <3>1. CASE d = c
        BY <1>3, <1>5, <1>6, <3>1 DEF ResponseInv, CasesKnown, CasesOnward
      <3>2. CASE d # c
        BY <1>3, <1>5, <1>6, <3>2 DEF ResponseInv, CasesKnown, CasesOnward
      <3> QED BY <3>1, <3>2
    <2> QED BY <1>1, <1>2, <2>1 DEF CasesKnown, ReservedFor
  <1>9. ReservationsKept'
    <2>1. \A t \in Triggers : t[2] \in Cases
      BY DEF Triggers
    <2> QED BY <1>2, <1>5, <1>6, <2>1 DEF ResponseInv, ReservationsKept
  <1>10. evaluation' \in [Evaluations -> EvaluationRecords] => ResponseTypeOK'
    BY <1>1, <1>2, <1>4 DEF ResponseInv, ResponseTypeOK
  <1> QED BY <1>3, <1>5, <1>6, <1>7, <1>8, <1>9, <1>10

LEMMA ContainByRuleKeeps ==
    ASSUME AgentInv, ResponseInv, NEW e \in Evaluations, ContainByRule(e)
    PROVE  AgentInv' /\ ResponseInv'
  <1>1. PICK x, c, v, k :
           x = evaluation[e] /\ c = x.case /\ v = x.version /\ k = Gone(x, "contained")
    OBVIOUS
  <1>2. /\ ContainAs(c, v) /\ evaluation' = [evaluation EXCEPT ![e] = k] /\ x.at = "contain"
        /\ UNCHANGED <<rules, ledgers, execution>>
    BY <1>1, EvaluationKnown DEF ContainByRule, Evaluate
  <1>3. /\ x \in EvaluationRecords /\ Justified(x) /\ c \in Cases /\ v \in RuleVersions
        /\ Trigger(x) \in Triggers /\ Trigger(x)[1] = v /\ Trigger(x)[2] = c
    BY <1>1, <1>2, EvaluationKnown
  <1>4. owner[c] = v /\ Trigger(x) \in reserved /\ v \in Activated
    BY <1>1, <1>2, <1>3 DEF Justified
  <1>5. ReservedFor(v, c)
    BY <1>3, <1>4 DEF ReservedFor
  <1>6. /\ AgentInv' /\ ResponsesOnward /\ CasesKnown' /\ ReservationsKept'
        /\ evaluation' \in [Evaluations -> EvaluationRecords] => ResponseTypeOK'
        /\ activator'[c] # 0
    BY <1>2, <1>3, <1>4, <1>5, ContainedCase
  <1>7. /\ k \in EvaluationRecords /\ k.at = "contained" /\ k.version = v /\ k.case = c
        /\ k.alert = x.alert /\ Trigger(k) = Trigger(x)
    <2>1. "contained" \in EvaluationStates
      BY DEF EvaluationStates
    <2> QED BY <1>1, <1>3, <2>1, Going
  <1>8. Trigger(k)' = Trigger(x)
    BY <1>7 DEF Trigger
  <1>9. Justified(k)' /\ WithinLimit(k)'
    BY <1>1, <1>2, <1>3, <1>4, <1>6, <1>7, <1>8 DEF Justified, WithinLimit, ResponsesOnward
  <1> QED BY <1>2, <1>6, <1>7, <1>9, ResponseMoves

LEMMA EvaluationStepKeeps ==
    ASSUME AgentInv, RuleInv, ResponseInv, EvaluationStep
    PROVE  AgentInv' /\ RuleInv' /\ ResponseInv'
  <1>1. PICK e \in Evaluations :
           \/ BeginEvaluation(e) \/ \E c \in Cases : ListAlerts(e, c)
           \/ MatchAlert(e) \/ FindLease(e) \/ CheckLimits(e) \/ ReadLedger(e)
           \/ Reserve(e) \/ ReservationConflict(e) \/ AdoptCase(e) \/ MakeCase(e)
           \/ CaseConflict(e) \/ ContainByRule(e) \/ ContainConflict(e)
           \/ RecordOutcome(e) \/ EndEvaluation(e)
    BY DEF EvaluationStep
  <1>2. UNCHANGED rules
    BY <1>1 DEF BeginEvaluation, ListAlerts, MatchAlert, FindLease, CheckLimits, ReadLedger,
          Reserve, ReservationConflict, AdoptCase, MakeCase, CaseConflict, ContainByRule,
          ContainConflict, RecordOutcome, EndEvaluation
  <1>3. RuleInv'
    BY <1>2, RulesIdle
  <1>4. CASE MakeCase(e) \/ ContainByRule(e)
    BY <1>3, <1>4, MakeCaseKeeps, ContainByRuleKeeps
  <1>5. CASE ~ (MakeCase(e) \/ ContainByRule(e))
    <2>1. UNCHANGED agents
      BY <1>1, <1>5 DEF BeginEvaluation, ListAlerts, MatchAlert, FindLease, CheckLimits, ReadLedger,
            Reserve, ReservationConflict, AdoptCase, CaseConflict, ContainConflict,
            RecordOutcome, EndEvaluation, cases
    <2>2. AgentInv'
      BY <2>1, AgentsIdle
    <2>3. ResponseInv'
      BY <1>1, <1>5, BeginEvaluationKeeps, ListAlertsKeeps, SearchKeeps, CheckLimitsKeeps,
         ReadLedgerKeeps, ReserveKeeps, AdoptCaseKeeps, RecordOutcomeKeeps, EndEvaluationKeeps
    <2> QED BY <1>3, <2>2, <2>3
  <1> QED BY <1>4, <1>5

-----------------------------------------------------------------------------
(* Responders, alerts and the passing of time *)

\* Nothing of the evaluations' changes.
LEMMA ResponsesIdle ==
    ASSUME ResponseInv, CasesOnward, VersionsOnward, UNCHANGED responses
    PROVE  ResponseInv'
  <1>1. UNCHANGED <<alert, owner, activator, hourly, cooldown, lease, execution, evaluation,
                    reserved, overtaken>>
    BY DEF responses
  <1>2. ResponsesOnward
    BY <1>1 DEF ResponsesOnward, VersionsOnward, Activated, InState
  <1>3. CasesKnown'
    BY <1>1, CasesStay
  <1>4. ReservationsKept'
    BY <1>1 DEF ResponseInv, ReservationsKept
  <1>5. ResponseTypeOK'
    BY <1>1 DEF ResponseInv, ResponseTypeOK
  <1> QED BY <1>1, <1>2, <1>3, <1>4, <1>5, ResponseMoves

LEMMA RespondKeeps ==
    ASSUME AgentInv, RuleInv, ResponseInv, RespondStep
    PROVE  AgentInv' /\ RuleInv' /\ ResponseInv'
  <1>1. UNCHANGED <<rules, ledgers, execution, evaluation>>
    BY DEF RespondStep
  <1>2. RuleInv' /\ VersionsOnward
    BY <1>1, RulesIdle
  <1>3. ASSUME NEW c \in Cases, OpenCase(c, Responder) \/ ContainAs(c, Responder)
        PROVE  AgentInv' /\ ResponseInv'
    <2>1. /\ AgentInv' /\ ResponsesOnward /\ CasesKnown' /\ ReservationsKept'
          /\ evaluation' \in [Evaluations -> EvaluationRecords] => ResponseTypeOK'
      BY <1>1, <1>3, OpenedCase, ContainedCase, ResponseFacts
    <2> QED BY <1>1, <2>1, ResponseMoves
  <1>4. CASE /\ \/ \E w \in Workers, c \in Cases : BeginRelease(w, c)
                \/ \E w \in Workers : CommitRelease(w) \/ EndWork(w)
                \/ \E a \in Agents : Revoke(a)
                \/ \E c \in Cases : Resolve(c)
             /\ UNCHANGED <<alert, owner, activator>>
    <2>1. AgentInv' /\ CasesOnward
      BY <1>4, AgentsOnward
    <2>2. UNCHANGED responses
      BY <1>1, <1>4 DEF responses, ledgers
    <2> QED BY <1>2, <2>1, <2>2, ResponsesIdle
  <1> QED BY <1>2, <1>3, <1>4 DEF RespondStep

\* A step that leaves the rule and the agents.
LEMMA OutsideMoves ==
    ASSUME AgentInv, RuleInv, ResponseInv, UNCHANGED <<rules, agents, owner, activator, evaluation>>,
           reserved' = reserved, hourly' = hourly \/ Quiet,
           \A c \in Cases : alert'[c].open => alert'[c].occurrence # 0,
           ReservationsKept',
           evaluation' \in [Evaluations -> EvaluationRecords] => ResponseTypeOK'
    PROVE  AgentInv' /\ RuleInv' /\ ResponseInv'
  <1>1. RuleInv' /\ VersionsOnward /\ Activated' = Activated
    BY RulesIdle, RulesKept
  <1>2. AgentInv' /\ CasesOnward /\ UNCHANGED incident
    BY AgentsIdle DEF agents, CasesOnward
  <1>3. CasesKnown'
    BY <1>1, <1>2 DEF ResponseInv, CasesKnown, ReservedFor
  <1>4. CASE hourly' = hourly
    <2>1. ResponsesOnward
      BY <1>1, <1>4 DEF ResponsesOnward
    <2> QED BY <1>1, <1>2, <1>3, <2>1, ResponseMoves
  <1>5. CASE Quiet
    <2>1. (\A e \in Evaluations : Justified(evaluation[e]) /\ WithinLimit(evaluation[e]))'
      BY <1>5 DEF Quiet, Justified, WithinLimit
    <2>2. evaluation' \in [Evaluations -> EvaluationRecords]
      BY DEF ResponseInv, ResponseTypeOK
    <2> QED BY <1>1, <1>2, <1>3, <2>1, <2>2 DEF ResponseInv
  <1> QED BY <1>4, <1>5

LEMMA AlertKeeps ==
    ASSUME AgentInv, RuleInv, ResponseInv, NEW c \in Cases,
           OpenAlert(c) \/ DeliverAlert(c) \/ CloseAlert(c)
    PROVE  AgentInv' /\ RuleInv' /\ ResponseInv'
  <1>1. /\ UNCHANGED <<rules, agents, owner, activator, ledgers, execution, evaluation>>
        /\ alert \in [Cases -> AlertRecords]
        /\ \A d \in Cases : alert[d].open => alert[d].occurrence # 0
    BY DEF OpenAlert, DeliverAlert, CloseAlert, ResponseInv, ResponseTypeOK, CasesKnown
  <1>2. PICK n, old : n = NoAlert /\ old = alert[c]
    OBVIOUS
  <1>3. n \in AlertRecords /\ old \in AlertRecords /\ (old.open => old.occurrence # 0)
    BY <1>1, <1>2, ResponseFacts
  <1>4. PICK x : x \in AlertRecords /\ (x.open => x.occurrence # 0) /\ alert' = [alert EXCEPT ![c] = x]
    <2>1. CASE OpenAlert(c)
      <3>1. PICK o : o = old.occurrence + 1
        OBVIOUS
      <3>2. old.occurrence < MaxOccurrences
        BY <1>2, <2>1 DEF OpenAlert
      <3>3. o \in 0 .. MaxOccurrences /\ o # 0
        BY <1>3, <3>1, <3>2, ResponseFacts DEF AlertRecords
      <3>4. PICK x : x = [n EXCEPT !.occurrence = o, !.open = TRUE]
        OBVIOUS
      <3>5. x \in AlertRecords /\ x.occurrence = o
        BY <1>3, <3>3, <3>4 DEF AlertRecords
      <3>6. alert' = [alert EXCEPT ![c] = x]
        BY <1>2, <2>1, <3>1, <3>4 DEF OpenAlert
      <3> QED BY <3>3, <3>5, <3>6
    <2>2. CASE DeliverAlert(c)
      <3>1. PICK x : x = [old EXCEPT !.delivered = TRUE]
        OBVIOUS
      <3>2. x \in AlertRecords /\ x.open = old.open /\ x.occurrence = old.occurrence
        BY <1>3, <3>1 DEF AlertRecords
      <3>3. alert' = [alert EXCEPT ![c] = x]
        BY <1>1, <1>2, <2>2, <3>1 DEF DeliverAlert
      <3> QED BY <1>3, <3>2, <3>3
    <2>3. CASE CloseAlert(c)
      <3>1. PICK x : x = [old EXCEPT !.open = FALSE]
        OBVIOUS
      <3>2. x \in AlertRecords /\ ~ x.open
        BY <1>3, <3>1 DEF AlertRecords
      <3>3. alert' = [alert EXCEPT ![c] = x]
        BY <1>1, <1>2, <2>3, <3>1 DEF CloseAlert
      <3> QED BY <3>2, <3>3
    <2> QED BY <2>1, <2>2, <2>3
  <1>5. /\ alert' \in [Cases -> AlertRecords]
        /\ \A d \in Cases : alert'[d].open => alert'[d].occurrence # 0
    BY <1>1, <1>4
  <1>6. UNCHANGED <<hourly, cooldown, lease, reserved, overtaken, execution, owner, activator>>
    BY <1>1 DEF ledgers
  <1>7. ReservationsKept'
    BY <1>6 DEF ResponseInv, ReservationsKept
  <1>8. evaluation' \in [Evaluations -> EvaluationRecords] => ResponseTypeOK'
    BY <1>5, <1>6 DEF ResponseInv, ResponseTypeOK
  <1> QED BY <1>1, <1>5, <1>6, <1>7, <1>8, OutsideMoves

\* While nobody evaluates, the hour, a cooldown or a lease ends.
LEMMA TimeKeeps ==
    ASSUME AgentInv, RuleInv, ResponseInv,
           HourPasses \/ (\E a \in Agents : CooldownPasses(a)) \/ \E t \in Triggers : ExpireLease(t)
    PROVE  AgentInv' /\ RuleInv' /\ ResponseInv'
  <1>1. /\ Quiet /\ UNCHANGED <<rules, cases, reserved, overtaken, execution, evaluation>>
    BY DEF HourPasses, CooldownPasses, ExpireLease
  <1>2. UNCHANGED <<agents, alert, owner, activator>>
    BY <1>1 DEF cases
  <1>3. \A c \in Cases : alert'[c].open => alert'[c].occurrence # 0
    BY <1>2 DEF ResponseInv, CasesKnown
  <1>4. /\ hourly' \in [revision : Nat, used : Nat]
        /\ hourly' = hourly \/ hourly'.used = 0
    <2>1. PICK h, r : h = hourly /\ r = [h EXCEPT !.used = 0]
      OBVIOUS
    <2>2. h \in [revision : Nat, used : Nat]
      BY <2>1 DEF ResponseInv, ResponseTypeOK
    <2>3. r \in [revision : Nat, used : Nat] /\ r.used = 0
      BY <2>1, <2>2
    <2>4. hourly' = h \/ hourly' = r
      BY <2>1 DEF HourPasses, CooldownPasses, ExpireLease
    <2> QED BY <2>1, <2>2, <2>3, <2>4
  <1>5. cooldown' \in [Agents -> [revision : Nat, running : BOOLEAN]]
    <2>1. PICK D : D = [revision : Nat, running : BOOLEAN]
      OBVIOUS
    <2>2. cooldown \in [Agents -> D]
      BY <2>1 DEF ResponseInv, ResponseTypeOK
    <2>3. CASE UNCHANGED cooldown
      BY <2>1, <2>2, <2>3
    <2>4. ASSUME NEW a \in Agents, CooldownPasses(a)
          PROVE  cooldown' \in [Agents -> D]
      <3>1. PICK old, x : old = cooldown[a] /\ x = [old EXCEPT !.running = FALSE]
        OBVIOUS
      <3>2. cooldown' = [cooldown EXCEPT ![a] = x] /\ old \in D
        BY <2>2, <2>4, <3>1 DEF CooldownPasses
      <3>3. x \in D
        BY <2>1, <3>1, <3>2
      <3> QED BY <2>2, <3>2, <3>3
    <2> QED BY <2>1, <2>3, <2>4 DEF HourPasses, ExpireLease
  <1>6. lease' \subseteq lease
    BY DEF HourPasses, CooldownPasses, ExpireLease
  <1>7. ReservationsKept'
    <2>1. overtaken \/ hourly'.used <= MaxActions
      BY <1>4, ResponseFacts DEF ResponseInv, ReservationsKept
    <2> QED BY <1>1, <1>2, <1>6, <2>1 DEF ResponseInv, ReservationsKept
  <1>8. evaluation' \in [Evaluations -> EvaluationRecords] => ResponseTypeOK'
    BY <1>1, <1>2, <1>4, <1>5, <1>6 DEF ResponseInv, ResponseTypeOK
  <1> QED BY <1>1, <1>2, <1>3, <1>7, <1>8, OutsideMoves

-----------------------------------------------------------------------------
(* Everything together *)

\* What is done with agents and their cases besides: they are registered, enrolled,
\* reviewed, replaced and offboarded, their sessions are revoked, cases are closed.
AgentsAlone ==
    /\ \/ LifecycleStep \/ PutBackStep \/ SessionStep \/ RevokeSessionsStep
       \/ \E c \in Cases : Close(c)
    /\ UNCHANGED <<rules, responses>>

ResponseSpec ==
    /\ RuleInit /\ AgentInit /\ ResponseInit
    /\ [][ResponseNext \/ AgentsAlone]_<<rules, agents, responses>>

AuthorityInv == AgentInv /\ RuleInv /\ ResponseInv

LEMMA AgentsAloneKeep ==
    ASSUME AgentInv, RuleInv, ResponseInv, AgentsAlone
    PROVE  AgentInv' /\ RuleInv' /\ ResponseInv'
  <1>1. AgentNext \/ \E c \in Cases : Close(c)
    BY DEF AgentsAlone, AgentNext
  <1>2. AgentInv'
    BY <1>1, AgentsStep, CloseKeeps
  <1>3. RuleInv' /\ VersionsOnward
    BY RulesIdle DEF AgentsAlone
  <1>4. incident \in [Cases -> IncidentRecords]
    BY DEF AgentInv, AgentTypeOK, IncidentRecords
  <1>5. CasesOnward
    <2>1. CASE LifecycleStep
      BY <2>1 DEF LifecycleStep, Register, Revoke, Offboard, Replace, CasesOnward
    <2>2. CASE PutBackStep
      BY <2>2 DEF PutBackStep, BeginOwnership, BeginClearStop, ReadAgent, PutOwnership,
            PutClearStop, CasesOnward
    <2>3. CASE SessionStep
      BY <2>3 DEF SessionStep, BeginIssue, ReadAgent, PutToken, BeginEnroll, CheckQuarantine,
            ReadEnrolled, Consume, PutSession, BeginHeartbeat, Renew, ReadHeartbeat,
            PutHeartbeat, DeleteRenewed, ExpireToken, ExpireSession, CasesOnward
    <2>4. CASE RevokeSessionsStep
      <3>1. ASSUME NEW w \in Workers, NEW c \in Cases, BeginRevokeSessions(w, c) PROVE CasesOnward
        BY <3>1 DEF BeginRevokeSessions, CasesOnward
      <3>2. ASSUME NEW w \in Workers, PutRevokedSessions(w) PROVE CasesOnward
        <4>1. PICK c : c = work[w].case
          OBVIOUS
        <4>2. incident' = [incident EXCEPT ![c].revision = @ + 1]
          BY <3>2, <4>1 DEF PutRevokedSessions
        <4>3. \A d \in Cases : incident'[d].status = incident[d].status
          BY <1>4, <4>2 DEF IncidentRecords
        <4> QED BY <4>3 DEF CasesOnward
      <3> QED BY <2>4, <3>1, <3>2 DEF RevokeSessionsStep
    <2>5. ASSUME NEW c \in Cases, Close(c) PROVE CasesOnward
      <3>1. \A d \in Cases : incident'[d].status = IF d = c THEN "closed" ELSE incident[d].status
        BY <1>4, <2>5 DEF Close, IncidentRecords
      <3> QED BY <3>1 DEF CasesOnward
    <2> QED BY <2>1, <2>2, <2>3, <2>4, <2>5 DEF AgentsAlone
  <1>6. ResponseInv'
    BY <1>3, <1>5, ResponsesIdle DEF AgentsAlone
  <1> QED BY <1>2, <1>3, <1>6

LEMMA ResponseStepKeeps ==
    AuthorityInv /\ [ResponseNext \/ AgentsAlone]_<<rules, agents, responses>> => AuthorityInv'
  <1> SUFFICES ASSUME AgentInv, RuleInv, ResponseInv,
                      [ResponseNext \/ AgentsAlone]_<<rules, agents, responses>>
               PROVE  AgentInv' /\ RuleInv' /\ ResponseInv'
    BY DEF AuthorityInv
  <1>1. CASE EvaluationStep
    BY <1>1, EvaluationStepKeeps
  <1>2. CASE RespondStep
    BY <1>2, RespondKeeps
  <1>3. CASE [RuleNext]_rules /\ UNCHANGED <<agents, responses>>
    <2>1. RuleInv' /\ VersionsOnward
      BY <1>3, RulesStep
    <2>2. AgentInv' /\ CasesOnward
      BY <1>3, AgentsOnward
    <2> QED BY <1>3, <2>1, <2>2, ResponsesIdle
  <1>4. CASE \E c \in Cases : OpenAlert(c) \/ DeliverAlert(c) \/ CloseAlert(c)
    BY <1>4, AlertKeeps
  <1>5. CASE HourPasses \/ (\E a \in Agents : CooldownPasses(a)) \/ \E t \in Triggers : ExpireLease(t)
    BY <1>5, TimeKeeps
  <1>6. CASE AgentsAlone
    BY <1>6, AgentsAloneKeep
  <1> QED BY <1>1, <1>2, <1>3, <1>4, <1>5, <1>6 DEF ResponseNext

\* An evaluation goes by a version of the rule that was activated and, before it
\* opens a case or contains one, by a reservation of the alert's occurrence; the
\* limit it checked is that of the ledger it reserves against; and the requests of
\* the rule's governance have read numbers that were taken
\* (_evaluate_response_rules, _reserve_response_rule_action,
\* _create_response_rule_draft).
THEOREM ResponseInvariant == ResponseSpec => []AuthorityInv
  <1>1. RuleInit /\ AgentInit /\ ResponseInit => AuthorityInv
    BY RuleBegins, AgentsBegin, ResponseBegins DEF AuthorityInv
  <1> QED BY <1>1, ResponseStepKeeps, PTL DEF ResponseSpec

\* However evaluations, responders, the rule's governance and the agents' own
\* requests interleave, a rule's quarantine is of a case that the same approved
\* version owns and reserved an action for, and the actions of an hour stay within
\* the limit unless a reservation was overtaken (_reserve_response_rule_action,
\* _evaluate_response_rules, _activate_response_rule_version).
THEOREM ResponseStaysApproved == ResponseSpec => []ResponseWithinApproval
  <1>1. AuthorityInv => ResponseWithinApproval
    <2> SUFFICES ASSUME RuleInv, ResponseInv
                 PROVE  ResponseWithinApproval
      BY DEF AuthorityInv
    <2>1. RuleGoverned
      BY DEF RuleInv
    <2>2. ReservationsKept /\ CasesKnown
      BY DEF ResponseInv
    <2>3. ASSUME NEW c \in Cases, activator[c] \in RuleVersions
          PROVE  /\ owner[c] = activator[c]
                 /\ \E t \in reserved : t[1] = activator[c] /\ t[2] = c
                 /\ ruleVersion[activator[c]].decider
                       \notin {Nobody, ruleVersion[activator[c]].author}
      <3>1. /\ owner[c] = activator[c] /\ ReservedFor(activator[c], c)
            /\ activator[c] \in Activated
        BY <2>2, <2>3 DEF CasesKnown
      <3>2. ruleVersion[activator[c]].decider \notin {Nobody, ruleVersion[activator[c]].author}
        BY <2>1, <3>1 DEF RuleGoverned, Activated
      <3> QED BY <3>1, <3>2 DEF ReservedFor
    <2> QED BY <2>1, <2>2, <2>3 DEF ResponseWithinApproval, ReservationsKept
  <1> QED BY <1>1, ResponseInvariant, PTL

\* The items of the rule, its versions, the alerts, the ledgers and the evaluations
\* keep their forms (the writes of handler.py).
THEOREM ResponseTypes == ResponseSpec => [](AgentTypeOK /\ RuleTypeOK /\ ResponseTypeOK)
  <1>1. AuthorityInv => AgentTypeOK /\ RuleTypeOK /\ ResponseTypeOK
    BY DEF AuthorityInv, AgentInv, RuleInv, ResponseInv
  <1> QED BY <1>1, ResponseInvariant, PTL

\* Automatic quarantines and those of responders are owned alike: an agent is
\* quarantined exactly while one contained case owns its containment
\* (_contain_case, _release_case, _evaluate_response_rules).
THEOREM AutomaticQuarantineIsOwned == ResponseSpec => []QuarantineOwned
  <1>1. AuthorityInv => QuarantineOwned
    BY DEF AuthorityInv, AgentInv
  <1> QED BY <1>1, ResponseInvariant, PTL
=============================================================================
