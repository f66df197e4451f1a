--------------------------- MODULE AutomaticResponse ---------------------------
(***************************************************************************)
(* Evaluations of an automatic-response rule (handler.py): against an open *)
(* endpoint alert the rule reserves an action in its hourly ledger and the *)
(* agent's cooldown, opens a case of its own and quarantines the agent the *)
(* alert is bound to.  The scheduled cycle and the security events of      *)
(* endpoints evaluate at the same time, while responders open, contain and *)
(* release cases (AgentAuthority) and the rule is governed                 *)
(* (ResponseRules).                                                        *)
(*                                                                         *)
(* An alert's case has the alert's identifier, as _create_case derives one *)
(* from the other.  An evaluation is of one alert: for its next alert it   *)
(* is as another one that began with it.  It may end anywhere, and is      *)
(* shorter than the hour, the cooldown and the leases' time to live.       *)
(***************************************************************************)
EXTENDS ResponseRules, AgentAuthority

CONSTANTS
    Evaluations,     \* bound on the evaluations in flight
    MaxActions,      \* the rule's maxActionsPerHour
    MaxOccurrences,  \* bound on an alert's occurrences
    MaxLedger,       \* bound on the revision of the hourly ledger
    AgentOf,         \* the agent that an alert's endpoint is correlated with
    Responder        \* an operator, as the owner of a case

ASSUME ResponseAssumption ==
    /\ {MaxActions, MaxOccurrences, MaxLedger} \subseteq Nat
    /\ AgentOf \in [Cases -> Agents]
    /\ Responder \notin RuleVersions \cup {0}

VARIABLES
    alert,         \* the ALERT items, one per case identifier
    owner,         \* ownerId of the cases: a version of the rule, or Responder
    activator,     \* activatedBy of the cases' containment
    hourly,        \* the RESPONSE_RATE item: revision, and actions of the last hour
    cooldown,      \* the RESPONSE_COOLDOWN items: revision, and whether it is running
    lease,         \* the triggers that have a RESPONSE_LEASE item
    execution,     \* the outcomes of the RESPONSE_EXECUTION items
    evaluation,    \* what each evaluation does and remembers
    reserved,      \* history: the triggers an action was reserved for
    overtaken      \* history: a reservation came between the check of the limits
                   \* and the read of the ledger that another one was based on

responses == <<alert, owner, activator, hourly, cooldown, lease, execution, evaluation,
               reserved, overtaken>>

NoAlert == [occurrence |-> 0, open |-> FALSE, cased |-> FALSE, delivered |-> FALSE]

\* A trigger: a version of the rule and an occurrence of an alert.
Triggers == RuleVersions \X Cases \X (1 .. MaxOccurrences)

\* seen: the revisions of the ledger and the cooldown; stale: they were others
\* when the limits were checked; revision: that of the case.
NoEvaluation ==
    [at |-> "idle", version |-> 0, case |-> Nothing, alert |-> NoAlert,
     seen |-> <<0, 0>>, stale |-> FALSE, revision |-> 0]

ResponseInit ==
    /\ alert = [c \in Cases |-> NoAlert]
    /\ owner = [c \in Cases |-> 0]
    /\ activator = [c \in Cases |-> 0]
    /\ hourly = [revision |-> 0, used |-> 0]
    /\ cooldown = [a \in Agents |-> [revision |-> 0, running |-> FALSE]]
    /\ lease = {}
    /\ execution = [t \in Triggers |-> "none"]
    /\ evaluation = [e \in Evaluations |-> NoEvaluation]
    /\ reserved = {}
    /\ overtaken = FALSE

TriggerOf(e) == <<evaluation[e].version, evaluation[e].case, evaluation[e].alert.occurrence>>

Evaluate(e, r) == evaluation' = [evaluation EXCEPT ![e] = r]

Proceed(e, at) == Evaluate(e, [evaluation[e] EXCEPT !.at = at])

ledgers == <<hourly, cooldown, lease, reserved, overtaken>>
cases == <<agents, alert, owner, activator>>

-----------------------------------------------------------------------------
(* Alerts *)

\* A reopened alert is put anew, without the case it had.
OpenAlert(c) ==
    /\ ~ alert[c].open
    /\ alert[c].occurrence < MaxOccurrences
    /\ alert' = [alert EXCEPT ![c] =
          [NoAlert EXCEPT !.occurrence = alert[c].occurrence + 1, !.open = TRUE]]
    /\ UNCHANGED <<rules, agents, owner, activator, ledgers, execution, evaluation>>

DeliverAlert(c) ==
    /\ alert[c].open
    /\ ~ alert[c].delivered
    /\ alert' = [alert EXCEPT ![c].delivered = TRUE]
    /\ UNCHANGED <<rules, agents, owner, activator, ledgers, execution, evaluation>>

\* It is acknowledged or resolved.
CloseAlert(c) ==
    /\ alert[c].open
    /\ alert' = [alert EXCEPT ![c].open = FALSE]
    /\ UNCHANGED <<rules, agents, owner, activator, ledgers, execution, evaluation>>

-----------------------------------------------------------------------------
(* Cases *)

\* _create_case, conditional on the alert's revision.  A case of an agent that is
\* not active is not bound to it.
OpenCase(c, o) ==
    /\ incident[c] = NoCase
    /\ ~ alert[c].cased
    /\ incident' = [incident EXCEPT ![c] =
          [NoCase EXCEPT !.status = "open", !.agent = AgentOf[c], !.revision = 1,
                         !.life = IF IsActive(AgentOf[c]) THEN agent[AgentOf[c]].life ELSE 0]]
    /\ owner' = [owner EXCEPT ![c] = o]
    /\ alert' = [alert EXCEPT ![c].cased = TRUE]
    /\ UNCHANGED <<agent, token, session, containment, work, revocations, restored, activator>>

ContainAs(c, o) ==
    /\ Contain(c)
    /\ activator' = [activator EXCEPT ![c] = o]
    /\ UNCHANGED <<alert, owner>>

\* Responders; a release wants the alert acknowledged or resolved.
RespondStep ==
    /\ \/ \E c \in Cases :
             \/ alert[c] # NoAlert /\ OpenCase(c, Responder)
             \/ ContainAs(c, Responder)
             \/ /\ ~ alert[c].open
                /\ \E w \in Workers : BeginRelease(w, c)
                /\ UNCHANGED <<alert, owner, activator>>
       \/ /\ \/ \E w \in Workers : CommitRelease(w) \/ EndWork(w)
             \/ \E a \in Agents : Revoke(a)
             \/ \E c \in Cases : Resolve(c)
          /\ UNCHANGED <<alert, owner, activator>>
    /\ UNCHANGED <<rules, ledgers, execution, evaluation>>

-----------------------------------------------------------------------------
(* Evaluations *)

BeginEvaluation(e) ==
    /\ evaluation[e].at = "idle"
    /\ rule.enabled
    /\ Evaluate(e, [NoEvaluation EXCEPT !.at = "alerts", !.version = rule.active])
    /\ UNCHANGED <<rules, cases, ledgers, execution>>

ListAlerts(e, c) ==
    /\ evaluation[e].at = "alerts"
    /\ alert[c].open
    /\ Evaluate(e, [evaluation[e] EXCEPT !.at = "match", !.case = c, !.alert = alert[c]])
    /\ UNCHANGED <<rules, cases, ledgers, execution>>

\* The version is active, its trigger has no outcome, and the agent is bound or not.
MatchAlert(e) ==
    /\ evaluation[e].at = "match"
    /\ ruleVersion[evaluation[e].version].state = "active"
    /\ execution[TriggerOf(e)] = "none"
    /\ Proceed(e, IF IsActive(AgentOf[evaluation[e].case]) THEN "lease" ELSE "skipped")
    /\ UNCHANGED <<rules, cases, ledgers, execution>>

FindLease(e) ==
    /\ evaluation[e].at = "lease"
    /\ Proceed(e, IF TriggerOf(e) \in lease THEN "case" ELSE "limits")
    /\ UNCHANGED <<rules, cases, ledgers, execution>>

LedgerRevisions(a) == <<hourly.revision, cooldown[a].revision>>

CheckLimits(e) ==
    LET a == AgentOf[evaluation[e].case] IN
    /\ evaluation[e].at = "limits"
    /\ Evaluate(e, [evaluation[e] EXCEPT
          !.seen = LedgerRevisions(a),
          !.at = IF hourly.used >= MaxActions \/ cooldown[a].running THEN "skipped" ELSE "ledger"])
    /\ UNCHANGED <<rules, cases, ledgers, execution>>

\* The limits are not checked again against what is read now.
ReadLedger(e) ==
    LET now == LedgerRevisions(AgentOf[evaluation[e].case]) IN
    /\ evaluation[e].at = "ledger"
    /\ Evaluate(e, [evaluation[e] EXCEPT !.at = "reserve", !.seen = now,
                                         !.stale = now # evaluation[e].seen])
    /\ UNCHANGED <<rules, cases, ledgers, execution>>

\* Mutant: the transaction has no condition on the ledger and the cooldown.
ReservableByLease(e) == TriggerOf(e) \notin lease

Reservable(e) ==
    /\ TriggerOf(e) \notin lease
    /\ LedgerRevisions(AgentOf[evaluation[e].case]) = evaluation[e].seen

Reserve(e) ==
    LET a == AgentOf[evaluation[e].case] IN
    /\ evaluation[e].at = "reserve"
    /\ Reservable(e)
    /\ hourly.revision < MaxLedger
    /\ hourly' = [revision |-> hourly.revision + 1, used |-> hourly.used + 1]
    /\ cooldown' = [cooldown EXCEPT ![a] = [revision |-> @.revision + 1, running |-> TRUE]]
    /\ lease' = lease \cup {TriggerOf(e)}
    /\ reserved' = reserved \cup {TriggerOf(e)}
    /\ overtaken' = (overtaken \/ evaluation[e].stale)
    /\ Proceed(e, "case")
    /\ UNCHANGED <<rules, cases, execution>>

\* The transaction conflicts; with no lease of the trigger it is tried again.
ReservationConflict(e) ==
    /\ evaluation[e].at = "reserve"
    /\ ~ Reservable(e)
    /\ Proceed(e, IF TriggerOf(e) \in lease THEN "case" ELSE "limits")
    /\ UNCHANGED <<rules, cases, ledgers, execution>>

\* The alert had a case when it was listed.
AdoptCase(e) ==
    LET c == evaluation[e].case
        v == evaluation[e].version
    IN
    /\ evaluation[e].at = "case"
    /\ evaluation[e].alert.cased
    /\ Evaluate(e, [evaluation[e] EXCEPT
          !.revision = incident[c].revision,
          !.at = IF owner[c] # v THEN "skipped"
                 ELSE IF incident[c].status # "contained" THEN "contain"
                 ELSE IF activator[c] = v THEN "contained"
                 ELSE "skipped"])
    /\ UNCHANGED <<rules, cases, ledgers, execution>>

MakeCase(e) ==
    LET c == evaluation[e].case IN
    /\ evaluation[e].at = "case"
    /\ ~ evaluation[e].alert.cased
    /\ alert[c] = evaluation[e].alert
    /\ OpenCase(c, evaluation[e].version)
    /\ Evaluate(e, [evaluation[e] EXCEPT !.at = "contain", !.revision = 1])
    /\ UNCHANGED <<rules, ledgers, execution>>

\* The alert changed since it was listed, or has a case of an earlier occurrence.
CaseConflict(e) ==
    LET c == evaluation[e].case IN
    /\ evaluation[e].at = "case"
    /\ ~ evaluation[e].alert.cased
    /\ alert[c] # evaluation[e].alert \/ incident[c] # NoCase
    /\ Proceed(e, "skipped")
    /\ UNCHANGED <<rules, cases, ledgers, execution>>

ContainByRule(e) ==
    LET c == evaluation[e].case IN
    /\ evaluation[e].at = "contain"
    /\ incident[c].revision = evaluation[e].revision
    /\ ContainAs(c, evaluation[e].version)
    /\ Proceed(e, "contained")
    /\ UNCHANGED <<rules, ledgers, execution>>

ContainConflict(e) ==
    LET c == evaluation[e].case IN
    /\ evaluation[e].at = "contain"
    /\ \/ incident[c].revision # evaluation[e].revision
       \/ incident[c].status \notin {"open", "investigating"}
       \/ ~ Bound(c)
       \/ containment[AgentOf[c]].active
    /\ Proceed(e, "skipped")
    /\ UNCHANGED <<rules, cases, ledgers, execution>>

\* The first outcome of a trigger stays.
RecordOutcome(e) ==
    /\ evaluation[e].at \in {"skipped", "contained"}
    /\ execution' = IF execution[TriggerOf(e)] = "none"
                    THEN [execution EXCEPT ![TriggerOf(e)] = evaluation[e].at]
                    ELSE execution
    /\ Evaluate(e, NoEvaluation)
    /\ UNCHANGED <<rules, cases, ledgers>>

EndEvaluation(e) ==
    /\ evaluation[e].at # "idle"
    /\ Evaluate(e, NoEvaluation)
    /\ UNCHANGED <<rules, cases, ledgers, execution>>

Quiet == \A e \in Evaluations : evaluation[e].at = "idle"

HourPasses ==
    /\ Quiet
    /\ hourly.used > 0
    /\ hourly' = [hourly EXCEPT !.used = 0]
    /\ UNCHANGED <<rules, cases, cooldown, lease, reserved, overtaken, execution, evaluation>>

CooldownPasses(a) ==
    /\ Quiet
    /\ cooldown[a].running
    /\ cooldown' = [cooldown EXCEPT ![a].running = FALSE]
    /\ UNCHANGED <<rules, cases, hourly, lease, reserved, overtaken, execution, evaluation>>

\* A day after its reservation, when the rest of the ledger is long over.
ExpireLease(t) ==
    /\ Quiet
    /\ t \in lease
    /\ hourly.used = 0
    /\ ~ cooldown[AgentOf[t[2]]].running
    /\ lease' = lease \ {t}
    /\ UNCHANGED <<rules, cases, hourly, cooldown, reserved, overtaken, execution, evaluation>>

EvaluationStep ==
    \E e \in Evaluations :
       \/ BeginEvaluation(e) \/ \E c \in Cases : ListAlerts(e, c)
       \/ MatchAlert(e) \/ FindLease(e) \/ CheckLimits(e) \/ ReadLedger(e)
       \/ Reserve(e) \/ ReservationConflict(e) \/ AdoptCase(e) \/ MakeCase(e)
       \/ CaseConflict(e) \/ ContainByRule(e) \/ ContainConflict(e)
       \/ RecordOutcome(e) \/ EndEvaluation(e)

ResponseNext ==
    \/ EvaluationStep
    \/ RespondStep
    \/ RuleNext /\ UNCHANGED <<agents, responses>>
    \/ \E c \in Cases : OpenAlert(c) \/ DeliverAlert(c) \/ CloseAlert(c)
    \/ HourPasses
    \/ \E a \in Agents : CooldownPasses(a)
    \/ \E t \in Triggers : ExpireLease(t)

-----------------------------------------------------------------------------
(* Properties *)

\* However evaluations race with each other, with responders and with the rule's
\* governance, a rule's quarantine is of a case that the same version owns, for
\* which it reserved an action, and is recorded as nothing else's; and the actions
\* of an hour stay within the approved limit, unless a reservation was overtaken
\* between the check of the limits and the second read of the ledger
\* (_reserve_response_rule_action, _evaluate_response_rules).
ResponseWithinApproval ==
    /\ RuleGoverned
    /\ overtaken \/ hourly.used <= MaxActions
    /\ \A c \in Cases :
          activator[c] \in RuleVersions =>
             /\ owner[c] = activator[c]
             /\ \E t \in reserved : t[1] = activator[c] /\ t[2] = c
             /\ ruleVersion[activator[c]].decider \notin {Nobody, ruleVersion[activator[c]].author}
    /\ \A t \in Triggers : execution[t] = "contained" => t \in reserved /\ activator[t[2]] # 0
=============================================================================
