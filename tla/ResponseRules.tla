----------------------------- MODULE ResponseRules -----------------------------
(***************************************************************************)
(* The governance of one automatic-response rule (handler.py): the         *)
(* RESPONSE_RULE item, which is what evaluations go by, and its            *)
(* RESPONSE_RULE_VERSION items.  A draft, a disable and a rollback read    *)
(* the rule and put back the whole of it under a condition on some of its  *)
(* fields: each is a read and a write.  A handler whose conditions cover   *)
(* all it read and keeps is one step.  A request may end anywhere.         *)
(***************************************************************************)
EXTENDS Naturals

CONSTANTS
    Reviewers,       \* those who author, review and activate versions
    Governors,       \* bound on the requests in flight
    MaxRuleVersions,
    Nobody

ASSUME RuleAssumption == MaxRuleVersions \in Nat /\ Nobody \notin Reviewers

VARIABLES
    rule,          \* the RESPONSE_RULE item
    ruleVersion,   \* the RESPONSE_RULE_VERSION items
    governor,      \* what each request does and remembers
    silenced,      \* history: the rule was disabled, and no version activated since
    reenabled      \* history: a draft undid a disable that it had not read

rules == <<rule, ruleVersion, governor, silenced, reenabled>>

RuleVersions == 1 .. MaxRuleVersions

NoRule == [active |-> 0, latest |-> 0, enabled |-> FALSE]

NoRuleVersion == [state |-> "absent", base |-> 0, author |-> Nobody, decider |-> Nobody]

Drafted(u, base) == [NoRuleVersion EXCEPT !.state = "draft", !.base = base, !.author = u]

NoGovernor == [at |-> "idle", seen |-> NoRule]

RuleInit ==
    /\ rule = NoRule
    /\ ruleVersion = [v \in RuleVersions |-> NoRuleVersion]
    /\ governor = [g \in Governors |-> NoGovernor]
    /\ silenced = FALSE
    /\ reenabled = FALSE

InState(S) == {v \in RuleVersions : ruleVersion[v].state \in S}

Adjourn(g) == governor' = [governor EXCEPT ![g] = NoGovernor]

ReadRule(g, at) ==
    /\ governor[g].at = "idle"
    /\ rule # NoRule
    /\ governor' = [governor EXCEPT ![g] = [at |-> at, seen |-> rule]]
    /\ UNCHANGED <<rule, ruleVersion, silenced, reenabled>>

CreateRule(u) ==
    /\ rule = NoRule
    /\ rule' = [NoRule EXCEPT !.latest = 1]
    /\ ruleVersion' = [ruleVersion EXCEPT ![1] = Drafted(u, 0)]
    /\ UNCHANGED <<governor, silenced, reenabled>>

BeginRuleDraft(g) == ReadRule(g, "list")

ListRuleVersions(g) ==
    /\ governor[g].at = "list"
    /\ InState({"draft", "review", "approved"}) = {}
    /\ governor' = [governor EXCEPT ![g].at = "draft"]
    /\ UNCHANGED <<rule, ruleVersion, silenced, reenabled>>

\* The condition leaves out whether the rule is enabled, which goes back to what
\* was read.
CommitRuleDraft(g, u) ==
    LET seen == governor[g].seen
        v == seen.latest + 1
    IN
    /\ governor[g].at = "draft"
    /\ v \in InState({"absent"})
    /\ rule.latest = seen.latest
    /\ rule.active = seen.active
    /\ rule' = [seen EXCEPT !.latest = v]
    /\ ruleVersion' = [ruleVersion EXCEPT ![v] = Drafted(u, seen.active)]
    /\ reenabled' = (reenabled \/ (seen.enabled /\ ~ rule.enabled))
    /\ Adjourn(g)
    /\ UNCHANGED silenced

SubmitRule(v) ==
    /\ v \in InState({"draft"})
    /\ ruleVersion' = [ruleVersion EXCEPT ![v].state = "review"]
    /\ UNCHANGED <<rule, governor, silenced, reenabled>>

\* An approval is never the author's own.
DecideRule(v, u) ==
    /\ v \in InState({"review"})
    /\ \/ /\ u # ruleVersion[v].author
          /\ ruleVersion' = [ruleVersion EXCEPT ![v].state = "approved", ![v].decider = u]
       \/ ruleVersion' = [ruleVersion EXCEPT ![v].state = "rejected", ![v].decider = u]
    /\ UNCHANGED <<rule, governor, silenced, reenabled>>

ActivateRule(v) ==
    /\ v \in InState({"approved"})
    /\ ruleVersion[v].decider \notin {Nobody, ruleVersion[v].author}
    /\ ruleVersion[v].base = rule.active
    /\ rule.active # 0 => rule.active \in InState({"active"})
    /\ rule' = [rule EXCEPT !.active = v, !.enabled = TRUE]
    /\ ruleVersion' = [w \in RuleVersions |->
          IF w = v THEN [ruleVersion[w] EXCEPT !.state = "active"]
          ELSE IF w = rule.active THEN [ruleVersion[w] EXCEPT !.state = "superseded"]
          ELSE ruleVersion[w]]
    /\ silenced' = FALSE
    /\ UNCHANGED <<governor, reenabled>>

BeginRuleDisable(g) == rule.enabled /\ ReadRule(g, "disable")

\* A draft made since the read stays, and the number of the latest version does not.
CommitRuleDisable(g) ==
    /\ governor[g].at = "disable"
    /\ rule.active = governor[g].seen.active
    /\ rule.enabled
    /\ rule' = [governor[g].seen EXCEPT !.enabled = FALSE]
    /\ silenced' = TRUE
    /\ Adjourn(g)
    /\ UNCHANGED <<ruleVersion, reenabled>>

BeginRuleRollback(g) == rule.enabled /\ ReadRule(g, "rollback")

CommitRuleRollback(g, v) ==
    LET seen == governor[g].seen IN
    /\ governor[g].at = "rollback"
    /\ v \in InState({"superseded"})
    /\ ruleVersion[v].decider \notin {Nobody, ruleVersion[v].author}
    /\ seen.active \in InState({"active"})
    /\ rule.active = seen.active
    /\ rule.enabled
    /\ rule' = [seen EXCEPT !.active = v]
    /\ ruleVersion' = [ruleVersion EXCEPT ![seen.active].state = "superseded", ![v].state = "active"]
    /\ Adjourn(g)
    /\ UNCHANGED <<silenced, reenabled>>

EndGovernor(g) ==
    /\ governor[g].at # "idle"
    /\ Adjourn(g)
    /\ UNCHANGED <<rule, ruleVersion, silenced, reenabled>>

RuleNext ==
    \/ \E u \in Reviewers : CreateRule(u) \/ \E v \in RuleVersions : DecideRule(v, u)
    \/ \E v \in RuleVersions : SubmitRule(v) \/ ActivateRule(v)
    \/ \E g \in Governors :
          \/ BeginRuleDraft(g) \/ ListRuleVersions(g) \/ BeginRuleDisable(g)
          \/ CommitRuleDisable(g) \/ BeginRuleRollback(g) \/ EndGovernor(g)
          \/ \E u \in Reviewers : CommitRuleDraft(g, u)
          \/ \E v \in RuleVersions : CommitRuleRollback(g, v)

-----------------------------------------------------------------------------
\* Whatever drafts, disables, rollbacks and activations put back, the rule names
\* the one version that is active, somebody other than its author approved it, and
\* one version at most is pending; and a rule that was disabled is
\* enabled by an activation only, or by a draft that had read it enabled
\* (_activate_response_rule_version, _rollback_response_rule,
\* _create_response_rule_draft).
RuleGoverned ==
    /\ InState({"active"}) = {rule.active} \ {0}
    /\ \A v \in InState({"active", "superseded"}) :
          ruleVersion[v].decider \notin {Nobody, ruleVersion[v].author}
    /\ \A v, w \in InState({"draft", "review", "approved"}) : v = w
    /\ rule.enabled => rule.active # 0 /\ (silenced => reenabled)
=============================================================================
