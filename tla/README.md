# Formal models of aai-sec-sdk

TLA+ modules that model the security core of the SDK (`src/agentic_security`),
its DynamoDB idempotency store, the authorities and queue workers of the AWS
control plane (`infra/aws-control-plane/lambda`) and the regional transition
scripts (`scripts/`), the TLC configurations that check them, and TLAPS proofs.
`PROJECT.json` maps every definition to the lines it models.

## 1. The system

The repository has three layers.

1. **The SDK**, `src/agentic_security`. A host builds one `GuardedRuntime` per
   task; an untrusted agent hands it `ActionProposal`s, and `execute()` decides,
   runs and records each one. Everything else in the SDK is a provider that
   `execute()` calls (policy, approvals, credentials, isolation, idempotency
   store, audit sink) or an adapter in front of it (MCP gateway, Claude Code and
   Codex hooks).
2. **The control planes**: a single-process one over SQLite
   (`enterprise_control_plane.py`, `ui_control_plane.py`) and the AWS one
   (`infra/aws-control-plane/lambda`), a set of Lambda handlers over DynamoDB
   conditional writes, SQS and S3. They distribute signed policies, run
   rollouts, discovery, evidence and webhook jobs, and manage agents.
3. **Operation scripts** (`scripts/`): deployment, regional recovery and routing
   with a transition journal.

| component | state | operations | what makes it correct |
|---|---|---|---|
| `GuardedRuntime` (runtime.py) | stop flag, active tokens, idempotency lock | `execute`, `stop`, `replace_policy` | a stop reaches every handler; a denial never executes; a timeout is never reported as settled; every call returns |
| `PreExecutionAuthorizer`, `ExecutionLifecycle` (components.py) | permits | `issue_permit`, `invoke_handler` | no handler without complete evidence, none after a stop was seen |
| `BoundedOperationExecutor`, `-Tracker`, `-Lease` (components.py) | worker account | `run`, `admit`, `mark_timeout`, `complete` | each worker is counted once, until it exits |
| `BudgetState`, `ActionBudgetLease` (budgets.py, components.py) | attempts, active, fan-out, cost; one lease per call | `acquire`, `release`, `defer`, `release_once` | counts are exact; no slot lost or released twice |
| `InMemoryIdempotencyStore`, `DynamoDbIdempotencyStore` | one record per operation key | `claim`, `lookup`, `complete`, `mark_uncertain`, `gc` | a key is executed at most once per settled life; an open outcome is never given away |
| `InMemoryApprovalProvider` (approvals.py) | grants by id | `issue`, `consume` | one issue authorizes one handler of exactly one action |
| `TerminalRecorder` (components.py) | none (uses the store) | `replay_completed`, `claim`, `record` | replay only of the same action; a lost write is not a success |
| audit sinks (audit.py, adapters.py) | hash-chained log, lock file | `append`, rotation | one chain, no event lost in silence |
| policies (policies.py, signed_policy.py, policy_*.py) | immutable documents | `decide` | pure |
| AWS policy governance (handler.py) | policy row, version ledger, exceptions and their slot | draft, import, submit, decide, stage, activate, migrate; create, reconcile, activate, revoke and serve an exception | one version in force, replaced only by an approved successor; no agent is served an exception that is over |
| AWS agents and sessions (handler.py) | agent records, bootstrap tokens, sessions | register, own, revoke, replace, offboard; issue, enrol, renew, heartbeat | revocation is final; no session outlives the revision it was issued under |
| AWS cases (handler.py) | cases, containment items | create, contain, release, revoke sessions, resolve, close | a quarantine always has a case that can release it |
| AWS rollouts (handler.py) | a deployment's configuration with its rollout, its versions, its packages; the endpoints' reports | stage, publish, start, pause, roll back, reconcile; fetch, report | what is kept as known good was enforced by every endpoint, and its package goes with it |
| AWS discovery (handler.py, discovery_collector.py) | connector, collector job, schedule, connector secret; sources, staged generations, pages, objects, baselines | create, rotate, revoke, disable, collect; begin, page, commit, snapshot | a live collector has its schedule and its token; an inventory is one complete generation that replaced one it knew |
| AWS evidence and retention (handler.py) | retention policy, jobs, object versions, job queue | raise, start a job, page, complete, fail | what was written before a policy is applied is held as long as it says |
| webhooks (handler.py, webhook_worker.py) | destination, secret versions, outbox, FIFO queue, delivery items | create, rotate, retire; enqueue, cycle, receive, post, record | the receiver knows the key that signs; one terminal state, which the audit agrees with; a delivery ends if the cycle gets to it |
| AWS automatic response (handler.py) | alerts, a rule and its versions, hourly rate, cooldowns, leases, executions | draft, review, activate, disable, roll back; evaluate, reserve, open a case, quarantine, record | a rule quarantines only under an independently approved version, within its limits and in a case of its own |
| SCIM (scim.py), behaviour and integrity rules (handler.py) | records | CRUD | mostly data |
| regional transition (scripts/) | journal item, event sources and functions of each cell, recovery stack, stable DNS records | initialize, fence, activate, reconcile, verify, route, complete, and the rollback of each | one Region runs; the DNS serves the one the journal names |
| deploy scripts, CDK, Terraform | none of their own | | |

The parts meet in few places. The SDK's adapters talk to the AWS control plane
over HTTP as enrolled agents (sessions, effective policy); the control plane's
handlers and workers share one control table, one audit bucket and SQS queues;
the regional scripts treat a whole control plane as a cell that runs or does
not. The handlers of the control plane interact through conditional writes of shared
items; only an automatic response opens and contains a case as a responder does.

The behaviours that are hard in the SDK: every provider runs in a
worker thread that may outlive its caller's bounded wait, so a call that has
returned may still consume a grant, write an audit event or commit a side
effect; done callbacks of such workers race with the call that deferred to
them; `stop()` comes from another thread; several processes share the store and
the approval provider; a process may die between claim, side effect and record;
records expire under their owners. In the control plane: each request is a
sequence of reads and conditional writes that may end anywhere, and most writes
put back a whole record under a condition on a part of it; the table deletes
some items by age and not the ones that point to them; queue messages are
repeated, dropped as duplicates and exhausted while their worker stops between a
side effect and its record. In the scripts: an operator's command is stopped and
run again beside the first one, calls take effect later or in part, and nothing
the commands act on knows the journal. `PROJECT.json` lists each hazard at its
line.

## 2. The modules

```
Proposals            constants: calls, tools, keys, actions, approval ids
  ActionBudget       BudgetState, ActionBudgetLease, BoundedOperationTracker
  IdempotencyStore   InMemoryIdempotencyStore
  ApprovalGrants     InMemoryApprovalProvider
    GuardedRuntime   execute(), stop(), crashes: composes the three above
      RuntimeProperties            every property, fairness, the refinement mapping
        GuardedRuntimeInvariants   the inductive invariants behind the theorems
          MCGuardedRuntime         instances for TLC
          GuardedRuntimeProofs     theorems: types, accounts, stop, slots, keys,
                                   results, grants, the ledger
SideEffectLedger     abstract specification of idempotency (INSTANCEd)
DynamoIdempotency    DynamoDbIdempotencyStore over conditional requests, its properties
  MCDynamoIdempotency      instances for TLC
  DynamoIdempotencyProofs  theorems

PolicyAuthority      abstract specification of one policy's governance (INSTANCEd)
PolicyGovernance     the policy row and its version ledger, request by request
  PolicyExceptions   exceptions of one agent from that policy: composed with it
    PolicyProofs           theorems about both
AgentAuthority       agents, bootstrap tokens, sessions, cases and containment
RegionalTransition   journal, cells, recovery stack, DNS, and the operators' commands
  MCRegional         a first failover for TLC
  RegionalTransitionProofs theorems
DiscoveryConnectors  a source's connector, secret, schedule and managed collector
  DiscoveryGenerations     the source's evidence: composed with its connector
    DiscoveryProofs        theorems
MCAuthority          PolicyExceptions, AgentAuthority, RegionalTransition and
                     DiscoveryGenerations for TLC

WorkQueue            one group of an SQS FIFO queue
WebhookDestinations  a destination and its signing keys
  WebhookDelivery    outbox, queue and worker: composed with both of the above
EvidenceRetention    retention policy, jobs and audit writes, over WorkQueue
  WorkQueueProofs    theorems about WebhookDelivery and EvidenceRetention
ResponseRules        the governance of an automatic-response rule
  AutomaticResponse  its evaluations: composed with it and with AgentAuthority
    AgentAuthorityProofs   theorems about AgentAuthority and AutomaticResponse
ManagedRollouts      a deployment's configuration, its rollout, packages and endpoints
  ManagedRolloutsProofs    theorems
MCWorkers            WebhookDelivery, EvidenceRetention, AutomaticResponse and
                     ManagedRollouts for TLC
```

### The runtime

**State.** A call is one thread inside `execute()`; `pc[c]` is its place. The
worker threads are `worker[c][op]` for the seven bounded operations of a call
(two audit operations, since a failed reconciliation writes an event of its
own). `late[c]` holds the operations whose worker outlived the wait. `budget`,
`lease`, `tracker`, `stopped`, `registered` (`_active_tokens`), `cancelled` (the
tokens), `idemLock` are the runtime's fields; `store` and `grants` belong to
services shared by all runtimes and survive a crash. `store[k].owner` and
`settled` are history: no code reads them, and no guard of the model does.

**Actions.** One action per stretch of `execute()` between two accesses to state
that others may change: `Admit`, `Register`, `Prepare`, `PolicyReturns`,
`Replay`, `Claim`, `Approve`, `ApprovalReturns`, `Mint`, `CredentialReturns`,
`Invoke`, `HandlerReturns`, `Record`, `AuditReturns`, `StoreTerminal`, `Finish`.
The ends of a bounded wait are shared by all operations: `Collect` (the worker
ended in time), `Outlives` (it runs on), `Drops` (it was still in the queue or
raised `TimeoutError` itself), and `LateExits` is the done callback of a worker
that ran on. The handler's worker is modelled step by step (`HandlerChecks`,
`HandlerStarts`, `HandlerCommits`, `HandlerExits`), since the stop flag, the
token and the side effect are what others observe; the other workers take
effect when they return or, if late, when they exit, which is the latest moment
and leaves every order with other calls possible. `Stop`, `Crash`, expiry of
records and grants, `Gc` and `Issue` are the environment.

**Merged steps.** Several stop checks of `execute()` are merged with the step
next to them when nothing shared is accessed in between (for example the check
after the policy returned with the policy's return). A step that reads the flag
is atomic with the rest of its stretch: a stop between the two is the same as a
stop just after.

**Abstractions.** Policies, validators, brokers and approvers answer anything
(`Decisions`, `Faults`). Identity, tenant, resources, arguments and
`action_hash` are one fingerprint per call, and so is the identity tuple of a
record. Time is a flag: a record or grant is expired or not. The sliding rate
window is a refusal (`"rate"`). A legacy boolean reconciliation result has the
effect of `STILL_RUNNING`; a result of no valid type that of a failure, without
the failure's event. Telemetry is left out; the host redactor is taken to be
total. A replayed result is returned without a new audit event, as in the code.

### The idempotency table

`GuardedRuntime` is composed with the in-memory store, whose operations are
atomic. `DynamoIdempotency` models the same interface over a DynamoDB table,
where only one conditional request is. A client is one call of a runtime, on any
host: `ClaimPut`, `ClaimGet`, `ClaimReplace`, `ClaimReread` are the requests of
`claim`; `Begin` is the call of the handler; `UpdateGet`, `UpdatePut` are
`complete` and `mark_uncertain`; `GcScan`, `GcDelete` are `gc`. Each request may
fail before or after the table executed it, and a put may be repeated by the
transport and then meet its own item. `item` is the table, and names the client
that claimed each item, from which identity and expiry follow; `begun` and
`settled` are history. `expires` says whether the table deletes items by their
`ttl` attribute (`TtlDelete`): the adapter works with either, the CDK stack
deploys the table with it.

`lookup` only reads, and is left out. The clock is one for all. In a table that
expires items a call is taken to be over before its record expires (one day by
default; no code relates the two). A repeated terminal write is one write. The
adapter answers `EXISTING` or `CONFLICT` for an expired open record where
`docs/api.md` promises `EXPIRED`; the runtime refuses the call either way.

### One policy and the exceptions from it

`PolicyGovernance` is one policy of `handler.py`: `row` is its POLICY item,
`ledger` its POLICY_VERSION items, `replica` what a read without
`ConsistentRead` may still see, and `request` the place and the memory of each
request in flight. A step is one read or one conditional write; a transaction is
one write. `Start`, `View` and `StartImport` read the row; a request that meets
a row of before the ledger adds the version record and rewrites the row
(`MigrateRecord`, `MigrateRow`); `ListVersions`, `CommitDraft`, `CommitStage` and
`CommitActivate` are the accesses of the operations that follow; `Submit` and
`Decide` are conditional on all they decided on and are one step each.
`GiveUp` ends a request anywhere. Documents, compositions, simulations and
signatures are left out: a version is its number, state, base, author and
approver.

`PolicyExceptions` extends it with the exceptions of one agent. A request
reconciles the exception it works on first (`ReadScope`, `ReadLegacyRow`,
`Compare`, `Settle`): the agent and its group, then the policy's row, then a
conditional write that expires or invalidates it. `BeginServe` is the agent's
policy refresh, `CommitCreate` takes the slot, `CommitTransition` stands for
submit, decide, activate and revoke. `Expire` is the clock, `TtlDelete` the
table's expiry, `Rebind` the agent's own lifecycle, of which only the binding to
this policy is kept.

`PolicyAuthority` says what governance promises, without rows and ledgers: at
most one version in force, replaced only by a version that somebody other than
its author approved as the successor of the one in force.

### Agents and cases

`AgentAuthority` has the AGENT, AGENT_BOOTSTRAP, AGENT_SESSION, CASE and
CONTAINMENT items. Most handlers read an agent and put the whole item back under
a condition on some of its fields; each is a read (`BeginOwnership`,
`BeginClearStop`, `BeginHeartbeat`, `BeginRevokeSessions`, ...) and a put
(`PutOwnership`, `PutClearStop`, `PutHeartbeat`, `PutRevokedSessions`) here. A
handler whose transaction is conditional on everything it decided on is one step
(`Register`, `Revoke`, `Replace`, `Offboard`, `Contain`, `Resolve`, `Close`).
Enrolment is `BeginIssue` to `PutToken`, then `BeginEnroll` to `PutSession`, with
the token's consumption in between. `revocations`, the tokens' and sessions'
`epoch`, and `restored` are history.

### Automatic response

`ResponseRules` is one rule: the RESPONSE_RULE item, by which evaluations go, and
its versions. A draft, a disable and a rollback read the rule (`BeginRuleDraft`
and `ListRuleVersions`, `BeginRuleDisable`, `BeginRuleRollback`) and put the whole
of it back under a condition on some of its fields (`CommitRuleDraft`,
`CommitRuleDisable`, `CommitRuleRollback`). `CreateRule`, `SubmitRule`,
`DecideRule` and `ActivateRule` are one step. `silenced` and `reenabled` are
history.

`AutomaticResponse` has the alerts (`OpenAlert`, `DeliverAlert`, `CloseAlert`,
which stands for an acknowledgement and a resolution), the rule's hourly rate and
the agents' cooldowns, the leases and the executions, and uses the cases,
containments and agents of `AgentAuthority`. An evaluation is of one alert:
`BeginEvaluation` and `ListAlerts` are its two listings, `MatchAlert` looks at the
version, the execution and the binding, `FindLease`, `CheckLimits`, `ReadLedger`
and `Reserve` or `ReservationConflict` are the reservation, `AdoptCase`,
`MakeCase` or `CaseConflict`, then `ContainByRule` or `ContainConflict`, then
`RecordOutcome`. It may end anywhere (`EndEvaluation`), and another one resumes.
Responders do the same to the cases meanwhile (`RespondStep`). An alert and its
case share an identifier, as the one's is computed from the other's; evaluations
are shorter than the hour and the cooldown, which pass when none runs. `reserved`
and `overtaken` are history.

### Rollouts

`ManagedRollouts` is one deployment: the CONFIGURATION item (`configuration`), its
CONFIGURATION_VERSION items (`document`), the packages, and the endpoints. Every
handler first migrates the row it reads (`MigrateRow`) and keeps its version
(`KeepVersion`). `Stage`, `Pause` and `Rollback` are one step: what they decide on
is what their write is conditional on. A publication (`BeginPublish`, `ReadPackage`,
`CommitPublish`) compares with what is desired, then reads the last package, and
writes under a condition on that package alone; a start (`BeginStart`,
`BindPackage`, `CommitStart`) reads the package after the row. A reconciliation, by the cycle or at the end of
another request, is `BeginReconcile`, `OpenWindow` where one is due, a `Measure` of
each endpoint against what is desired at that moment, and `Judge`; it may stop
anywhere. Endpoints fetch the package, report it, and fall silent (`Fetch`,
`Report`, `Fade`). `enforced` is history. Endpoints stay active, a batch has one
deployment, the health criteria are the defaults, and an agent is read as it is,
where the code's listing is only eventually consistent.

### Discovery

`DiscoveryConnectors` is one source. A managed one has a job (`collector`) and a
connector in the table, the connector's token in a secret (`vault`) and a
`schedule` in EventBridge, which no transaction spans. `CreateSecret`,
`CreateSchedule` and `CommitManaged` are the three steps of
`_create_managed_discovery`, each of which may be refused or lose its answer;
`AbandonSchedule` and `AbandonSecret` are its cleanup, which deletes what this
request made. `CommitDisable`, `Unschedule`, `DropSecret`, `AskCleanup` disable
the source; `BeginRotateToken`, `CommitRotateToken`, `BeginRevoke` and
`WriteRevoke` are an administrator's rotation and revocation of a connector. A
collection is `BindJob`, `MarkRunning`, `ReportHealth`, and may come late.
Providers are external: a collection succeeds or not.

`DiscoveryGenerations` extends it with what requests do that present the
connector's token. `source` is the DISCOVERY_SOURCE item, `generation`, `page`,
`object` and `baseline` the items and objects of the generations. Each object
and each item is a step: `BeginGeneration` and `DeclareGeneration`, `BeginPage`,
`StoreObject` and `StorePage`, then `BeginCommit`, `LoadPage` page by page,
`StoreBaseline` and `CommitGeneration`, the transaction on the source's revision.
An operator's snapshot (`BeginSnapshot`, `CommitSnapshot`) moves the same
revision. The check of the token and the request's first read are one step: the
token is looked at once, as in the code. Two pages repeat an observation when
their contents are equal. `verified` is history: the pages a commit validated.

### The queue workers

`WorkQueue` is what both workers need of an SQS FIFO group: order, one receive at
a time, deduplication for five minutes, dead letters.

`WebhookDestinations` has the destination, its secret's versions and the requests
that create, rotate, pause, retire and clean it, each of which may lose its
response (`Disclose`). `WebhookDelivery` has the outbox. A sender is a request
that puts a delivery (`Enqueue`) or a run of the scheduled cycle, which reads all
of the tenant's entries (`Cycle`) and dispatches one after the other: `Send` and
`MarkQueued` are two steps, `DispatchFails` is a failed call, which is caught and
may have sent the message, `GoOn` turns to the next entry, and `SenderStops` is
the end of the process. With more than `OutboxBound` entries (100 in the code, or
a second page of the query) the cycle raises and dispatches none. It visits the
registered tenants in turn and raises at the first one that has too many, or at
an invalid registration; `reached` says whether it gets as far as this tenant, and
changes at any time (`ReachChanges`). The index follows the items at
`RefreshIndex`; the worker's steps are `Receive`, `Load`, `ReadTarget`, `Post`,
`WriteAudit`, `Record`, `Finish`, and it may stop before each of them.

`EvidenceRetention` has the policy, the object versions with the days each is
held, the audit writers (`BeginWrite` reads the policy, `EndWrite` puts the
object), the synchronous raise (`BeginUpdate`, `ExtendInventory`,
`CommitUpdate`), and the jobs: `CreateJob`, `PassCutover`, `Schedule`, and a
worker that takes a message, extends a page, commits it, sends the next message
and acknowledges its own, or fails the job with its last receive.

### The regional transition

`RegionalTransition` has the journal's AUTHORITY item in the third Region, the
stable aliases with their marker in Route 53 (`route`), the execution paths of
each Region (`cell`: event sources, which AWS Lambda changes some time after it
was asked to, and functions), the recovery stack, and the runs of the scripts.
`Phases` is the table of the eleven commands: the phase each starts from, works
in and ends with. A run passes the provider preflight (`RunCommand`), claims its
phase (`ClaimSourceFence`, `ClaimPhase`), then does what `Work` lists:
`Precheck`, `ChangePath` for each path in the code's order, `Deploy` and
`AwaitStack`, `ReadRoute` and `ChangeRoute`, `Prove`; then it advances the
journal (`AdvancePhase`, `CompleteTransition`, `CompleteRollback`).
`StopCommand` ends it anywhere; two runs may be at the same command. A stack
update goes on without the command that started it (`UpdateEnds`); `Restage` is
`deploy_aws_passive_cell.py`, which asks no journal.

`trespass` is history: a cell was changed, or the journal and the DNS read for a
cutover, by a command whose phase was over. Nothing in the code prevents that
(the cells know nothing of the journal), so the two properties speak of the
behaviours up to such a step, and the violation run `stale_router` shows what may
follow it. The jobs that `reconcile-target` dispatches and the digests of the
steps' evidence are left out: a late completion with the same evidence changes
nothing, one with other evidence is refused. `fence_source` passes `--enabled
false` and `reactivate_source` `--no-enabled` to the same AWS CLI command; the
model takes both to disable the mapping.

## 3. What is checked

| run | instance | what it shows |
|---|---|---|
| `stop` | one process, two calls, the first tool reconciles; handler, reconciliation and audit waits may expire; stop at any step | both accounts exact (`BudgetExact`, `TrackerExact`), `NoSlotLeak`, `StopCancels`, `DeniedNeverStarts`, `ConfirmedIsFinal` |
| `keys` | two processes, three calls of one key, one of them another action; hung handlers, one crash, expiry and gc | `ClaimHeld`, `UnsettledKeepsKey`, `ReplayIsTrue`; the runtimes implement `SideEffectLedger` (`LedgerSpec`) |
| `grants` | three calls present one approval id, two actions, budget for two; late approvals and handlers | `GrantSpentOnce`, `SlotCoversHandler` |
| `progress` | two calls that queue for the idempotency lock, every wait may expire, a worker account of two | `EveryCallReturns`, `CapacityReturns`, `ExecutedIsDurable` |
| `table` | three clients of one key in a DynamoDB table with or without expiry, one with another action | `OneWorker`, `UnsettledKept`, `ReplayIsSettled`, `ClaimReturns`; without expiry the table implements `SideEffectLedger` (`LedgerSpec`) |
| `slot_lost` | two calls; the waits for the handler and for the audit may expire | `SlotCoversHandler` fails (finding) |
| `absent_not_final` | reconciliation beside a live handler | `AbsentIsAbsent` fails (finding) |
| `ttl_deletes` | as `table` | `UnsettledRetained` fails (finding) |
| `authority` | nine scenes, below | one version in force (`OneAuthority`), one pending (`OnePending`), governance implements `PolicyAuthority` (`AuthoritySpec`); the slot keeps its open exception (`OneOpenException`), one that was active when it was looked up is served only if it was unexpired then, and bound and on its base at some moment since, another only if it was activated meanwhile (`ServedExceptionInForce`); revoked sessions stay refused (`StaleSessionsRefused`), revocation is final (`RevokedIsFinal`), a quarantine has a case (`QuarantineOwned`); no two Regions run (`OneRegionRuns`), the DNS serves the Region the journal names (`RouteServes`); a live collector has its schedule and a token that is accepted (`LiveCollectorServed`); a committed generation is whole, as verified, and replaced one that it knew (`EvidenceIsWhole`) |
| `exception_gone` | as `authority` | `RefreshFallsBack` fails (finding) |
| `stale_router` | one failover, two runs of the scripts, no expiry | `RouteFollowsJournal` fails (finding) |
| `workers` | eleven scenes, below | the receiver was given a key that signs (`KnownKeySigns`); an ended delivery keeps its status and is audited so (`EndedIsFinal`, `AuditMatchesState`), and every delivery ends if from some moment on the cycle reaches the tenant and finds no more entries than it accepts (`DeliveryEnds`); an applied policy holds for what was written before it, and no policy stays in application (`CoveredWhenApplied`, `ApplyingEnds`); automatic quarantines stay within what was approved and reserved (`ResponseWithinApproval`); a rollback restores what every endpoint enforced, and a rollout serves what it desires (`KnownGoodIsProved`) |

**Bounds.** Two calls are enough for every race of the accounts, since the
counters are shared by pairs; a third is there where a key or a grant passes from
one call to the next and a third party must not profit. `MaxWorkers` is small
enough that the worker account runs full. One crash and one expiry per life of a
record separate every pair of steps. `MaxIssues` is 1: a reissued id is a new
grant and is counted as such in `GrantSpentOnce`. Three clients of the table are
the owner of an expired record and two who race to replace it, or the owner, its
successor and a gc pass in between; `table` sets `CHECK_DEADLOCK FALSE` because
its clients claim once and then nothing is left to do.

The product of the control plane's parts is out of TLC's reach, and most of it
is meaningless since they share no item, so `authority` and `workers` choose a
*scene* in the initial state, and the other parts' variables stay. The scenes of
`authority`: `policy` (two requests do anything with a policy of three versions,
whose row may be a legacy one), `slot` (anything with two exceptions of one author,
while the policy stays), `binding` (one exception at a time, while the policy is migrated
or its staged successor activated, and the agent is rebound), `session` (one
agent's enrolment, heartbeats, reviews and one revocation of its sessions by a
case), `case` (two cases against two agents that are registered, replaced,
revoked and offboarded), `failover` and `failback` (two runs of the regional
scripts carry out one transition or roll it back), `managed` (two administrators
do anything with a discovery source, one collection runs, two tokens) and
`evidence` (two requests do anything with two generations, one of two pages and
one of one, two contents, two changes of the source). Two requests are enough where
each race is of a read and a write of one with the writes of another; three
versions make one of them the successor of a successor; `MaxRevision` 4 lets two
concurrent bumps follow two others. Identifiers are shared by scenes and
permuted. The scenes of the transition choose the state before a failover or
after one, and a manifest expires only while its transition is under way: an
expired one before it only refuses. They end with a trespass. The scenes of
`workers`: `keys` (two administrators, three keys, four changes), `change` (one
event, two senders, one change of the destination, two mishaps, two receives
before the dead-letter queue where the stack has five), `cycle` (two events that
were refused and a third, one sender, one mishap, posts that are answered),
`retention` (one job, one update, one writer, two versions of a page each, two lapses, with no job
before or after one that failed half way, no update once a second call has failed), `rule` (two requests do anything with
a response rule of three versions, all of one author), `limits` (two evaluations of
two alerts and agents share the one action of an hour), `duel` (two evaluations
and a responder meet on one alert and its case, and the agent may be revoked),
`alerts` (one evaluation at a time, while its alert is delivered, closed and
opened again, time passes and the rule is disabled), `start` (two requests stage,
publish, start, pause and roll back up to three versions and two packages, from a
row of before the governance or from none), `measure` (a reconciliation of two
endpoints that fetch, report and lapse, beside such requests) and `window` (rollouts
with and without a window are reconciled while time passes and an endpoint falls
silent). Both runs set `CHECK_DEADLOCK FALSE`: when the bounded
identifiers are used up nothing is left to do. `cycle` has a bound of two entries where the code has a hundred, so that
the outbox is over it while the third event is in it too: until it is marked
queued and the index has followed, or for good if its message is refused.
Until then, or until the tenant is reached, the cycle dispatches nothing; that it
may cease to be reached again is in the proofs only, and adds no step to what may
be done without a cycle.

**Fairness.** `CallersProgress` is weak fairness of each caller's steps: a
caller's thread is scheduled, and its waits are bounded, so at each of them
either the worker ends or the wait expires. Workers get none: a handler may hang
for ever, and `EveryCallReturns` holds all the same. `CapacityReturns` assumes
in its antecedent that workers do return in the end. In `table`, weak fairness
of a client's claim says that its thread goes on until the claim returns.

In `workers`, `DeliveryFairness` is weak fairness of the worker's steps, of the
outbox index catching up, of a sender's two steps and of the cycle as a whole,
which is called every minute. It says nothing of how far the cycle gets: not which
entry it dispatches first, and not that it is within its bound or reaches the
tenant, which is the hypothesis of `DeliveryEnds`.
`RetentionFairness` is weak fairness of the audit writes, the clock that passes the
cutover, the schedule, the five minutes of deduplication, and the job worker;
the retention cycle goes on to the next tenant when one fails. They are what SQS,
EventBridge and DynamoDB do by themselves: a visible message is received again, a
rule fires each minute, an index converges. Mishaps (a stopped process, a lost
call) have none and are bounded: within them every delivery that the cycle gets
to ends, and every policy leaves application, by success or failure.

### Findings

- **A slot is released under a live handler** (`slot_lost`).
  `docs/architecture.md:77` promises that a timed-out handler keeps its slot
  until its worker exits. `_record` and the reconciliation pass the same release
  callback: when their own wait expires too, the exit of *their* worker releases
  the lease. Where the waits for audit and reconciliation do not expire,
  `SlotCoversHandler` holds (run `grants`; `SlotIsKept` proves it in general), so
  those waits are the only cause.
- **CONFIRMED_ABSENT may be wrong** (`absent_not_final`). The completion event
  is tested after the callback returned, not before it looked.
- **The table forgets open outcomes** (`ttl_deletes`). `_item` writes `ttl` in
  every state and the deployed table expires by it, so a record in progress or
  uncertain is deleted after its time to live, and the next claim calls the
  handler again, against `docs/api.md:257`.
- **An exception's slot outlives it** (`exception_gone`). The record has a `ttl`,
  the slot has none and no handler releases it. Thirty days after an exception
  ended, the agent's policy refresh fails for good instead of falling back to the
  policy, against `docs/time-limited-policy-exceptions-design.md:95`, and no new
  exception can be created.
- **A cutover can be carried out twice** (`stale_router`). `route-target` reads
  the journal again after its claim and asks neither phase nor owner. A run that
  stalls there while another run routes, rolls back and seals the rollback finds
  the sealed generation in the journal and in the DNS, and moves the stable
  aliases to the fenced target, against
  `docs/regional-transition-journal-design.md:212`. A test of the phase after the
  second read, or the generation taken from the manifest as
  `route-source-rollback` does, would stop it.

### Other divergences met while modelling

They have no run of their own. Where a property has to step around one, its
escape is a history variable that is named here.

The runtime:

- The comment at `runtime.py:431` says that no claim is made before the approval
  is consumed; the code claims first. A refused or late approval leaves the key
  in progress for good.
- A completed record is replayed before the current policy's denial is obeyed
  (`runtime.py:418`).

Policies and exceptions:

- A legacy migration ends in an unconditional put of the row it read. If
  another request's migration and activation came in between, the row goes back
  to a retired version, and later drafts and activations of the policy fail
  (`overwritten` in `OneAuthority`). Reads without `ConsistentRead` widen the
  window; an import over a legacy row drops `governance_schema_version`.
- An exception may be served although its expiry has passed. An activation looks
  at the clock (`handler.py:6811`) and then signs. If the exception expires in
  between, a refresh that reads it while it is approved judges it expired, but
  loses the conditional write that ends it to the activation's, reads the record
  again (`handler.py:6641`), now active, and serves it (`handler.py:6881`) without
  looking at the expiry or the bindings once more, against lines 8, 36 and 89 of
  `docs/time-limited-policy-exceptions-design.md`. It is the only way to be served
  an exception that was not active at the slot read: `ServedExceptionInForce` says
  of such a one that it was activated meanwhile, and nothing of its expiry, its
  agent or its base (`since.activated`).

Agents and cases:

- Ownership reviews and stop clears put back a whole agent record without a
  condition on `session_revision`, so a session revocation by a case in between
  is undone (`restored` in `StaleSessionsRefused`), against
  `docs/incident-case-containment-design.md:76`. Heartbeats and session
  revocations can lose an ownership review or a stop clear in the same way.
- `_transition_case` (`handler.py:16849`) calls `.get` on the containment of a
  case, which is `None` if the agent was never contained: such a case can neither
  be resolved nor closed.
- A case whose contained agent is no longer `active` can be neither released nor
  closed.
- Two heartbeats at once may renew one session twice.

Automatic response:

- `_reserve_response_rule_action` (`handler.py:14891`) checks the limits on one
  read and makes its transaction conditional on a second one (`handler.py:14895`).
  A reservation between the two is not noticed, and the hourly limit or the
  cooldown is exceeded (`overtaken` in `ResponseWithinApproval`), against
  `docs/automatic-response-rules-design.md:99`.
- A draft puts back the whole rule it read, on condition of its latest and active
  versions only (`handler.py:14520`): one that began before a disable enables the
  rule again (`reenabled`), against
  `docs/automatic-response-rules-design.md:58`.
- A disable or a rollback that began before a draft puts back the number of the
  latest version; every later draft then conflicts with the version that exists.
- Of two evaluations of one trigger, the second may find the alert cased and
  record "skipped" before the first quarantines: the outcome is never corrected,
  and if the first one dies the trigger is not tried again, against lines 75-76 of
  the same document. A delivery of the alert between the listing and the case has
  the same effect.
- A reopened alert is put without its case, whose identifier is computed from the
  alert's: no case can be opened for it again.
- An evaluation that listed the alert before a responder released its case
  quarantines the agent again, also after the rule was disabled.

Webhooks:

- The outbox may be stuck. The cycle raises before it dispatches anything of a
  tenant with more than a hundred records in the outbox index (`handler.py:3453`).
  Nothing else sends a record that SQS refused, so it raises again each minute, and
  this tenant and those after it wait until enough records expire, after thirty days,
  against `docs/secure-webhooks-design.md:90`: "A one-minute dispatcher retries
  records not accepted by SQS." That it is not so is the hypothesis of
  `DeliveryEnds`.
- A create whose write is executed and repeated by the transport fails on its own
  item, and deletes the secret of an active destination.
- A worker that stops at the last receive leaves a delivery without a terminal
  state in the dead-letter queue, perhaps with a terminal audit. `MarkQueued`
  after the first receive makes a successful first attempt conflict, and the
  event is posted again.

Discovery:

- `_revoke_discovery_connector` (`handler.py:7699`) puts what it read without a
  condition. Beside a rotation it writes the revision that the rotation has just
  used, so that a further rotation that was prepared before the revocation is
  accepted after it.
- The collector reads the source's revision after it has collected
  (`discovery_collector.py:760`), so that a slow collection replaces the newer
  evidence of another one.
- A creation of a managed source that takes place and is reported failed, all its
  answers lost, deletes the schedule and the secret of a live source
  (`misreported` in `LiveCollectorServed`). One that dies half way leaves a secret
  whose name refuses the next creation.

Retention:

- The worker's audit objects name no retention, so the bucket's default applies
  after a longer policy was set, against
  `docs/asynchronous-retention-design.md`.
- The synchronous update takes over a policy that a job is applying and drops the
  job's binding: the job stays queued for ever. What was written under the old
  policy between its inventory and its commit is not covered.
- The audit of a job's completion may be lost between its transaction and the
  write of the event.

Rollouts:

- A reconciliation that loses the put that opens a window goes on with the rollout
  as it is now, but judges it by the schedule it read before (`handler.py:4490`,
  `4511`): a newer rollout can be paused for another one's deadline, against
  `docs/measured-managed-rollout-design.md` ("concurrent reconciliation cannot
  overwrite a newer operator transition").
- A rollback is accepted from a staged version too, where that document says "any
  non-staged version".

The regional scripts:

- The activation of a failover cannot be resumed once the stack is updated: the
  preflight of `activate-target` wants `staged-not-serving`
  (`deploy_aws_active_cell.py:1716`), against
  `docs/regional-transition-journal-design.md:130`. Only the unguarded passive
  deployment gets out of it.
- A manifest that expires in mid-transition leaves the journal to nobody: no
  command may go on, replace it or roll back before `VERIFYING_STABLE_ROUTE`.
- A fence, restoration or deployment that was overtaken is not kept from the
  cells (`trespass`).
- `UPDATE_ROLLBACK_COMPLETE` refuses every preflight; a repeated `activate-target`
  or `reconcile-target` that is completed is refused where the document calls
  completed phases idempotent.

## 4. What is proved

### The runtime's accounts

`GuardedRuntimeProofs` proves, for every set of calls, runtimes, keys and grants,
every assignment of tools, and all limits:

| theorem | property | also checked by |
|---|---|---|
| `TypeCorrect` | `TypeOK`: in particular no counter goes below zero | no run: proved only |
| `BudgetIsExact` | `BudgetExact`: active and fan-out are the leases held | `stop` |
| `TrackerIsExact` | `TrackerExact`: the worker account is the worker threads | `stop` |
| `NoSlotIsLost` | `NoSlotLeak`: a deferred release is never lost | `stop` |
| `StopIsHeard` | `StopCancels`: after `stop()` every live handler is cancelled | `stop` |
| `SlotIsKept` | `SlotCoversHandler`, if the waits for audit and reconciliation do not expire | `grants` |

**Assumptions.** The types of the constants (`ProposalsAreTyped`,
`EnvironmentIsTyped`, `IssuesAreBounded`, `LimitsArePositive`, `NoneIsNothing`)
and `CallsAreFinite`: the accounts are cardinalities, so the calls a host makes
are a finite set, of any size.

**Argument.** None of the account properties is inductive by itself. When a
worker is collected, `bounded` goes down by one, and it equals the number of
workers afterwards only if that worker was still there, and was not late: that
is `WorkersPlaced`, which ties every worker thread to the place of its caller
(it exists exactly while the caller waits for it or after it outlived that
wait). When the finally clause skips the release of a deferred lease, the slot
is not lost only if some worker is left to release it: that is `LeasesPlaced`.
A terminal record can hold the answer that is written to it because denials and
calls lost in a crash never reach the store: `AnswersPlaced`. The conjunction
`AccountsInv` is inductive. It gives the first four theorems, and with it
`StopReaches` is inductive: a call has its token in `_active_tokens` from its
registration until its handler is behind it, and a handler that is left behind
was cancelled by the timeout. `GuardedRuntimeInvariants` defines the invariants;
they were checked on the instances of the four passing runs before they were
proved.

`SlotCoversHandler` is no invariant of the specification: that is the finding of
`slot_lost`. `SlotIsKept` says what is left of it: under `RecordsInTime`, where the
waits for the audit sink and for reconciliation do not expire (`TimeoutOps`, which is
a parameter, has neither, nor the audit of a failed reconciliation; every other wait
may expire), it holds. `SlotsHeld` is why. Up to its handler a call has no late worker,
as a wait that expires before it ends the call, and it keeps its slot; a handler that
timed out is the only late worker of its call, so the release that was left to a late
worker was left to the handler's.

**Layout.** A step of a caller changes its place and on the way starts a worker,
collects one, or neither. `Walks`, `Dispatches` and `Collects` show once what
such a move does to the accounts, over the counting lemmas (`WorkerAdded`,
`LateRemoved`, `LeaseGivenBack`, ...); each action then has a lemma that names
its moves. `GoesOn`, `OutlivesAccounts`, `DropsAccounts`, `LateExitsAccounts`
treat the workers that end late, `CrashAccounts` a restart.

### The runtime's keys, results and grants

The same module goes on from there, for the same constants and under the same
assumptions:

| theorem | property | also checked by |
|---|---|---|
| `ClaimsAreHeld` | `ClaimHeld`: a call between claim and terminal record owns its key | `keys` |
| `UnsettledKeysAreKept` | `UnsettledKeepsKey`: an open outcome keeps its key | `keys` |
| `ReplaysAreTrue` | `ReplayIsTrue`: a replayed result is that of an effect of the same action | `keys` |
| `ExecutionsAreDurable` | `ExecutedIsDurable`: EXECUTED has its effect, its event and its record | `progress` |
| `DenialsHold` | `DeniedNeverStarts`: a refused call starts no handler, then or later | `stop` |
| `ConfirmationsAreFinal` | `ConfirmedIsFinal`: nothing is confirmed of a live handler | `stop` |
| `RuntimesImplementLedger` | `LedgerSpec`: runtimes and store implement `SideEffectLedger` | `keys` |
| `GrantsAreSpentOnce` | `GrantSpentOnce`: one issue of a grant, one handler | `grants` |

**Argument.** That a call owns its key until its result is stored says nothing
of how it got there, so `KeysInv` follows a call all the way: what its handler
has done (`HandlerPlaced`), what it may answer at each place (`AnswerPlaced`),
that its record is its own while its outcome is open, after a timeout or a crash
too (`KeyHeld`), that every record belongs to the call that claimed it and tells
the truth if it is completed (`RecordOwned`). The twenty-two actions of a caller
are of nine kinds (`CallerKinds`: it advances, is refused, replays, gets an
answer, ...), each with its own proof; what any step does to a record is one of
four moves (it claims, closes, drops or ages it), and from these moves follows
that no step of another call, runtime, worker, expiry or gc takes a key that is
held (`OthersKeep`).

The refinement maps a key's record to an entry of the ledger (`LedgerOfStore`);
a claim, a handler's start, a terminal record and a gc pass each are a step of the
ledger and the rest stutter. For the grants, `GrantsInv` counts the calls that
were told CONSUMED, not those that started: a worker that outlived its caller may
spend the grant though no handler follows, and an unused grant always has an
issue to spare.

### Proofs about the idempotency table

`DynamoIdempotencyProofs` proves, for every set of keys, clients and actions:

| theorem | property | also checked by |
|---|---|---|
| `TableTypeCorrect` | `TypeOK` | `table` |
| `OneWorkerPerKey` | `OneWorker`: one client between claim and terminal write | `table` |
| `UnsettledRecordKept` | `UnsettledKept`: no claim, write or gc removes an open record early | `table` |
| `ReplayOfSettledOnly` | `ReplayIsSettled`: a replay is a stored result of the same action | `table` |
| `TableImplementsLedger` | `LedgerSpec`: a table without expiry implements `SideEffectLedger` | `table` |

The only assumption is the types of the constants (`ClientsAreTyped`). The
terminal write tests neither state nor owner, so none of this is inductive
alone. `TableInv` ties the place of a client to the table: while it works the
item of its key is its own and open (`WorkerHolds`), what is completed was
settled by its owner (`ItemSettled`), what was read stays true (`SeenSettled`),
and a call has not begun while it claims and not settled while it works
(`HistoryPlaced`). `FreeIsUnused` is the heart: what a claim may take nobody
works on. The refinement maps an item to an entry of the ledger; each action
then has a lemma that names the ledger's action it is, or that it stutters.

### Governance of a policy and exceptions from it

`PolicyProofs` proves, for every number of versions, exceptions, requests and
operators:

| theorem | property | also checked by |
|---|---|---|
| `GovernanceTypes` | `TypeOK` | no run: proved only |
| `OnePendingVersion` | `OnePending`: one pending version, written against the one in force | `authority` |
| `OneVersionInForce` | `OneAuthority`: row and ledger name the same version, and one | `authority` |
| `GovernanceImplementsAuthority` | `AuthoritySpec`: the requests implement `PolicyAuthority` | `authority` |
| `OneExceptionOpen` | `OneOpenException`: an exception that is not over is the one in the slot | `authority` |
| `ServedInForce` | `ServedExceptionInForce`: what was active at the slot read is served only if it was unexpired then, and bound and on its base at some moment since; another only if activated meanwhile | `authority` |
| `OneVersionUnderExceptions` | `OnePending` and `OneAuthority` of the composition | `authority` |

Assumed: `GovernanceAssumption` and `ExceptionAssumption`, the types of the
constants. A commit of a draft is conditional on the row it read and on its
number being free, not on the versions that the request listed before, so that
only one is pending has to follow from what a request may still know: `Placed`
says that a draft commits over the latest version it read, and if that number is
still free nothing is pending; `RecordsPlaced` that versions are numbered
without gaps and the pending one is the last. `RowAgrees` ties the row to the
ledger as long as the row knows the last version, which is what the condition of
a commit compares; `Undisputed` carries `OneAuthority` to a legacy row, whose
version may have no record yet (`WellFormed`, `OfBefore`). In the refinement
only an approval and an activation are steps of the authority; migrations,
drafts, imports and staging stutter, and `ActivateImplements` shows that the
version an activation replaces is the one it was approved to succeed.

The exceptions keep `GovernanceInv`: a request on an exception writes row and
ledger only to migrate them, as a request on the policy does. `TaskPlaced` says
that a creation replaces an exception only if it has seen it over, and terminal
states are final, so the slot it takes belongs to nobody. `ServePlaced` carries
what held since a request read the slot (`since`) through the checks it makes,
one after the other.

### Agents and cases

`AgentAuthorityProofs` proves, for every number of agents, tokens, sessions,
cases, requests and revisions:

| theorem | property | also checked by |
|---|---|---|
| `AgentTypes` | `AgentTypeOK` | no run: proved only |
| `StaleSessionsAreRefused` | `StaleSessionsRefused`: what is accepted was issued after the last revocation | `authority` |
| `QuarantineIsOwned` | `QuarantineOwned`: a quarantine and a contained case go together | `authority` |
| `RevocationIsFinal` | `RevokedIsFinal`: no late put takes a revocation of an agent back | `authority` |

Assumed: `AgentAssumption`. The session revision of an agent is one more than its
revocations unless a stale record was put back (`RevocationsCounted`), and every
token and session knows as many revocations as its revision says (`Current`), so
an equal revision is an equal count. An enrolment is five requests long:
`WorkPlaced` says what its token, its agent and its revision still are at each
of them. For `QuarantineOwned`, a release that has read the containment may be
overtaken by another release and a new containment; what it read either is the
containment still, with its case, or is of an earlier revision, and its
conditional write fails. `RevokedIsFinal` needs the types
alone: every write that puts back a whole record, however old, is conditional on
a part that an agent has only while it is active (`PutsFindActive`).

### Automatic response

`AgentAuthorityProofs` goes on to `AutomaticResponse`, for every number of versions of
the rule, reviewers, requests, evaluations, alerts and occurrences, and any limit of an
hour, of `ResponseSpec`: evaluations, the rule's governance and responders interleave
with every step of the agents and their cases, those included that the scenes of
`workers` leave out (`AgentsAlone`: enrolment, heartbeats, reviews, replacement,
offboarding, revoked sessions, closed cases).

| theorem | property | also checked by |
|---|---|---|
| `ResponseTypes` | `AgentTypeOK`, `RuleTypeOK`, `ResponseTypeOK` | no run: proved only |
| `ResponseStaysApproved` | `ResponseWithinApproval`: quarantines stay within what was approved and reserved | `workers` |
| `AutomaticQuarantineIsOwned` | `QuarantineOwned`, of rules and responders together | `authority`, responders alone |

Assumed: `AgentAssumption`, `RuleAssumption` and `ResponseAssumption`, the types of the
constants. An evaluation is nine requests long, so `Justified` says what it may still
rely on at each: its version was activated once, which no later governance takes back
(`VersionsOnward`); it reserved an action for this occurrence before it looked for a
case; it owns the case it contains. `CasesKnown` carries that to the case, which keeps
its owner and whoever contained it (`CasesOnward`), so a quarantine that outlives its
evaluation is still traced to an approval and a reservation. The limit is a question of
two reads: `WithinLimit` says that the ledger that the transaction compares still is the
one whose count was checked, unless a reservation came between the two reads, which is
`overtaken` (section 3). That a draft takes a number nobody has, and meets no version
pending, is in what it read of the rule and in the order of the versions
(`GovernorKnows`, `VersionsInOrder`). The steps of the agents keep all that, and those of
the evaluations keep `AgentInv`: a containment by a rule is one by its case.

### Regional transitions

`RegionalTransitionProofs` proves, for every number of transitions and of runs of the
scripts, of `RegionalSpec`:

| theorem | property | also checked by |
|---|---|---|
| `RegionalTypes` | `RegionalTypeOK` | no run: proved only |
| `OneRegionAtATime` | `OneRegionRuns`: no two Regions run | `authority` |
| `RouteServesTheLiveRegion` | `RouteServes`: the DNS serves the Region the journal names, and moves only from a fenced Region to a live one | `authority` |

Nothing is assumed of the manifests: their directions and generations are any, and
those the journal refuses are never begun. As in the properties, the cells and the DNS
are spoken of up to a `trespass`.

The phases are ordered as a transition goes through them (`Rank`), and the invariant
says of each phase what holds of the two cells (`CellsFollow`) and of the DNS
(`RouteFollows`): while the source is being fenced no path of it is starting, from then
to its reactivation it is fenced, and so on. A phase that is in progress says little of
its cell; what a command has proved before it ends the phase (`StillProved`) is what the
next phase needs, and it stays so, although another run may be at the same command,
since both change the paths one way only (`Falling`, `Rising`).

A run may also sleep, and act when its transition is over. It may be told from the live
ones by what it once claimed: the journal is in the phase it claimed, or later in the
same transition, or the generation has gone on (`Reached`). A rollback takes a generation
of its own, one more than the cutover's, so that a run of a rollback is behind by two
(`Behind`). A run that acts on a phase that is over is the trespass. The DNS batch is the
one write that defends itself: it is prepared from what was read (`Prepared`), its change
names the record it replaces, generation and all, and so a batch of long ago fails:
that the DNS moves only from a fenced Region to a live one holds of late batches too.

### Managed rollouts

`ManagedRolloutsProofs` proves, for every number of endpoints, requests,
reconciliations, versions, packages and windows, of `RolloutSpec`:

| theorem | property | also checked by |
|---|---|---|
| `RolloutTypes` | `RolloutTypeOK` | no run: proved only |
| `KnownGoodWasEnforced` | `KnownGoodIsProved`: a rollback restores what every endpoint enforced; a rollout serves what it desires | `workers` |

Assumed: `RolloutAssumption`, the types of the constants. Every write of the row
takes a new revision, and `Read` is what that gives: a row that was read is the row that
is, or of an earlier revision. A reconciliation measures one endpoint after
the other, and what the first ones enforced when they were looked at they may have
dropped since; the property speaks of what was enforced once, and `ReconcilerKnows` says
that a posture measured as converged is of an endpoint that did enforce what is desired
*now*, if the revision is unchanged. A package is compared with what is desired before it
is bound, in a read of its own (`PublisherKnows`). Rows of before the governance have
neither a known good version nor a package, and `VersionsInOrder` keeps what a version's
number stands for.

### Webhooks

`WorkQueueProofs` proves, for every number of operators, keys, deliveries,
senders, receives and mishaps, of `WebhookSpec`, in which destinations and
deliveries take their steps independently:

| theorem | property | also checked by |
|---|---|---|
| `AKnownKeySigns` | `KnownKeySigns`: during an overlap the receiver knows a key that signs | `workers` |
| `AuditsMatch` | `AuditMatchesState`: audit and item tell the same outcome | `workers` |
| `EndsAreFinal` | `EndedIsFinal`: an ended delivery is not changed or posted again | `workers` |

Assumed: `QueueAssumption` (a message is received at least once). Before the
destination exists only one creation is under way, since the creation of its
secret is exclusive (`CreatePlaced`); a rotation learns of every change of the
status by its revision (`RotatePlaced`), and what a retirement writes last is
what it read first but for the overlap (`RetirePlaced`), so `covered` always
speaks of the key that is `previous` now (`KeysPlaced`). That a final status is
audited first needs the whole path of the worker (`WorkerPlaced`): from the
moment it has found its delivery open until it has recorded the outcome nobody
else ends it, because its message is the head of the FIFO group and only the
worker records outcomes. Senders mark a delivery queued only while it is open
(`EndedStay`), whichever entries of the outbox they dispatch.

### Evidence retention

`WorkQueueProofs` proves too, for every number of jobs, audit writes, object versions,
periods and revisions, of `RetentionSpec`:

| theorem | property | also checked by |
|---|---|---|
| `RetentionTypes` | `RetentionTypeOK` | no run: proved only |
| `AppliedIsCovered` | `CoveredWhenApplied`: an applied policy holds for what was written before it and since | `workers` |

Assumed: `RetentionAssumption` and `QueueAssumption`. A job covers its versions page by
page, with messages that come twice and workers that stop; meanwhile audit objects are
written under policies that were read earlier, and the synchronous update raises the
policy beside it. A version is covered if the job need not extend it, or has
(`Covered`), and nothing uncovers one: periods only grow (`VersionsGoOn`). All up to the
job's marker are covered (`JobsBehindPolicy`), and those beyond the page a worker works
on are not skipped, because the next page is the *least* of the later positions that are
listed (`WellFoundedInduction`). What was written after the listing is the audit
writers' affair: once a cutover has passed, every write under way has read the job's
policy (`WritersKnow`), so what it puts is held long enough (`LateWritesCovered`). Two
receives of a message are told apart by the job's revision (`WorkerKnows`), and a policy
that another update took over is no longer the job's (`PolicyOfJob`).

### Discovery

`DiscoveryProofs` proves, for every number of administrators, collections,
publishers, generations, pages and contents, of `DiscoverySpec`, in which a
connector and the evidence of its source take their steps independently:

| theorem | property | also checked by |
|---|---|---|
| `LiveCollectorsAreServed` | `LiveCollectorServed`: a live collector has schedule, secret and token | `authority` |
| `EvidenceStaysWhole` | `EvidenceIsWhole`: a committed generation is whole, as verified, and alone on its base | `authority` |

Assumed: `EvidenceAssumption`. A creation that fails deletes the secret and the
schedule it made, and a disable deletes both; that neither hits a collector that
lives follows from `OneMaker` (one creation at most holds the secret, as making
it is exclusive and none is purged while a request may still clean up),
`RequestOwns` (a creation cleans up only what it made; a disable only after the
job is disabled, which is final) and `CollectorServed` (once the job runs the
resources are no creation's any more). A commit loads the pages one by one and
compares each with its object, so what it verified could be stale when it
commits: `UploadPlaced` says that it is not, because pages, objects, baselines and
declarations are put once and never taken back (`EvidenceStays`), and
`OnePerRevision` follows from the source's revision, which the commit compares.

### Model-checked only

Every safety property of a passing run is stated by a theorem. There remain:

- Liveness, which is beyond the prover: `EveryCallReturns`, `CapacityReturns`,
  `ClaimReturns`, `DeliveryEnds`, `ApplyingEnds`.
- The findings, which are counterexamples of TLC.

Every inductive invariant above was checked by TLC before it was proved, on the
instances and scenes of the runs that check its properties or on ones of their
size. The types (`TypeOK`, `AgentTypeOK`, `RuleTypeOK`, `ResponseTypeOK`,
`RegionalTypeOK`, `RolloutTypeOK`, `RetentionTypeOK`) are proved and not run by
themselves.

## 5. What is not modelled, and the plan

The plan, in order:

1. `JsonlAuditSink`: the locked, rotated, hash-chained append and its recovery.
2. Service identities, delegated grants and scoped emergency stops.

Not modelled, and why (`PROJECT.json` has the reason for every component):

- Pure decisions and computations on documents: policies and their composition,
  signatures, simulation, export, rendering of configurations.
- Protocol adapters without state of their own: the MCP gateway, the Claude Code
  and Codex hooks, HTTP.
- Input and output: isolation containers, STS and KMS calls, deployment scripts,
  CDK stacks and the Terraform provider.
- The control plane over SQLite (`enterprise_control_plane.py`) and its UI: every
  operation is one transaction of one process, so there is no interleaving to
  check.
- Records without a protocol: SCIM users and groups, behaviour and integrity rules,
  which only observe, alert suppressions,
  fleet views, evidence monitors, legal holds and assurance reports.
- The replication set-up (`manage_aws_regional_recovery.py`) and the fault drills:
  calls that are verified afterwards and keep no state of the transition.
- Discovery beyond its evidence: what each provider's adapter collects,
  correlation with the agents, findings and reports.
- In the modelled parts: agents of before the lifecycle fields, groups, endpoint
  evidence, filters and bodies of webhook events, the deletion of a delivery after
  thirty days, the tenants that the webhook cycle visits before this one (all of
  them are `reached`), the health item, the alert fan-out, the jobs of a
  reconciliation.
