--------------------------- MODULE EvidenceRetention ---------------------------
(***************************************************************************)
(* The retention of a tenant's audit objects (handler.py): a policy that   *)
(* is only raised, the jobs that extend the versions written before it     *)
(* was, page by page from a FIFO queue, and the writers of new versions.   *)
(*                                                                         *)
(* A page is one version here (_EVIDENCE_ASYNC_PAGE_SIZE is 10), and a     *)
(* version's retention the longest period it was put or extended under.    *)
(* A Lambda may stop at any step.                                          *)
(***************************************************************************)
EXTENDS WorkQueue

CONSTANTS
    Jobs,          \* bound on the retention jobs
    Writers,       \* bound on the audit writes in flight
    MaxVersions,   \* bound on the object versions, in the order S3 lists them
    MaxDays,       \* bound on the periods; 1 is the floor of 365 days
    MaxPolicies,   \* bound on the policy's revision
    MaxLapses,     \* bound on the workers that stop and the calls that fail
    MaxQueued,     \* bound on a job's messages
    NoJob

ASSUME RetentionAssumption ==
    /\ {MaxVersions, MaxDays, MaxPolicies, MaxLapses, MaxQueued} \subseteq Nat \ {0}
    /\ NoJob \notin Jobs

VARIABLES
    policy,        \* the EVIDENCE_POLICY item
    job,           \* the EVIDENCE_RETENTION_JOB items
    version,       \* the object versions under the tenant's prefix
    writer,        \* what each audit write read of the policy
    update,        \* the operator's synchronous update
    jobQueue,      \* each job's messages, whose work is a revision of it
    jobRecent,     \* deduplication ids of the last five minutes
    jobWorker,     \* what the worker of each job does
    lapses         \* bounds the environment

retention ==
    <<policy, job, version, writer, update, jobQueue, jobRecent, jobWorker, lapses>>

Positions == 1 .. MaxVersions
Days == 1 .. MaxDays

NoVersion == [held |-> 0, after |-> {}, aware |-> FALSE]

\* due: its cutover has passed.
NoJobRecord ==
    [status |-> "absent", revision |-> 0, policy |-> 0, target |-> 1, due |-> FALSE,
     marker |-> 0]

IdleWriter == [at |-> "idle", days |-> 1, revision |-> 0]

IdleJobWorker ==
    [at |-> "idle", expected |-> 0, seen |-> NoJobRecord, page |-> 0]

NoUpdate == [at |-> "idle", revision |-> 0, days |-> 1, records |-> {}]

RetentionInit ==
    /\ policy = [revision |-> 0, days |-> 1, status |-> "applied", job |-> NoJob]
    /\ job = [j \in Jobs |-> NoJobRecord]
    /\ version = [p \in Positions |-> NoVersion]
    /\ writer = [w \in Writers |-> IdleWriter]
    /\ update = NoUpdate
    /\ jobQueue = [j \in Jobs |-> <<>>]
    /\ jobRecent = [j \in Jobs |-> {}]
    /\ jobWorker = [j \in Jobs |-> IdleJobWorker]
    /\ lapses = 0

Present == {p \in Positions : version[p].held # 0}

Extended(p, days) ==
    [version[p] EXCEPT !.held = IF @ < days THEN days ELSE @]

Lapse == lapses < MaxLapses /\ lapses' = lapses + 1

(***************************************************************************)
(* Audit writes.                                                           *)
(***************************************************************************)
\* _audit reads the policy and puts the object under its period.
BeginWrite(w) ==
    /\ writer[w].at = "idle"
    /\ writer' = [writer EXCEPT ![w] =
          [at |-> "put", days |-> policy.days, revision |-> policy.revision]]
    /\ UNCHANGED <<policy, job, version, update, jobQueue, jobRecent, jobWorker, lapses>>

\* after: the jobs whose cutover is earlier; aware: written under the policy.
PutVersion(p, days, aware) ==
    /\ p \notin Present
    /\ version' = [version EXCEPT ![p] =
          [held |-> days, after |-> {j \in Jobs : job[j].due}, aware |-> aware]]

EndWrite(w) ==
    /\ writer[w].at = "put"
    /\ \/ \E p \in Positions : PutVersion(p, writer[w].days, TRUE)
       \/ UNCHANGED version
    /\ writer' = [writer EXCEPT ![w] = IdleWriter]
    /\ UNCHANGED <<policy, job, update, jobQueue, jobRecent, jobWorker, lapses>>

\* The webhook worker's audits name no retention: the bucket's floor applies.
WriteAtFloor(p) ==
    /\ PutVersion(p, 1, FALSE)
    /\ UNCHANGED <<policy, job, writer, update, jobQueue, jobRecent, jobWorker, lapses>>

(***************************************************************************)
(* Raising the policy.                                                     *)
(***************************************************************************)
\* One transaction puts the job and the policy.
CreateJob(j, days) ==
    /\ job[j].status = "absent"
    /\ policy.status # "applying"
    /\ policy.revision < MaxPolicies
    /\ days > policy.days \/ (days = policy.days /\ policy.status = "failed")
    /\ job' = [job EXCEPT ![j] = [NoJobRecord EXCEPT
          !.status = "settling", !.revision = 1, !.policy = policy.revision + 1,
          !.target = days]]
    /\ policy' = [revision |-> policy.revision + 1, days |-> days,
                  status |-> "applying", job |-> j]
    /\ UNCHANGED <<version, writer, update, jobQueue, jobRecent, jobWorker, lapses>>

CutOver(j) ==
    /\ job[j].status = "settling"
    /\ ~ job[j].due
    /\ job' = [job EXCEPT ![j].due = TRUE]
    /\ UNCHANGED <<policy, version, writer, update, jobQueue, jobRecent, jobWorker, lapses>>

\* Mutant: the scan does not wait.
PassAtOnce(j) == CutOver(j)

\* 65 seconds have passed: no Lambda that read the policy before is still running.
PassCutover(j) ==
    /\ \A w \in Writers : writer[w].at = "put" => writer[w].revision >= job[j].policy
    /\ CutOver(j)

\* _set_evidence_retention: the complete inventory of a small tenant.
BeginUpdate(days) ==
    /\ update.at = "idle"
    /\ days >= policy.days
    /\ policy.revision < MaxPolicies
    /\ update' = [at |-> "extend", revision |-> policy.revision, days |-> days,
                  records |-> Present]
    /\ UNCHANGED <<policy, job, version, writer, jobQueue, jobRecent, jobWorker, lapses>>

\* All of it, or some of it before the request ends.
ExtendInventory ==
    /\ update.at = "extend"
    /\ \/ /\ version' = [p \in Positions |->
                IF p \in update.records THEN Extended(p, update.days) ELSE version[p]]
          /\ update' = [update EXCEPT !.at = "commit"]
       \/ \E some \in SUBSET update.records :
          /\ version' = [p \in Positions |->
                IF p \in some THEN Extended(p, update.days) ELSE version[p]]
          /\ update' = NoUpdate
    /\ UNCHANGED <<policy, job, writer, jobQueue, jobRecent, jobWorker, lapses>>

\* Conditional on the revision alone; the new item has no job.
CommitUpdate ==
    /\ update.at = "commit"
    /\ policy' = IF policy.revision = update.revision
                 THEN [revision |-> policy.revision + 1, days |-> update.days,
                       status |-> "applied", job |-> NoJob]
                 ELSE policy
    /\ update' = NoUpdate
    /\ UNCHANGED <<job, version, writer, jobQueue, jobRecent, jobWorker, lapses>>

(***************************************************************************)
(* The queue of a job.                                                     *)
(***************************************************************************)
SendRevision(j, revision) ==
    /\ jobQueue' = [jobQueue EXCEPT ![j] = Sent(@, jobRecent[j], revision)]
    /\ jobRecent' = [jobRecent EXCEPT ![j] = @ \cup {revision}]

Dispatch(j, statuses) ==
    /\ policy.status = "applying"
    /\ policy.job = j
    /\ job[j].status \in statuses
    /\ job[j].due
    /\ Len(jobQueue[j]) < MaxQueued
    /\ SendRevision(j, job[j].revision)
    /\ UNCHANGED <<policy, job, version, writer, update, jobWorker, lapses>>

\* Mutant: the cycle starts jobs and does not recover them.
ScheduleDue(j) == Dispatch(j, {"settling"})

\* The cycle of every minute; queued work is sent again when it is old.
Schedule(j) == Dispatch(j, {"settling", "queued"})

\* Five minutes have passed since the message was sent.
ForgetRevision(j) ==
    /\ jobRecent[j] # {}
    /\ jobRecent' = [jobRecent EXCEPT ![j] = {}]
    /\ UNCHANGED <<policy, job, version, writer, update, jobQueue, jobWorker, lapses>>

(***************************************************************************)
(* The worker of a job.                                                    *)
(***************************************************************************)
Work(j, w) == jobWorker' = [jobWorker EXCEPT ![j] = w]

DoneWork == [IdleJobWorker EXCEPT !.at = "finish"]

TakeMessage(j) ==
    /\ jobWorker[j].at = "idle"
    /\ jobQueue[j] # <<>>
    /\ ~ Exhausted(jobQueue[j])
    /\ jobQueue' = [jobQueue EXCEPT ![j] = Received(@)]
    /\ Work(j, [IdleJobWorker EXCEPT !.at = "load", !.expected = Head(jobQueue[j]).work])
    /\ UNCHANGED <<policy, job, version, writer, update, jobRecent, lapses>>

\* A message one revision behind repairs a send that was lost; another one is stale.
LoadJob(j) ==
    LET w == jobWorker[j] IN
    /\ w.at = "load"
    /\ Work(j, CASE job[j].revision = w.expected /\ job[j].status \in {"settling", "queued"}
                        /\ job[j].due -> [w EXCEPT !.at = "extend", !.seen = job[j]]
                 [] job[j].revision = w.expected + 1 /\ job[j].status = "queued"
                        -> [w EXCEPT !.at = "send", !.seen = job[j]]
                 [] OTHER -> DoneWork)
    /\ UNCHANGED <<policy, job, version, writer, update, jobQueue, jobRecent, lapses>>

\* The next version S3 lists, and the end of the list when there is none.
NextPage(j) ==
    LET rest == {p \in Present : p > jobWorker[j].seen.marker} IN
    IF rest = {} THEN 0 ELSE CHOOSE p \in rest : \A q \in rest : p <= q

\* The versions written after the cutover are listed too, and left alone.
ExtendPage(j) ==
    LET examined == {p \in {NextPage(j)} \cap Present : j \notin version[p].after} IN
    /\ jobWorker[j].at = "extend"
    /\ version' = [p \in Positions |->
          IF p \in examined THEN Extended(p, jobWorker[j].seen.target) ELSE version[p]]
    /\ Work(j, [jobWorker[j] EXCEPT
          !.at = IF \E p \in Present : p > NextPage(j) /\ NextPage(j) # 0
                 THEN "commit" ELSE "complete",
          !.page = NextPage(j)])
    /\ UNCHANGED <<policy, job, writer, update, jobQueue, jobRecent, lapses>>

Examined(j, status) ==
    LET w == jobWorker[j] IN
    [w.seen EXCEPT !.status = status, !.revision = @ + 1, !.marker = w.page]

CommitPage(j) ==
    /\ jobWorker[j].at = "commit"
    /\ job[j].revision = jobWorker[j].seen.revision
    /\ job' = [job EXCEPT ![j] = Examined(j, "queued")]
    /\ Work(j, [IdleJobWorker EXCEPT !.at = "send", !.expected = jobWorker[j].expected,
                                      !.seen = job'[j]])
    /\ UNCHANGED <<policy, version, writer, update, jobQueue, jobRecent, lapses>>

Applying(j) ==
    policy.revision = jobWorker[j].seen.policy /\ policy.job = j /\ policy.status = "applying"

\* One transaction completes the job and applies the policy.
Complete(j) ==
    /\ jobWorker[j].at = "complete"
    /\ job[j].revision = jobWorker[j].seen.revision
    /\ Applying(j)
    /\ job' = [job EXCEPT ![j] = Examined(j, "completed")]
    /\ policy' = [policy EXCEPT !.status = "applied"]
    /\ Work(j, DoneWork)
    /\ UNCHANGED <<version, writer, update, jobQueue, jobRecent, lapses>>

SendNext(j) ==
    /\ jobWorker[j].at = "send"
    /\ SendRevision(j, jobWorker[j].seen.revision)
    /\ Work(j, DoneWork)
    /\ UNCHANGED <<policy, job, version, writer, update, lapses>>

FinishMessage(j) ==
    /\ jobWorker[j].at = "finish"
    /\ jobQueue' = [jobQueue EXCEPT ![j] = Tail(@)]
    /\ Work(j, IdleJobWorker)
    /\ UNCHANGED <<policy, job, version, writer, update, jobRecent, lapses>>

ReturnMessage(j) ==
    /\ jobQueue' = [jobQueue EXCEPT ![j] = Returned(@)]
    /\ Work(j, IdleJobWorker)
    /\ UNCHANGED <<policy, job, version, writer, update, jobRecent>>

\* An exception of any call, or the conflict of the last transaction: the last
\* receive fails the job, another one is tried again.
Conflict(j) == jobWorker[j].at = "complete" /\ ~ Applying(j) /\ UNCHANGED lapses

CallFails(j) == jobWorker[j].at \in {"load", "extend", "commit", "complete", "send"} /\ Lapse

MessageFails(j) ==
    /\ Conflict(j) \/ CallFails(j)
    /\ IF Exhausted(jobQueue[j])
       THEN /\ Work(j, [IdleJobWorker EXCEPT !.at = "fail", !.expected = jobWorker[j].expected])
            /\ UNCHANGED <<policy, job, version, writer, update, jobQueue, jobRecent>>
       ELSE ReturnMessage(j)

\* _fail_retention_job: the job as it is now, if it has the message's revision.
Fail(j) ==
    LET open == /\ job[j].revision = jobWorker[j].expected
                /\ job[j].status \in {"settling", "queued"}
        applying == /\ policy.revision = job[j].policy
                    /\ policy.job = j
                    /\ policy.status = "applying" IN
    /\ jobWorker[j].at = "fail"
    /\ \/ /\ open /\ applying
          /\ job' = [job EXCEPT ![j].status = "failed", ![j].revision = @ + 1]
          /\ policy' = [policy EXCEPT !.status = "failed"]
          /\ Work(j, DoneWork)
          /\ UNCHANGED <<version, writer, update, jobQueue, jobRecent, lapses>>
       \/ open /\ ~ applying /\ ReturnMessage(j) /\ UNCHANGED lapses
       \/ /\ ~ open
          /\ Work(j, DoneWork)
          /\ UNCHANGED <<policy, job, version, writer, update, jobQueue, jobRecent, lapses>>

JobWorkerStops(j) == Lapse /\ jobWorker[j].at # "idle" /\ ReturnMessage(j)

JobStep(j) ==
    \/ TakeMessage(j) \/ LoadJob(j) \/ ExtendPage(j) \/ CommitPage(j) \/ Complete(j)
    \/ SendNext(j) \/ FinishMessage(j) \/ MessageFails(j) \/ Fail(j)

RetentionNext ==
    \/ \E w \in Writers : BeginWrite(w) \/ EndWrite(w)
    \/ \E p \in Positions : WriteAtFloor(p)
    \/ \E days \in Days : BeginUpdate(days) \/ \E j \in Jobs : CreateJob(j, days)
    \/ ExtendInventory
    \/ CommitUpdate
    \/ \E j \in Jobs :
        PassCutover(j) \/ Schedule(j) \/ ForgetRevision(j) \/ JobStep(j) \/ JobWorkerStops(j)

\* Time passes, the cycle comes every minute, SQS invokes the worker while there are
\* messages, and a Lambda that does not stop goes on.
RetentionFairness ==
    /\ \A w \in Writers : WF_retention(EndWrite(w))
    /\ \A j \in Jobs :
        /\ WF_retention(PassCutover(j))
        /\ WF_retention(Schedule(j))
        /\ WF_retention(ForgetRevision(j))
        /\ WF_retention(JobStep(j))

(***************************************************************************)
(* Properties.                                                             *)
(***************************************************************************)
AppliedBy(j) == policy.status = "applied" /\ policy.job = j

\* A policy that a job applied covers the versions written until the job's cutover
\* and those written under the policy after it: no version was missed by the pages
\* and none written late under an older policy (_process_retention_job, the cutover).
CoveredWhenApplied ==
    \A j \in Jobs : AppliedBy(j) =>
        \A p \in Present :
            version[p].aware \/ j \notin version[p].after => version[p].held >= policy.days

\* A policy does not stay in application: the job completes or fails, or a
\* synchronous update takes its place (_evidence_retention_schedule_cycle).
ApplyingEnds == (policy.status = "applying") ~> (policy.status # "applying")
=============================================================================
