--------------------------- MODULE PolicyGovernance ---------------------------
(***************************************************************************)
(* The lifecycle of one policy in the AWS control plane (handler.py): its  *)
(* row, the ledger of its versions, and the requests that work on them.    *)
(*                                                                         *)
(* A request runs in a process of its own; what it does between two        *)
(* accesses to the table is invisible to the others, so a step is one read *)
(* or one conditional write (a transaction is one write).  It may end      *)
(* anywhere: on a refused condition, an error, or the process's time       *)
(* limit.  The requests that view policies and the one that resolves the   *)
(* effective policy read the row without ConsistentRead, so they may see   *)
(* an older row; the others read the current one.                          *)
(*                                                                         *)
(* A policy written before the ledger existed has a row and no version     *)
(* record.  The first request that reads the row adds the record and then  *)
(* rewrites the row, in two writes.                                        *)
(***************************************************************************)
EXTENDS Naturals

CONSTANTS
    MaxVersion,   \* bound on the versions of the policy
    Requests,     \* bound on the requests in flight
    Operators,    \* authenticated subjects
    None          \* nobody

ASSUME GovernanceAssumption ==
    /\ MaxVersion \in Nat \ {0}
    /\ None \notin Operators

VARIABLES
    row,          \* the POLICY item
    replica,      \* an older POLICY item that some reads still see
    ledger,       \* the POLICY_VERSION items
    request,      \* what each request does and remembers
    overwritten   \* history: a late migration changed the version in force

governance == <<row, replica, ledger, request, overwritten>>

Versions == 1 .. MaxVersion

\* The version in force of a policy written before the ledger existed.
Legacy == 1

\* schema 1: the row is governed.  latest 0: no latestVersion attribute.
Rows == [schema : {0, 1}, version : 0 .. MaxVersion, latest : 0 .. MaxVersion]

NoRow == [schema |-> 0, version |-> 0, latest |-> 0]

LegacyRow == [schema |-> 0, version |-> Legacy, latest |-> 0]

Pending == {"draft", "review", "approved", "staged"}

Records ==
    [state : Pending \cup {"absent", "active", "rejected", "retired"},
     base : 0 .. MaxVersion,
     author : Operators \cup {None},
     decider : Operators \cup {None}]

NoRecord == [state |-> "absent", base |-> 0, author |-> None, decider |-> None]

Operations == {"draft", "import", "stage", "activate", "view", "scope"}

\* Where a request is: about to write the migrated record or row, to list the
\* versions, or to write its own change.
Stops == {"idle", "record", "row", "list", "commit"}

\* op: what was asked; at: its next step, and then: the one after migration;
\* row: the row it read; latest: the newest version it listed.
IdleRequest ==
    [op |-> "none", at |-> "idle", then |-> "idle", row |-> NoRow, latest |-> 0]

IsRecorded(v) == ledger[v].state # "absent"

IsLatest(n) ==
    /\ n # 0 => IsRecorded(n)
    /\ \A v \in Versions : v > n => ~ IsRecorded(v)

Independent(record) == record.decider # None /\ record.decider # record.author

Init ==
    /\ row \in {NoRow, LegacyRow}
    /\ replica = row
    /\ ledger = [v \in Versions |-> NoRecord]
    /\ request = [r \in Requests |-> IdleRequest]
    /\ overwritten = FALSE

\* A read without ConsistentRead has caught up.
CatchUp ==
    /\ replica' = row
    /\ UNCHANGED <<row, ledger, request, overwritten>>

(***************************************************************************)
(* Reading the row: a legacy row is migrated before anything else, except  *)
(* by an import.                                                           *)
(***************************************************************************)
Reading(r, op, seen, then) ==
    request' = [request EXCEPT ![r] =
        [op |-> op, at |-> IF seen.schema = 0 THEN "record" ELSE then,
         then |-> then, row |-> seen, latest |-> 0]]

FirstStop(op) == IF op = "draft" THEN "list" ELSE "commit"

Start(r, op) ==
    /\ request[r].at = "idle"
    /\ op \in {"draft", "stage", "activate"}
    /\ row # NoRow
    /\ Reading(r, op, row, FirstStop(op))
    /\ UNCHANGED <<row, replica, ledger, overwritten>>

\* A governed row is returned as it was read.
View(r) ==
    /\ request[r].at = "idle"
    /\ \E seen \in {row, replica} :
          /\ seen # NoRow
          /\ seen.schema = 0
          /\ Reading(r, "view", seen, "idle")
    /\ UNCHANGED <<row, replica, ledger, overwritten>>

\* _import_policy_source, and _create_governed_policy when there is no row.
StartImport(r) ==
    /\ request[r].at = "idle"
    /\ request' = [request EXCEPT ![r] =
          [op |-> "import", at |-> IF row = NoRow THEN "commit" ELSE "list",
           then |-> "idle", row |-> row, latest |-> 0]]
    /\ UNCHANGED <<row, replica, ledger, overwritten>>

\* Mutant: the record is put whether there is one or not.
MigrateRecordAgain(r) ==
    /\ request[r].at = "record"
    /\ LET v == request[r].row.version IN
       ledger' = [ledger EXCEPT ![v] = [NoRecord EXCEPT !.state = "active", !.base = v - 1]]
    /\ request' = [request EXCEPT ![r].at = "row"]
    /\ UNCHANGED <<row, replica, overwritten>>

MigrateRecord(r) ==
    /\ request[r].at = "record"
    /\ LET v == request[r].row.version IN
       ledger' = IF IsRecorded(v) THEN ledger
                 ELSE [ledger EXCEPT ![v] =
                         [NoRecord EXCEPT !.state = "active", !.base = v - 1]]
    /\ request' = [request EXCEPT ![r].at = "row"]
    /\ UNCHANGED <<row, replica, overwritten>>

Migrated(seen) == [schema |-> 1, version |-> seen.version, latest |-> seen.version]

\* An unconditional put of the row that was read, however long ago.
MigrateRow(r) ==
    LET seen == request[r].row IN
    /\ request[r].at = "row"
    /\ row' = Migrated(seen)
    /\ overwritten' = (overwritten \/ row.version # seen.version)
    /\ request' = [request EXCEPT ![r] =
          IF request[r].then = "idle" THEN IdleRequest
          ELSE [request[r] EXCEPT !.at = request[r].then, !.row = Migrated(seen)]]
    /\ UNCHANGED <<replica, ledger>>

\* Mutant: pending versions are not looked for.
ListVersionsPending(r) ==
    /\ request[r].at = "list"
    /\ \E n \in 0 .. MaxVersion :
          /\ IsLatest(n)
          /\ n < MaxVersion
          /\ request' = [request EXCEPT ![r].at = "commit", ![r].latest = n]
    /\ UNCHANGED <<row, replica, ledger, overwritten>>

ListVersions(r) ==
    /\ request[r].at = "list"
    /\ \A v \in Versions : ledger[v].state \notin Pending
    /\ \E n \in 0 .. MaxVersion :
          /\ IsLatest(n)
          /\ n < MaxVersion
          /\ request' = [request EXCEPT ![r].at = "commit", ![r].latest = n]
    /\ UNCHANGED <<row, replica, ledger, overwritten>>

Done(r) == request' = [request EXCEPT ![r] = IdleRequest]

(***************************************************************************)
(* The writes.                                                             *)
(***************************************************************************)
\* The row is still what the draft was written against.
SameRow(r) ==
    IF request[r].row = NoRow
    THEN row = NoRow
    ELSE /\ row.version = request[r].row.version
         /\ row.latest = request[r].latest
         /\ row.latest # 0

CommitDraft(r, author) ==
    LET n == request[r].latest + 1 IN
    /\ request[r].at = "commit"
    /\ request[r].op \in {"draft", "import"}
    /\ ~ IsRecorded(n)
    /\ SameRow(r)
    /\ ledger' = [ledger EXCEPT ![n] =
          [state |-> "draft", base |-> request[r].row.version,
           author |-> author, decider |-> None]]
    /\ row' = IF row = NoRow THEN [schema |-> 1, version |-> 0, latest |-> 1]
              ELSE [request[r].row EXCEPT !.latest = n]
    /\ Done(r)
    /\ UNCHANGED <<replica, overwritten>>

\* Reads one version and writes it back if its state is the same; nothing else
\* of a pending version changes meanwhile, so the two are one step.
Submit(v) ==
    /\ ledger[v].state = "draft"
    /\ ledger' = [ledger EXCEPT ![v].state = "review"]
    /\ UNCHANGED <<row, replica, request, overwritten>>

Decide(v, decision, actor) ==
    /\ ledger[v].state = "review"
    /\ decision = "approved" => ledger[v].author # actor
    /\ ledger' = [ledger EXCEPT ![v].state = decision, ![v].decider = actor]
    /\ UNCHANGED <<row, replica, request, overwritten>>

\* Compares the base with the row read before, and writes on the state only.
CommitStage(r, v) ==
    /\ request[r].at = "commit"
    /\ request[r].op = "stage"
    /\ ledger[v].state = "approved"
    /\ Independent(ledger[v])
    /\ ledger[v].base = request[r].row.version
    /\ ledger' = [ledger EXCEPT ![v].state = "staged"]
    /\ Done(r)
    /\ UNCHANGED <<row, replica, overwritten>>

\* Mutant: the previous version stays active.
CommitActivateBeside(r, v) ==
    /\ request[r].at = "commit"
    /\ request[r].op = "activate"
    /\ ledger[v].state = "staged"
    /\ Independent(ledger[v])
    /\ ledger[v].base = request[r].row.version
    /\ row.version = request[r].row.version
    /\ ledger' = [ledger EXCEPT ![v].state = "active"]
    /\ row' = [request[r].row EXCEPT !.version = v, !.latest = v]
    /\ Done(r)
    /\ UNCHANGED <<replica, overwritten>>

\* Retiring the previous version, enforcing the candidate and moving the row
\* are one transaction, each write on its condition.
CommitActivate(r, v) ==
    LET expected == request[r].row.version IN
    /\ request[r].at = "commit"
    /\ request[r].op = "activate"
    /\ ledger[v].state = "staged"
    /\ Independent(ledger[v])
    /\ ledger[v].base = expected
    /\ expected # 0 => ledger[expected].state = "active"
    /\ row.version = expected
    /\ ledger' = [w \in Versions |->
          IF w = v THEN [ledger[w] EXCEPT !.state = "active"]
          ELSE IF w = expected THEN [ledger[w] EXCEPT !.state = "retired"]
          ELSE ledger[w]]
    /\ row' = [request[r].row EXCEPT
          !.version = v,
          !.latest = IF @ > v THEN @ ELSE v]
    /\ Done(r)
    /\ UNCHANGED <<replica, overwritten>>

\* A condition fails, an exception is raised or the process's time is over.
GiveUp(r) ==
    /\ request[r].at # "idle"
    /\ Done(r)
    /\ UNCHANGED <<row, replica, ledger, overwritten>>

RequestStep(r) ==
    \/ \E op \in Operations : Start(r, op)
    \/ View(r)
    \/ StartImport(r)
    \/ MigrateRecord(r)
    \/ MigrateRow(r)
    \/ ListVersions(r)
    \/ \E author \in Operators : CommitDraft(r, author)
    \/ \E v \in Versions : CommitStage(r, v) \/ CommitActivate(r, v)
    \/ GiveUp(r)

Review(v) ==
    \/ Submit(v)
    \/ \E actor \in Operators :
          Decide(v, "approved", actor) \/ Decide(v, "rejected", actor)

Next ==
    \/ \E r \in Requests : RequestStep(r)
    \/ \E v \in Versions : Review(v)
    \/ CatchUp

Spec == Init /\ [][Next]_governance

(***************************************************************************)
(* Properties.                                                             *)
(***************************************************************************)
RequestRecords ==
    [op : Operations \cup {"none"}, at : Stops, then : Stops,
     row : Rows, latest : 0 .. MaxVersion]

\* The types of the variables; a request that migrates holds a legacy row.
TypeOK ==
    /\ row \in Rows
    /\ replica \in Rows
    /\ ledger \in [Versions -> Records]
    /\ request \in [Requests -> RequestRecords]
    /\ overwritten \in BOOLEAN
    /\ \A r \in Requests : request[r].at \in {"record", "row"} =>
          /\ request[r].row.schema = 0
          /\ request[r].row.version \in Versions

\* The row names the version that the ledger says is active, and no other is,
\* through every race of migrations, drafts, imports and activations, unless a
\* migration that read the row before an activation writes it afterwards.
OneAuthority ==
    \/ overwritten
    \/ \A v \in Versions :
          /\ ledger[v].state = "active" => row.version = v
          /\ row.schema = 1 /\ row.version = v => ledger[v].state = "active"

\* Drafts and imports that listed the versions at the same time do not both
\* add one: a policy never has two pending versions, and the pending one was
\* written against the version that the ledger says is active.
OnePending ==
    \A v \in Versions : ledger[v].state \in Pending =>
        /\ \A w \in Versions : ledger[w].state \in Pending => w = v
        /\ \A w \in Versions : ledger[w].state = "active" <=> w = ledger[v].base

\* A policy of before the ledger is in force though no record says so.
InForce ==
    {v \in Versions :
        \/ ledger[v].state = "active"
        \/ v = row.version /\ row.schema = 0 /\ ~ IsRecorded(v)}

Approved ==
    {<<v, ledger[v].base>> : v \in
        {w \in Versions : ledger[w].state \in {"approved", "staged"} /\ Independent(ledger[w])}}

Authority == INSTANCE PolicyAuthority WITH inForce <- InForce, approved <- Approved

\* The ledger implements PolicyAuthority whatever the requests do: the version
\* in force changes only to one that another subject approved as its successor.
AuthoritySpec == Authority!Spec
=============================================================================
