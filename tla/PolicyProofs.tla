----------------------------- MODULE PolicyProofs -----------------------------
(***************************************************************************)
(* Proofs about PolicyGovernance and PolicyExceptions, for every number of *)
(* versions, requests, operators and exceptions: their types, OnePending,  *)
(* OneAuthority, that governance implements PolicyAuthority,               *)
(* OneOpenException and ServedExceptionInForce.                            *)
(***************************************************************************)
EXTENDS PolicyExceptions, TLAPS

(***************************************************************************)
(* The inductive invariant.                                                *)
(***************************************************************************)
\* The policy was written before the ledger existed.
OfBefore == row # NoRow /\ row.version # 0 /\ ledger[Legacy].author = None

\* What is known of a row, of the table or remembered by a request.
WellFormed(seen) ==
    /\ seen # NoRow => row # NoRow
    /\ seen # NoRow /\ seen.schema = 0 => seen.version = Legacy /\ OfBefore
    /\ seen.schema = 1 /\ seen.version # 0 => IsRecorded(seen.version)
    /\ seen.latest # 0 => IsRecorded(seen.latest)

RowsPlaced ==
    /\ WellFormed(row)
    /\ WellFormed(replica)
    /\ \A r \in Requests : WellFormed(request[r].row)
    /\ row = NoRow => \A v \in Versions : ~ IsRecorded(v)

\* The recorded versions are 1 .. n, the pending one is the last of them, and a
\* retired one has a successor.
RecordsPlaced ==
    \A v \in Versions :
        /\ IsRecorded(v) => \A w \in Versions : w < v => IsRecorded(w)
        /\ ledger[v].state \in Pending => \A w \in Versions : IsRecorded(w) => w <= v
        /\ ledger[v].state = "retired" => \E w \in Versions : w > v /\ IsRecorded(w)
        /\ ledger[v].author = None => ledger[v].state \in {"absent", "active", "retired"}
        /\ ~ IsRecorded(v) => ledger[v].author = None

NonePending == \A v \in Versions : ledger[v].state \notin Pending

Placed(q) ==
    /\ q.at \in {"record", "row"} =>
          /\ q.row # NoRow
          /\ q.then \in {"idle", FirstStop(q.op)}
          /\ q.op \in Operations \ {"import"}
    /\ q.at = "row" => IsRecorded(Legacy)
    /\ q.at \in {"list", "commit"} /\ q.op # "import" =>
          /\ q.row.schema = 1
          /\ q.op = "draft" \/ q.at = "commit"
    /\ q.at = "commit" /\ q.op \in {"draft", "import"} =>
          /\ q.latest < MaxVersion
          /\ q.latest # 0 => IsRecorded(q.latest)
          /\ IsRecorded(q.latest + 1) \/ NonePending

RequestsPlaced == \A r \in Requests : Placed(request[r])

\* A row that knows the last version names the active one.
RowAgrees ==
    row.latest # 0 /\ IsLatest(row.latest) =>
        \A v \in Versions : ledger[v].state = "active" <=> v = row.version

\* OneAuthority for a legacy row too, which has no record at first.
Undisputed ==
    \/ overwritten
    \/ \A v \in Versions :
          /\ ledger[v].state = "active" => row.version = v
          /\ row.version = v /\ IsRecorded(v) => ledger[v].state = "active"

GovernanceInv ==
    /\ TypeOK
    /\ RowsPlaced
    /\ RecordsPlaced
    /\ RequestsPlaced
    /\ OnePending
    /\ RowAgrees
    /\ Undisputed

-----------------------------------------------------------------------------
(* What a step may do *)

USE GovernanceAssumption

\* A step that changes the place of one request.
LEMMA RequestMoves ==
    ASSUME GovernanceInv, UNCHANGED <<row, replica, ledger, overwritten>>,
           NEW r \in Requests, NEW q \in RequestRecords,
           request' = [request EXCEPT ![r] = q],
           WellFormed(q.row), Placed(q),
           q.at \in {"record", "row"} => q.row.schema = 0 /\ q.row.version \in Versions
    PROVE  GovernanceInv'
  <1>1. \A s \in Requests : request'[s] = IF s = r THEN q ELSE request[s]
    BY DEF GovernanceInv, TypeOK
  <1>2. TypeOK'
    BY <1>1 DEF GovernanceInv, TypeOK
  <1>3. RowsPlaced'
    BY <1>1 DEF GovernanceInv, RowsPlaced, WellFormed, OfBefore, IsRecorded
  <1>4. RequestsPlaced'
    <2> SUFFICES ASSUME NEW s \in Requests PROVE Placed(request[s])'
      BY DEF RequestsPlaced
    <2>1. CASE s = r
      BY <1>1, <2>1 DEF Placed, IsRecorded, NonePending
    <2>2. CASE s # r
      BY <1>1, <2>2 DEF GovernanceInv, RequestsPlaced, Placed, IsRecorded, NonePending
    <2> QED BY <2>1, <2>2
  <1> QED
    BY <1>2, <1>3, <1>4
    DEF GovernanceInv, RecordsPlaced, OnePending, RowAgrees, Undisputed, IsRecorded, IsLatest

LEMMA Facts ==
    ASSUME GovernanceInv
    PROVE  /\ 0 \in 0 .. MaxVersion /\ Legacy \in Versions
           /\ NoRow \in Rows /\ IdleRequest \in RequestRecords /\ WellFormed(NoRow) /\ Placed(IdleRequest)
           /\ \A x : WellFormed(x) /\ x \in Rows /\ x.schema = 0 /\ x # NoRow => x.version \in Versions
  BY DEF NoRow, Rows, IdleRequest, RequestRecords, Operations, Stops, WellFormed, Placed, Legacy, Versions

LEMMA GiveUpKeeps == ASSUME GovernanceInv, NEW r \in Requests, GiveUp(r) PROVE GovernanceInv'
  <1>1. IdleRequest.at = "idle" /\ IdleRequest.row = NoRow
    BY DEF IdleRequest
  <1> QED BY <1>1, Facts, RequestMoves DEF GiveUp, Done

\* What a request that reads a row remembers.
LEMMA ReadingKeeps ==
    ASSUME GovernanceInv, NEW r \in Requests, NEW op \in Operations \ {"import"},
           NEW seen \in {row, replica}, seen # NoRow,
           NEW then, then = IF op = "view" THEN "idle" ELSE FirstStop(op),
           op = "view" => seen.schema = 0,
           Reading(r, op, seen, then), UNCHANGED <<row, replica, ledger, overwritten>>
    PROVE  GovernanceInv'
  <1> DEFINE q == [op |-> op, at |-> IF seen.schema = 0 THEN "record" ELSE then,
                   then |-> then, row |-> seen, latest |-> 0]
  <1>1. seen \in Rows /\ WellFormed(seen)
    BY DEF GovernanceInv, TypeOK, RowsPlaced
  <1>2. then \in Stops /\ then \in {"idle", FirstStop(op)} /\ then \in {"idle", "list", "commit"}
    BY DEF FirstStop, Stops
  <1>3. q \in RequestRecords
    BY <1>1, <1>2, Facts DEF RequestRecords, Operations, Stops
  <1>4. q.at \in {"record", "row"} => q.row.schema = 0 /\ q.row.version \in Versions
    BY <1>1, <1>2, Facts
  <1>5. seen.schema \in {0, 1}
    BY <1>1 DEF Rows
  <1>6. Placed(q)
    BY <1>2, <1>5, Facts DEF Placed, FirstStop
  <1>7. request' = [request EXCEPT ![r] = q]
    BY DEF Reading
  <1> QED BY <1>1, <1>3, <1>4, <1>6, <1>7, RequestMoves

LEMMA StartKeeps ==
    ASSUME GovernanceInv, NEW r \in Requests, NEW op \in Operations, Start(r, op)
    PROVE  GovernanceInv'
  BY ReadingKeeps DEF Start, Operations

LEMMA ViewKeeps == ASSUME GovernanceInv, NEW r \in Requests, View(r) PROVE GovernanceInv'
  BY ReadingKeeps DEF View, Operations

LEMMA StartImportKeeps ==
    ASSUME GovernanceInv, NEW r \in Requests, StartImport(r)
    PROVE  GovernanceInv'
  <1> DEFINE q == [op |-> "import", at |-> IF row = NoRow THEN "commit" ELSE "list",
                   then |-> "idle", row |-> row, latest |-> 0]
  <1>1. row \in Rows /\ WellFormed(row)
    BY DEF GovernanceInv, TypeOK, RowsPlaced
  <1>2. q \in RequestRecords
    BY <1>1, Facts DEF RequestRecords, Operations, Stops
  <1>3. q.at = "commit" => NonePending
    BY DEF GovernanceInv, RowsPlaced, NonePending, IsRecorded, Pending
  <1>4. Placed(q)
    BY <1>3 DEF Placed
  <1> QED BY <1>1, <1>2, <1>4, RequestMoves DEF StartImport

LEMMA ListVersionsKeeps ==
    ASSUME GovernanceInv, NEW r \in Requests, ListVersions(r)
    PROVE  GovernanceInv'
  <1>1. PICK n \in 0 .. MaxVersion :
          /\ IsLatest(n) /\ n < MaxVersion
          /\ request' = [request EXCEPT ![r].at = "commit", ![r].latest = n]
    BY DEF ListVersions
  <1> DEFINE q == [request[r] EXCEPT !.at = "commit", !.latest = n]
  <1>2. request[r] \in RequestRecords /\ WellFormed(request[r].row) /\ Placed(request[r])
    BY DEF GovernanceInv, TypeOK, RowsPlaced, RequestsPlaced
  <1>3. q \in RequestRecords /\ q.at = "commit" /\ q.latest = n /\ q.row = request[r].row
        /\ q.op = request[r].op
    BY <1>2 DEF RequestRecords, Stops
  <1>4. NonePending
    BY DEF ListVersions, NonePending
  <1>5. Placed(q)
    BY <1>1, <1>2, <1>3, <1>4 DEF Placed, IsLatest, ListVersions
  <1>6. request' = [request EXCEPT ![r] = q]
    BY <1>1 DEF GovernanceInv, TypeOK
  <1> QED BY <1>2, <1>3, <1>5, <1>6, RequestMoves DEF ListVersions

LEMMA CatchUpKeeps == ASSUME GovernanceInv, CatchUp PROVE GovernanceInv'
  BY DEF CatchUp, GovernanceInv, TypeOK, RowsPlaced, WellFormed, OfBefore, RecordsPlaced,
         RequestsPlaced, Placed, NonePending, OnePending, RowAgrees, Undisputed, IsRecorded, IsLatest

-----------------------------------------------------------------------------
(* Steps on the ledger and the row *)

LEMMA SameRecord ==
    ASSUME NEW x \in Records, NEW y \in Records,
           x.state = y.state, x.base = y.base, x.author = y.author, x.decider = y.decider
    PROVE  x = y
  BY DEF Records

\* The record of the version in force of an old policy; before it there is none.
LEMMA MigrateRecordKeeps ==
    ASSUME GovernanceInv, NEW r \in Requests, MigrateRecord(r)
    PROVE  GovernanceInv'
  <1> DEFINE q == [request[r] EXCEPT !.at = "row"]
             new == [state |-> "active", base |-> 0, author |-> None, decider |-> None]
  <1>1. /\ request[r] \in RequestRecords /\ request[r].at = "record" /\ request[r].row.schema = 0
        /\ WellFormed(request[r].row) /\ Placed(request[r])
    BY DEF GovernanceInv, TypeOK, RowsPlaced, RequestsPlaced, MigrateRecord
  <1>2. request[r].row.version = Legacy /\ OfBefore /\ Legacy \in Versions
    BY <1>1, Facts DEF WellFormed, Placed
  <1>3. ledger' = IF IsRecorded(Legacy) THEN ledger ELSE [ledger EXCEPT ![Legacy] = new]
    <2>1. Legacy - 1 = 0
      BY DEF Legacy
    <2> DEFINE put == [NoRecord EXCEPT !.state = "active", !.base = 0]
    <2>2. put \in Records /\ new \in Records
      BY Facts DEF NoRecord, Records
    <2>3. put.state = "active" /\ put.base = 0 /\ put.author = None /\ put.decider = None
      BY DEF NoRecord
    <2>4. put = new
      BY <2>2, <2>3, SameRecord
    <2> QED BY <2>1, <2>4, <1>2 DEF MigrateRecord
  <1>4. new \in Records
    BY Facts DEF Records
  <1>5. ledger' \in [Versions -> Records]
    BY <1>2, <1>3, <1>4 DEF GovernanceInv, TypeOK
  <1>6. q \in RequestRecords /\ q.at = "row" /\ q.row = request[r].row /\ q.then = request[r].then
        /\ q.op = request[r].op
    BY <1>1 DEF RequestRecords, Stops
  <1>7. request' = [request EXCEPT ![r] = q]
    BY DEF MigrateRecord, GovernanceInv, TypeOK
  <1>8. UNCHANGED <<row, replica, overwritten>>
    BY DEF MigrateRecord
  <1>9. TypeOK'
    BY <1>1, <1>5, <1>6, <1>7, <1>8 DEF GovernanceInv, TypeOK
  <1>10. \A v \in Versions : IsRecorded(v)' <=> IsRecorded(v) \/ v = Legacy
    BY <1>2, <1>3, <1>4 DEF IsRecorded, GovernanceInv, TypeOK
  <1>11. \A v \in Versions :
            \/ ledger'[v] = ledger[v]
            \/ v = Legacy /\ ~ IsRecorded(Legacy) /\ ledger'[v] = new
    BY <1>2, <1>3 DEF GovernanceInv, TypeOK
  <1>12. ~ IsRecorded(Legacy) => \A v \in Versions : ~ IsRecorded(v)
    BY <1>2 DEF GovernanceInv, RecordsPlaced, Versions, Legacy
  <1>13. row.latest # 0 /\ row \in Rows => IsRecorded(Legacy)
    BY <1>12 DEF GovernanceInv, RowsPlaced, WellFormed, Versions, Rows
  <1>14. RowsPlaced'
    <2>1. OfBefore'
      BY <1>2, <1>4, <1>8, <1>11 DEF OfBefore
    <2>2. \A seen \in Rows : WellFormed(seen) => WellFormed(seen)'
      BY <2>1, <1>10, <1>8 DEF WellFormed, Rows, Versions
    <2>3. \A s \in Requests : request'[s].row = request[s].row
      BY <1>6, <1>7 DEF GovernanceInv, TypeOK
    <2> QED
      BY <2>2, <2>3, <1>2, <1>8 DEF GovernanceInv, TypeOK, RowsPlaced, OfBefore, RequestRecords
  <1>15. RecordsPlaced'
    <2>1. CASE IsRecorded(Legacy)
      BY <2>1, <1>3 DEF GovernanceInv, RecordsPlaced, IsRecorded
    <2>2. CASE ~ IsRecorded(Legacy)
      <3>1. \A v \in Versions : IsRecorded(v)' <=> v = Legacy
        BY <2>2, <1>10, <1>12
      <3>2. \A v \in Versions : v # Legacy => ledger'[v] = ledger[v] /\ ~ IsRecorded(v)
        BY <2>2, <1>11, <1>12
      <3>3. ledger'[Legacy] = new
        BY <2>2, <1>2, <1>3 DEF GovernanceInv, TypeOK
      <3> QED
        BY <3>1, <3>2, <3>3, <1>2, <1>4
        DEF GovernanceInv, RecordsPlaced, Versions, Legacy, Pending, IsRecorded
    <2> QED BY <2>1, <2>2
  <1>16. \A v \in Versions : ledger'[v].state \in Pending <=> ledger[v].state \in Pending
    BY <1>4, <1>11 DEF Pending, IsRecorded
  <1>17. RequestsPlaced'
    <2> SUFFICES ASSUME NEW s \in Requests PROVE Placed(request[s])'
      BY DEF RequestsPlaced
    <2>0. \A p \in RequestRecords : Placed(p) => Placed(p)'
      BY <1>2, <1>10, <1>16 DEF Placed, NonePending, RequestRecords, Versions
    <2>1. CASE s = r
      BY <1>1, <1>2, <1>6, <1>7, <1>10, <2>1 DEF GovernanceInv, TypeOK, Placed
    <2>2. CASE s # r
      BY <2>0, <2>2, <1>7 DEF GovernanceInv, TypeOK, RequestsPlaced
    <2> QED BY <2>1, <2>2
  <1>18. OnePending'
    BY <1>11, <1>12, <1>16 DEF GovernanceInv, OnePending, Pending, IsRecorded
  <1>19. RowAgrees'
    <2>1. row.latest # 0 => ledger' = ledger
      BY <1>3, <1>13 DEF GovernanceInv, TypeOK
    <2> QED BY <2>1, <1>8 DEF GovernanceInv, RowAgrees, IsLatest, IsRecorded
  <1>20. Undisputed'
    <2>1. CASE IsRecorded(Legacy)
      BY <2>1, <1>3, <1>8 DEF GovernanceInv, Undisputed, IsRecorded
    <2>2. CASE ~ IsRecorded(Legacy)
      <3>1. row.version \in Versions /\ ~ IsRecorded(row.version)
        BY <2>2, <1>2, <1>12 DEF OfBefore, GovernanceInv, TypeOK, Rows, Versions
      <3>2. row.version = Legacy
        BY <3>1, <1>2 DEF GovernanceInv, TypeOK, RowsPlaced, WellFormed, Rows, OfBefore
      <3> QED
        BY <3>2, <2>2, <1>3, <1>4, <1>8, <1>11, <1>12 DEF Undisputed, IsRecorded
    <2> QED BY <2>1, <2>2
  <1> QED BY <1>9, <1>14, <1>15, <1>17, <1>18, <1>19, <1>20 DEF GovernanceInv

LEMMA MigrateRowKeeps ==
    ASSUME GovernanceInv, NEW r \in Requests, MigrateRow(r)
    PROVE  GovernanceInv'
  <1>a. PICK new : new = Migrated(request[r].row)
    OBVIOUS
  <1>b. PICK q : q = IF request[r].then = "idle" THEN IdleRequest
                     ELSE [request[r] EXCEPT !.at = request[r].then, !.row = new]
    OBVIOUS
  <1>1. /\ request[r] \in RequestRecords /\ request[r].at = "row" /\ request[r].row.schema = 0
        /\ WellFormed(request[r].row) /\ Placed(request[r])
    BY DEF GovernanceInv, TypeOK, RowsPlaced, RequestsPlaced, MigrateRow
  <1>2. request[r].row.version = Legacy /\ OfBefore /\ Legacy \in Versions /\ IsRecorded(Legacy)
    BY <1>1, Facts DEF WellFormed, Placed
  <1>3. new = [schema |-> 1, version |-> Legacy, latest |-> Legacy] /\ new \in Rows /\ new # NoRow
    BY <1>2, <1>a DEF Migrated, Rows, Legacy, Versions, NoRow
  <1>4. row' = new /\ UNCHANGED <<replica, ledger>>
        /\ overwritten' = (overwritten \/ row.version # Legacy)
    BY <1>2, <1>a DEF MigrateRow
  <1>5. request' = [request EXCEPT ![r] = q]
    BY <1>a, <1>b DEF MigrateRow
  <1>6. q \in RequestRecords /\ q.at \notin {"record", "row"}
    BY <1>1, <1>3, <1>b, Facts DEF RequestRecords, Placed, FirstStop, IdleRequest
  <1>7. TypeOK'
    BY <1>3, <1>4, <1>5, <1>6 DEF GovernanceInv, TypeOK
  <1>8. RowsPlaced'
    <2>1. OfBefore'
      BY <1>2, <1>3, <1>4 DEF OfBefore, Legacy
    <2>2. \A seen \in Rows : WellFormed(seen) => WellFormed(seen)'
      BY <2>1, <1>3, <1>4 DEF WellFormed, IsRecorded
    <2>3. WellFormed(new)'
      BY <1>2, <1>3, <1>4 DEF WellFormed, IsRecorded
    <2>4. q.row = new \/ q.row = NoRow
      BY <1>1, <1>b DEF IdleRequest, RequestRecords
    <2>5. WellFormed(q.row)'
      BY <2>2, <2>3, <2>4, Facts DEF WellFormed
    <2> QED
      BY <2>2, <2>3, <2>5, <1>3, <1>4, <1>5 DEF GovernanceInv, TypeOK, RowsPlaced, RequestRecords
  <1>9. RequestsPlaced'
    <2>1. \A p : Placed(p) => Placed(p)'
      BY <1>4 DEF Placed, NonePending, IsRecorded
    <2>2. Placed(q)
      BY <1>1, <1>3, <1>b, Facts DEF Placed, FirstStop, RequestRecords
    <2> QED BY <2>1, <2>2, <1>5 DEF GovernanceInv, TypeOK, RequestsPlaced
  <1>10. RowAgrees'
    <2> SUFFICES ASSUME IsLatest(Legacy), NEW v \in Versions
                 PROVE  ledger[v].state = "active" <=> v = Legacy
      BY <1>3, <1>4 DEF RowAgrees, IsLatest, IsRecorded
    <2>1. \A w \in Versions : w # Legacy => ~ IsRecorded(w)
      BY DEF IsLatest, Versions, Legacy
    <2>2. ledger[Legacy].state = "active"
      BY <2>1, <1>2, Facts DEF GovernanceInv, RecordsPlaced, OfBefore, IsRecorded, Versions
    <2> QED BY <2>1, <2>2 DEF IsRecorded
  <1>11. Undisputed'
    BY <1>2, <1>3, <1>4 DEF GovernanceInv, TypeOK, Undisputed, IsRecorded
  <1> QED
    BY <1>4, <1>7, <1>8, <1>9, <1>10, <1>11
    DEF GovernanceInv, RecordsPlaced, OnePending, IsRecorded

\* A pending version is submitted, decided on or staged.
LEMMA PendingMoves ==
    ASSUME GovernanceInv, NEW v \in Versions, ledger[v].state \in Pending,
           NEW new \in Records, new.state \in Pending \cup {"rejected"},
           new.base = ledger[v].base, new.author = ledger[v].author,
           ledger' = [ledger EXCEPT ![v] = new],
           UNCHANGED <<row, replica, overwritten>>,
           \/ request' = request
           \/ \E r \in Requests : request' = [request EXCEPT ![r] = IdleRequest]
    PROVE  GovernanceInv'
  <1>1. \A w \in Versions : ledger'[w] = IF w = v THEN new ELSE ledger[w]
    BY DEF GovernanceInv, TypeOK
  <1>2. \A w \in Versions : /\ IsRecorded(w)' <=> IsRecorded(w)
                            /\ ledger'[w].state = "active" <=> ledger[w].state = "active"
                            /\ ledger'[w].state \in Pending => ledger[w].state \in Pending
                            /\ ledger'[w].author = ledger[w].author
                            /\ ledger'[w].base = ledger[w].base
                            /\ ledger'[w].state = "retired" => ledger[w].state = "retired"
    BY <1>1 DEF IsRecorded, Pending
  <1>3. \A s \in Requests : request'[s] = request[s] \/ request'[s] = IdleRequest
    BY DEF GovernanceInv, TypeOK
  <1>4. TypeOK'
    <2>1. request' \in [Requests -> RequestRecords]
      BY Facts DEF GovernanceInv, TypeOK
    <2>2. IdleRequest.at = "idle"
      BY DEF IdleRequest
    <2> QED BY <1>1, <1>3, <2>1, <2>2 DEF GovernanceInv, TypeOK
  <1>5. RowsPlaced'
    <2>1. OfBefore' <=> OfBefore
      BY <1>2, Facts DEF OfBefore
    <2>2. \A seen \in Rows : WellFormed(seen) => WellFormed(seen)'
      BY <2>1, <1>2 DEF WellFormed, Rows, Versions
    <2>3. WellFormed(NoRow)' /\ IdleRequest.row = NoRow
      BY DEF WellFormed, NoRow, IdleRequest
    <2> QED
      BY <2>2, <2>3, <1>2, <1>3 DEF GovernanceInv, TypeOK, RowsPlaced, RequestRecords
  <1>6. RecordsPlaced'
    <2>1. v \in Versions /\ ledger'[v].state \notin {"absent", "active", "retired"}
      BY <1>1 DEF Pending
    <2>2. ledger[v].author # None
      BY DEF GovernanceInv, RecordsPlaced, Pending
    <2> SUFFICES ASSUME NEW w \in Versions
                 PROVE  /\ IsRecorded(w)' => \A x \in Versions : x < w => IsRecorded(x)'
                        /\ ledger'[w].state \in Pending => \A x \in Versions : IsRecorded(x)' => x <= w
                        /\ ledger'[w].state = "retired" => \E x \in Versions : x > w /\ IsRecorded(x)'
                        /\ ledger'[w].author = None => ledger'[w].state \in {"absent", "active", "retired"}
                        /\ ~ IsRecorded(w)' => ledger'[w].author = None
      BY DEF RecordsPlaced
    <2>3. ledger'[w].author = None => ledger'[w].state \in {"absent", "active", "retired"}
      BY <2>2, <1>1 DEF GovernanceInv, RecordsPlaced
    <2> QED BY <2>3, <1>2 DEF GovernanceInv, RecordsPlaced
  <1>7. RequestsPlaced'
    <2>1. \A q \in RequestRecords : Placed(q) => Placed(q)'
      <3> SUFFICES ASSUME NEW q \in RequestRecords, Placed(q) PROVE Placed(q)'
        OBVIOUS
      <3>1. ~ NonePending
        BY DEF NonePending
      <3>2. q.at = "commit" /\ q.op \in {"draft", "import"} =>
               /\ q.latest + 1 \in Versions
               /\ q.latest # 0 => q.latest \in Versions
        BY DEF Placed, RequestRecords, Versions
      <3> QED BY <3>1, <3>2, <1>2, Facts DEF Placed
    <2>2. Placed(IdleRequest)'
      BY DEF Placed, IdleRequest
    <2> QED BY <2>1, <2>2, <1>3 DEF GovernanceInv, TypeOK, RequestsPlaced
  <1>8. OnePending'
    BY <1>2 DEF GovernanceInv, OnePending
  <1>9. RowAgrees'
    <2>1. \A n \in 0 .. MaxVersion : IsLatest(n)' <=> IsLatest(n)
      BY <1>2 DEF IsLatest, Versions
    <2> QED BY <2>1, <1>2 DEF GovernanceInv, TypeOK, Rows, RowAgrees
  <1>10. Undisputed'
    BY <1>2 DEF GovernanceInv, Undisputed
  <1> QED BY <1>4, <1>5, <1>6, <1>7, <1>8, <1>9, <1>10 DEF GovernanceInv

LEMMA SubmitKeeps == ASSUME GovernanceInv, NEW v \in Versions, Submit(v) PROVE GovernanceInv'
  <1> DEFINE new == [ledger[v] EXCEPT !.state = "review"]
  <1>1. ledger[v] \in Records
    BY DEF GovernanceInv, TypeOK
  <1>2. /\ new \in Records /\ new.state = "review"
        /\ new.base = ledger[v].base /\ new.author = ledger[v].author
    BY <1>1 DEF Records, Pending
  <1>3. ledger' = [ledger EXCEPT ![v] = new]
    BY DEF Submit, GovernanceInv, TypeOK
  <1> QED BY <1>2, <1>3, PendingMoves DEF Submit, Pending

LEMMA DecideKeeps ==
    ASSUME GovernanceInv, NEW v \in Versions, NEW actor \in Operators,
           NEW decision \in {"approved", "rejected"}, Decide(v, decision, actor)
    PROVE  GovernanceInv'
  <1> DEFINE new == [ledger[v] EXCEPT !.state = decision, !.decider = actor]
  <1>1. ledger[v] \in Records
    BY DEF GovernanceInv, TypeOK
  <1>2. /\ new \in Records /\ new.state = decision
        /\ new.base = ledger[v].base /\ new.author = ledger[v].author
    BY <1>1 DEF Records, Pending
  <1>3. ledger' = [ledger EXCEPT ![v] = new]
    BY DEF Decide, GovernanceInv, TypeOK
  <1>4. ledger[v].state \in Pending /\ new.state \in Pending \cup {"rejected"}
    BY <1>2 DEF Decide, Pending
  <1>5. UNCHANGED <<row, replica, request, overwritten>>
    BY DEF Decide
  <1> HIDE DEF new
  <1> QED BY <1>2, <1>3, <1>4, <1>5, PendingMoves

LEMMA CommitStageKeeps ==
    ASSUME GovernanceInv, NEW r \in Requests, NEW v \in Versions, CommitStage(r, v)
    PROVE  GovernanceInv'
  <1> DEFINE new == [ledger[v] EXCEPT !.state = "staged"]
  <1>1. ledger[v] \in Records
    BY DEF GovernanceInv, TypeOK
  <1>2. /\ new \in Records /\ new.state = "staged"
        /\ new.base = ledger[v].base /\ new.author = ledger[v].author
    BY <1>1 DEF Records, Pending
  <1>3. ledger' = [ledger EXCEPT ![v] = new]
    BY DEF CommitStage, GovernanceInv, TypeOK
  <1> QED BY <1>2, <1>3, PendingMoves DEF CommitStage, Done, Pending

\* A new version after the last one, none being pending.
LEMMA CommitDraftKeeps ==
    ASSUME GovernanceInv, NEW r \in Requests, NEW author \in Operators, CommitDraft(r, author)
    PROVE  GovernanceInv'
  <1>a. PICK n : n = request[r].latest + 1
    OBVIOUS
  <1>b. PICK old : old = request[r]
    OBVIOUS
  <1>c. PICK new : new = [state |-> "draft", base |-> old.row.version, author |-> author, decider |-> None]
    OBVIOUS
  <1>1. old \in RequestRecords /\ old.row \in Rows /\ WellFormed(old.row) /\ Placed(old)
    BY <1>b DEF GovernanceInv, TypeOK, RowsPlaced, RequestsPlaced, RequestRecords
  <1>2. /\ old.at = "commit" /\ old.op \in {"draft", "import"} /\ ~ IsRecorded(n)
        /\ ledger' = [ledger EXCEPT ![n] = new]
        /\ request' = [request EXCEPT ![r] = IdleRequest]
        /\ UNCHANGED <<replica, overwritten>>
    BY <1>a, <1>b, <1>c DEF CommitDraft, Done
  <1>3. /\ n \in Versions /\ n = old.latest + 1 /\ old.latest \in 0 .. MaxVersion
        /\ old.latest # 0 => old.latest \in Versions /\ IsRecorded(old.latest)
        /\ NonePending
    BY <1>1, <1>2, <1>a, <1>b DEF Placed, RequestRecords, Versions
  <1>4. new \in Records
    BY <1>1, <1>c DEF Records, Rows, Pending
  <1>5. \A w \in Versions : IsRecorded(w) <=> w < n
    BY <1>2, <1>3 DEF GovernanceInv, RecordsPlaced, Versions
  <1>6. \A w \in Versions : ledger'[w] = IF w = n THEN new ELSE ledger[w]
    BY <1>2, <1>3 DEF GovernanceInv, TypeOK
  <1>7. \A w \in Versions : /\ IsRecorded(w)' <=> w <= n
                            /\ ledger'[w].state = "active" <=> ledger[w].state = "active"
                            /\ ledger'[w].state \in Pending <=> w = n
                            /\ ledger'[w].state = "retired" <=> ledger[w].state = "retired"
    BY <1>3, <1>5, <1>6, <1>c DEF IsRecorded, NonePending, Versions, Pending
  <1>8. /\ row' = IF row = NoRow THEN [schema |-> 1, version |-> 0, latest |-> 1]
                  ELSE [old.row EXCEPT !.latest = n]
        /\ old.row = NoRow => row = NoRow
        /\ old.row # NoRow =>
              row.version = old.row.version /\ row.latest = old.latest /\ row.latest # 0
    BY <1>a, <1>b DEF CommitDraft, SameRow
  <1>9. row = NoRow => n = 1 /\ old.row = NoRow
    BY <1>1, <1>3 DEF GovernanceInv, RowsPlaced, WellFormed
  <1>10. ASSUME row = NoRow
         PROVE  TypeOK' /\ RowsPlaced' /\ OnePending' /\ RowAgrees' /\ Undisputed'
    <2>1. row' = [schema |-> 1, version |-> 0, latest |-> 1] /\ row' \in Rows /\ row' # NoRow
      BY <1>8, <1>10, <1>3 DEF Rows, NoRow, Versions
    <2>2. new.base = 0 /\ n = 1
      BY <1>9, <1>10, <1>c DEF NoRow
    <2>3. \A w \in Versions : ledger'[w].state # "active"
      BY <1>7, <1>10 DEF GovernanceInv, RowsPlaced, IsRecorded
    <2>4. TypeOK'
      BY <1>2, <1>4, <2>1, Facts DEF GovernanceInv, TypeOK, IdleRequest
    <2>5. RowsPlaced'
      <3>1. replica = NoRow /\ \A s \in Requests : request[s].row = NoRow
        BY <1>10 DEF GovernanceInv, RowsPlaced, WellFormed
      <3>2. \A s \in Requests : request'[s].row = NoRow
        BY <3>1, <1>2 DEF GovernanceInv, TypeOK, IdleRequest
      <3>3. WellFormed(NoRow)'
        BY DEF WellFormed, NoRow
      <3>4. WellFormed(row)'
        BY <2>1, <2>2, <1>3, <1>7 DEF WellFormed
      <3> QED BY <3>1, <3>2, <3>3, <3>4, <2>1, <1>2 DEF RowsPlaced
    <2>6. OnePending'
      BY <2>2, <2>3, <1>6, <1>7 DEF OnePending, Versions
    <2>7. RowAgrees' /\ Undisputed'
      BY <2>1, <2>3 DEF RowAgrees, Undisputed, Versions
    <2> QED BY <2>4, <2>5, <2>6, <2>7
  <1>11. ASSUME row # NoRow
         PROVE  TypeOK' /\ RowsPlaced' /\ OnePending' /\ RowAgrees' /\ Undisputed'
    <2>1. /\ row' = [old.row EXCEPT !.latest = n] /\ old.row # NoRow
          /\ row'.version = row.version /\ row'.latest = n /\ row'.schema = old.row.schema
          /\ row' \in Rows /\ row' # NoRow
      BY <1>1, <1>3, <1>8, <1>9, <1>11 DEF Rows, NoRow, Versions
    <2>2. IsLatest(row.latest) /\ row.latest # 0 /\ n # Legacy
      BY <1>3, <1>5, <1>8, <2>1 DEF IsLatest, Versions, Legacy
    <2>3. \A w \in Versions : ledger[w].state = "active" <=> w = row.version
      BY <2>2 DEF GovernanceInv, RowAgrees
    <2>4. TypeOK'
      BY <1>2, <1>4, <2>1, Facts DEF GovernanceInv, TypeOK, IdleRequest
    <2>5. RowsPlaced'
      <3>1. OfBefore' <=> OfBefore
        BY <2>1, <2>2, <1>6, <1>11, Facts DEF OfBefore
      <3>2. \A seen \in Rows : WellFormed(seen) => WellFormed(seen)'
        BY <3>1, <2>1, <1>5, <1>7 DEF WellFormed, Rows, Versions
      <3>3. WellFormed(NoRow)' /\ IdleRequest.row = NoRow
        BY DEF WellFormed, NoRow, IdleRequest
      <3>4. WellFormed(row)'
        BY <3>2, <2>1, <1>1, <1>3, <1>7 DEF WellFormed
      <3>5. \A s \in Requests : request'[s] = request[s] \/ request'[s] = IdleRequest
        BY <1>2 DEF GovernanceInv, TypeOK
      <3> QED
        BY <3>2, <3>3, <3>4, <3>5, <2>1, <1>2 DEF GovernanceInv, TypeOK, RowsPlaced, RequestRecords
    <2>6. OnePending'
      <3>1. new.base = row.version
        BY <1>8, <2>1, <1>c
      <3> QED BY <3>1, <2>3, <1>6, <1>7 DEF OnePending
    <2>7. RowAgrees'
      BY <2>1, <2>3, <1>7 DEF RowAgrees
    <2>8. Undisputed'
      BY <2>1, <2>3, <1>7 DEF Undisputed, IsRecorded, Pending
    <2> QED BY <2>4, <2>5, <2>6, <2>7, <2>8
  <1>12. RecordsPlaced'
    <2>1. new.author # None /\ new.state = "draft"
      BY <1>c
    <2>2. \A w \in Versions : w # n => ledger'[w] = ledger[w]
      BY <1>6
    <2> SUFFICES ASSUME NEW w \in Versions
                 PROVE  /\ IsRecorded(w)' => \A x \in Versions : x < w => IsRecorded(x)'
                        /\ ledger'[w].state \in Pending => \A x \in Versions : IsRecorded(x)' => x <= w
                        /\ ledger'[w].state = "retired" => \E x \in Versions : x > w /\ IsRecorded(x)'
                        /\ ledger'[w].author = None => ledger'[w].state \in {"absent", "active", "retired"}
                        /\ ~ IsRecorded(w)' => ledger'[w].author = None
      BY DEF RecordsPlaced
    <2>3. ledger'[w].state = "retired" => \E x \in Versions : x > w /\ IsRecorded(x)'
      BY <1>3, <1>5, <1>7 DEF GovernanceInv, RecordsPlaced, Versions
    <2>4. ledger'[w].author = None => ledger'[w].state \in {"absent", "active", "retired"}
      BY <2>1, <1>6 DEF GovernanceInv, RecordsPlaced
    <2>5. ~ IsRecorded(w)' => ledger'[w].author = None
      BY <1>3, <1>5, <2>2, <1>7 DEF GovernanceInv, RecordsPlaced, Versions
    <2> QED BY <2>3, <2>4, <2>5, <1>3, <1>7 DEF Versions
  <1>13. RequestsPlaced'
    <2>1. \A q \in RequestRecords : Placed(q) => Placed(q)'
      <3> SUFFICES ASSUME NEW q \in RequestRecords, Placed(q) PROVE Placed(q)'
        OBVIOUS
      <3>1. q.at = "row" => IsRecorded(Legacy)'
        BY <1>3, <1>7, Facts DEF Versions, Legacy
      <3>2. q.at = "commit" /\ q.op \in {"draft", "import"} =>
               /\ q.latest < MaxVersion
               /\ q.latest # 0 => IsRecorded(q.latest)'
               /\ IsRecorded(q.latest + 1)'
        <4>1. SUFFICES ASSUME q.at = "commit", q.op \in {"draft", "import"}
                       PROVE  /\ q.latest < MaxVersion
                              /\ q.latest # 0 => IsRecorded(q.latest)'
                              /\ IsRecorded(q.latest + 1)'
          OBVIOUS
        <4>2. /\ q.latest \in 0 .. MaxVersion /\ q.latest < MaxVersion /\ q.latest + 1 \in Versions
              /\ q.latest # 0 => q.latest \in Versions /\ IsRecorded(q.latest)
          BY <4>1 DEF Placed, RequestRecords, Versions
        <4>3. q.latest < n
          BY <4>2, <1>3, <1>5 DEF Versions
        <4> QED BY <4>2, <4>3, <1>3, <1>7 DEF Versions
      <3> QED BY <3>1, <3>2 DEF Placed
    <2>2. Placed(IdleRequest)'
      BY DEF Placed, IdleRequest
    <2>3. \A s \in Requests : request'[s] = request[s] \/ request'[s] = IdleRequest
      BY <1>2 DEF GovernanceInv, TypeOK
    <2> QED BY <2>1, <2>2, <2>3 DEF GovernanceInv, TypeOK, RequestsPlaced
  <1> QED BY <1>10, <1>11, <1>12, <1>13 DEF GovernanceInv

\* The pending version takes the place of the active one.
LEMMA CommitActivateKeeps ==
    ASSUME GovernanceInv, NEW r \in Requests, NEW v \in Versions, CommitActivate(r, v)
    PROVE  GovernanceInv'
  <1>a. PICK old : old = request[r]
    OBVIOUS
  <1>1. old \in RequestRecords /\ old.row \in Rows /\ WellFormed(old.row) /\ Placed(old)
    BY <1>a DEF GovernanceInv, TypeOK, RowsPlaced, RequestsPlaced, RequestRecords
  <1>2. /\ old.at = "commit" /\ old.op = "activate"
        /\ ledger[v].state = "staged" /\ ledger[v].base = old.row.version
        /\ row.version = old.row.version
        /\ ledger' = [w \in Versions |->
              IF w = v THEN [ledger[w] EXCEPT !.state = "active"]
              ELSE IF w = row.version THEN [ledger[w] EXCEPT !.state = "retired"]
              ELSE ledger[w]]
        /\ row' = [old.row EXCEPT !.version = v, !.latest = IF @ > v THEN @ ELSE v]
        /\ request' = [request EXCEPT ![r] = IdleRequest]
        /\ UNCHANGED <<replica, overwritten>>
    BY <1>a DEF CommitActivate, Done
  <1>3. /\ old.row.schema = 1 /\ old.row # NoRow /\ row # NoRow
        /\ row.version \in 0 .. MaxVersion
    BY <1>1, <1>2 DEF Placed, NoRow, WellFormed, Rows
  <1>4. /\ \A w \in Versions : ledger[w].state \in Pending <=> w = v
        /\ \A w \in Versions : ledger[w].state = "active" <=> w = row.version
        /\ \A w \in Versions : IsRecorded(w) => w <= v
        /\ ledger[v].author # None /\ IsRecorded(v) /\ row.version # v
    BY <1>2 DEF GovernanceInv, OnePending, RecordsPlaced, Pending, IsRecorded
  <1>5. /\ row'.schema = 1 /\ row'.version = v /\ row'.latest = v
        /\ row' \in Rows /\ row' # NoRow
    <2>1. old.row.latest \in 0 .. MaxVersion /\ v \in 1 .. MaxVersion
      BY <1>1 DEF Rows, Versions
    <2>2. ~ old.row.latest > v
      BY <2>1, <1>1, <1>4 DEF WellFormed, Versions
    <2>3. row'.schema = 1 /\ row'.version = v /\ row'.latest = v
      BY <2>1, <2>2, <1>1, <1>2, <1>3 DEF Rows
    <2>4. row' \in Rows
      <3>1. row' = [old.row EXCEPT !.version = v, !.latest = v]
        BY <2>1, <2>2, <1>2 DEF Rows
      <3>2. v \in 0 .. MaxVersion
        BY <2>1
      <3> QED BY <3>1, <3>2, <1>1 DEF Rows
    <2> QED BY <2>1, <2>3, <2>4 DEF NoRow
  <1>6. \A w \in Versions :
           /\ ledger'[w] \in Records
           /\ ledger'[w].author = ledger[w].author /\ ledger'[w].base = ledger[w].base
           /\ ledger'[w].state = IF w = v THEN "active"
                                 ELSE IF w = row.version THEN "retired" ELSE ledger[w].state
    <2> SUFFICES ASSUME NEW w \in Versions
                 PROVE  /\ ledger'[w] \in Records
                        /\ ledger'[w].author = ledger[w].author /\ ledger'[w].base = ledger[w].base
                        /\ ledger'[w].state = IF w = v THEN "active"
                                              ELSE IF w = row.version THEN "retired" ELSE ledger[w].state
      OBVIOUS
    <2>1. ledger[w] \in Records
      BY DEF GovernanceInv, TypeOK
    <2> QED BY <2>1, <1>2 DEF Records
  <1>7. \A w \in Versions : /\ IsRecorded(w)' <=> IsRecorded(w)
                            /\ ledger'[w].state = "active" <=> w = v
                            /\ ledger'[w].state \notin Pending
    BY <1>4, <1>6 DEF IsRecorded, Pending
  <1>8. TypeOK'
    <2>1. ledger' \in [Versions -> Records]
      BY <1>2, <1>6
    <2>2. request' \in [Requests -> RequestRecords]
      BY <1>2, Facts DEF GovernanceInv, TypeOK
    <2>3. IdleRequest.at = "idle"
      BY DEF IdleRequest
    <2>4. \A s \in Requests : request'[s] = request[s] \/ request'[s] = IdleRequest
      BY <1>2 DEF GovernanceInv, TypeOK
    <2> QED BY <2>1, <2>2, <2>3, <2>4, <1>2, <1>5 DEF GovernanceInv, TypeOK
  <1>9. \A s \in Requests : request'[s] = request[s] \/ request'[s] = IdleRequest
    BY <1>2 DEF GovernanceInv, TypeOK
  <1>10. RowsPlaced'
    <2>1. OfBefore => OfBefore'
      BY <1>5, <1>6, Facts DEF OfBefore, Versions
    <2>2. \A seen \in Rows : WellFormed(seen) => WellFormed(seen)'
      BY <2>1, <1>5, <1>7 DEF WellFormed, Rows, Versions
    <2>3. WellFormed(NoRow)' /\ IdleRequest.row = NoRow
      BY DEF WellFormed, NoRow, IdleRequest
    <2>4. WellFormed(row)'
      BY <1>4, <1>5, <1>7 DEF WellFormed
    <2> QED
      BY <2>2, <2>3, <2>4, <1>2, <1>5, <1>9 DEF GovernanceInv, TypeOK, RowsPlaced, RequestRecords
  <1>11. RecordsPlaced'
    <2> SUFFICES ASSUME NEW w \in Versions
                 PROVE  /\ IsRecorded(w)' => \A x \in Versions : x < w => IsRecorded(x)'
                        /\ ledger'[w].state \in Pending => \A x \in Versions : IsRecorded(x)' => x <= w
                        /\ ledger'[w].state = "retired" => \E x \in Versions : x > w /\ IsRecorded(x)'
                        /\ ledger'[w].author = None => ledger'[w].state \in {"absent", "active", "retired"}
                        /\ ~ IsRecorded(w)' => ledger'[w].author = None
      BY DEF RecordsPlaced
    <2>1. ledger'[w].state = "retired" => \E x \in Versions : x > w /\ IsRecorded(x)'
      <3>1. CASE w = row.version
        <4>1. IsRecorded(w)
          BY <3>1, <1>4 DEF IsRecorded
        <4>2. v > w
          BY <4>1, <3>1, <1>4 DEF Versions
        <4> QED BY <4>2, <1>4, <1>7
      <3>2. CASE w # row.version
        BY <3>2, <1>6, <1>7 DEF GovernanceInv, RecordsPlaced
      <3> QED BY <3>1, <3>2
    <2>2. ledger'[w].author = None => ledger'[w].state \in {"absent", "active", "retired"}
      BY <1>4, <1>6 DEF GovernanceInv, RecordsPlaced
    <2>3. /\ IsRecorded(w)' => \A x \in Versions : x < w => IsRecorded(x)'
          /\ ~ IsRecorded(w)' => ledger'[w].author = None
      BY <1>6, <1>7 DEF GovernanceInv, RecordsPlaced
    <2> QED BY <2>1, <2>2, <2>3, <1>7
  <1>12. RequestsPlaced'
    <2>1. NonePending'
      BY <1>7 DEF NonePending
    <2>2. \A q \in RequestRecords : Placed(q) => Placed(q)'
      <3> SUFFICES ASSUME NEW q \in RequestRecords, Placed(q) PROVE Placed(q)'
        OBVIOUS
      <3>1. q.at = "commit" /\ q.op \in {"draft", "import"} /\ q.latest # 0 => q.latest \in Versions
        BY DEF Placed, RequestRecords, Versions
      <3> QED BY <2>1, <3>1, <1>7, Facts DEF Placed
    <2>3. Placed(IdleRequest)'
      BY DEF Placed, IdleRequest
    <2> QED BY <2>2, <2>3, <1>9 DEF GovernanceInv, TypeOK, RequestsPlaced
  <1>13. OnePending' /\ RowAgrees' /\ Undisputed'
    BY <1>5, <1>7 DEF OnePending, RowAgrees, Undisputed
  <1> QED BY <1>8, <1>10, <1>11, <1>12, <1>13 DEF GovernanceInv

-----------------------------------------------------------------------------
(* The theorems *)

LEMMA InitGoverns == ASSUME Init PROVE GovernanceInv
  <1>1. row \in {NoRow, LegacyRow} /\ replica = row
        /\ ledger = [v \in Versions |-> NoRecord]
        /\ request = [r \in Requests |-> IdleRequest]
        /\ overwritten = FALSE
    BY DEF Init
  <1>2. /\ \A v \in Versions : ledger[v].state = "absent" /\ ledger[v].author = None /\ ~ IsRecorded(v)
        /\ \A r \in Requests : request[r] = IdleRequest /\ request[r].at = "idle" /\ request[r].row = NoRow
    BY <1>1 DEF NoRecord, IdleRequest, IsRecorded
  <1>3. NoRow \in Rows /\ LegacyRow \in Rows /\ LegacyRow # NoRow /\ LegacyRow.version = Legacy
    BY DEF NoRow, LegacyRow, Rows, Legacy
  <1>4. NoRecord \in Records /\ IdleRequest \in RequestRecords
    BY <1>3 DEF NoRecord, Records, IdleRequest, RequestRecords, Stops
  <1>5. TypeOK
    BY <1>1, <1>2, <1>3, <1>4 DEF TypeOK
  <1>6. RowsPlaced
    <2>1. WellFormed(row) /\ WellFormed(NoRow)
      BY <1>1, <1>2, <1>3 DEF WellFormed, OfBefore, NoRow, LegacyRow, Legacy, Versions
    <2> QED BY <2>1, <1>1, <1>2 DEF RowsPlaced
  <1>7. RecordsPlaced /\ OnePending
    BY <1>2 DEF RecordsPlaced, OnePending, Pending
  <1>8. RequestsPlaced
    BY <1>2 DEF RequestsPlaced, Placed, IdleRequest
  <1>9. RowAgrees /\ Undisputed
    BY <1>1, <1>2 DEF RowAgrees, Undisputed, NoRow, LegacyRow
  <1> QED BY <1>5, <1>6, <1>7, <1>8, <1>9 DEF GovernanceInv

LEMMA NextGoverns == ASSUME GovernanceInv, [Next]_governance PROVE GovernanceInv'
  <1>1. ASSUME NEW r \in Requests, RequestStep(r) PROVE GovernanceInv'
    BY <1>1, StartKeeps, ViewKeeps, StartImportKeeps, MigrateRecordKeeps, MigrateRowKeeps,
       ListVersionsKeeps, CommitDraftKeeps, CommitStageKeeps, CommitActivateKeeps, GiveUpKeeps
    DEF RequestStep
  <1>2. ASSUME NEW v \in Versions, Review(v) PROVE GovernanceInv'
    BY <1>2, SubmitKeeps, DecideKeeps DEF Review
  <1>3. ASSUME CatchUp PROVE GovernanceInv'
    BY <1>3, CatchUpKeeps
  <1>4. ASSUME UNCHANGED governance PROVE GovernanceInv'
    BY <1>4
    DEF governance, GovernanceInv, TypeOK, RowsPlaced, WellFormed, OfBefore, RecordsPlaced,
        RequestsPlaced, Placed, NonePending, OnePending, RowAgrees, Undisputed, IsRecorded, IsLatest
  <1> QED BY <1>1, <1>2, <1>3, <1>4 DEF Next

THEOREM GovernanceInvariant == Spec => []GovernanceInv
  BY InitGoverns, NextGoverns, PTL DEF Spec

\* The variables of the governance of a policy have their types, and a request
\* that migrates a policy holds a row of before the ledger, in force then.
THEOREM GovernanceTypes == Spec => []TypeOK
  <1>1. GovernanceInv => TypeOK
    BY DEF GovernanceInv
  <1> QED BY <1>1, GovernanceInvariant, PTL

\* Requests that listed the versions together do not both add one: a policy
\* never has two pending versions, and the pending one was written against the
\* version in force (_create_governed_policy, _import_policy_source).
THEOREM OnePendingVersion == Spec => []OnePending
  <1>1. GovernanceInv => OnePending
    BY DEF GovernanceInv
  <1> QED BY <1>1, GovernanceInvariant, PTL

\* The row and the ledger agree on the version in force, unless a migration
\* that read the row before an activation wrote it afterwards.
THEOREM OneVersionInForce == Spec => []OneAuthority
  <1>1. GovernanceInv => OneAuthority
    BY Facts DEF GovernanceInv, Undisputed, OneAuthority, RowsPlaced, WellFormed, Versions
  <1> QED BY <1>1, GovernanceInvariant, PTL

-----------------------------------------------------------------------------
(* The ledger implements PolicyAuthority *)

ActiveVersions == {v \in Versions : ledger[v].state = "active"}

\* Once anything is recorded, the version in force has a record.
LEMMA RecordedInForce ==
    GovernanceInv /\ (\E w \in Versions : IsRecorded(w)) => InForce = ActiveVersions
  <1> SUFFICES ASSUME GovernanceInv, NEW v \in Versions, IsRecorded(v) PROVE InForce = ActiveVersions
    OBVIOUS
  <1>1. IsRecorded(Legacy)
    BY Facts DEF GovernanceInv, RecordsPlaced, Versions, Legacy
  <1>2. row.schema = 0 => row.version \in {0, Legacy}
    BY DEF GovernanceInv, RowsPlaced, WellFormed, NoRow
  <1> QED BY <1>1, <1>2 DEF InForce, ActiveVersions, Versions

LEMMA RecordedInForceNext ==
    (GovernanceInv /\ (\E w \in Versions : IsRecorded(w)) => InForce = ActiveVersions)'
  BY RecordedInForce, PTL

\* A step that activates nothing and approves nothing is none of the authority.
LEMMA Stutters ==
    ASSUME InForce' = InForce, Approved' = Approved
    PROVE  [Authority!Next]_(Authority!authority)
  BY DEF Authority!authority

LEMMA SameApproved ==
    ASSUME \A v \in Versions :
              \/ ledger'[v] = ledger[v]
              \/ /\ ledger[v].state \notin {"approved", "staged"}
                 /\ ledger'[v].state \notin {"approved", "staged"}
              \/ /\ ledger[v].state \in {"approved", "staged"}
                 /\ ledger'[v].state \in {"approved", "staged"}
                 /\ ledger'[v].base = ledger[v].base
                 /\ ledger'[v].author = ledger[v].author
                 /\ ledger'[v].decider = ledger[v].decider
    PROVE  Approved' = Approved
  <1> DEFINE Standing == {w \in Versions : ledger[w].state \in {"approved", "staged"} /\ Independent(ledger[w])}
  <1>1. Standing' = Standing
    BY DEF Independent
  <1>2. \A v \in Standing : ledger'[v].base = ledger[v].base
    OBVIOUS
  <1>3. Approved = {<<v, ledger[v].base>> : v \in Standing}
    BY DEF Approved
  <1>4. Approved' = {<<v, ledger'[v].base>> : v \in Standing}
    BY <1>1 DEF Approved
  <1> HIDE DEF Standing
  <1> QED BY <1>2, <1>3, <1>4

LEMMA RequestStutters ==
    ASSUME UNCHANGED <<row, ledger>>
    PROVE  [Authority!Next]_(Authority!authority)
  <1>1. InForce' = InForce
    BY DEF InForce, IsRecorded
  <1>2. Approved' = Approved
    BY SameApproved
  <1> QED BY <1>1, <1>2, Stutters

LEMMA MigrateRecordStutters ==
    ASSUME GovernanceInv, NEW r \in Requests, MigrateRecord(r)
    PROVE  [Authority!Next]_(Authority!authority)
  <1>1. request[r].row.version = Legacy /\ Legacy \in Versions
    BY Facts DEF MigrateRecord, GovernanceInv, RowsPlaced, WellFormed, RequestsPlaced, Placed, TypeOK
  <1>2. CASE IsRecorded(Legacy)
    BY <1>1, <1>2, RequestStutters DEF MigrateRecord
  <1>3. CASE ~ IsRecorded(Legacy)
    <2>1. \A w \in Versions : ~ IsRecorded(w)
      BY <1>1, <1>3 DEF GovernanceInv, RecordsPlaced, Versions, Legacy
    <2>2. request[r].row # NoRow /\ request[r].row.schema = 0
      BY DEF MigrateRecord, GovernanceInv, RequestsPlaced, Placed, TypeOK
    <2>3. OfBefore
      BY <2>2 DEF GovernanceInv, RowsPlaced, WellFormed
    <2>4. row.version \in Versions
      BY <2>3 DEF OfBefore, GovernanceInv, TypeOK, Rows, Versions
    <2>5. row.schema = 0
      BY <2>1, <2>3, <2>4 DEF OfBefore, GovernanceInv, TypeOK, Rows, RowsPlaced, WellFormed
    <2>6. row.version = Legacy
      BY <2>3, <2>5 DEF OfBefore, GovernanceInv, RowsPlaced, WellFormed
    <2>7. ledger' = [ledger EXCEPT ![Legacy] = [NoRecord EXCEPT !.state = "active", !.base = Legacy - 1]]
          /\ row' = row
      BY <1>1, <1>3 DEF MigrateRecord
    <2>8. \A w \in Versions : IF w = Legacy THEN ledger'[w].state = "active" ELSE ledger'[w] = ledger[w]
      BY <2>7, <1>1 DEF GovernanceInv, TypeOK, NoRecord
    <2>9. InForce = {Legacy} /\ InForce' = {Legacy}
      BY <2>1, <2>5, <2>6, <2>7, <2>8, <1>1 DEF InForce, IsRecorded
    <2>10. Approved' = Approved
      BY <2>1, <2>8, SameApproved DEF IsRecorded
    <2> QED BY <2>9, <2>10, Stutters
  <1> QED BY <1>2, <1>3

LEMMA MigrateRowStutters ==
    ASSUME GovernanceInv, GovernanceInv', NEW r \in Requests, MigrateRow(r)
    PROVE  [Authority!Next]_(Authority!authority)
  <1>1. Legacy \in Versions /\ IsRecorded(Legacy)
    BY Facts DEF MigrateRow, GovernanceInv, RequestsPlaced, Placed
  <1>2. ledger' = ledger
    BY DEF MigrateRow
  <1>3. ActiveVersions' = ActiveVersions /\ IsRecorded(Legacy)'
    BY <1>1, <1>2 DEF ActiveVersions, IsRecorded
  <1>4. InForce = ActiveVersions
    BY <1>1, RecordedInForce
  <1>5. InForce' = ActiveVersions'
    BY <1>1, <1>3, RecordedInForceNext
  <1> QED BY <1>2, <1>3, <1>4, <1>5, SameApproved, Stutters

LEMMA CommitDraftStutters ==
    ASSUME GovernanceInv, GovernanceInv', NEW r \in Requests, NEW author \in Operators,
           CommitDraft(r, author)
    PROVE  [Authority!Next]_(Authority!authority)
  <1>a. PICK n : n = request[r].latest + 1
    OBVIOUS
  <1>b. PICK new : new = [state |-> "draft", base |-> request[r].row.version,
                          author |-> author, decider |-> None]
    OBVIOUS
  <1>1. n \in Versions /\ ~ IsRecorded(n)
    BY <1>a
    DEF CommitDraft, GovernanceInv, TypeOK, RequestsPlaced, Placed, RequestRecords, Versions
  <1>2. \A w \in Versions : ledger'[w] = IF w = n THEN new ELSE ledger[w]
    BY <1>1, <1>a, <1>b DEF CommitDraft, GovernanceInv, TypeOK
  <1>3. /\ ledger[n].state = "absent"
        /\ ledger'[n].state = "draft"
    BY <1>1, <1>2, <1>b DEF IsRecorded
  <1>4. Approved' = Approved
    BY <1>2, <1>3, SameApproved
  <1>5. ActiveVersions' = ActiveVersions
    BY <1>2, <1>3 DEF ActiveVersions
  <1>6. InForce' = ActiveVersions'
    BY <1>1, <1>3, RecordedInForceNext DEF IsRecorded
  <1>7. InForce = ActiveVersions
    <2>1. CASE row = NoRow
      BY <2>1 DEF InForce, ActiveVersions, NoRow, Versions
    <2>2. CASE row # NoRow
      <3>1. row.latest # 0 /\ row \in Rows
        BY <2>2 DEF CommitDraft, SameRow, GovernanceInv, TypeOK
      <3>2. row.latest \in Versions /\ IsRecorded(row.latest)
        BY <3>1 DEF Rows, Versions, GovernanceInv, RowsPlaced, WellFormed
      <3> QED BY <3>2, RecordedInForce
    <2> QED BY <2>1, <2>2
  <1> QED BY <1>4, <1>5, <1>6, <1>7, Stutters

\* A pending version that takes another pending state.
LEMMA PendingInForce ==
    ASSUME GovernanceInv, GovernanceInv', NEW v \in Versions, NEW new,
           ledger[v].state \in Pending, new.state \in Pending \cup {"rejected"},
           ledger' = [ledger EXCEPT ![v] = new]
    PROVE  InForce' = InForce
  <1>1. \A w \in Versions : ledger'[w] = IF w = v THEN new ELSE ledger[w]
    BY DEF GovernanceInv, TypeOK
  <1>2. IsRecorded(v) /\ IsRecorded(v)'
    BY <1>1 DEF IsRecorded, Pending
  <1>3. ActiveVersions' = ActiveVersions
    BY <1>1 DEF ActiveVersions, Pending
  <1> QED BY <1>2, <1>3, RecordedInForce, RecordedInForceNext

LEMMA SubmitStutters ==
    ASSUME GovernanceInv, GovernanceInv', NEW v \in Versions, Submit(v)
    PROVE  [Authority!Next]_(Authority!authority)
  <1> DEFINE new == [ledger[v] EXCEPT !.state = "review"]
  <1>1. ledger[v] \in Records /\ ledger[v].state = "draft"
    BY DEF GovernanceInv, TypeOK, Submit
  <1>2. new.state = "review"
    BY <1>1 DEF Records
  <1>3. ledger' = [ledger EXCEPT ![v] = new]
    BY DEF Submit, GovernanceInv, TypeOK
  <1>4. \A w \in Versions : ledger'[w] = IF w = v THEN new ELSE ledger[w]
    BY <1>3 DEF GovernanceInv, TypeOK
  <1> HIDE DEF new
  <1>5. ledger[v].state \in Pending /\ new.state \in Pending \cup {"rejected"}
    BY <1>1, <1>2 DEF Pending
  <1>6. InForce' = InForce
    BY <1>3, <1>5, PendingInForce
  <1>7. Approved' = Approved
    BY <1>1, <1>2, <1>4, SameApproved
  <1> QED BY <1>6, <1>7, Stutters

LEMMA StageStutters ==
    ASSUME GovernanceInv, GovernanceInv', NEW r \in Requests, NEW v \in Versions, CommitStage(r, v)
    PROVE  [Authority!Next]_(Authority!authority)
  <1> DEFINE new == [ledger[v] EXCEPT !.state = "staged"]
  <1>1. ledger[v] \in Records /\ ledger[v].state = "approved"
    BY DEF GovernanceInv, TypeOK, CommitStage
  <1>2. /\ new.state = "staged" /\ new.base = ledger[v].base
        /\ new.author = ledger[v].author /\ new.decider = ledger[v].decider
    BY <1>1 DEF Records
  <1>3. ledger' = [ledger EXCEPT ![v] = new]
    BY DEF CommitStage, GovernanceInv, TypeOK
  <1>4. \A w \in Versions : ledger'[w] = IF w = v THEN new ELSE ledger[w]
    BY <1>3 DEF GovernanceInv, TypeOK
  <1> HIDE DEF new
  <1>5. ledger[v].state \in Pending /\ new.state \in Pending \cup {"rejected"}
    BY <1>1, <1>2 DEF Pending
  <1>6. InForce' = InForce
    BY <1>3, <1>5, PendingInForce
  <1>7. Approved' = Approved
    BY <1>1, <1>2, <1>4, SameApproved
  <1> QED BY <1>6, <1>7, Stutters

\* An approval by somebody other than the author; a rejection stutters.
LEMMA DecideImplements ==
    ASSUME GovernanceInv, GovernanceInv', NEW v \in Versions, NEW actor \in Operators,
           NEW decision \in {"approved", "rejected"}, Decide(v, decision, actor)
    PROVE  [Authority!Next]_(Authority!authority)
  <1> DEFINE new == [ledger[v] EXCEPT !.state = decision, !.decider = actor]
  <1>1. ledger[v] \in Records /\ ledger[v].state = "review"
    BY DEF GovernanceInv, TypeOK, Decide
  <1>2. /\ new.state = decision /\ new.base = ledger[v].base
        /\ new.author = ledger[v].author /\ new.decider = actor
    BY <1>1 DEF Records
  <1>3. ledger' = [ledger EXCEPT ![v] = new]
    BY DEF Decide, GovernanceInv, TypeOK
  <1>4. \A w \in Versions : ledger'[w] = IF w = v THEN new ELSE ledger[w]
    BY <1>3 DEF GovernanceInv, TypeOK
  <1> HIDE DEF new
  <1>5. ledger[v].state \in Pending /\ new.state \in Pending \cup {"rejected"}
    BY <1>1, <1>2 DEF Pending
  <1>6. InForce' = InForce
    BY <1>3, <1>5, PendingInForce
  <1>7. CASE decision = "rejected"
    <2>1. Approved' = Approved
      BY <1>1, <1>2, <1>4, <1>7, SameApproved
    <2> QED BY <1>6, <2>1, Stutters
  <1>8. CASE decision = "approved"
    <2>1. Independent(new)
      BY <1>2, <1>8 DEF Independent, Decide
    <2>2. Approved' = Approved \cup {<<v, ledger[v].base>>}
      <3>1. \A w \in Versions : w # v => ledger'[w] = ledger[w]
        BY <1>4
      <3>2. ledger'[v] = new
        BY <1>4
      <3> QED BY <1>1, <1>2, <1>8, <2>1, <3>1, <3>2 DEF Approved
    <2>3. ledger[v].base \in Versions \cup {0}
      BY <1>1 DEF Records, Versions
    <2>4. v \notin InForce
      BY <1>1 DEF InForce, IsRecorded
    <2> QED BY <1>6, <2>2, <2>3, <2>4 DEF Authority!Next, Authority!Approve
  <1> QED BY <1>7, <1>8

\* An activation enforces the approved version in the place of its base.
LEMMA ActivateImplements ==
    ASSUME GovernanceInv, GovernanceInv', NEW r \in Requests, NEW v \in Versions,
           CommitActivate(r, v)
    PROVE  [Authority!Next]_(Authority!authority)
  <1>a. PICK n : n = request[r].row.version
    OBVIOUS
  <1>1. /\ ledger[v].state = "staged" /\ Independent(ledger[v]) /\ ledger[v].base = n
        /\ ledger' = [w \in Versions |->
              IF w = v THEN [ledger[w] EXCEPT !.state = "active"]
              ELSE IF w = n THEN [ledger[w] EXCEPT !.state = "retired"]
              ELSE ledger[w]]
    BY <1>a DEF CommitActivate
  <1>2. n \in Versions \cup {0}
    <2>1. request[r] \in RequestRecords
      BY DEF GovernanceInv, TypeOK
    <2>2. request[r].row \in Rows
      BY <2>1 DEF RequestRecords
    <2>3. n \in 0 .. MaxVersion
      BY <1>a, <2>2 DEF Rows
    <2> QED BY <2>3 DEF Versions
  <1>3. /\ \A w \in Versions : ledger[w].state \in Pending <=> w = v
        /\ \A w \in Versions : ledger[w].state = "active" <=> w = n
    BY <1>1 DEF GovernanceInv, OnePending, Pending
  <1>4. IsRecorded(v)
    BY <1>1 DEF IsRecorded
  <1>5. \A w \in Versions :
           ledger'[w].state = IF w = v THEN "active" ELSE IF w = n THEN "retired" ELSE ledger[w].state
    <2> SUFFICES ASSUME NEW w \in Versions
                 PROVE  ledger'[w].state =
                           IF w = v THEN "active" ELSE IF w = n THEN "retired" ELSE ledger[w].state
      OBVIOUS
    <2>1. ledger[w] \in Records
      BY DEF GovernanceInv, TypeOK
    <2> QED BY <2>1, <1>1 DEF Records
  <1>6. InForce = Authority!Base(n)
    <2>1. InForce = {w \in Versions : w = n}
      BY <1>3, <1>4, RecordedInForce DEF ActiveVersions
    <2> QED BY <2>1, <1>2 DEF Authority!Base, Versions
  <1>7. InForce' = {v}
    <2>1. InForce' = ActiveVersions'
      BY <1>5, RecordedInForceNext DEF IsRecorded
    <2>2. \A w \in Versions : ledger'[w].state = "active" <=> w = v
      BY <1>3, <1>5
    <2> QED BY <2>1, <2>2 DEF ActiveVersions
  <1>8. Approved = {<<v, n>>}
    <2>1. {w \in Versions : ledger[w].state \in {"approved", "staged"} /\ Independent(ledger[w])} = {v}
      BY <1>1, <1>3 DEF Pending
    <2> QED BY <1>1, <2>1 DEF Approved
  <1>9. Approved' = {}
    <2>1. \A w \in Versions : ledger'[w].state \notin {"approved", "staged"}
      BY <1>3, <1>5 DEF Pending
    <2> QED BY <2>1 DEF Approved
  <1> QED BY <1>2, <1>6, <1>7, <1>8, <1>9 DEF Authority!Next, Authority!Enforce

LEMMA AuthorityStep ==
    ASSUME GovernanceInv, GovernanceInv', [Next]_governance
    PROVE  [Authority!Next]_(Authority!authority)
  <1>1. ASSUME NEW r \in Requests, RequestStep(r) PROVE [Authority!Next]_(Authority!authority)
    <2>1. CASE \/ \E op \in Operations : Start(r, op)
               \/ View(r) \/ StartImport(r) \/ ListVersions(r) \/ GiveUp(r)
      BY <2>1, RequestStutters DEF Start, View, StartImport, ListVersions, GiveUp
    <2> QED
      BY <1>1, <2>1, MigrateRecordStutters, MigrateRowStutters, CommitDraftStutters,
         StageStutters, ActivateImplements DEF RequestStep
  <1>2. ASSUME NEW v \in Versions, Review(v) PROVE [Authority!Next]_(Authority!authority)
    BY <1>2, SubmitStutters, DecideImplements DEF Review
  <1>3. ASSUME CatchUp \/ UNCHANGED governance PROVE [Authority!Next]_(Authority!authority)
    BY <1>3, RequestStutters DEF CatchUp, governance
  <1> QED BY <1>1, <1>2, <1>3 DEF Next

\* Whatever the requests do, the version in force changes only to one that a
\* subject other than its author approved as the successor of the version it
\* takes the place of, and at most one is in force.
THEOREM GovernanceImplementsAuthority == Spec => AuthoritySpec
  <1>1. Init => Authority!Init
    <2> SUFFICES ASSUME Init PROVE Authority!Init
      OBVIOUS
    <2>1. /\ \A v \in Versions : ledger[v].state = "absent"
          /\ row \in {NoRow, LegacyRow}
      BY DEF Init, NoRecord
    <2>2. Approved = {}
      BY <2>1 DEF Approved
    <2>3. CASE row = NoRow
      <3>1. InForce = Authority!Base(0)
        BY <2>1, <2>3 DEF InForce, NoRow, Authority!Base, Versions
      <3> QED BY <2>2, <3>1 DEF Authority!Init
    <2>4. CASE row = LegacyRow
      <3>1. Legacy \in Versions
        BY DEF Legacy, Versions
      <3>2. InForce = Authority!Base(Legacy)
        BY <2>1, <2>4, <3>1 DEF InForce, LegacyRow, Legacy, IsRecorded, Authority!Base, Versions
      <3> QED BY <2>2, <3>1, <3>2 DEF Authority!Init
    <2> QED BY <2>1, <2>3, <2>4
  <1>2. GovernanceInv /\ GovernanceInv' /\ [Next]_governance => [Authority!Next]_(Authority!authority)
    BY AuthorityStep
  <1> QED BY <1>1, <1>2, GovernanceInvariant, PTL DEF Spec, AuthoritySpec, Authority!Spec

-----------------------------------------------------------------------------
(***************************************************************************)
(* The exceptions, on top of a policy that keeps GovernanceInv.            *)
(***************************************************************************)
(***************************************************************************)
(* The inductive invariant.                                                *)
(***************************************************************************)
\* What a request knows of the exception it works on.  A request that creates
\* one is to replace an exception that is over, or none.
TaskPlaced(r) ==
    LET t == task[r] IN
    /\ t.at = "idle" <=> t.op = "none"
    /\ t.at \in {"expire", "invalidate"} => t.checking
    /\ t.checking =>
          /\ t.at \in {"expire", "scope", "base", "invalidate"}
          /\ t.exc \in ExceptionIds
          /\ t.state \in OpenStates
    /\ t.at = "slot" => t.op = "create"
    /\ t.at = "served" => t.op = "serve"
    /\ t.op = "create" /\ t.at \in {"scope", "base", "slot"} /\ ~ t.checking => t.exc = None
    /\ t.op = "create" /\ t.at = "commit" =>
          t.exc = None \/ exception[t.exc].state \in TerminalStates
    /\ t.op # "create" /\ t.at \in {"scope", "base", "commit"} /\ ~ t.checking =>
          t.exc \in ExceptionIds /\ t.state \in From[t.op]

\* What ServedExceptionInForce tells of an exception e on this base, from history h.
Served(h, e, base) ==
    IF h.active THEN ~ h.expired /\ h.bound /\ base \in h.bases ELSE e \in h.activated

\* What has been so since a request that serves the policy read the slot.
ServePlaced(r) ==
    LET t == task[r]
        h == since[r] IN
    t.op = "serve" =>
        /\ row.version \in h.bases
        /\ bound => h.bound
        /\ request[r].at = "commit" => request[r].row.version \in h.bases
        /\ t.at \in {"expire", "scope", "base", "invalidate", "served", "missing"}
        /\ t.at # "missing" => t.exc \in ExceptionIds /\ exception[t.exc].state # "absent"
        /\ t.at \in {"expire", "scope", "base", "invalidate"} =>
              /\ t.checking
              /\ h.active <=> t.state = "active"
              /\ exception[t.exc].state = "active" =>
                    t.state = "active" \/ t.exc \in h.activated
        /\ t.at \in {"scope", "base", "invalidate"} => ~ h.expired
        /\ t.at = "base" => h.bound
        /\ t.at = "served" => Served(h, t.exc, exception[t.exc].base)

ExceptionInv ==
    /\ GovernanceInv
    /\ ExceptionTypeOK
    /\ OneOpenException
    /\ \A r \in Requests : TaskPlaced(r) /\ ServePlaced(r)

-----------------------------------------------------------------------------
(* What a step may do *)

USE GovernanceAssumption, ExceptionAssumption

ExceptionRecords ==
    [state : OpenStates \cup TerminalStates \cup {"absent"}, base : 0 .. MaxVersion,
     author : Operators \cup {None}, decider : Operators \cup {None}]

Histories ==
    [active : BOOLEAN, expired : BOOLEAN, bound : BOOLEAN,
     bases : SUBSET (0 .. MaxVersion), activated : SUBSET ExceptionIds]

LEMMA ExceptionFacts ==
    /\ NoTask \in Tasks /\ NoTask.at = "idle" /\ NoTask.op = "none" /\ ~ NoTask.checking
    /\ NoTask.exc = None
    /\ NoSince \in Histories
    /\ NoException \in ExceptionRecords /\ NoException.state = "absent"
  <1>1. 0 \in 0 .. MaxVersion
    OBVIOUS
  <1>2. NoException = [state |-> "absent", base |-> 0, author |-> None, decider |-> None]
    BY DEF NoException, NoRecord
  <1>3. NoTask \in Tasks /\ NoTask.at = "idle" /\ NoTask.op = "none" /\ ~ NoTask.checking
        /\ NoTask.exc = None
    BY <1>1 DEF NoTask, Tasks
  <1>4. NoSince \in Histories
    BY DEF NoSince, Histories
  <1>5. NoException \in ExceptionRecords /\ NoException.state = "absent"
    BY <1>1, <1>2 DEF ExceptionRecords
  <1> QED BY <1>3, <1>4, <1>5

LEMMA GovernanceStays == ASSUME GovernanceInv, UNCHANGED governance PROVE GovernanceInv'
  BY NextGoverns

\* A request that forgets what it read of the policy.
LEMMA GovernanceForgets ==
    ASSUME GovernanceInv, NEW r \in Requests, UNCHANGED <<row, replica, ledger, overwritten>>,
           request' = [request EXCEPT ![r] = IdleRequest]
    PROVE  GovernanceInv'
  <1>1. IdleRequest.at = "idle" /\ IdleRequest.row = NoRow
    BY DEF IdleRequest
  <1> QED BY <1>1, Facts, RequestMoves

\* A step of one request that changes nothing but what it remembers.
LEMMA OneTaskMoves ==
    ASSUME ExceptionInv, GovernanceInv', NEW r \in Requests,
           UNCHANGED <<row, exception, slot, due, bound>>,
           task' \in [Requests -> Tasks], since' \in [Requests -> Histories],
           \A s \in Requests \ {r} :
              task'[s] = task[s] /\ since'[s] = since[s] /\ request'[s] = request[s],
           TaskPlaced(r)', ServePlaced(r)'
    PROVE  ExceptionInv'
  <1>1. TypeOK'
    BY DEF GovernanceInv
  <1>2. ExceptionTypeOK'
    BY <1>1 DEF ExceptionInv, ExceptionTypeOK, Histories
  <1>3. OneOpenException'
    BY DEF ExceptionInv, OneOpenException, IsOpen
  <1>4. ASSUME NEW s \in Requests PROVE TaskPlaced(s)' /\ ServePlaced(s)'
    <2>1. CASE s = r
      BY <2>1
    <2>2. CASE s # r
      BY <2>2 DEF ExceptionInv, TaskPlaced, ServePlaced
    <2> QED BY <2>1, <2>2
  <1> QED BY <1>2, <1>3, <1>4 DEF ExceptionInv

LEMMA TaskContinues ==
    ASSUME ExceptionInv, GovernanceInv', NEW r \in Requests, NEW t \in Tasks, Continue(r, t),
           UNCHANGED <<row, exception, slot, due, bound, since>>,
           \A s \in Requests \ {r} : request'[s] = request[s],
           task'[r] = t => TaskPlaced(r)' /\ ServePlaced(r)'
    PROVE  ExceptionInv'
  <1>1. task' \in [Requests -> Tasks] /\ since' \in [Requests -> Histories]
    BY DEF ExceptionInv, ExceptionTypeOK, Continue, Histories
  <1>2. \A s \in Requests : task'[s] = IF s = r THEN t ELSE task[s]
    BY DEF ExceptionInv, ExceptionTypeOK, Continue
  <1> QED BY <1>1, <1>2, OneTaskMoves

LEMMA TaskFinishes ==
    ASSUME ExceptionInv, GovernanceInv', NEW r \in Requests, Finish(r),
           UNCHANGED <<row, exception, slot, due, bound>>,
           \A s \in Requests \ {r} : request'[s] = request[s]
    PROVE  ExceptionInv'
  <1>1. task' \in [Requests -> Tasks] /\ since' \in [Requests -> Histories]
    BY ExceptionFacts DEF ExceptionInv, ExceptionTypeOK, Finish, Continue, Histories
  <1>2. /\ \A s \in Requests \ {r} : task'[s] = task[s] /\ since'[s] = since[s]
        /\ task'[r] = NoTask
    BY DEF ExceptionInv, ExceptionTypeOK, Finish, Continue
  <1>3. TaskPlaced(r)' /\ ServePlaced(r)'
    BY <1>2, ExceptionFacts DEF TaskPlaced, ServePlaced
  <1> QED BY <1>1, <1>2, <1>3, OneTaskMoves

LEMMA ReturnKeeps == ASSUME ExceptionInv, NEW r \in Requests, Return(r) PROVE ExceptionInv'
  <1>1. GovernanceInv'
    BY GovernanceForgets DEF Return, ExceptionInv
  <1>2. \A s \in Requests \ {r} : request'[s] = request[s]
    BY DEF Return, ExceptionInv, ExceptionTypeOK, TypeOK
  <1> QED BY <1>1, <1>2, TaskFinishes DEF Return

-----------------------------------------------------------------------------
(* Reading *)

LEMMA ReconcilingTask ==
    ASSUME ExceptionInv, NEW t \in Tasks, NEW e \in ExceptionIds, IsOpen(e)
    PROVE  /\ Reconciling(t, e) \in Tasks
           /\ Reconciling(t, e).op = t.op
           /\ Reconciling(t, e).at = IF e \in due THEN "expire" ELSE "scope"
           /\ Reconciling(t, e).checking
           /\ Reconciling(t, e).exc = e
           /\ Reconciling(t, e).state = exception[e].state
           /\ exception[e].state \in OpenStates
  <1>1. exception[e].state \in OpenStates
    BY DEF IsOpen
  <1> QED BY <1>1 DEF Reconciling, Tasks

LEMMA BeginKeeps ==
    ASSUME ExceptionInv, NEW r \in Requests, NEW e \in ExceptionIds,
           NEW op \in {"submit", "decide", "activate", "revoke", "view"}, Begin(r, op, e)
    PROVE  ExceptionInv'
  <1> DEFINE t == [NoTask EXCEPT !.op = op]
             n == Reconciling(t, e)
  <1>1. t \in Tasks /\ t.op = op
    BY ExceptionFacts DEF Tasks, NoTask
  <1>2. IsOpen(e) /\ Continue(r, n) /\ UNCHANGED <<governance, exception, slot, due, bound, since>>
    BY DEF Begin
  <1> HIDE DEF t
  <1>3. /\ n \in Tasks /\ n.op = op /\ n.at \in {"expire", "scope"} /\ n.checking
        /\ n.exc = e /\ n.state \in OpenStates
    BY <1>1, <1>2, ReconcilingTask
  <1> HIDE DEF n
  <1>4. GovernanceInv' /\ row' = row /\ request' = request
    BY <1>2, GovernanceStays DEF ExceptionInv, governance
  <1>5. task'[r] = n => TaskPlaced(r)' /\ ServePlaced(r)'
    BY <1>3 DEF TaskPlaced, ServePlaced
  <1> QED BY <1>2, <1>3, <1>4, <1>5, TaskContinues

LEMMA BeginCreateKeeps == ASSUME ExceptionInv, NEW r \in Requests, BeginCreate(r) PROVE ExceptionInv'
  <1> DEFINE n == [NoTask EXCEPT !.op = "create", !.at = "scope"]
  <1>1. /\ n \in Tasks /\ n.op = "create" /\ n.at = "scope" /\ ~ n.checking
        /\ n.exc = None
    BY ExceptionFacts DEF Tasks, NoTask
  <1>2. Continue(r, n) /\ UNCHANGED <<governance, exception, slot, due, bound, since>>
    BY DEF BeginCreate
  <1> HIDE DEF n
  <1>3. GovernanceInv' /\ row' = row /\ request' = request
    BY <1>2, GovernanceStays DEF ExceptionInv, governance
  <1>4. task'[r] = n => TaskPlaced(r)' /\ ServePlaced(r)'
    BY <1>1 DEF TaskPlaced, ServePlaced
  <1> QED BY <1>1, <1>2, <1>3, <1>4, TaskContinues

LEMMA BeginServeKeeps == ASSUME ExceptionInv, NEW r \in Requests, BeginServe(r) PROVE ExceptionInv'
  <1> DEFINE t == [NoTask EXCEPT !.op = "serve"]
             m == [NoTask EXCEPT !.op = "serve", !.at = "missing"]
             n == Reconciling(t, slot)
             h == [active |-> exception[slot].state = "active", expired |-> slot \in due,
                   bound |-> bound, bases |-> {row.version}, activated |-> {}]
  <1>1. t \in Tasks /\ t.op = "serve"
    BY ExceptionFacts DEF Tasks, NoTask
  <1>2. m \in Tasks /\ m.op = "serve" /\ m.at = "missing" /\ ~ m.checking
    BY ExceptionFacts DEF Tasks, NoTask
  <1>3. /\ h \in Histories /\ row.version \in h.bases /\ (bound => h.bound)
        /\ h.active <=> exception[slot].state = "active"
        /\ h.expired <=> slot \in due
    <2>1. bound \in BOOLEAN /\ row.version \in 0 .. MaxVersion
      BY DEF ExceptionInv, ExceptionTypeOK, TypeOK, Rows
    <2>2. h \in Histories
      BY <2>1 DEF Histories
    <2> QED BY <2>2
  <1>4. /\ request[r].at = "idle" /\ slot \in ExceptionIds
        /\ since' = [since EXCEPT ![r] = h]
        /\ UNCHANGED <<governance, exception, slot, due, bound>>
        /\ \/ IsOpen(slot) /\ Continue(r, n)
           \/ Continue(r, m)
    BY DEF BeginServe, Unoccupied, ExceptionInv, ExceptionTypeOK
  <1> HIDE DEF t, m, h
  <1>5. IsOpen(slot) =>
           /\ n \in Tasks /\ n.op = "serve" /\ n.checking /\ n.exc = slot
           /\ n.at = IF slot \in due THEN "expire" ELSE "scope"
           /\ n.state = exception[slot].state /\ n.state \in OpenStates
    BY <1>1, <1>4, ReconcilingTask
  <1> HIDE DEF n
  <1>6. GovernanceInv' /\ row' = row /\ request' = request
    BY <1>4, GovernanceStays DEF ExceptionInv, governance
  <1>7. since' \in [Requests -> Histories] /\ since'[r] = h
        /\ \A s \in Requests \ {r} : since'[s] = since[s]
    BY <1>3, <1>4 DEF ExceptionInv, ExceptionTypeOK, Histories
  <1>8. ASSUME NEW k \in Tasks, Continue(r, k) PROVE task' \in [Requests -> Tasks] /\ task'[r] = k
        /\ \A s \in Requests \ {r} : task'[s] = task[s]
    BY <1>8 DEF Continue, ExceptionInv, ExceptionTypeOK
  <1>9. CASE IsOpen(slot) /\ Continue(r, n)
    <2>1. TaskPlaced(r)' /\ ServePlaced(r)'
      BY <1>3, <1>4, <1>5, <1>6, <1>7, <1>8, <1>9 DEF TaskPlaced, ServePlaced, OpenStates
    <2> QED BY <2>1, <1>4, <1>5, <1>6, <1>7, <1>8, <1>9, OneTaskMoves
  <1>10. CASE Continue(r, m)
    <2>1. TaskPlaced(r)' /\ ServePlaced(r)'
      BY <1>2, <1>3, <1>4, <1>6, <1>7, <1>8, <1>10 DEF TaskPlaced, ServePlaced
    <2> QED BY <2>1, <1>2, <1>4, <1>6, <1>7, <1>8, <1>10, OneTaskMoves
  <1> QED BY <1>4, <1>9, <1>10

LEMMA ReadScopeKeeps == ASSUME ExceptionInv, NEW r \in Requests, ReadScope(r) PROVE ExceptionInv'
  <1>1. PICK to \in {"base", "invalidate"} :
           /\ task[r].at = "scope"
           /\ to = "base" => bound
           /\ to = "invalidate" => task[r].checking
           /\ Continue(r, [task[r] EXCEPT !.at = to])
           /\ UNCHANGED <<governance, exception, slot, due, bound, since>>
    BY DEF ReadScope
  <1>2. task[r] \in Tasks /\ TaskPlaced(r) /\ ServePlaced(r)
    BY DEF ExceptionInv, ExceptionTypeOK
  <1> DEFINE n == [task[r] EXCEPT !.at = to]
  <1>3. /\ n \in Tasks /\ n.op = task[r].op /\ n.at = to /\ n.checking = task[r].checking
        /\ n.exc = task[r].exc /\ n.state = task[r].state
    BY <1>2 DEF Tasks
  <1> HIDE DEF n
  <1>4. GovernanceInv' /\ row' = row /\ request' = request
    BY <1>1, GovernanceStays DEF ExceptionInv, governance
  <1>5. ASSUME task'[r] = n PROVE TaskPlaced(r)' /\ ServePlaced(r)'
    <2>1. TaskPlaced(r)'
      BY <1>1, <1>2, <1>3, <1>4, <1>5 DEF TaskPlaced
    <2>2. ServePlaced(r)'
      BY <1>1, <1>2, <1>3, <1>4, <1>5 DEF ServePlaced
    <2> QED BY <2>1, <2>2
  <1>6. Continue(r, n)
    BY <1>1 DEF n
  <1> QED BY <1>1, <1>3, <1>4, <1>5, <1>6, TaskContinues

LEMMA ReadLegacyRowKeeps ==
    ASSUME ExceptionInv, NEW r \in Requests, ReadLegacyRow(r)
    PROVE  ExceptionInv'
  <1>1. /\ task[r].at = "base" /\ row # NoRow /\ row.schema = 0
        /\ Reading(r, "scope", row, "commit")
        /\ UNCHANGED <<row, replica, ledger, overwritten>>
        /\ UNCHANGED exceptions
    BY DEF ReadLegacyRow
  <1>2. GovernanceInv'
    <2>1. "scope" \in Operations \ {"import"} /\ FirstStop("scope") = "commit"
      BY DEF Operations, FirstStop
    <2> QED BY <1>1, <2>1, ReadingKeeps DEF ExceptionInv
  <1>3. /\ \A s \in Requests \ {r} : request'[s] = request[s]
        /\ request'[r].at = "record"
    BY <1>1 DEF Reading, ExceptionInv, ExceptionTypeOK, TypeOK
  <1>4. UNCHANGED <<exception, slot, due, bound, task, since>>
    BY <1>1 DEF exceptions
  <1>5. TaskPlaced(r)' /\ ServePlaced(r)'
    BY <1>1, <1>3, <1>4 DEF TaskPlaced, ServePlaced, ExceptionInv
  <1>6. task' \in [Requests -> Tasks] /\ since' \in [Requests -> Histories]
    BY <1>4 DEF ExceptionInv, ExceptionTypeOK, Histories
  <1> QED BY <1>1, <1>2, <1>3, <1>4, <1>5, <1>6, OneTaskMoves

LEMMA ReadSlotKeeps == ASSUME ExceptionInv, NEW r \in Requests, ReadSlot(r) PROVE ExceptionInv'
  <1>1. /\ task[r].at = "slot"
        /\ UNCHANGED <<governance, exception, slot, due, bound, since>>
    BY DEF ReadSlot
  <1>2. /\ task[r] \in Tasks /\ task[r].op = "create" /\ ~ task[r].checking /\ task[r].exc = None
        /\ slot \in ExceptionIds \cup {None}
    BY <1>1 DEF ExceptionInv, ExceptionTypeOK, TaskPlaced
  <1>3. GovernanceInv' /\ row' = row /\ request' = request
    BY <1>1, GovernanceStays DEF ExceptionInv, governance
  <1>4. CASE slot = None /\ Continue(r, [task[r] EXCEPT !.at = "commit"])
    <2> DEFINE n == [task[r] EXCEPT !.at = "commit"]
    <2>1. n \in Tasks /\ n.at = "commit" /\ n.op = "create" /\ ~ n.checking /\ n.exc = None
      BY <1>2 DEF Tasks
    <2>2. Continue(r, n)
      BY <1>4
    <2> HIDE DEF n
    <2>3. task'[r] = n => TaskPlaced(r)' /\ ServePlaced(r)'
      BY <2>1 DEF TaskPlaced, ServePlaced
    <2> QED BY <1>1, <1>3, <2>1, <2>2, <2>3, TaskContinues
  <1>5. CASE slot # None /\ IsOpen(slot) /\ Continue(r, Reconciling(task[r], slot))
    <2> DEFINE n == Reconciling(task[r], slot)
    <2>1. /\ n \in Tasks /\ n.op = "create" /\ n.at \in {"expire", "scope"} /\ n.checking
          /\ n.exc \in ExceptionIds /\ n.state \in OpenStates
      BY <1>2, <1>5, ReconcilingTask
    <2>2. Continue(r, n)
      BY <1>5
    <2> HIDE DEF n
    <2>3. task'[r] = n => TaskPlaced(r)' /\ ServePlaced(r)'
      BY <2>1 DEF TaskPlaced, ServePlaced
    <2> QED BY <1>1, <1>3, <2>1, <2>2, <2>3, TaskContinues
  <1>6. CASE /\ slot # None /\ exception[slot].state \in TerminalStates
             /\ Continue(r, [task[r] EXCEPT !.at = "commit", !.exc = slot])
    <2> DEFINE n == [task[r] EXCEPT !.at = "commit", !.exc = slot]
    <2>1. n \in Tasks /\ n.at = "commit" /\ n.op = "create" /\ ~ n.checking /\ n.exc = slot
      BY <1>2 DEF Tasks
    <2>2. Continue(r, n)
      BY <1>6
    <2> HIDE DEF n
    <2>3. task'[r] = n => TaskPlaced(r)' /\ ServePlaced(r)'
      BY <1>1, <1>6, <2>1 DEF TaskPlaced, ServePlaced
    <2> QED BY <1>1, <1>3, <2>1, <2>2, <2>3, TaskContinues
  <1> QED BY <1>4, <1>5, <1>6 DEF ReadSlot

\* What a request remembers once its exception is reconciled.
LEMMA ProceedKeeps ==
    ASSUME ExceptionInv, GovernanceInv', NEW r \in Requests,
           NEW s \in OpenStates \cup TerminalStates \cup {"absent"},
           task[r].at # "idle", task[r].checking, Proceed(r, s),
           UNCHANGED <<row, exception, slot, due, bound>>,
           \A q \in Requests \ {r} : request'[q] = request[q],
           request'[r].at = "commit" => request'[r] = request[r],
           task[r].op = "create" /\ s \in TerminalStates => exception[task[r].exc].state = s,
           task[r].op = "serve" /\ s = "active" =>
              Served(since[r], task[r].exc, exception[task[r].exc].base)
    PROVE  ExceptionInv'
  <1>1. task[r] \in Tasks /\ TaskPlaced(r) /\ ServePlaced(r)
    BY DEF ExceptionInv, ExceptionTypeOK
  <1>2. CASE s \notin From[task[r].op]
    BY <1>2, TaskFinishes DEF Proceed
  <1>3. CASE s \in From[task[r].op]
    <2> DEFINE n == [task[r] EXCEPT
                        !.state = s,
                        !.checking = FALSE,
                        !.at = CASE task[r].op = "activate" -> "scope"
                                 [] task[r].op = "serve" -> "served"
                                 [] OTHER -> "commit"]
    <2>1. /\ n \in Tasks /\ n.op = task[r].op /\ n.exc = task[r].exc /\ n.state = s
          /\ ~ n.checking
          /\ n.at = CASE task[r].op = "activate" -> "scope"
                      [] task[r].op = "serve" -> "served"
                      [] OTHER -> "commit"
      BY <1>1 DEF Tasks
    <2>2. Continue(r, n) /\ since' = since
      BY <1>3 DEF Proceed
    <2> HIDE DEF n
    <2>3. task[r].op = "serve" => s = "active"
      BY <1>3 DEF From
    <2>4. ASSUME task'[r] = n PROVE TaskPlaced(r)' /\ ServePlaced(r)'
      <3>1. TaskPlaced(r)'
        BY <1>1, <1>3, <2>1, <2>4 DEF TaskPlaced, From
      <3>2. CASE n.op = "serve"
        <4>1. task[r].op = "serve" /\ s = "active" /\ n.at = "served"
          BY <2>1, <2>3, <3>2
        <4>2. /\ n.exc \in ExceptionIds
              /\ exception[n.exc].state # "absent"
              /\ row.version \in since[r].bases
              /\ bound => since[r].bound
              /\ request'[r].at = "commit" => request'[r].row.version \in since[r].bases
          BY <1>1, <2>1, <4>1 DEF ServePlaced, TaskPlaced
        <4>3. Served(since[r], n.exc, exception[n.exc].base)
          BY <2>1, <4>1
        <4> QED BY <2>2, <2>4, <3>1, <4>1, <4>2, <4>3 DEF ServePlaced
      <3>3. CASE n.op # "serve"
        BY <2>4, <3>1, <3>3 DEF ServePlaced
      <3> QED BY <3>2, <3>3
    <2> QED BY <2>1, <2>2, <2>4, TaskContinues
  <1> QED BY <1>2, <1>3

LEMMA CompareKeeps ==
    ASSUME ExceptionInv, NEW r \in Requests, NEW version \in 0 .. MaxVersion, Compare(r, version)
    PROVE  ExceptionInv'
  <1>a. PICK t : t = task[r]
    OBVIOUS
  <1>b. PICK matches \in BOOLEAN : matches <=> (t.exc # None => exception[t.exc].base = version)
    OBVIOUS
  <1>1. /\ t \in Tasks /\ TaskPlaced(r) /\ ServePlaced(r) /\ t.at = "base"
        /\ UNCHANGED <<row, replica, ledger, overwritten, exception, slot, due, bound>>
    BY <1>a DEF ExceptionInv, ExceptionTypeOK, Compare, ReadBase
  <1>2. /\ GovernanceInv'
        /\ \A s \in Requests \ {r} : request'[s] = request[s]
        /\ request'[r].at # "commit"
        /\ \/ version = row.version
           \/ request[r].at = "commit" /\ version = request[r].row.version
    <2>1. CASE request[r].at = "idle" /\ version = row.version /\ UNCHANGED request
      BY <1>1, <2>1, GovernanceStays DEF governance, ExceptionInv
    <2>2. CASE /\ request[r].at = "commit" /\ version = request[r].row.version
               /\ request' = [request EXCEPT ![r] = IdleRequest]
      <3>1. GovernanceInv'
        BY <1>1, <2>2, GovernanceForgets DEF ExceptionInv
      <3> QED
        BY <2>2, <3>1 DEF ExceptionInv, ExceptionTypeOK, TypeOK, IdleRequest
    <2> QED BY <2>1, <2>2 DEF Compare, ReadBase
  <1>3. CASE t.checking /\ matches /\ Proceed(r, t.state)
    <2>1. t.state \in OpenStates /\ t.exc \in ExceptionIds /\ exception[t.exc].base = version
      BY <1>a, <1>b, <1>1, <1>3 DEF TaskPlaced
    <2>2. t.op = "serve" /\ t.state = "active" =>
             Served(since[r], t.exc, exception[t.exc].base)
      BY <1>a, <1>1, <1>2, <2>1 DEF ServePlaced, Served
    <2>3. t.state \notin TerminalStates
      BY <2>1 DEF OpenStates, TerminalStates
    <2> QED BY <1>a, <1>1, <1>2, <1>3, <2>1, <2>2, <2>3, ProceedKeeps
  <1>4. CASE t.checking /\ Continue(r, [t EXCEPT !.at = "invalidate"]) /\ UNCHANGED since
    <2> DEFINE n == [t EXCEPT !.at = "invalidate"]
    <2>1. /\ n \in Tasks /\ n.op = t.op /\ n.at = "invalidate" /\ n.checking /\ n.exc = t.exc
          /\ n.state = t.state
      BY <1>1, <1>4 DEF Tasks
    <2>2. Continue(r, n)
      BY <1>4
    <2> HIDE DEF n
    <2>3. ASSUME task'[r] = n PROVE TaskPlaced(r)' /\ ServePlaced(r)'
      <3>1. TaskPlaced(r)'
        BY <1>a, <1>1, <1>4, <2>1, <2>3 DEF TaskPlaced
      <3>2. ServePlaced(r)'
        BY <1>a, <1>1, <1>2, <1>4, <2>1, <2>3 DEF ServePlaced
      <3> QED BY <3>1, <3>2
    <2> QED BY <1>1, <1>2, <1>4, <2>1, <2>2, <2>3, TaskContinues
  <1>5. CASE t.op = "activate" /\ ~ t.checking /\ Continue(r, [t EXCEPT !.at = "commit"])
             /\ UNCHANGED since
    <2> DEFINE n == [t EXCEPT !.at = "commit"]
    <2>1. /\ n \in Tasks /\ n.op = "activate" /\ n.at = "commit" /\ ~ n.checking /\ n.exc = t.exc
          /\ n.state = t.state
      BY <1>1, <1>5 DEF Tasks
    <2>2. Continue(r, n)
      BY <1>5
    <2> HIDE DEF n
    <2>3. task'[r] = n => TaskPlaced(r)' /\ ServePlaced(r)'
      BY <1>a, <1>1, <1>5, <2>1 DEF TaskPlaced, ServePlaced
    <2> QED BY <1>1, <1>2, <1>5, <2>1, <2>2, <2>3, TaskContinues
  <1>6. CASE /\ t.op = "create" /\ ~ t.checking
             /\ Continue(r, [t EXCEPT !.at = "slot", !.base = version])
             /\ UNCHANGED since
    <2> DEFINE n == [t EXCEPT !.at = "slot", !.base = version]
    <2>1. /\ n \in Tasks /\ n.op = "create" /\ n.at = "slot" /\ ~ n.checking /\ n.exc = t.exc
      BY <1>1, <1>6 DEF Tasks
    <2>2. Continue(r, n)
      BY <1>6
    <2> HIDE DEF n
    <2>3. task'[r] = n => TaskPlaced(r)' /\ ServePlaced(r)'
      BY <1>a, <1>1, <1>6, <2>1 DEF TaskPlaced, ServePlaced
    <2> QED BY <1>1, <1>2, <1>6, <2>1, <2>2, <2>3, TaskContinues
  <1>7. \/ t.checking /\ matches /\ Proceed(r, t.state)
        \/ t.checking /\ Continue(r, [t EXCEPT !.at = "invalidate"]) /\ UNCHANGED since
        \/ t.op = "activate" /\ ~ t.checking /\ Continue(r, [t EXCEPT !.at = "commit"])
           /\ UNCHANGED since
        \/ /\ t.op = "create" /\ ~ t.checking
           /\ Continue(r, [t EXCEPT !.at = "slot", !.base = version])
           /\ UNCHANGED since
    BY <1>a, <1>b DEF Compare
  <1> QED BY <1>3, <1>4, <1>5, <1>6, <1>7

-----------------------------------------------------------------------------
(* Writing *)

\* A step of one request that moves an open exception.
LEMMA OpenExceptionMoves ==
    ASSUME ExceptionInv, GovernanceInv', NEW r \in Requests,
           NEW e \in ExceptionIds, NEW new \in ExceptionRecords,
           exception' = [exception EXCEPT ![e] = new],
           exception[e].state \in OpenStates,
           new.state \in OpenStates \cup TerminalStates,
           new.base = exception[e].base,
           UNCHANGED <<row, slot, due, bound>>,
           task' \in [Requests -> Tasks], since' \in [Requests -> Histories],
           \A s \in Requests \ {r} :
              /\ task'[s] = task[s] /\ request'[s] = request[s]
              /\ since'[s].bound = since[s].bound
              /\ since'[s].bases = since[s].bases
              /\ since'[s].active = since[s].active /\ since'[s].expired = since[s].expired
              /\ since[s].activated \subseteq since'[s].activated
              /\ task[s].op = "serve" /\ new.state = "active" => e \in since'[s].activated,
           TaskPlaced(r)', ServePlaced(r)'
    PROVE  ExceptionInv'
  <1>1. TypeOK'
    BY DEF GovernanceInv
  <1>2. exception' \in [ExceptionIds -> ExceptionRecords]
    BY DEF ExceptionInv, ExceptionTypeOK, ExceptionRecords
  <1>3. ExceptionTypeOK'
    BY <1>1, <1>2 DEF ExceptionInv, ExceptionTypeOK, Histories, ExceptionRecords
  <1>4. \A f \in ExceptionIds : exception'[f] = IF f = e THEN new ELSE exception[f]
    BY DEF ExceptionInv, ExceptionTypeOK
  <1>5. OneOpenException'
    BY <1>4 DEF ExceptionInv, OneOpenException, IsOpen
  <1>6. "absent" \notin OpenStates \cup TerminalStates /\ OpenStates \cap TerminalStates = {}
    BY DEF OpenStates, TerminalStates
  <1>7. ASSUME NEW s \in Requests PROVE TaskPlaced(s)' /\ ServePlaced(s)'
    <2>1. CASE s = r
      BY <2>1
    <2>2. CASE s # r
      <3>1. TaskPlaced(s) /\ ServePlaced(s) /\ task'[s] = task[s] /\ task[s] \in Tasks
        BY <2>2 DEF ExceptionInv, ExceptionTypeOK
      <3>2. TaskPlaced(s)'
        BY <1>4, <1>6, <3>1 DEF TaskPlaced, Tasks
      <3>3. ServePlaced(s)'
        BY <1>4, <1>6, <2>2, <3>1 DEF ServePlaced, Served
      <3> QED BY <3>2, <3>3
    <2> QED BY <2>1, <2>2
  <1> QED BY <1>3, <1>5, <1>7 DEF ExceptionInv

LEMMA SettleKeeps == ASSUME ExceptionInv, NEW r \in Requests, Settle(r) PROVE ExceptionInv'
  <1>a. PICK t : t = task[r]
    OBVIOUS
  <1>b. PICK e : e = t.exc
    OBVIOUS
  <1>1. /\ t \in Tasks /\ TaskPlaced(r) /\ ServePlaced(r)
        /\ t.at \in {"expire", "invalidate"} /\ t.checking
        /\ e \in ExceptionIds /\ t.state \in OpenStates
        /\ exception[e] \in ExceptionRecords
        /\ UNCHANGED <<governance, slot, due, bound>>
    BY <1>a, <1>b DEF ExceptionInv, ExceptionTypeOK, Settle, TaskPlaced, ExceptionRecords
  <1>2. GovernanceInv' /\ row' = row /\ request' = request
    BY <1>1, GovernanceStays DEF ExceptionInv, governance
  <1>3. CASE exception[e].state = t.state
    <2>1. PICK ended \in {"expired", "invalidated"} :
             /\ exception' = [exception EXCEPT ![e].state = ended]
             /\ Proceed(r, ended)
      BY <1>a, <1>b, <1>3 DEF Settle
    <2>2. PICK new : new = [exception[e] EXCEPT !.state = ended]
      OBVIOUS
    <2>3. new \in ExceptionRecords /\ new.state = ended /\ new.base = exception[e].base
      BY <1>1, <2>2 DEF ExceptionRecords, TerminalStates
    <2>4. exception' = [exception EXCEPT ![e] = new] /\ exception'[e] = new
      BY <1>1, <2>1, <2>2 DEF ExceptionInv, ExceptionTypeOK
    <2>5. ended \in TerminalStates /\ ended # "active"
      BY DEF TerminalStates
    <2>6. CASE ended \notin From[t.op]
      <3>1. Finish(r)
        BY <1>a, <2>1, <2>6 DEF Proceed
      <3>2. task' \in [Requests -> Tasks] /\ since' \in [Requests -> Histories]
        BY <3>1, ExceptionFacts DEF ExceptionInv, ExceptionTypeOK, Finish, Continue, Histories
      <3>3. /\ \A s \in Requests \ {r} : task'[s] = task[s] /\ since'[s] = since[s]
            /\ task'[r] = NoTask
        BY <3>1 DEF ExceptionInv, ExceptionTypeOK, Finish, Continue
      <3>4. TaskPlaced(r)' /\ ServePlaced(r)'
        BY <3>3, ExceptionFacts DEF TaskPlaced, ServePlaced
      <3>5. exception[e].state \in OpenStates /\ UNCHANGED <<row, slot, due, bound>>
        BY <1>1, <1>2, <1>3
      <3>6. new.state \in OpenStates \cup TerminalStates /\ new.state # "active"
        BY <2>3, <2>5
      <3>7. \A s \in Requests \ {r} :
               /\ task'[s] = task[s] /\ request'[s] = request[s]
               /\ since'[s].bound = since[s].bound
               /\ since'[s].bases = since[s].bases
               /\ since'[s].active = since[s].active /\ since'[s].expired = since[s].expired
               /\ since[s].activated \subseteq since'[s].activated
               /\ task[s].op = "serve" /\ new.state = "active" => e \in since'[s].activated
        BY <1>2, <3>3, <3>6
      <3>8. GovernanceInv' /\ exception' = [exception EXCEPT ![e] = new]
        BY <1>2, <2>4
      <3>9. /\ e \in ExceptionIds /\ new \in ExceptionRecords /\ new.base = exception[e].base
            /\ new.state \in OpenStates \cup TerminalStates
        BY <1>1, <2>3, <3>6
      <3> QED
        BY <3>2, <3>4, <3>5, <3>7, <3>8, <3>9, OpenExceptionMoves, ZenonT(40)
    <2>7. CASE ended \in From[t.op]
      <3>1. t.op = "create"
        BY <1>a, <1>1, <2>5, <2>7 DEF From, Tasks, OpenStates, TerminalStates, TaskPlaced
      <3> DEFINE n == [t EXCEPT !.state = ended, !.checking = FALSE, !.at = "commit"]
      <3>2. n \in Tasks /\ n.op = "create" /\ n.at = "commit" /\ ~ n.checking /\ n.exc = e
        BY <1>b, <1>1, <2>5, <3>1 DEF Tasks
      <3>3. Continue(r, n) /\ since' = since
        BY <1>a, <2>1, <2>7, <3>1 DEF Proceed
      <3> HIDE DEF n
      <3>4. /\ task' \in [Requests -> Tasks] /\ task'[r] = n
            /\ \A s \in Requests \ {r} : task'[s] = task[s]
            /\ since' \in [Requests -> Histories]
        BY <3>2, <3>3 DEF ExceptionInv, ExceptionTypeOK, Continue, Histories
      <3>5. TaskPlaced(r)' /\ ServePlaced(r)'
        BY <2>3, <2>4, <2>5, <3>2, <3>4 DEF TaskPlaced, ServePlaced
      <3> QED
        BY <1>1, <1>2, <1>3, <2>3, <2>4, <2>5, <3>3, <3>4, <3>5, OpenExceptionMoves
    <2> QED BY <2>6, <2>7
  <1>4. CASE exception[e].state # t.state
    <2>1. Proceed(r, exception[e].state) /\ UNCHANGED exception
      BY <1>a, <1>b, <1>4 DEF Settle
    <2>2. exception[e].state \in OpenStates \cup TerminalStates \cup {"absent"}
      BY <1>1 DEF ExceptionRecords
    <2>3. t.op = "serve" /\ exception[e].state = "active" =>
             Served(since[r], e, exception[e].base)
      BY <1>a, <1>b, <1>1, <1>4 DEF ServePlaced, Served
    <2>4. t.at # "idle"
      BY <1>1
    <2> QED BY <1>a, <1>b, <1>1, <1>2, <2>1, <2>2, <2>3, <2>4, ProceedKeeps
  <1> QED BY <1>3, <1>4

\* What was in the slot is over, so the new exception is the only open one.
LEMMA CommitCreateKeeps ==
    ASSUME ExceptionInv, NEW r \in Requests, NEW e \in ExceptionIds, NEW author \in Operators,
           CommitCreate(r, e, author)
    PROVE  ExceptionInv'
  <1>a. PICK new : new = [state |-> "draft", base |-> task[r].base, author |-> author, decider |-> None]
    OBVIOUS
  <1>1. /\ task[r].at = "commit" /\ task[r].op = "create" /\ exception[e] = NoException
        /\ slot = task[r].exc
        /\ exception' = [exception EXCEPT ![e] = new]
        /\ slot' = e /\ due' = due \ {e} /\ Finish(r)
        /\ UNCHANGED <<governance, bound>>
    BY <1>a DEF CommitCreate
  <1>2. task[r] \in Tasks /\ TaskPlaced(r)
    BY DEF ExceptionInv, ExceptionTypeOK
  <1>3. new \in ExceptionRecords /\ new.state = "draft"
    BY <1>a, <1>2 DEF ExceptionRecords, Tasks, OpenStates
  <1>4. \A f \in ExceptionIds : exception'[f] = IF f = e THEN new ELSE exception[f]
    BY <1>1 DEF ExceptionInv, ExceptionTypeOK
  <1>5. "absent" \notin OpenStates \cup TerminalStates /\ OpenStates \cap TerminalStates = {}
    BY DEF OpenStates, TerminalStates
  <1>6. \A f \in ExceptionIds : ~ IsOpen(f)
    BY <1>1, <1>2, <1>5 DEF TaskPlaced, IsOpen, ExceptionInv, OneOpenException
  <1>7. OneOpenException'
    BY <1>1, <1>4, <1>6 DEF OneOpenException, IsOpen
  <1>8. GovernanceInv' /\ row' = row /\ request' = request
    BY <1>1, GovernanceStays DEF ExceptionInv, governance
  <1>9. task' \in [Requests -> Tasks] /\ since' \in [Requests -> Histories]
    BY <1>1, ExceptionFacts DEF ExceptionInv, ExceptionTypeOK, Finish, Continue, Histories
  <1>10. ExceptionTypeOK'
    <2>1. exception' \in [ExceptionIds -> ExceptionRecords]
      BY <1>1, <1>3 DEF ExceptionInv, ExceptionTypeOK, ExceptionRecords
    <2>2. TypeOK'
      BY <1>8 DEF GovernanceInv
    <2> QED
      BY <1>1, <1>9, <2>1, <2>2 DEF ExceptionInv, ExceptionTypeOK, Histories, ExceptionRecords
  <1>11. ASSUME NEW s \in Requests PROVE TaskPlaced(s)' /\ ServePlaced(s)'
    <2>1. CASE s = r
      <3>1. task'[s] = NoTask
        BY <1>1, <2>1 DEF ExceptionInv, ExceptionTypeOK, Finish, Continue
      <3> QED BY <3>1, ExceptionFacts DEF TaskPlaced, ServePlaced
    <2>2. CASE s # r
      <3>1. /\ TaskPlaced(s) /\ ServePlaced(s) /\ task[s] \in Tasks
            /\ task'[s] = task[s] /\ since'[s] = since[s]
        BY <1>1, <2>2 DEF ExceptionInv, ExceptionTypeOK, Finish, Continue
      <3>2. exception[e].state = "absent"
        BY <1>1, ExceptionFacts
      <3>3. TaskPlaced(s)'
        BY <1>4, <1>5, <3>1, <3>2 DEF TaskPlaced, Tasks
      <3>4. ServePlaced(s)'
        BY <1>1, <1>4, <1>8, <3>1, <3>2 DEF ServePlaced
      <3> QED BY <3>3, <3>4
    <2> QED BY <2>1, <2>2
  <1> QED BY <1>7, <1>8, <1>10, <1>11 DEF ExceptionInv

LEMMA CommitTransitionKeeps ==
    ASSUME ExceptionInv, NEW r \in Requests, NEW actor \in Operators,
           NEW to \in OpenStates \cup TerminalStates, CommitTransition(r, actor, to)
    PROVE  ExceptionInv'
  <1>a. PICK t : t = task[r]
    OBVIOUS
  <1>b. PICK e : e = t.exc
    OBVIOUS
  <1>1. /\ t.at = "commit" /\ to \in To[t.op] /\ exception[e].state = t.state
        /\ exception' = [exception EXCEPT ![e].state = to,
              ![e].decider = IF t.op = "decide" THEN actor ELSE @]
        /\ Continue(r, NoTask)
        /\ since' = [p \in Requests |->
              IF p # r /\ task[p].op = "serve" /\ to = "active"
              THEN [since[p] EXCEPT !.activated = @ \cup {e}]
              ELSE since[p]]
        /\ UNCHANGED <<governance, slot, due, bound>>
    BY <1>a, <1>b DEF CommitTransition
  <1>2. t \in Tasks /\ TaskPlaced(r)
    BY <1>a DEF ExceptionInv, ExceptionTypeOK
  <1>3. t.op \in {"submit", "decide", "activate", "revoke"} /\ ~ t.checking
    BY <1>a, <1>1, <1>2 DEF To, Tasks, TaskPlaced
  <1>4. e \in ExceptionIds /\ t.state \in OpenStates
    BY <1>a, <1>b, <1>1, <1>2, <1>3 DEF TaskPlaced, From, OpenStates
  <1>5. exception[e] \in ExceptionRecords
    BY <1>4 DEF ExceptionInv, ExceptionTypeOK, ExceptionRecords
  <1>6. PICK d \in Operators \cup {None} : d = IF t.op = "decide" THEN actor ELSE exception[e].decider
    BY <1>5 DEF ExceptionRecords
  <1>7. PICK new : new = [exception[e] EXCEPT !.state = to, !.decider = d]
    OBVIOUS
  <1>8. new \in ExceptionRecords /\ new.state = to /\ new.base = exception[e].base
    BY <1>5, <1>6, <1>7 DEF ExceptionRecords
  <1>9. exception' = [exception EXCEPT ![e] = new]
    BY <1>1, <1>4, <1>5, <1>6, <1>7 DEF ExceptionInv, ExceptionTypeOK, ExceptionRecords
  <1>10. GovernanceInv' /\ row' = row /\ request' = request
    BY <1>1, GovernanceStays DEF ExceptionInv, governance
  <1>11. /\ task' \in [Requests -> Tasks] /\ task'[r] = NoTask
         /\ \A s \in Requests \ {r} : task'[s] = task[s]
    BY <1>1, ExceptionFacts DEF ExceptionInv, ExceptionTypeOK, Continue
  <1>12. ASSUME NEW s \in Requests
         PROVE  /\ since'[s] \in Histories
                /\ since'[s].bound = since[s].bound
                /\ since'[s].bases = since[s].bases
                /\ since'[s].active = since[s].active /\ since'[s].expired = since[s].expired
                /\ since[s].activated \subseteq since'[s].activated
                /\ s # r /\ task[s].op = "serve" /\ new.state = "active" => e \in since'[s].activated
    <2>1. since[s] \in Histories
      BY DEF ExceptionInv, ExceptionTypeOK, Histories
    <2>2. CASE s # r /\ task[s].op = "serve" /\ to = "active"
      <3>1. since'[s] = [since[s] EXCEPT !.activated = @ \cup {e}]
        BY <1>1, <2>2
      <3> QED BY <1>4, <2>1, <3>1 DEF Histories
    <2>3. CASE ~ (s # r /\ task[s].op = "serve" /\ to = "active")
      <3>1. since'[s] = since[s]
        BY <1>1, <2>3
      <3> QED BY <1>8, <2>1, <2>3, <3>1
    <2> QED BY <2>2, <2>3
  <1>13. since' \in [Requests -> Histories]
    BY <1>1, <1>12
  <1>14. TaskPlaced(r)' /\ ServePlaced(r)'
    BY <1>11, ExceptionFacts DEF TaskPlaced, ServePlaced
  <1>15. UNCHANGED <<row, slot, due, bound>> /\ exception[e].state \in OpenStates
    BY <1>1, <1>4, <1>10
  <1>16. \A s \in Requests \ {r} :
            /\ task'[s] = task[s] /\ request'[s] = request[s]
            /\ since'[s].bound = since[s].bound
            /\ since'[s].bases = since[s].bases
            /\ since'[s].active = since[s].active /\ since'[s].expired = since[s].expired
            /\ since[s].activated \subseteq since'[s].activated
            /\ task[s].op = "serve" /\ new.state = "active" => e \in since'[s].activated
    BY <1>10, <1>11, <1>12
  <1>17. new.state \in OpenStates \cup TerminalStates /\ task' \in [Requests -> Tasks]
    BY <1>8, <1>11
  <1>18. e \in ExceptionIds /\ new \in ExceptionRecords /\ new.base = exception[e].base
    BY <1>4, <1>8
  <1>19. GovernanceInv'
    BY <1>10
  <1> QED
    BY <1>9, <1>13, <1>14, <1>15, <1>16, <1>17, <1>18, <1>19,
       OpenExceptionMoves, ZenonT(40)

-----------------------------------------------------------------------------
(* The clock, the agent's lifecycle and the policy *)

LEMMA ExpireKeeps ==
    ASSUME ExceptionInv, NEW e \in ExceptionIds, Expire(e)
    PROVE  ExceptionInv'
  <1>1. /\ due' = due \cup {e}
        /\ UNCHANGED <<governance, exception, slot, bound, task, since>>
    BY DEF Expire
  <1>2. GovernanceInv' /\ TypeOK' /\ row' = row /\ request' = request
    BY <1>1, GovernanceStays DEF ExceptionInv, governance, GovernanceInv
  <1> QED
    BY <1>1, <1>2
    DEF ExceptionInv, ExceptionTypeOK, OneOpenException, IsOpen, TaskPlaced, ServePlaced

LEMMA TtlDeleteKeeps ==
    ASSUME ExceptionInv, NEW e \in ExceptionIds, TtlDelete(e)
    PROVE  ExceptionInv'
  <1>1. /\ due' = due \ {e} /\ exception' = [exception EXCEPT ![e] = NoException]
        /\ \A r \in Requests : task[r].at = "idle"
        /\ UNCHANGED <<governance, slot, bound, task, since>>
    BY DEF TtlDelete
  <1>2. GovernanceInv' /\ TypeOK' /\ row' = row /\ request' = request
    BY <1>1, GovernanceStays DEF ExceptionInv, governance, GovernanceInv
  <1>3. exception' \in [ExceptionIds -> ExceptionRecords]
    BY <1>1, ExceptionFacts DEF ExceptionInv, ExceptionTypeOK, ExceptionRecords
  <1>4. ExceptionTypeOK'
    BY <1>1, <1>2, <1>3 DEF ExceptionInv, ExceptionTypeOK, ExceptionRecords
  <1>5. OneOpenException'
    <2>1. "absent" \notin OpenStates
      BY DEF OpenStates
    <2> QED
      BY <1>1, <2>1, ExceptionFacts DEF ExceptionInv, ExceptionTypeOK, OneOpenException, IsOpen
  <1>6. ASSUME NEW r \in Requests PROVE TaskPlaced(r)' /\ ServePlaced(r)'
    <2>1. /\ task'[r] = task[r] /\ task[r].at = "idle" /\ task[r].op = "none" /\ ~ task[r].checking
          /\ task[r] \in Tasks
      BY <1>1 DEF ExceptionInv, ExceptionTypeOK, TaskPlaced
    <2> QED BY <2>1 DEF TaskPlaced, ServePlaced
  <1> QED BY <1>2, <1>4, <1>5, <1>6 DEF ExceptionInv

\* A change of the history that only adds to it.
LEMMA HistoryGrows ==
    ASSUME ExceptionInv, NEW r \in Requests,
           UNCHANGED <<exception, task>>,
           since'[r].active = since[r].active /\ since'[r].expired = since[r].expired,
           since'[r].activated = since[r].activated,
           since[r].bases \subseteq since'[r].bases, since[r].bound => since'[r].bound,
           task[r].op = "serve" =>
              /\ row'.version \in since'[r].bases
              /\ bound' => since'[r].bound
              /\ request'[r].at = "commit" => request'[r].row.version \in since'[r].bases
    PROVE  TaskPlaced(r)' /\ ServePlaced(r)'
  <1>1. TaskPlaced(r) /\ ServePlaced(r)
    BY DEF ExceptionInv
  <1>2. TaskPlaced(r)'
    BY <1>1 DEF TaskPlaced
  <1>3. ServePlaced(r)'
    BY <1>1 DEF ServePlaced, Served
  <1> QED BY <1>2, <1>3

LEMMA RebindKeeps == ASSUME ExceptionInv, Rebind PROVE ExceptionInv'
  <1>1. /\ bound' = ~ bound
        /\ since' = [r \in Requests |->
              IF task[r].op = "serve" THEN [since[r] EXCEPT !.bound = TRUE] ELSE since[r]]
        /\ UNCHANGED <<governance, exception, slot, due, task>>
    BY DEF Rebind
  <1>2. GovernanceInv' /\ TypeOK' /\ row' = row /\ request' = request
    BY <1>1, GovernanceStays DEF ExceptionInv, governance, GovernanceInv
  <1>3. ASSUME NEW r \in Requests
        PROVE  /\ since'[r] \in Histories
               /\ since'[r].active = since[r].active /\ since'[r].expired = since[r].expired
               /\ since'[r].activated = since[r].activated
               /\ since'[r].bases = since[r].bases
               /\ since[r].bound => since'[r].bound
               /\ task[r].op = "serve" => since'[r].bound
    <2>1. since[r] \in Histories
      BY DEF ExceptionInv, ExceptionTypeOK, Histories
    <2>2. CASE task[r].op = "serve"
      <3>1. since'[r] = [since[r] EXCEPT !.bound = TRUE]
        BY <1>1, <2>2
      <3> QED BY <2>1, <3>1 DEF Histories
    <2>3. CASE task[r].op # "serve"
      BY <1>1, <2>1, <2>3
    <2> QED BY <2>2, <2>3
  <1>4. since' \in [Requests -> Histories]
    BY <1>1, <1>3
  <1>5. ExceptionTypeOK'
    BY <1>1, <1>2, <1>4 DEF ExceptionInv, ExceptionTypeOK, Histories
  <1>6. OneOpenException'
    BY <1>1 DEF ExceptionInv, OneOpenException, IsOpen
  <1>7. ASSUME NEW r \in Requests PROVE TaskPlaced(r)' /\ ServePlaced(r)'
    <2>1. ServePlaced(r)
      BY DEF ExceptionInv
    <2> QED BY <1>1, <1>2, <1>3, <2>1, HistoryGrows DEF ServePlaced
  <1> QED BY <1>2, <1>5, <1>6, <1>7 DEF ExceptionInv

\* A request that works on the policy leaves the others alone.
LEMMA OthersStay ==
    ASSUME GovernanceInv, NEW r \in Requests, NEW s \in Requests, s # r, RequestStep(r)
    PROVE  request'[s] = request[s]
  <1>1. PICK q : request' = [request EXCEPT ![r] = q]
    <2>1. CASE \E op \in Operations : Start(r, op)
      BY <2>1 DEF Start, Reading
    <2>2. CASE View(r) \/ StartImport(r)
      BY <2>2 DEF View, Reading, StartImport
    <2>3. CASE MigrateRecord(r) \/ MigrateRow(r)
      BY <2>3 DEF MigrateRecord, MigrateRow
    <2>4. CASE ListVersions(r)
      <3>1. PICK n : request' = [request EXCEPT ![r].at = "commit", ![r].latest = n]
        BY <2>4 DEF ListVersions
      <3>2. request' = [request EXCEPT ![r] = [[request[r] EXCEPT !.at = "commit"] EXCEPT !.latest = n]]
        BY <3>1 DEF GovernanceInv, TypeOK
      <3> QED BY <3>2
    <2>5. CASE \/ \E author \in Operators : CommitDraft(r, author)
               \/ \E v \in Versions : CommitStage(r, v) \/ CommitActivate(r, v)
               \/ GiveUp(r)
      BY <2>5 DEF CommitDraft, CommitStage, CommitActivate, GiveUp, Done
    <2> QED BY <2>1, <2>2, <2>3, <2>4, <2>5 DEF RequestStep
  <1> QED BY <1>1 DEF GovernanceInv, TypeOK

\* What a request that serves the policy learns of its row is in the history.
LEMMA RowSeen ==
    ASSUME ExceptionInv, PolicyStep, NEW r \in Requests, task[r].at # "idle",
           request'[r].at = "commit"
    PROVE  request'[r] = request[r] \/ request'[r].row.version = row'.version
  <1>0. request[r] \in RequestRecords /\ request[r].row \in Rows
    BY DEF ExceptionInv, GovernanceInv, TypeOK, RequestRecords
  <1>1. ASSUME NEW s \in Requests, RequestStep(s), s # r PROVE request'[r] = request[r]
    BY <1>1, OthersStay DEF ExceptionInv
  <1>2. ASSUME MigrateRecord(r) PROVE FALSE
    <2>1. request'[r].at = "row"
      BY <1>0, <1>2 DEF MigrateRecord, ExceptionInv, GovernanceInv, TypeOK, RequestRecords
    <2> QED BY <2>1
  <1>3. ASSUME MigrateRow(r) PROVE request'[r].row.version = row'.version
    <2>1. row'.version = request[r].row.version
      BY <1>3 DEF MigrateRow, Migrated
    <2>2. request'[r] = IdleRequest
          \/ request'[r] = [request[r] EXCEPT !.at = request[r].then, !.row = Migrated(request[r].row)]
      BY <1>3 DEF MigrateRow, ExceptionInv, GovernanceInv, TypeOK
    <2>3. request'[r] # IdleRequest
      BY DEF IdleRequest
    <2>4. request'[r].row = Migrated(request[r].row)
      BY <1>0, <2>2, <2>3 DEF RequestRecords
    <2> QED BY <2>1, <2>4 DEF Migrated
  <1>4. ASSUME NEW s \in Requests, MigrateRecord(s) \/ MigrateRow(s) PROVE RequestStep(s)
    BY <1>4 DEF RequestStep
  <1>5. ASSUME CatchUp \/ \E v \in Versions : Review(v) PROVE request'[r] = request[r]
    BY <1>5 DEF CatchUp, Review, Submit, Decide
  <1> QED BY <1>1, <1>2, <1>3, <1>4, <1>5 DEF PolicyStep

LEMMA PolicyStepKeeps == ASSUME ExceptionInv, PolicyStep PROVE ExceptionInv'
  <1>1. GovernanceInv'
    <2>1. Next
      BY DEF PolicyStep, Next, RequestStep
    <2> QED BY <2>1, NextGoverns DEF ExceptionInv
  <1>2. /\ since' = [r \in Requests |->
              IF task[r].op = "serve"
              THEN [since[r] EXCEPT !.bases = @ \cup {row'.version}] ELSE since[r]]
        /\ UNCHANGED <<exception, slot, due, bound, task>>
    BY DEF PolicyStep
  <1>3. TypeOK' /\ row'.version \in 0 .. MaxVersion
    BY <1>1 DEF GovernanceInv, TypeOK, Rows
  <1>4. ASSUME NEW r \in Requests
        PROVE  /\ since'[r] \in Histories
               /\ since'[r].active = since[r].active /\ since'[r].expired = since[r].expired
               /\ since'[r].activated = since[r].activated
               /\ since'[r].bound = since[r].bound
               /\ since[r].bases \subseteq since'[r].bases
               /\ task[r].op = "serve" => row'.version \in since'[r].bases
    <2>1. since[r] \in Histories
      BY DEF ExceptionInv, ExceptionTypeOK, Histories
    <2>2. CASE task[r].op = "serve"
      <3>1. since'[r] = [since[r] EXCEPT !.bases = @ \cup {row'.version}]
        BY <1>2, <2>2
      <3> QED BY <1>3, <2>1, <3>1 DEF Histories
    <2>3. CASE task[r].op # "serve"
      BY <1>2, <2>1, <2>3
    <2> QED BY <2>2, <2>3
  <1>5. since' \in [Requests -> Histories]
    BY <1>2, <1>4
  <1>6. ExceptionTypeOK'
    BY <1>2, <1>3, <1>5 DEF ExceptionInv, ExceptionTypeOK, Histories
  <1>7. OneOpenException'
    BY <1>2 DEF ExceptionInv, OneOpenException, IsOpen
  <1>8. ASSUME NEW r \in Requests PROVE TaskPlaced(r)' /\ ServePlaced(r)'
    <2>1. ServePlaced(r) /\ (task[r].op = "serve" => task[r].at # "idle")
      BY DEF ExceptionInv, TaskPlaced
    <2>2. ASSUME task[r].op = "serve", request'[r].at = "commit"
          PROVE  request'[r].row.version \in since'[r].bases
      <3>1. CASE request'[r] = request[r]
        BY <1>4, <2>1, <2>2, <3>1 DEF ServePlaced
      <3>2. CASE request'[r].row.version = row'.version
        BY <1>4, <2>2, <3>2
      <3> QED BY <2>1, <2>2, <3>1, <3>2, RowSeen
    <2>3. task[r].op = "serve" => (bound => since[r].bound)
      BY <2>1 DEF ServePlaced
    <2>4. task[r].op = "serve" =>
             /\ row'.version \in since'[r].bases
             /\ bound' => since'[r].bound
             /\ request'[r].at = "commit" => request'[r].row.version \in since'[r].bases
      BY <1>2, <1>4, <2>2, <2>3
    <2>5. UNCHANGED <<exception, task>>
      BY <1>2
    <2> QED BY <1>4, <2>4, <2>5, HistoryGrows
  <1> QED BY <1>1, <1>6, <1>7, <1>8 DEF ExceptionInv

-----------------------------------------------------------------------------
(* The theorems *)

LEMMA ExceptionInitially == ASSUME ExceptionInit PROVE ExceptionInv
  <1>1. GovernanceInv /\ TypeOK
    BY InitGoverns DEF ExceptionInit, GovernanceInv
  <1>2. /\ exception = [e \in ExceptionIds |-> NoException]
        /\ slot = None /\ due = {} /\ bound \in BOOLEAN
        /\ task = [r \in Requests |-> NoTask]
        /\ since = [r \in Requests |-> NoSince]
    BY DEF ExceptionInit
  <1>3. ExceptionTypeOK
    BY <1>1, <1>2, ExceptionFacts DEF ExceptionTypeOK, ExceptionRecords, Histories
  <1>4. OneOpenException
    <2>1. "absent" \notin OpenStates
      BY DEF OpenStates
    <2> QED BY <1>2, <2>1, ExceptionFacts DEF OneOpenException, IsOpen
  <1>5. \A r \in Requests : TaskPlaced(r) /\ ServePlaced(r)
    BY <1>2, ExceptionFacts DEF TaskPlaced, ServePlaced
  <1> QED BY <1>1, <1>3, <1>4, <1>5 DEF ExceptionInv

LEMMA ExceptionNextKeeps ==
    ASSUME ExceptionInv, [ExceptionNext]_<<governance, exceptions>>
    PROVE  ExceptionInv'
  <1>1. ASSUME NEW r \in Requests, ExceptionStep(r) PROVE ExceptionInv'
    BY <1>1, BeginKeeps, BeginCreateKeeps, BeginServeKeeps, ReadScopeKeeps, ReadLegacyRowKeeps,
       CompareKeeps, ReadSlotKeeps, SettleKeeps, CommitCreateKeeps, CommitTransitionKeeps,
       ReturnKeeps DEF ExceptionStep
  <1>2. ASSUME UNCHANGED <<governance, exceptions>> PROVE ExceptionInv'
    <2>1. GovernanceInv' /\ TypeOK' /\ row' = row /\ request' = request
      BY <1>2, GovernanceStays DEF ExceptionInv, governance, GovernanceInv
    <2> QED
      BY <1>2, <2>1
      DEF exceptions, ExceptionInv, ExceptionTypeOK, OneOpenException, IsOpen, TaskPlaced, ServePlaced
  <1> QED
    BY <1>1, <1>2, PolicyStepKeeps, ExpireKeeps, TtlDeleteKeeps, RebindKeeps DEF ExceptionNext

THEOREM ExceptionInvariant == ExceptionSpec => []ExceptionInv
  BY ExceptionInitially, ExceptionNextKeeps, PTL DEF ExceptionSpec

\* However creations, reconciliations and activations interleave, an exception
\* that is not over is the one in the agent's slot (_create_policy_exception).
THEOREM OneExceptionOpen == ExceptionSpec => []OneOpenException
  <1>1. ExceptionInv => OneOpenException
    BY DEF ExceptionInv
  <1> QED BY <1>1, ExceptionInvariant, PTL

\* An exception that was active when its request read the slot is served only if
\* it had not expired then, and if the agent was bound to the policy, and its base
\* the policy's version, at some moment since; another one only if it was
\* activated while the request tried to end it (_reconcile_policy_exception).
THEOREM ServedInForce == ExceptionSpec => []ServedExceptionInForce
  <1>1. ExceptionInv => ServedExceptionInForce
    <2> SUFFICES ASSUME ExceptionInv, NEW r \in Requests, task[r].at = "served"
                 PROVE  task[r].op = "serve"
      BY DEF ExceptionInv, ServePlaced, Served, ServedExceptionInForce
    <2> QED BY DEF ExceptionInv, TaskPlaced
  <1> QED BY <1>1, ExceptionInvariant, PTL

\* Requests on exceptions read the policy's row beside those on the policy
\* itself; the policy's ledger still agrees with its row.
THEOREM OneVersionUnderExceptions == ExceptionSpec => [](OnePending /\ OneAuthority)
  <1>1. ExceptionInv => OnePending /\ OneAuthority
    BY Facts DEF ExceptionInv, GovernanceInv, Undisputed, OneAuthority, RowsPlaced, WellFormed, Versions
  <1> QED BY <1>1, ExceptionInvariant, PTL
=============================================================================
