---------------------------- MODULE WorkQueueProofs ----------------------------
(***************************************************************************)
(* Proofs about the components that work from a FIFO queue.                *)
(*                                                                         *)
(* WebhookDestinations and WebhookDelivery, for every number of operators, *)
(* keys, deliveries, senders, receives and mishaps: KnownKeySigns,         *)
(* AuditMatchesState and EndedIsFinal.                                     *)
(*                                                                         *)
(* EvidenceRetention, for every number of jobs, audit writes, object       *)
(* versions, periods and revisions: CoveredWhenApplied.                    *)
(***************************************************************************)
EXTENDS
    WebhookDelivery, EvidenceRetention, SequenceTheorems, WellFoundedInduction, TLAPS

(***************************************************************************)
(* The inductive invariants.                                               *)
(***************************************************************************)
DestinationShapes ==
    [status : {"absent", "active", "paused", "retired"}, revision : Nat,
     active : Keys \cup {NoKey}, previous : Keys \cup {NoKey}, overlap : BOOLEAN,
     cleaned : BOOLEAN]

Changes ==
    [at : {"idle", "create", "rotate", "respond", "delete", "clean"},
     key : Keys \cup {NoKey}, seen : DestinationShapes]

DestinationTypeOK ==
    /\ destination \in DestinationShapes
    /\ secret \in [made : SUBSET Keys, deleted : BOOLEAN]
    /\ change \in [Operators -> Changes]
    /\ disclosed \subseteq Keys \cup {NoKey}
    /\ covered \in BOOLEAN

\* Before the destination is there, only its one creation is under way.
CreatePlaced(o) ==
    change[o].at = "create" =>
        /\ destination.status = "absent"
        /\ secret.made # {}
        /\ \A p \in Operators : change[p].at = "create" => p = o

\* A rotation knows of every change of the status, by the revision it read.
RotatePlaced(o) ==
    change[o].at = "rotate" =>
        /\ destination.status # "absent"
        /\ change[o].seen.revision <= destination.revision
        /\ change[o].seen.revision = destination.revision =>
              destination.status \in {"active", "paused"}

\* What a retirement puts back is what it read, but for the end of the overlap.
RetirePlaced(o) ==
    change[o].at \in {"delete", "clean"} =>
        /\ destination.status = "retired"
        /\ change[o].seen.status = "retired"
        /\ change[o].seen.revision = destination.revision
        /\ change[o].seen.previous = destination.previous

KeysPlaced ==
    /\ destination.status # "absent" => secret.made # {}
    /\ destination.status = "absent" => ~ covered
    /\ covered => destination.previous \in disclosed

DestinationInv ==
    /\ DestinationTypeOK
    /\ KeysPlaced
    /\ \A o \in Operators : CreatePlaced(o) /\ RotatePlaced(o) /\ RetirePlaced(o)

Messages == [work : Deliveries, receives : 0 .. MaxReceives]

SenderRecords ==
    [at : {"idle", "send", "mark"}, work : Deliveries \cup {NoDelivery},
     left : SUBSET Deliveries]

WorkerRecords ==
    [at : {"idle", "load", "target", "post", "audit", "record", "finish", "raise"},
     work : Deliveries \cup {NoDelivery}, attempt : 0 .. MaxReceives,
     seen : DeliveryRecords, outcome : {"none", "retrying"} \cup Terminal, raises : BOOLEAN]

DeliveryTypeOK ==
    /\ delivery \in [Deliveries -> DeliveryRecords]
    /\ outbox \subseteq Deliveries
    /\ reached \in BOOLEAN
    /\ queue \in Seq(Messages)
    /\ recent \subseteq Deliveries
    /\ dead \subseteq Deliveries
    /\ sender \in [Senders -> SenderRecords]
    /\ worker \in WorkerRecords
    /\ audit \in [Deliveries -> {"none", "retrying"} \cup Terminal]
    /\ posts \in [Deliveries -> Nat]
    /\ mishaps \in Nat

SendersPlaced == \A s \in Senders : sender[s].at # "idle" => sender[s].work \in Deliveries

\* The message of the worker is the head of the queue, and its delivery has not
\* ended while the worker is going to put something for it.
WorkerPlaced ==
    /\ worker.at # "idle" => worker.work \in Deliveries /\ queue # <<>>
    /\ worker.at \in {"target", "post", "audit", "record"} => ~ Ended(worker.work)
    /\ worker.at = "audit" => worker.outcome \in Terminal
    /\ worker.at = "record" =>
          /\ worker.outcome \in {"retrying"} \cup Terminal
          /\ worker.outcome \in Terminal => audit[worker.work] = worker.outcome

DeliveryInv ==
    /\ DeliveryTypeOK
    /\ SendersPlaced
    /\ WorkerPlaced
    /\ AuditMatchesState

-----------------------------------------------------------------------------
(* The destination and its keys *)

LEMMA DestinationStarts == DestinationInit => DestinationInv
  <1> SUFFICES ASSUME DestinationInit PROVE DestinationInv
    OBVIOUS
  <1>2. NoDestination \in DestinationShapes
    BY DEF NoDestination, DestinationShapes
  <1>3. NoChange \in Changes /\ NoChange.at = "idle"
    BY <1>2 DEF NoChange, Changes
  <1>4. DestinationTypeOK
    BY <1>2, <1>3 DEF DestinationInit, DestinationTypeOK
  <1>5. KeysPlaced
    BY DEF DestinationInit, KeysPlaced, NoDestination
  <1>6. \A o \in Operators : CreatePlaced(o) /\ RotatePlaced(o) /\ RetirePlaced(o)
    BY <1>3 DEF DestinationInit, CreatePlaced, RotatePlaced, RetirePlaced
  <1> QED BY <1>4, <1>5, <1>6 DEF DestinationInv

LEMMA CreatedShape ==
    ASSUME NEW k \in Keys \cup {NoKey}
    PROVE  /\ Created(k) \in DestinationShapes
           /\ Created(k).status = "active" /\ Created(k).revision = 1
           /\ Created(k).overlap = FALSE
  <1>1. ASSUME NEW d \in DestinationShapes, d.overlap = FALSE,
               NEW e, e = [d EXCEPT !.status = "active", !.revision = 1, !.active = k]
        PROVE  /\ e \in DestinationShapes
               /\ e.status = "active" /\ e.revision = 1 /\ e.overlap = FALSE
    BY <1>1 DEF DestinationShapes
  <1>2. NoDestination \in DestinationShapes /\ NoDestination.overlap = FALSE
    BY DEF NoDestination, DestinationShapes
  <1>3. Created(k) = [NoDestination EXCEPT !.status = "active", !.revision = 1, !.active = k]
    BY Zenon DEF Created
  <1> QED BY <1>1, <1>2, <1>3

\* One request goes on; what a step leaves alone stays placed.
LEMMA ChangeContinues ==
    ASSUME DestinationInv, NEW o \in Operators, NEW c \in Changes, Continue(o, c)
    PROVE  /\ change' \in [Operators -> Changes]
           /\ change'[o] = c
           /\ \A p \in Operators : p # o => change'[p] = change[p]
  BY DEF DestinationInv, DestinationTypeOK, Continue

LEMMA KeyIsMade ==
    ASSUME DestinationInv, NEW o \in Operators, NEW k \in Keys, NEW at \in {"create", "rotate"},
           MakeKey(o, k, at), UNCHANGED <<destination, disclosed, covered>>,
           at = "create" => secret.made = {},
           at = "rotate" => destination.status \in {"active", "paused"}
    PROVE  DestinationInv'
  <1> PICK c : c = [at |-> at, key |-> k, seen |-> destination]
    OBVIOUS
  <1>1. c \in Changes /\ c.at = at /\ c.seen = destination
    BY DEF Changes, DestinationInv, DestinationTypeOK
  <1>2. /\ change' \in [Operators -> Changes]
        /\ change'[o] = c
        /\ \A p \in Operators : p # o => change'[p] = change[p]
    BY <1>1, ChangeContinues DEF MakeKey
  <1>3. /\ secret' \in [made : SUBSET Keys, deleted : BOOLEAN]
        /\ secret'.made = secret.made \cup {k}
    BY DEF MakeKey, DestinationInv, DestinationTypeOK
  <1>4. DestinationTypeOK'
    BY <1>2, <1>3 DEF DestinationInv, DestinationTypeOK
  <1>5. KeysPlaced'
    BY <1>3 DEF DestinationInv, KeysPlaced
  <1>6. destination.revision \in Nat
    BY DEF DestinationInv, DestinationTypeOK, DestinationShapes
  <1>7. ASSUME NEW p \in Operators PROVE (CreatePlaced(p) /\ RotatePlaced(p) /\ RetirePlaced(p))'
    <2>1. CASE p = o
      <3>1. RotatePlaced(p)'
        BY <1>1, <1>2, <1>6, <2>1 DEF RotatePlaced
      <3>2. RetirePlaced(p)'
        BY <1>1, <1>2, <2>1 DEF RetirePlaced
      <3>3. CreatePlaced(p)'
        <4>1. SUFFICES ASSUME at = "create" PROVE CreatePlaced(p)'
          BY <1>1, <1>2, <2>1 DEF CreatePlaced
        <4>2. destination.status = "absent" /\ secret.made = {}
          BY <4>1 DEF DestinationInv, KeysPlaced
        <4>3. \A q \in Operators : change[q].at # "create"
          BY <4>2 DEF DestinationInv, CreatePlaced
        <4> QED BY <1>2, <1>3, <2>1, <4>2, <4>3 DEF CreatePlaced
      <3> QED BY <3>1, <3>2, <3>3
    <2>2. CASE p # o
      <3>1. change'[p] = change[p]
        BY <1>2, <2>2
      <3>2. RotatePlaced(p)' /\ RetirePlaced(p)'
        BY <3>1 DEF DestinationInv, RotatePlaced, RetirePlaced
      <3>3. CreatePlaced(p)'
        <4>1. SUFFICES ASSUME change[p].at = "create" PROVE CreatePlaced(p)'
          BY <3>1 DEF CreatePlaced
        <4>2. destination.status = "absent" /\ secret.made # {}
              /\ \A q \in Operators : change[q].at = "create" => q = p
          BY <4>1 DEF DestinationInv, CreatePlaced
        <4>3. at = "rotate"
          BY <4>2
        <4>4. \A q \in Operators : change'[q].at = "create" => q = p
          BY <1>1, <1>2, <4>2, <4>3
        <4> QED BY <1>3, <4>2, <4>4 DEF CreatePlaced
      <3> QED BY <3>2, <3>3
    <2> QED BY <2>1, <2>2
  <1> QED BY <1>4, <1>5, <1>7 DEF DestinationInv

\* A request goes on, to none of the steps that are placed, and changes no record.
LEMMA RequestMovesOn ==
    ASSUME DestinationInv, NEW o \in Operators, NEW c \in Changes, Continue(o, c),
           c.at \in {"idle", "respond"}
           \/ /\ c.at \in {"delete", "clean"}
              /\ destination.status = "retired"
              /\ c.seen.status = "retired"
              /\ c.seen.revision = destination.revision
              /\ c.seen.previous = destination.previous,
           UNCHANGED <<destination, covered>>,
           secret' \in [made : SUBSET Keys, deleted : BOOLEAN], secret'.made = secret.made,
           disclosed \subseteq disclosed', disclosed' \subseteq Keys \cup {NoKey}
    PROVE  DestinationInv'
  <1>2. /\ change' \in [Operators -> Changes]
        /\ change'[o] = c
        /\ \A p \in Operators : p # o => change'[p] = change[p]
    BY ChangeContinues
  <1>4. DestinationTypeOK'
    BY <1>2 DEF DestinationInv, DestinationTypeOK
  <1>5. KeysPlaced'
    BY DEF DestinationInv, KeysPlaced
  <1>7. ASSUME NEW p \in Operators PROVE (CreatePlaced(p) /\ RotatePlaced(p) /\ RetirePlaced(p))'
    <2>1. CASE p = o
      BY <1>2, <2>1 DEF CreatePlaced, RotatePlaced, RetirePlaced
    <2>2. CASE p # o
      <3>1. change'[p] = change[p]
        BY <1>2, <2>2
      <3>2. RotatePlaced(p)' /\ RetirePlaced(p)'
        BY <3>1 DEF DestinationInv, RotatePlaced, RetirePlaced
      <3>3. \A q \in Operators : change'[q].at = "create" => change[q].at = "create"
        BY <1>2
      <3>4. CreatePlaced(p)'
        BY <3>1, <3>3 DEF DestinationInv, CreatePlaced
      <3> QED BY <3>2, <3>4
    <2> QED BY <2>1, <2>2
  <1> QED BY <1>4, <1>5, <1>7 DEF DestinationInv

LEMMA NothingChanges == NoChange \in Changes /\ NoChange.at = "idle"
  <1>1. NoDestination \in DestinationShapes
    BY DEF NoDestination, DestinationShapes
  <1> QED BY <1>1 DEF NoChange, Changes

LEMMA CreateKeeps ==
    ASSUME DestinationInv, NEW o \in Operators, change[o].at = "create",
           NEW c \in Changes, c.at \in {"idle", "respond"}, Continue(o, c),
           destination' \in {destination, Created(change[o].key)},
           secret' \in [made : SUBSET Keys, deleted : BOOLEAN], secret'.made = secret.made,
           UNCHANGED <<disclosed, covered>>
    PROVE  DestinationInv'
  <1>1. /\ change' \in [Operators -> Changes]
        /\ change'[o] = c
        /\ \A p \in Operators : p # o => change'[p] = change[p]
    BY ChangeContinues
  <1>2. change[o].key \in Keys \cup {NoKey}
    BY DEF DestinationInv, DestinationTypeOK, Changes
  <1>3. /\ Created(change[o].key) \in DestinationShapes
        /\ Created(change[o].key).status = "active" /\ Created(change[o].key).revision = 1
    BY <1>2, CreatedShape
  <1>4. /\ destination.status = "absent"
        /\ secret.made # {}
        /\ \A p \in Operators : change[p].at = "create" => p = o
    BY DEF DestinationInv, CreatePlaced
  <1>5. ~ covered
    BY <1>4 DEF DestinationInv, KeysPlaced
  <1>6. DestinationTypeOK'
    <2>1. destination' \in DestinationShapes
      BY <1>3 DEF DestinationInv, DestinationTypeOK
    <2> QED BY <1>1, <2>1 DEF DestinationInv, DestinationTypeOK
  <1>7. KeysPlaced'
    BY <1>4, <1>5 DEF KeysPlaced
  <1>8. ASSUME NEW p \in Operators PROVE (CreatePlaced(p) /\ RotatePlaced(p) /\ RetirePlaced(p))'
    <2>1. change'[p].at # "create"
      BY <1>1, <1>4
    <2>2. CASE p = o
      BY <1>1, <2>2 DEF CreatePlaced, RotatePlaced, RetirePlaced
    <2>3. CASE p # o
      <3>1. change'[p] = change[p]
        BY <1>1, <2>3
      <3>2. change[p].at \notin {"rotate", "delete", "clean"}
        BY <1>4 DEF DestinationInv, RotatePlaced, RetirePlaced
      <3> QED BY <2>1, <3>1, <3>2 DEF CreatePlaced, RotatePlaced, RetirePlaced
    <2> QED BY <2>2, <2>3
  <1> QED BY <1>6, <1>7, <1>8 DEF DestinationInv

\* An overlap ends: it is in no condition, and in the record of no request.
LEMMA OverlapEnds == DestinationInv /\ EndOverlap => DestinationInv'
  <1> SUFFICES ASSUME DestinationInv, EndOverlap PROVE DestinationInv'
    OBVIOUS
  <1>1. /\ destination' \in DestinationShapes
        /\ destination'.status = destination.status
        /\ destination'.revision = destination.revision
        /\ destination'.previous = destination.previous
    BY DEF EndOverlap, DestinationInv, DestinationTypeOK, DestinationShapes
  <1>2. UNCHANGED <<secret, change, disclosed, covered>>
    BY DEF EndOverlap
  <1>3. DestinationTypeOK'
    BY <1>1, <1>2 DEF DestinationInv, DestinationTypeOK
  <1>4. KeysPlaced'
    BY <1>1, <1>2 DEF DestinationInv, KeysPlaced
  <1>5. \A o \in Operators : (CreatePlaced(o) /\ RotatePlaced(o) /\ RetirePlaced(o))'
    BY <1>1, <1>2 DEF DestinationInv, CreatePlaced, RotatePlaced, RetirePlaced
  <1> QED BY <1>3, <1>4, <1>5 DEF DestinationInv

\* An active or paused destination moves on to its next revision.
LEMMA RecordMovesOn ==
    ASSUME DestinationInv, destination.status \in {"active", "paused"},
           destination' \in DestinationShapes,
           destination'.status \in {"active", "paused", "retired"},
           destination'.revision = destination.revision + 1,
           NEW o \in Operators, NEW c \in Changes, Continue(o, c),
           \/ c.at \in {"idle", "respond"}
           \/ c.at = "delete" /\ c.seen = destination' /\ destination'.status = "retired",
           UNCHANGED <<secret, disclosed>>,
           covered' \in BOOLEAN, covered' => destination'.previous \in disclosed
    PROVE  DestinationInv'
  <1>1. /\ change' \in [Operators -> Changes]
        /\ change'[o] = c
        /\ \A p \in Operators : p # o => change'[p] = change[p]
    BY ChangeContinues
  <1>2. DestinationTypeOK'
    BY <1>1 DEF DestinationInv, DestinationTypeOK
  <1>3. KeysPlaced'
    BY DEF DestinationInv, KeysPlaced
  <1>4. ASSUME NEW p \in Operators PROVE (CreatePlaced(p) /\ RotatePlaced(p) /\ RetirePlaced(p))'
    <2>1. CASE p = o
      BY <1>1, <2>1 DEF CreatePlaced, RotatePlaced, RetirePlaced
    <2>2. CASE p # o
      <3>1. change'[p] = change[p]
        BY <1>1, <2>2
      <3>2. change[p].at \notin {"create", "delete", "clean"}
        BY DEF DestinationInv, CreatePlaced, RetirePlaced
      <3>3. ASSUME change[p].at = "rotate"
            PROVE  /\ change[p].seen.revision <= destination'.revision
                   /\ change[p].seen.revision # destination'.revision
        <4>1. change[p].seen.revision \in Nat /\ destination.revision \in Nat
          BY DEF DestinationInv, DestinationTypeOK, Changes, DestinationShapes
        <4>2. change[p].seen.revision <= destination.revision
          BY <3>3 DEF DestinationInv, RotatePlaced
        <4> QED BY <4>1, <4>2
      <3> QED BY <3>1, <3>2, <3>3 DEF CreatePlaced, RotatePlaced, RetirePlaced
    <2> QED BY <2>1, <2>2
  <1> QED BY <1>2, <1>3, <1>4 DEF DestinationInv

LEMMA RotateKeeps ==
    ASSUME DestinationInv, NEW o \in Operators, CommitRotate(o)
    PROVE  DestinationInv'
  <1> PICK c : c = [change[o] EXCEPT !.at = "respond"]
    OBVIOUS
  <1>1. c \in Changes /\ c.at = "respond" /\ Continue(o, c)
    BY DEF CommitRotate, DestinationInv, DestinationTypeOK, Changes
  <1>2. destination.status \in {"active", "paused"}
    BY DEF CommitRotate, Current, DestinationInv, RotatePlaced
  <1>3. destination.active \in Keys \cup {NoKey} /\ destination.previous \in Keys \cup {NoKey}
        /\ change[o].key \in Keys \cup {NoKey} /\ destination.revision + 1 \in Nat
    BY DEF DestinationInv, DestinationTypeOK, Changes, DestinationShapes
  <1> PICK q : q = IF destination.overlap THEN destination.previous ELSE destination.active
    OBVIOUS
  <1>4. destination' = [destination EXCEPT !.revision = @ + 1, !.active = change[o].key,
                                           !.previous = q, !.overlap = TRUE]
    BY DEF CommitRotate
  <1>5. /\ destination' \in DestinationShapes
        /\ destination'.status = destination.status
        /\ destination'.revision = destination.revision + 1
        /\ destination'.previous = q
    BY <1>3, <1>4 DEF DestinationInv, DestinationTypeOK, DestinationShapes
  <1>6. covered' = IF destination.overlap THEN covered ELSE destination.active \in disclosed
    BY DEF CommitRotate
  <1>7. covered' \in BOOLEAN
    <2>1. covered \in BOOLEAN /\ (destination.active \in disclosed) \in BOOLEAN
      BY DEF DestinationInv, DestinationTypeOK
    <2> QED BY <1>6, <2>1, Zenon
  <1>8. covered' => destination'.previous \in disclosed
    BY <1>5, <1>6 DEF DestinationInv, KeysPlaced
  <1>9. UNCHANGED <<secret, disclosed>>
    BY DEF CommitRotate
  <1> QED BY <1>1, <1>2, <1>5, <1>7, <1>8, <1>9, RecordMovesOn

LEMMA StatusKeeps ==
    ASSUME DestinationInv, NEW o \in Operators, NEW status \in {"active", "paused", "retired"},
           SetStatus(o, status)
    PROVE  DestinationInv'
  <1>1. /\ destination' \in DestinationShapes
        /\ destination'.status = status
        /\ destination'.revision = destination.revision + 1
        /\ destination'.previous = destination.previous
    <2>1. destination' = [destination EXCEPT !.status = status, !.revision = destination.revision + 1]
      BY DEF SetStatus
    <2>2. destination \in DestinationShapes /\ destination.revision + 1 \in Nat
      BY DEF DestinationInv, DestinationTypeOK, DestinationShapes
    <2> PICK s : s = [destination EXCEPT !.status = status]
      OBVIOUS
    <2>3. s \in DestinationShapes
      BY <2>2 DEF DestinationShapes
    <2>4. s.status = status /\ s.previous = destination.previous /\ s.revision = destination.revision
      BY <2>2 DEF DestinationShapes
    <2>5. destination' = [s EXCEPT !.revision = destination.revision + 1]
      BY <2>1
    <2>6. destination' \in DestinationShapes
      BY <2>2, <2>3, <2>5 DEF DestinationShapes
    <2>7. /\ destination'.status = s.status
          /\ destination'.revision = destination.revision + 1
          /\ destination'.previous = s.previous
      BY <2>2, <2>3, <2>5 DEF DestinationShapes
    <2> QED BY <2>4, <2>6, <2>7
  <1> PICK c : c = IF status = "retired"
                   THEN [NoChange EXCEPT !.at = "delete", !.seen = destination'] ELSE NoChange
    OBVIOUS
  <1>2. ASSUME NEW n \in Changes, NEW e, e = [n EXCEPT !.at = "delete", !.seen = destination']
        PROVE  e \in Changes /\ e.at = "delete" /\ e.seen = destination'
    BY <1>1, <1>2 DEF Changes
  <1>3. /\ c \in Changes
        /\ \/ c.at \in {"idle", "respond"}
           \/ c.at = "delete" /\ c.seen = destination' /\ destination'.status = "retired"
    BY <1>1, <1>2, NothingChanges
  <1>4. Continue(o, c)
    BY DEF SetStatus
  <1>5. covered' \in BOOLEAN /\ (covered' => destination'.previous \in disclosed)
    BY <1>1 DEF SetStatus, DestinationInv, DestinationTypeOK, KeysPlaced
  <1>6. UNCHANGED <<secret, disclosed>> /\ destination.status \in {"active", "paused"}
    BY DEF SetStatus
  <1> QED BY <1>1, <1>3, <1>4, <1>5, <1>6, RecordMovesOn

\* A retirement puts back the record it read.
LEMMA CleanedKeeps ==
    ASSUME DestinationInv, NEW o \in Operators, MarkCleaned(o)
    PROVE  DestinationInv'
  <1>1. Continue(o, NoChange) /\ NoChange \in Changes /\ NoChange.at = "idle"
    BY NothingChanges DEF MarkCleaned
  <1>2. /\ change' \in [Operators -> Changes]
        /\ change'[o] = NoChange
        /\ \A p \in Operators : p # o => change'[p] = change[p]
    BY <1>1, ChangeContinues
  <1>3. /\ destination.status = "retired"
        /\ change[o].seen.status = "retired"
        /\ change[o].seen.revision = destination.revision
        /\ change[o].seen.previous = destination.previous
        /\ change[o].seen \in DestinationShapes
    BY DEF MarkCleaned, DestinationInv, DestinationTypeOK, Changes, RetirePlaced
  <1>4. /\ destination' \in DestinationShapes
        /\ destination'.status = destination.status
        /\ destination'.revision = destination.revision
        /\ destination'.previous = destination.previous
    BY <1>3 DEF MarkCleaned, DestinationShapes
  <1>5. UNCHANGED <<secret, disclosed, covered>>
    BY DEF MarkCleaned
  <1>6. DestinationTypeOK'
    BY <1>2, <1>4, <1>5 DEF DestinationInv, DestinationTypeOK
  <1>7. KeysPlaced'
    BY <1>4, <1>5 DEF DestinationInv, KeysPlaced
  <1>8. ASSUME NEW p \in Operators PROVE (CreatePlaced(p) /\ RotatePlaced(p) /\ RetirePlaced(p))'
    <2>1. CASE p = o
      BY <1>1, <1>2, <2>1 DEF CreatePlaced, RotatePlaced, RetirePlaced
    <2>2. CASE p # o
      <3>1. change'[p] = change[p]
        BY <1>2, <2>2
      <3>2. change[p].at # "create"
        BY <1>3 DEF DestinationInv, CreatePlaced
      <3> QED BY <1>4, <3>1, <3>2 DEF DestinationInv, CreatePlaced, RotatePlaced, RetirePlaced
    <2> QED BY <2>1, <2>2
  <1> QED BY <1>6, <1>7, <1>8 DEF DestinationInv

LEMMA DestinationKeeps == DestinationInv /\ [DestinationNext]_destinations => DestinationInv'
  <1> SUFFICES ASSUME DestinationInv, [DestinationNext]_destinations PROVE DestinationInv'
    OBVIOUS
  <1>1. CASE UNCHANGED destinations
    BY <1>1 DEF destinations, DestinationInv, DestinationTypeOK, KeysPlaced, CreatePlaced,
                RotatePlaced, RetirePlaced
  <1>2. CASE EndOverlap
    BY <1>2, OverlapEnds
  <1>3. ASSUME NEW o \in Operators, NEW k \in Keys, BeginCreate(o, k) PROVE DestinationInv'
    BY <1>3, KeyIsMade DEF BeginCreate
  <1>4. ASSUME NEW o \in Operators, NEW k \in Keys, BeginRotate(o, k) PROVE DestinationInv'
    BY <1>4, KeyIsMade DEF BeginRotate
  <1>5. ASSUME NEW o \in Operators, CommitCreate(o) PROVE DestinationInv'
    <2> PICK c : c = [change[o] EXCEPT !.at = "respond"]
      OBVIOUS
    <2>1. c \in Changes /\ c.at \in {"idle", "respond"} /\ Continue(o, c)
      BY <1>5 DEF CommitCreate, DestinationInv, DestinationTypeOK, Changes
    <2>2. secret' \in [made : SUBSET Keys, deleted : BOOLEAN] /\ secret'.made = secret.made
      BY <1>5 DEF CommitCreate, DestinationInv, DestinationTypeOK
    <2>3. /\ change[o].at = "create" /\ UNCHANGED <<disclosed, covered>>
          /\ destination' \in {destination, Created(change[o].key)}
      BY <1>5 DEF CommitCreate
    <2> QED BY <2>1, <2>2, <2>3, CreateKeeps
  <1>6. ASSUME NEW o \in Operators, AbandonCreate(o) PROVE DestinationInv'
    <2>1. NoChange \in Changes /\ NoChange.at \in {"idle", "respond"} /\ Continue(o, NoChange)
      BY <1>6, NothingChanges DEF AbandonCreate
    <2>2. secret' \in [made : SUBSET Keys, deleted : BOOLEAN] /\ secret'.made = secret.made
      BY <1>6 DEF AbandonCreate, DestinationInv, DestinationTypeOK
    <2>3. /\ change[o].at = "create" /\ UNCHANGED <<disclosed, covered>>
          /\ destination' \in {destination, Created(change[o].key)}
      BY <1>6 DEF AbandonCreate
    <2> QED BY <2>1, <2>2, <2>3, CreateKeeps
  <1>7. ASSUME NEW o \in Operators, CommitRotate(o) PROVE DestinationInv'
    BY <1>7, RotateKeeps
  <1>8. ASSUME NEW o \in Operators, Disclose(o) PROVE DestinationInv'
    <2>1. disclosed \subseteq disclosed' /\ disclosed' \subseteq Keys \cup {NoKey}
      BY <1>8 DEF Disclose, DestinationInv, DestinationTypeOK, Changes
    <2>2. secret' \in [made : SUBSET Keys, deleted : BOOLEAN] /\ secret'.made = secret.made
      BY <1>8 DEF Disclose, DestinationInv, DestinationTypeOK
    <2> QED BY <1>8, <2>1, <2>2, NothingChanges, RequestMovesOn DEF Disclose
  <1>9. ASSUME NEW o \in Operators, NEW status \in {"active", "paused", "retired"},
               SetStatus(o, status)
        PROVE  DestinationInv'
    BY <1>9, StatusKeeps
  <1>10. ASSUME NEW o \in Operators, RetireAgain(o) PROVE DestinationInv'
    <2> PICK c : c = [NoChange EXCEPT !.at = "delete", !.seen = destination]
      OBVIOUS
    <2>1. ASSUME NEW n \in Changes, NEW e, e = [n EXCEPT !.at = "delete", !.seen = destination]
          PROVE  e \in Changes /\ e.at = "delete" /\ e.seen = destination
      BY <2>1 DEF Changes, DestinationInv, DestinationTypeOK
    <2>2. c \in Changes /\ c.at = "delete" /\ c.seen = destination
      BY <2>1, NothingChanges
    <2>3. Continue(o, c) /\ destination.status = "retired" /\ UNCHANGED <<destination, covered>>
      BY <1>10 DEF RetireAgain
    <2>4. secret' \in [made : SUBSET Keys, deleted : BOOLEAN] /\ secret'.made = secret.made
          /\ disclosed \subseteq disclosed' /\ disclosed' \subseteq Keys \cup {NoKey}
      BY <1>10 DEF RetireAgain, DestinationInv, DestinationTypeOK
    <2> QED BY <2>2, <2>3, <2>4, RequestMovesOn
  <1>11. ASSUME NEW o \in Operators, DeleteSecret(o) PROVE DestinationInv'
    <2> PICK c : c = [change[o] EXCEPT !.at = "clean"]
      OBVIOUS
    <2>1. c \in Changes /\ c.at = "clean" /\ c.seen = change[o].seen
      BY DEF DestinationInv, DestinationTypeOK, Changes
    <2>2. Continue(o, c) /\ UNCHANGED <<destination, covered>> /\ change[o].at = "delete"
      BY <1>11 DEF DeleteSecret
    <2>3. RetirePlaced(o)
      BY DEF DestinationInv
    <2>4. /\ destination.status = "retired"
          /\ c.seen.status = "retired"
          /\ c.seen.revision = destination.revision
          /\ c.seen.previous = destination.previous
      BY <2>1, <2>2, <2>3 DEF RetirePlaced
    <2>5. secret' \in [made : SUBSET Keys, deleted : BOOLEAN] /\ secret'.made = secret.made
          /\ disclosed \subseteq disclosed' /\ disclosed' \subseteq Keys \cup {NoKey}
      BY <1>11 DEF DeleteSecret, DestinationInv, DestinationTypeOK
    <2> QED BY <2>1, <2>2, <2>4, <2>5, RequestMovesOn
  <1>12. ASSUME NEW o \in Operators, MarkCleaned(o) PROVE DestinationInv'
    BY <1>12, CleanedKeeps
  <1>13. ASSUME NEW o \in Operators, EndChange(o) PROVE DestinationInv'
    <2>1. secret' \in [made : SUBSET Keys, deleted : BOOLEAN] /\ secret'.made = secret.made
          /\ disclosed \subseteq disclosed' /\ disclosed' \subseteq Keys \cup {NoKey}
      BY <1>13 DEF EndChange, DestinationInv, DestinationTypeOK
    <2> QED BY <1>13, <2>1, NothingChanges, RequestMovesOn DEF EndChange
  <1> QED BY <1>1, <1>2, <1>3, <1>4, <1>5, <1>6, <1>7, <1>8, <1>9, <1>10, <1>11, <1>12, <1>13
         DEF DestinationNext

-----------------------------------------------------------------------------
(* The queue *)

LEMMA SentStays ==
    ASSUME NEW q \in Seq(Messages), NEW r, NEW d \in Deliveries
    PROVE  Sent(q, r, d) \in Seq(Messages) /\ (q # <<>> => Sent(q, r, d) # <<>>)
  <1>1. [work |-> d, receives |-> 0] \in Messages
    BY QueueAssumption DEF Messages
  <1>2. /\ Append(q, [work |-> d, receives |-> 0]) \in Seq(Messages)
        /\ Append(q, [work |-> d, receives |-> 0]) # <<>>
    BY <1>1
  <1> QED BY <1>2 DEF Sent

LEMMA ReceivedStays ==
    ASSUME NEW q \in Seq(Messages), q # <<>>, ~ Exhausted(q)
    PROVE  /\ Received(q) \in Seq(Messages)
           /\ Received(q) # <<>>
           /\ Head(q).work \in Deliveries
           /\ Head(Received(q)).receives \in 0 .. MaxReceives
  <1>1. Len(q) \in Nat \ {0} /\ 1 \in 1 .. Len(q) /\ Head(q) = q[1]
    BY EmptySeq
  <1>2. q[1] \in Messages
    BY <1>1
  <1>3. q[1].receives \in 0 .. MaxReceives /\ q[1].receives # MaxReceives /\ q[1].work \in Deliveries
    BY <1>1, <1>2 DEF Messages, Exhausted
  <1>4. q[1].receives + 1 \in 0 .. MaxReceives
    BY <1>3, QueueAssumption
  <1> PICK m : m = [q[1] EXCEPT !.receives = @ + 1]
    OBVIOUS
  <1>5. m \in Messages /\ m.receives \in 0 .. MaxReceives
    BY <1>2, <1>4 DEF Messages
  <1>6. Received(q) = [q EXCEPT ![1] = m]
    BY Zenon DEF Received
  <1>7. /\ [q EXCEPT ![1] = m] \in Seq(Messages)
        /\ Len([q EXCEPT ![1] = m]) = Len(q)
        /\ [q EXCEPT ![1] = m][1] = m
    BY <1>1, <1>5
  <1>8. Received(q) # <<>> /\ Head(Received(q)) = m
    BY <1>1, <1>6, <1>7
  <1> QED BY <1>1, <1>3, <1>5, <1>6, <1>7, <1>8

LEMMA ReturnedStays ==
    ASSUME NEW q \in Seq(Messages), q # <<>>
    PROVE  Tail(q) \in Seq(Messages) /\ Returned(q) \in Seq(Messages)
  BY DEF Returned

-----------------------------------------------------------------------------
(* The deliveries *)

LEMMA DeliveryStarts == DeliveryInit => DeliveryInv
  <1> SUFFICES ASSUME DeliveryInit PROVE DeliveryInv
    OBVIOUS
  <1>1. NoRecord \in DeliveryRecords /\ NoRecord.status = "absent"
    BY QueueAssumption DEF NoRecord, DeliveryRecords
  <1>2. IdleWorker \in WorkerRecords /\ IdleWorker.at = "idle"
    BY <1>1, QueueAssumption DEF IdleWorker, WorkerRecords
  <1>3. IdleSender \in SenderRecords /\ IdleSender.at = "idle"
    BY DEF IdleSender, SenderRecords
  <1>4. DeliveryTypeOK
    BY <1>1, <1>2, <1>3 DEF DeliveryInit, DeliveryTypeOK
  <1>5. SendersPlaced /\ WorkerPlaced
    BY <1>2, <1>3 DEF DeliveryInit, SendersPlaced, WorkerPlaced
  <1>6. AuditMatchesState
    BY <1>1 DEF DeliveryInit, AuditMatchesState, Ended, Terminal
  <1> QED BY <1>4, <1>5, <1>6 DEF DeliveryInv

\* What a step does to no delivery that has ended.
EndedStay ==
    \A d \in Deliveries : Ended(d) => delivery'[d] = delivery[d] /\ posts'[d] = posts[d]

\* A step of a sender or of the environment.
LEMMA SendersMove ==
    ASSUME DeliveryInv,
           delivery' \in [Deliveries -> DeliveryRecords],
           \A d \in Deliveries :
               \/ delivery'[d] = delivery[d]
               \/ delivery[d].status \notin Terminal /\ delivery'[d].status \notin Terminal,
           UNCHANGED <<worker, audit, posts, dead>>,
           outbox' \subseteq Deliveries, reached' \in BOOLEAN, recent' \subseteq Deliveries,
           queue' \in Seq(Messages), queue # <<>> => queue' # <<>>,
           sender' \in [Senders -> SenderRecords], SendersPlaced', mishaps' \in Nat
    PROVE  DeliveryInv' /\ EndedStay
  <1>1. DeliveryTypeOK'
    BY DEF DeliveryInv, DeliveryTypeOK
  <1>2. \A d \in Deliveries : Ended(d)' <=> Ended(d)
    BY DEF Ended
  <1>3. WorkerPlaced'
    <2>1. WorkerPlaced /\ worker' = worker /\ audit' = audit
      BY DEF DeliveryInv
    <2>2. worker.at \in {"target", "post", "audit", "record"} => ~ Ended(worker.work)'
      BY <1>2, <2>1 DEF WorkerPlaced
    <2>3. worker.at # "idle" => worker.work \in Deliveries /\ queue' # <<>>
      BY <2>1 DEF WorkerPlaced
    <2> QED BY <2>1, <2>2, <2>3 DEF WorkerPlaced
  <1>4. AuditMatchesState'
    BY <1>2 DEF DeliveryInv, AuditMatchesState, Ended
  <1>5. EndedStay
    BY DEF EndedStay, Ended
  <1> QED BY <1>1, <1>3, <1>4, <1>5 DEF DeliveryInv

\* One sender goes on, about a delivery.
LEMMA SenderContinues ==
    ASSUME DeliveryInv, NEW s \in Senders, NEW r \in SenderRecords,
           r.at # "idle" => r.work \in Deliveries,
           sender' = [sender EXCEPT ![s] = r]
    PROVE  sender' \in [Senders -> SenderRecords] /\ SendersPlaced'
  BY DEF DeliveryInv, DeliveryTypeOK, SendersPlaced

\* A sender begins to dispatch one entry, with the others left.
LEMMA SenderBegins ==
    ASSUME DeliveryInv, NEW s \in Senders, NEW d \in Deliveries, NEW left \in SUBSET Deliveries,
           sender' = [sender EXCEPT ![s] = Sending(d, left)]
    PROVE  sender' \in [Senders -> SenderRecords] /\ SendersPlaced'
  <1>1. Sending(d, left) \in SenderRecords /\ Sending(d, left).work = d
    BY DEF Sending, SenderRecords
  <1> QED BY <1>1, SenderContinues

\* A sender turns to its next entry, or is done.
LEMMA SenderGoesOn ==
    ASSUME DeliveryInv, NEW s \in Senders, GoOn(s)
    PROVE  sender' \in [Senders -> SenderRecords] /\ SendersPlaced'
  <1>1. CASE sender' = [sender EXCEPT ![s] = IdleSender]
    <2>1. IdleSender \in SenderRecords /\ IdleSender.at = "idle"
      BY DEF IdleSender, SenderRecords
    <2> QED BY <1>1, <2>1, SenderContinues
  <1>2. ASSUME NEW d \in sender[s].left,
               sender' = [sender EXCEPT ![s] = Sending(d, sender[s].left \ {d})]
        PROVE  sender' \in [Senders -> SenderRecords] /\ SendersPlaced'
    <2>1. sender[s].left \in SUBSET Deliveries
      BY DEF DeliveryInv, DeliveryTypeOK, SenderRecords
    <2>2. d \in Deliveries /\ sender[s].left \ {d} \in SUBSET Deliveries
      BY <2>1
    <2> QED BY <1>2, <2>2, SenderBegins
  <1> QED BY <1>1, <1>2 DEF GoOn

\* What the queue has once a sender has sent its message.
LEMMA SubmitKeeps ==
    ASSUME DeliveryInv, NEW s \in Senders, sender[s].at # "idle", Submit(s)
    PROVE  /\ queue' \in Seq(Messages) /\ (queue # <<>> => queue' # <<>>)
           /\ recent' \subseteq Deliveries
  <1>1. sender[s].work \in Deliveries /\ queue \in Seq(Messages) /\ recent \subseteq Deliveries
    BY DEF DeliveryInv, DeliveryTypeOK, SendersPlaced
  <1>2. queue' \in Seq(Messages) /\ (queue # <<>> => queue' # <<>>)
    BY <1>1, SentStays DEF Submit
  <1> QED BY <1>1, <1>2 DEF Submit

\* A step of the worker that puts nothing.
LEMMA WorkerMoves ==
    ASSUME DeliveryInv, worker' \in WorkerRecords, queue' \in Seq(Messages), WorkerPlaced',
           UNCHANGED <<delivery, audit, sender, outbox, reached, recent>>,
           dead' \subseteq Deliveries, mishaps' \in Nat, posts' \in [Deliveries -> Nat],
           \A d \in Deliveries : Ended(d) => posts'[d] = posts[d]
    PROVE  DeliveryInv' /\ EndedStay
  <1>1. DeliveryTypeOK'
    BY DEF DeliveryInv, DeliveryTypeOK
  <1>2. SendersPlaced' /\ AuditMatchesState'
    BY DEF DeliveryInv, SendersPlaced, AuditMatchesState, Ended
  <1>3. EndedStay
    BY DEF EndedStay
  <1> QED BY <1>1, <1>2, <1>3 DEF DeliveryInv

LEMMA EnqueueKeeps ==
    ASSUME DeliveryInv, NEW s \in Senders, NEW d \in Deliveries, Enqueue(s, d)
    PROVE  DeliveryInv' /\ EndedStay
  <1> PICK n : n = [NoRecord EXCEPT !.status = "pending", !.indexed = TRUE]
    OBVIOUS
  <1>1. NoRecord \in DeliveryRecords
    BY QueueAssumption DEF NoRecord, DeliveryRecords
  <1>2. n \in DeliveryRecords /\ n.status = "pending"
    <2>1. ASSUME NEW r \in DeliveryRecords, NEW e, e = [r EXCEPT !.status = "pending", !.indexed = TRUE]
          PROVE  e \in DeliveryRecords /\ e.status = "pending"
      BY <2>1 DEF DeliveryRecords
    <2> QED BY <1>1, <2>1
  <1>3. delivery' = [delivery EXCEPT ![d] = n] /\ delivery[d].status = "absent"
    BY DEF Enqueue
  <1>4. delivery' \in [Deliveries -> DeliveryRecords]
    BY <1>2, <1>3 DEF DeliveryInv, DeliveryTypeOK
  <1>5. \A e \in Deliveries :
            \/ delivery'[e] = delivery[e]
            \/ delivery[e].status \notin Terminal /\ delivery'[e].status \notin Terminal
    BY <1>2, <1>3 DEF Terminal, DeliveryInv, DeliveryTypeOK
  <1>6. sender' \in [Senders -> SenderRecords] /\ SendersPlaced'
    <2>1. sender' = [sender EXCEPT ![s] = Sending(d, {})]
      BY DEF Enqueue
    <2>2. {} \in SUBSET Deliveries
      OBVIOUS
    <2> QED BY <2>1, <2>2, SenderBegins
  <1>7. /\ UNCHANGED <<worker, audit, posts, dead>>
        /\ outbox' \subseteq Deliveries /\ reached' \in BOOLEAN /\ recent' \subseteq Deliveries
        /\ queue' \in Seq(Messages) /\ (queue # <<>> => queue' # <<>>)
        /\ mishaps' \in Nat
    BY DEF Enqueue, DeliveryInv, DeliveryTypeOK
  <1> QED BY <1>4, <1>5, <1>6, <1>7, SendersMove

LEMMA MarkKeeps ==
    ASSUME DeliveryInv, NEW s \in Senders, MarkQueued(s)
    PROVE  DeliveryInv' /\ EndedStay
  <1> PICK d : d = sender[s].work
    OBVIOUS
  <1> PICK n : n = [NoRecord EXCEPT !.status = "queued"]
    OBVIOUS
  <1>1. NoRecord \in DeliveryRecords
    BY QueueAssumption DEF NoRecord, DeliveryRecords
  <1>2. n \in DeliveryRecords /\ n.status = "queued"
    BY <1>1 DEF DeliveryRecords
  <1>3. delivery' = IF delivery[d].status = "pending" THEN [delivery EXCEPT ![d] = n] ELSE delivery
    BY DEF MarkQueued
  <1>4. delivery' \in [Deliveries -> DeliveryRecords]
    BY <1>2, <1>3 DEF DeliveryInv, DeliveryTypeOK
  <1>5. \A e \in Deliveries :
            \/ delivery'[e] = delivery[e]
            \/ delivery[e].status \notin Terminal /\ delivery'[e].status \notin Terminal
    BY <1>2, <1>3 DEF Terminal, DeliveryInv, DeliveryTypeOK
  <1>6. sender' \in [Senders -> SenderRecords] /\ SendersPlaced'
    BY SenderGoesOn DEF MarkQueued
  <1>7. /\ UNCHANGED <<worker, audit, posts, dead>>
        /\ outbox' \subseteq Deliveries /\ reached' \in BOOLEAN /\ recent' \subseteq Deliveries
        /\ queue' \in Seq(Messages) /\ (queue # <<>> => queue' # <<>>)
        /\ mishaps' \in Nat
    BY DEF MarkQueued, DeliveryInv, DeliveryTypeOK
  <1> QED BY <1>4, <1>5, <1>6, <1>7, SendersMove

\* A step of a sender or of the environment that leaves the items alone.
LEMMA SendersMeanwhile ==
    ASSUME DeliveryInv, UNCHANGED <<delivery, worker, audit, posts, dead>>,
           outbox' \subseteq Deliveries, reached' \in BOOLEAN, recent' \subseteq Deliveries,
           queue' \in Seq(Messages), queue # <<>> => queue' # <<>>,
           sender' \in [Senders -> SenderRecords], SendersPlaced', mishaps' \in Nat
    PROVE  DeliveryInv' /\ EndedStay
  <1>1. delivery' \in [Deliveries -> DeliveryRecords]
        /\ \A d \in Deliveries : delivery'[d] = delivery[d]
    BY DEF DeliveryInv, DeliveryTypeOK
  <1> QED BY <1>1, SendersMove

\* What the worker's steps have in common, when they put nothing and keep the queue.
LEMMA WorkerThinks ==
    ASSUME DeliveryInv, worker.at # "idle",
           UNCHANGED <<delivery, outbox, reached, queue, recent, dead, sender, audit, posts, mishaps>>,
           NEW w \in WorkerRecords, worker' = w, w.work = worker.work,
           w.at \in {"target", "post", "audit", "record"} => ~ Ended(worker.work),
           w.at = "audit" => w.outcome \in Terminal,
           w.at = "record" => w.outcome = "retrying"
    PROVE  DeliveryInv' /\ EndedStay
  <1>1. worker.work \in Deliveries /\ queue # <<>>
    BY DEF DeliveryInv, WorkerPlaced
  <1>2. w.at \in {"target", "post", "audit", "record"} => ~ Ended(worker.work)'
    BY DEF Ended
  <1>3. WorkerPlaced'
    BY <1>1 DEF WorkerPlaced, Ended, Terminal
  <1>4. queue' \in Seq(Messages) /\ dead' \subseteq Deliveries /\ mishaps' \in Nat
        /\ posts' \in [Deliveries -> Nat] /\ \A d \in Deliveries : Ended(d) => posts'[d] = posts[d]
    BY DEF DeliveryInv, DeliveryTypeOK
  <1> QED BY <1>3, <1>4, WorkerMoves

LEMMA FailingPlaced ==
    ASSUME NEW w \in WorkerRecords
    PROVE  /\ Failing(w) \in WorkerRecords /\ Failing(w).work = w.work
           /\ \/ Failing(w).at = "audit" /\ Failing(w).outcome = "failed"
              \/ Failing(w).at = "record" /\ Failing(w).outcome = "retrying"
  <1>1. ASSUME NEW at \in {"audit", "record"}, NEW outcome \in {"failed", "retrying"},
               NEW e, e = [w EXCEPT !.at = at, !.outcome = outcome, !.raises = TRUE]
        PROVE  /\ e \in WorkerRecords /\ e.work = w.work
               /\ e.at = at /\ e.outcome = outcome
    BY <1>1 DEF WorkerRecords, Terminal
  <1>2. CASE w.attempt = MaxReceives
    <2>1. Failing(w) = [w EXCEPT !.at = "audit", !.outcome = "failed", !.raises = TRUE]
      BY <1>2, Zenon DEF Failing
    <2> QED BY <1>1, <2>1
  <1>3. CASE w.attempt # MaxReceives
    <2>1. Failing(w) = [w EXCEPT !.at = "record", !.outcome = "retrying", !.raises = TRUE]
      BY <1>3, Zenon DEF Failing
    <2> QED BY <1>1, <2>1
  <1> QED BY <1>2, <1>3

\* A final outcome is decided.
Decided(w, outcome) == [w EXCEPT !.at = "audit", !.outcome = outcome]

LEMMA DecidedPlaced ==
    ASSUME NEW w \in WorkerRecords, NEW outcome \in Terminal
    PROVE  /\ Decided(w, outcome) \in WorkerRecords /\ Decided(w, outcome).work = w.work
           /\ Decided(w, outcome).at = "audit" /\ Decided(w, outcome).outcome = outcome
  BY DEF WorkerRecords, Terminal, Decided

LEMMA ReceiveKeeps == DeliveryInv /\ Receive => DeliveryInv' /\ EndedStay
  <1> SUFFICES ASSUME DeliveryInv, Receive PROVE DeliveryInv' /\ EndedStay
    OBVIOUS
  <1>1. queue \in Seq(Messages) /\ queue # <<>> /\ ~ Exhausted(queue) /\ queue' = Received(queue)
    BY DEF Receive, DeliveryInv, DeliveryTypeOK
  <1>2. /\ queue' \in Seq(Messages)
        /\ queue' # <<>>
        /\ Head(queue).work \in Deliveries
        /\ Head(queue').receives \in 0 .. MaxReceives
    BY <1>1, ReceivedStays
  <1>3. NoRecord \in DeliveryRecords
    BY QueueAssumption DEF NoRecord, DeliveryRecords
  <1>4. IdleWorker \in WorkerRecords
    BY <1>3, QueueAssumption DEF IdleWorker, WorkerRecords
  <1> PICK d : d = Head(queue).work
    OBVIOUS
  <1> PICK n : n = Head(queue').receives
    OBVIOUS
  <1>5. ASSUME NEW w \in WorkerRecords, NEW e, e = [w EXCEPT !.at = "load", !.work = d, !.attempt = n]
        PROVE  e \in WorkerRecords /\ e.at = "load" /\ e.work = d
    BY <1>2, <1>5 DEF WorkerRecords
  <1>6. worker' = [IdleWorker EXCEPT !.at = "load", !.work = d, !.attempt = n]
    BY Zenon DEF Receive
  <1>7. worker' \in WorkerRecords /\ worker'.at = "load" /\ worker'.work \in Deliveries
    BY <1>2, <1>4, <1>5, <1>6
  <1>8. WorkerPlaced'
    BY <1>2, <1>7 DEF WorkerPlaced
  <1>9. /\ UNCHANGED <<delivery, audit, sender, outbox, reached, recent>>
        /\ dead' \subseteq Deliveries /\ mishaps' \in Nat /\ posts' \in [Deliveries -> Nat]
        /\ \A e \in Deliveries : Ended(e) => posts'[e] = posts[e]
    BY DEF Receive, DeliveryInv, DeliveryTypeOK
  <1> QED BY <1>2, <1>7, <1>8, <1>9, WorkerMoves

LEMMA LoadKeeps == DeliveryInv /\ Load => DeliveryInv' /\ EndedStay
  <1> SUFFICES ASSUME DeliveryInv, Load PROVE DeliveryInv' /\ EndedStay
    OBVIOUS
  <1> PICK item : item = delivery[worker.work]
    OBVIOUS
  <1>1. /\ worker \in WorkerRecords /\ worker.at = "load"
        /\ UNCHANGED <<delivery, outbox, reached, queue, recent, dead, sender, audit, posts, mishaps>>
    BY DEF Load, DeliveryInv, DeliveryTypeOK
  <1>2. item \in DeliveryRecords
    BY <1>1 DEF DeliveryInv, DeliveryTypeOK, WorkerPlaced
  <1>3. CASE item.status \in Terminal
    <2>1. worker' = [worker EXCEPT !.at = "finish"]
      BY <1>3 DEF Load
    <2>2. worker' \in WorkerRecords /\ worker'.at = "finish" /\ worker'.work = worker.work
      BY <1>1, <2>1 DEF WorkerRecords
    <2> QED BY <1>1, <2>2, WorkerThinks
  <1>4. CASE item.status \notin Terminal
    <2>1. worker' = [worker EXCEPT !.at = "target", !.seen = item]
      BY <1>4 DEF Load
    <2>2. ASSUME NEW w \in WorkerRecords, NEW e, e = [w EXCEPT !.at = "target", !.seen = item]
          PROVE  e \in WorkerRecords /\ e.at = "target" /\ e.work = w.work
      BY <1>2, <2>2 DEF WorkerRecords
    <2>3. worker' \in WorkerRecords /\ worker'.at = "target" /\ worker'.work = worker.work
      BY <1>1, <2>1, <2>2
    <2>4. ~ Ended(worker.work)
      BY <1>4 DEF Ended
    <2> QED BY <1>1, <2>3, <2>4, WorkerThinks
  <1> QED BY <1>3, <1>4

LEMMA ReadTargetKeeps == DeliveryInv /\ ReadTarget => DeliveryInv' /\ EndedStay
  <1> SUFFICES ASSUME DeliveryInv, ReadTarget PROVE DeliveryInv' /\ EndedStay
    OBVIOUS
  <1>1. /\ worker \in WorkerRecords /\ worker.at = "target"
        /\ UNCHANGED <<delivery, outbox, reached, queue, recent, dead, sender, audit, posts, mishaps>>
    BY DEF ReadTarget, DeliveryInv, DeliveryTypeOK
  <1>2. ~ Ended(worker.work)
    BY <1>1 DEF DeliveryInv, WorkerPlaced
  <1>3. CASE destination.status # "active"
    <2>1. worker' = Decided(worker, "failed")
      BY <1>3, Zenon DEF ReadTarget, Decided
    <2>2. "failed" \in Terminal
      BY DEF Terminal
    <2>3. worker' \in WorkerRecords /\ worker'.at = "audit" /\ worker'.work = worker.work
          /\ worker'.outcome \in Terminal
      BY <1>1, <2>1, <2>2, DecidedPlaced
    <2> QED BY <1>1, <1>2, <2>3, WorkerThinks
  <1>4. CASE destination.status = "active" /\ secret.deleted
    <2>1. worker' = Failing(worker)
      BY <1>4 DEF ReadTarget
    <2>2. /\ worker' \in WorkerRecords /\ worker'.work = worker.work
          /\ \/ worker'.at = "audit" /\ worker'.outcome = "failed"
             \/ worker'.at = "record" /\ worker'.outcome = "retrying"
      BY <1>1, <2>1, FailingPlaced
    <2>3. /\ worker'.at = "audit" => worker'.outcome \in Terminal
          /\ worker'.at = "record" => worker'.outcome = "retrying"
          /\ worker'.at # "post"
      BY <2>2 DEF Terminal
    <2> QED BY <1>1, <1>2, <2>2, <2>3, WorkerThinks
  <1>5. CASE destination.status = "active" /\ ~ secret.deleted
    <2>1. worker' = [worker EXCEPT !.at = "post"]
      BY <1>5 DEF ReadTarget
    <2>2. worker' \in WorkerRecords /\ worker'.at = "post" /\ worker'.work = worker.work
      BY <1>1, <2>1 DEF WorkerRecords
    <2> QED BY <1>1, <1>2, <2>2, WorkerThinks
  <1> QED BY <1>3, <1>4, <1>5

LEMMA PostKeeps == DeliveryInv /\ Post => DeliveryInv' /\ EndedStay
  <1> SUFFICES ASSUME DeliveryInv, Post PROVE DeliveryInv' /\ EndedStay
    OBVIOUS
  <1>1. /\ worker \in WorkerRecords /\ worker.at = "post"
        /\ UNCHANGED <<delivery, outbox, reached, queue, recent, dead, sender, audit, mishaps>>
        /\ posts' = [posts EXCEPT ![worker.work] = @ + 1]
    BY DEF Post, Posted, DeliveryInv, DeliveryTypeOK
  <1>2. worker.work \in Deliveries /\ queue # <<>> /\ ~ Ended(worker.work)
    BY <1>1 DEF DeliveryInv, WorkerPlaced
  <1>3. /\ worker' \in WorkerRecords /\ worker'.work = worker.work
        /\ \/ worker'.at = "audit" /\ worker'.outcome \in Terminal
           \/ worker'.at = "record" /\ worker'.outcome = "retrying"
    <2>1. CASE worker' = Failing(worker)
      BY <1>1, <2>1, FailingPlaced DEF Terminal
    <2>2. CASE worker' = Decided(worker, "delivered")
      <3>1. "delivered" \in Terminal
        BY DEF Terminal
      <3> QED BY <1>1, <2>2, <3>1, DecidedPlaced
    <2>3. worker' = Failing(worker) \/ worker' = Decided(worker, "delivered")
      BY Zenon DEF Post, Posted, Decided
    <2> QED BY <2>1, <2>2, <2>3
  <1>4. WorkerPlaced'
    BY <1>1, <1>2, <1>3 DEF WorkerPlaced, Ended, Terminal
  <1>5. /\ posts' \in [Deliveries -> Nat]
        /\ \A d \in Deliveries : Ended(d) => posts'[d] = posts[d]
    BY <1>1, <1>2 DEF DeliveryInv, DeliveryTypeOK
  <1>6. queue' \in Seq(Messages) /\ dead' \subseteq Deliveries /\ mishaps' \in Nat
    BY <1>1 DEF DeliveryInv, DeliveryTypeOK
  <1> QED BY <1>1, <1>3, <1>4, <1>5, <1>6, WorkerMoves

\* The audit is put while the delivery has not ended.
LEMMA WriteAuditKeeps == DeliveryInv /\ WriteAudit => DeliveryInv' /\ EndedStay
  <1> SUFFICES ASSUME DeliveryInv, WriteAudit PROVE DeliveryInv' /\ EndedStay
    OBVIOUS
  <1>1. /\ worker \in WorkerRecords /\ worker.at = "audit"
        /\ UNCHANGED <<delivery, outbox, reached, queue, recent, dead, sender, posts, mishaps>>
        /\ audit' = [audit EXCEPT ![worker.work] = worker.outcome]
        /\ worker' = [worker EXCEPT !.at = "record"]
    BY DEF WriteAudit, DeliveryInv, DeliveryTypeOK
  <1>2. worker.work \in Deliveries /\ queue # <<>> /\ ~ Ended(worker.work)
        /\ worker.outcome \in Terminal
    BY <1>1 DEF DeliveryInv, WorkerPlaced
  <1>3. /\ worker' \in WorkerRecords /\ worker'.at = "record"
        /\ worker'.work = worker.work /\ worker'.outcome = worker.outcome
    BY <1>1 DEF WorkerRecords
  <1>4. /\ audit' \in [Deliveries -> {"none", "retrying"} \cup Terminal]
        /\ audit'[worker.work] = worker.outcome
        /\ \A d \in Deliveries : d # worker.work => audit'[d] = audit[d]
    BY <1>1, <1>2 DEF DeliveryInv, DeliveryTypeOK
  <1>5. DeliveryTypeOK'
    BY <1>1, <1>3, <1>4 DEF DeliveryInv, DeliveryTypeOK
  <1>6. SendersPlaced'
    BY <1>1 DEF DeliveryInv, SendersPlaced
  <1>7. WorkerPlaced'
    BY <1>1, <1>2, <1>3, <1>4 DEF WorkerPlaced, Ended
  <1>8. AuditMatchesState'
    BY <1>1, <1>2, <1>4 DEF DeliveryInv, AuditMatchesState, Ended
  <1>9. EndedStay
    BY <1>1 DEF EndedStay
  <1> QED BY <1>5, <1>6, <1>7, <1>8, <1>9 DEF DeliveryInv

\* A final outcome is recorded after its audit, of a delivery that has not ended.
LEMMA RecordKeeps == DeliveryInv /\ Record => DeliveryInv' /\ EndedStay
  <1> SUFFICES ASSUME DeliveryInv, Record PROVE DeliveryInv' /\ EndedStay
    OBVIOUS
  <1> PICK d : d = worker.work
    OBVIOUS
  <1> PICK n : n = [status |-> worker.outcome, attempts |-> worker.attempt, indexed |-> FALSE]
    OBVIOUS
  <1>1. /\ worker \in WorkerRecords /\ worker.at = "record"
        /\ UNCHANGED <<outbox, reached, queue, recent, dead, sender, audit, posts, mishaps>>
    BY DEF Record, DeliveryInv, DeliveryTypeOK
  <1>2. /\ d \in Deliveries /\ queue # <<>> /\ ~ Ended(d)
        /\ worker.outcome \in {"retrying"} \cup Terminal
        /\ worker.outcome \in Terminal => audit[d] = worker.outcome
    BY <1>1 DEF DeliveryInv, WorkerPlaced
  <1>3. n \in DeliveryRecords /\ n.status = worker.outcome
    BY <1>1, <1>2 DEF DeliveryRecords, WorkerRecords
  <1>4. delivery' \in {delivery, [delivery EXCEPT ![d] = n]}
    BY DEF Record
  <1>5. /\ delivery' \in [Deliveries -> DeliveryRecords]
        /\ \A e \in Deliveries : e # d => delivery'[e] = delivery[e]
        /\ delivery'[d] = delivery[d] \/ delivery'[d].status = worker.outcome
    <2>1. delivery \in [Deliveries -> DeliveryRecords]
      BY DEF DeliveryInv, DeliveryTypeOK
    <2>2. CASE delivery' = delivery
      BY <2>1, <2>2
    <2>3. CASE delivery' = [delivery EXCEPT ![d] = n]
      <3>1. delivery' \in [Deliveries -> DeliveryRecords] /\ delivery'[d] = n
        BY <1>2, <1>3, <2>1, <2>3
      <3>2. \A e \in Deliveries : e # d => delivery'[e] = delivery[e]
        BY <2>1, <2>3
      <3> QED BY <1>3, <3>1, <3>2
    <2> QED BY <1>4, <2>2, <2>3
  <1>6. \E at \in {"finish", "raise"} : worker' = [worker EXCEPT !.at = at]
    BY DEF Record
  <1>7. /\ worker' \in WorkerRecords /\ worker'.at \in {"finish", "raise"}
        /\ worker'.work = d
    BY <1>1, <1>6 DEF WorkerRecords
  <1>8. DeliveryTypeOK'
    BY <1>1, <1>5, <1>7 DEF DeliveryInv, DeliveryTypeOK
  <1>9. SendersPlaced' /\ WorkerPlaced'
    BY <1>1, <1>2, <1>7 DEF DeliveryInv, SendersPlaced, WorkerPlaced
  <1>10. AuditMatchesState'
    BY <1>1, <1>2, <1>5 DEF DeliveryInv, AuditMatchesState, Ended
  <1>11. EndedStay
    BY <1>1, <1>2, <1>5 DEF EndedStay
  <1> QED BY <1>8, <1>9, <1>10, <1>11 DEF DeliveryInv

LEMMA WorkerRests ==
    ASSUME DeliveryInv, worker' = IdleWorker, queue' \in Seq(Messages),
           UNCHANGED <<delivery, audit, sender, outbox, reached, recent, posts>>,
           dead' \subseteq Deliveries, mishaps' \in Nat
    PROVE  DeliveryInv' /\ EndedStay
  <1>1. NoRecord \in DeliveryRecords
    BY QueueAssumption DEF NoRecord, DeliveryRecords
  <1>2. worker' \in WorkerRecords /\ worker'.at = "idle"
    BY <1>1, QueueAssumption DEF IdleWorker, WorkerRecords
  <1>3. WorkerPlaced'
    BY <1>2 DEF WorkerPlaced
  <1>4. posts' \in [Deliveries -> Nat] /\ \A d \in Deliveries : Ended(d) => posts'[d] = posts[d]
    BY DEF DeliveryInv, DeliveryTypeOK
  <1> QED BY <1>2, <1>3, <1>4, WorkerMoves

LEMMA GiveBackKeeps ==
    ASSUME DeliveryInv, worker.at # "idle", GiveBack, mishaps' \in Nat
    PROVE  DeliveryInv' /\ EndedStay
  <1>1. queue \in Seq(Messages) /\ queue # <<>> /\ worker.work \in Deliveries
    BY DEF DeliveryInv, DeliveryTypeOK, WorkerPlaced
  <1>2. queue' \in Seq(Messages)
    BY <1>1, ReturnedStays DEF GiveBack
  <1>3. dead' \subseteq Deliveries
    BY <1>1 DEF GiveBack, DeliveryInv, DeliveryTypeOK
  <1> QED BY <1>2, <1>3, WorkerRests DEF GiveBack

LEMMA DeliveryKeeps == DeliveryInv /\ [DeliveryNext]_deliveries => DeliveryInv' /\ EndedStay
  <1> SUFFICES ASSUME DeliveryInv, [DeliveryNext]_deliveries PROVE DeliveryInv' /\ EndedStay
    OBVIOUS
  <1>0. DeliveryTypeOK
    BY DEF DeliveryInv
  <1>1. CASE UNCHANGED deliveries
    <2>1. UNCHANGED <<delivery, outbox, reached, queue, recent, dead, sender, worker, audit, posts, mishaps>>
      BY <1>1 DEF deliveries
    <2>2. SendersPlaced'
      BY <2>1 DEF DeliveryInv, SendersPlaced
    <2> QED BY <1>0, <2>1, <2>2, SendersMeanwhile DEF DeliveryTypeOK
  <1>2. CASE RefreshIndex
    <2>1. /\ outbox' \subseteq Deliveries
          /\ UNCHANGED <<delivery, reached, queue, recent, dead, sender, worker, audit, posts, mishaps>>
      BY <1>2 DEF RefreshIndex
    <2>2. SendersPlaced'
      BY <2>1 DEF DeliveryInv, SendersPlaced
    <2> QED BY <1>0, <2>1, <2>2, SendersMeanwhile DEF DeliveryTypeOK
  <1>3. ASSUME NEW s \in Senders, NEW d \in Deliveries, Enqueue(s, d)
        PROVE  DeliveryInv' /\ EndedStay
    BY <1>3, EnqueueKeeps
  <1>4. ASSUME NEW s \in Senders, Cycle(s) PROVE DeliveryInv' /\ EndedStay
    <2>1. PICK d \in outbox : sender' = [sender EXCEPT ![s] = Sending(d, outbox \ {d})]
      BY <1>4 DEF Cycle
    <2>2. d \in Deliveries /\ outbox \ {d} \in SUBSET Deliveries
      BY <1>0 DEF DeliveryTypeOK
    <2>3. sender' \in [Senders -> SenderRecords] /\ SendersPlaced'
      BY <2>1, <2>2, SenderBegins
    <2>4. UNCHANGED <<delivery, outbox, reached, queue, recent, dead, worker, audit, posts, mishaps>>
      BY <1>4 DEF Cycle
    <2> QED BY <1>0, <2>3, <2>4, SendersMeanwhile DEF DeliveryTypeOK
  <1>5. ASSUME NEW s \in Senders, Send(s) PROVE DeliveryInv' /\ EndedStay
    <2>1. sender[s] \in SenderRecords /\ sender[s].work \in Deliveries /\ sender[s].at # "idle"
      BY <1>5 DEF Send, DeliveryInv, DeliveryTypeOK, SendersPlaced
    <2> PICK r : r = [sender[s] EXCEPT !.at = "mark"]
      OBVIOUS
    <2>2. r \in SenderRecords /\ r.work \in Deliveries /\ sender' = [sender EXCEPT ![s] = r]
      BY <1>5, <2>1 DEF SenderRecords, Send
    <2>3. sender' \in [Senders -> SenderRecords] /\ SendersPlaced'
      BY <2>2, SenderContinues
    <2>4. /\ queue' \in Seq(Messages) /\ (queue # <<>> => queue' # <<>>)
          /\ recent' \subseteq Deliveries
      BY <1>5, <2>1, SubmitKeeps DEF Send
    <2>5. UNCHANGED <<delivery, outbox, reached, dead, worker, audit, posts, mishaps>>
      BY <1>5 DEF Send
    <2> QED BY <1>0, <2>3, <2>4, <2>5, SendersMeanwhile DEF DeliveryTypeOK
  <1>6. ASSUME NEW s \in Senders, MarkQueued(s) PROVE DeliveryInv' /\ EndedStay
    BY <1>6, MarkKeeps
  <1>7. ASSUME NEW s \in Senders, SenderStops(s) PROVE DeliveryInv' /\ EndedStay
    <2>1. IdleSender \in SenderRecords /\ IdleSender.at = "idle"
      BY DEF IdleSender, SenderRecords
    <2>2. sender' \in [Senders -> SenderRecords] /\ SendersPlaced'
      BY <1>7, <2>1, SenderContinues DEF SenderStops
    <2>3. /\ UNCHANGED <<delivery, outbox, reached, queue, recent, dead, worker, audit, posts>>
          /\ mishaps' \in Nat
      BY <1>0, <1>7 DEF SenderStops, Mishap, DeliveryTypeOK
    <2> QED BY <1>0, <2>2, <2>3, SendersMeanwhile DEF DeliveryTypeOK
  <1>8. ASSUME NEW s \in Senders, DispatchFails(s) PROVE DeliveryInv' /\ EndedStay
    <2>1. sender' \in [Senders -> SenderRecords] /\ SendersPlaced'
      BY <1>8, SenderGoesOn DEF DispatchFails
    <2>2. /\ queue' \in Seq(Messages) /\ (queue # <<>> => queue' # <<>>)
          /\ recent' \subseteq Deliveries
      BY <1>0, <1>8, SubmitKeeps DEF DispatchFails, DeliveryTypeOK
    <2>3. /\ UNCHANGED <<delivery, outbox, reached, dead, worker, audit, posts>>
          /\ mishaps' \in Nat
      BY <1>0, <1>8 DEF DispatchFails, Mishap, DeliveryTypeOK
    <2> QED BY <1>0, <2>1, <2>2, <2>3, SendersMeanwhile DEF DeliveryTypeOK
  <1>9. CASE ReachChanges
    <2>1. /\ reached' \in BOOLEAN
          /\ UNCHANGED <<delivery, outbox, queue, recent, dead, sender, worker, audit, posts, mishaps>>
      BY <1>9 DEF ReachChanges
    <2>2. SendersPlaced'
      BY <2>1 DEF DeliveryInv, SendersPlaced
    <2> QED BY <1>0, <2>1, <2>2, SendersMeanwhile DEF DeliveryTypeOK
  <1>10. ASSUME NEW d \in Deliveries, ForgetId(d) PROVE DeliveryInv' /\ EndedStay
    <2>1. /\ UNCHANGED <<delivery, outbox, reached, queue, dead, sender, worker, audit, posts>>
          /\ recent' \subseteq Deliveries /\ mishaps' \in Nat
      BY <1>0, <1>10 DEF ForgetId, Mishap, DeliveryTypeOK
    <2>2. SendersPlaced'
      BY <2>1 DEF DeliveryInv, SendersPlaced
    <2> QED BY <1>0, <2>1, <2>2, SendersMeanwhile DEF DeliveryTypeOK
  <1>11. CASE WorkerStep
    <2>1. CASE Finish
      <3>1. queue \in Seq(Messages) /\ queue # <<>>
        BY <2>1 DEF Finish, DeliveryInv, DeliveryTypeOK, WorkerPlaced
      <3>2. queue' \in Seq(Messages)
        BY <2>1, <3>1, ReturnedStays DEF Finish
      <3> QED BY <1>0, <2>1, <3>2, WorkerRests DEF Finish, DeliveryTypeOK
    <2>2. CASE Raise
      BY <1>0, <2>2, GiveBackKeeps DEF Raise, DeliveryTypeOK
    <2> QED BY <1>11, <2>1, <2>2, ReceiveKeeps, LoadKeeps, ReadTargetKeeps, PostKeeps,
               WriteAuditKeeps, RecordKeeps DEF WorkerStep
  <1>12. CASE WorkerStops
    <2>1. mishaps' \in Nat /\ worker.at # "idle" /\ GiveBack
      BY <1>0, <1>12 DEF WorkerStops, Mishap, DeliveryTypeOK
    <2> QED BY <2>1, GiveBackKeeps
  <1> QED BY <1>1, <1>2, <1>3, <1>4, <1>5, <1>6, <1>7, <1>10, <1>11, <1>12, <1>8,
            <1>9 DEF DeliveryNext, SenderStep

-----------------------------------------------------------------------------
(* The theorems *)

\* The deliveries only read the destination.
LEMMA DeliveriesOnlyRead == DeliveryNext => UNCHANGED destinations
  <1>1. RefreshIndex \/ ReachChanges => UNCHANGED destinations
    BY DEF RefreshIndex, ReachChanges
  <1>2. ASSUME NEW s \in Senders
        PROVE SenderStep(s) \/ DispatchFails(s) \/ SenderStops(s) => UNCHANGED destinations
    BY DEF SenderStep, Enqueue, Cycle, Send, MarkQueued, DispatchFails, SenderStops
  <1>3. WorkerStep => UNCHANGED destinations
    BY DEF WorkerStep, Receive, Load, ReadTarget, Post, Posted, WriteAudit, Record, Finish, Raise,
           GiveBack
  <1>4. WorkerStops => UNCHANGED destinations
    BY DEF WorkerStops, GiveBack
  <1>5. ASSUME NEW d \in Deliveries PROVE ForgetId(d) => UNCHANGED destinations
    BY DEF ForgetId
  <1> QED BY <1>1, <1>2, <1>3, <1>4, <1>5 DEF DeliveryNext

LEMMA WebhookKeeps ==
    DestinationInv /\ DeliveryInv /\ [WebhookNext]_<<destinations, deliveries>>
        => DestinationInv' /\ DeliveryInv' /\ EndedStay
  <1> SUFFICES ASSUME DestinationInv, DeliveryInv, [WebhookNext]_<<destinations, deliveries>>
               PROVE  DestinationInv' /\ DeliveryInv' /\ EndedStay
    OBVIOUS
  <1>1. [DestinationNext]_destinations /\ [DeliveryNext]_deliveries
    BY DeliveriesOnlyRead DEF WebhookNext
  <1> QED BY <1>1, DestinationKeeps, DeliveryKeeps

\* A destination's records, requests and secret, and its deliveries, messages,
\* worker and audits keep their types and their places (_create_webhook_destination
\* and the other requests, _enqueue_webhook_delivery, webhook_worker.py).
THEOREM WebhookInvariant == WebhookSpec => [](DestinationInv /\ DeliveryInv)
  <1>1. WebhookInit => DestinationInv /\ DeliveryInv
    BY DestinationStarts, DeliveryStarts DEF WebhookInit
  <1>2. DestinationInv /\ DeliveryInv /\ [WebhookNext]_<<destinations, deliveries>>
            => (DestinationInv /\ DeliveryInv)'
    BY WebhookKeeps
  <1> QED BY <1>1, <1>2, PTL DEF WebhookSpec

\* Through any sequence of rotations, lost responses and retirements, a receiver
\* that had the key in use as the overlap began has one of the keys that sign
\* (_rotate_webhook_destination).
THEOREM AKnownKeySigns == WebhookSpec => []KnownKeySigns
  <1>1. DestinationInv => KnownKeySigns
    BY DEF DestinationInv, KeysPlaced, KnownKeySigns
  <1> QED BY <1>1, WebhookInvariant, PTL

\* The immutable audit of an ended delivery tells the outcome its item has, however
\* often its message was received and its worker stopped (_terminal_attempt).
THEOREM AuditsMatch == WebhookSpec => []AuditMatchesState
  <1>1. DeliveryInv => AuditMatchesState
    BY DEF DeliveryInv
  <1> QED BY <1>1, WebhookInvariant, PTL

\* No message received again, stale index entry or late put changes an ended
\* delivery or posts its event again (the conditional puts of the outbox and of
\* webhook_worker.py).
THEOREM EndsAreFinal == WebhookSpec => EndedIsFinal
  <1>1. DestinationInv /\ DeliveryInv /\ [WebhookNext]_<<destinations, deliveries>>
            => [\A d \in Deliveries :
                   Ended(d) => delivery'[d] = delivery[d] /\ posts'[d] = posts[d]]_deliveries
    BY WebhookKeeps DEF EndedStay
  <1> QED BY <1>1, WebhookInvariant, PTL DEF WebhookSpec, EndedIsFinal

(***************************************************************************)
(*                            EVIDENCE RETENTION                           *)
(***************************************************************************)
RetentionSpec == RetentionInit /\ [][RetentionNext]_retention

(***************************************************************************)
(* The inductive invariant.                                                *)
(***************************************************************************)
Versions == [held : 0 .. MaxDays, after : SUBSET Jobs, aware : BOOLEAN]

PolicyStatuses == {"applying", "applied", "failed"}
Policies ==
    [revision : Nat, days : Days, status : PolicyStatuses, job : Jobs \cup {NoJob}]

JobStatuses == {"absent", "settling", "queued", "completed", "failed"}
JobRecords ==
    [status : JobStatuses, revision : Nat, policy : Nat, target : Days, due : BOOLEAN,
     marker : Nat]

Writes == [at : {"idle", "put"}, days : Days, revision : Nat]

Updates ==
    [at : {"idle", "extend", "commit"}, revision : Nat, days : Days,
     records : SUBSET Positions]

\* Messages of a queue about work of S.
Letters(S) == [work : S, receives : 0 .. MaxReceives]

JobWorkers ==
    [at : {"idle", "load", "extend", "commit", "complete", "send", "fail", "finish"},
     expected : Nat, seen : JobRecords, page : Nat]

RetentionTypeOK ==
    /\ policy \in Policies
    /\ job \in [Jobs -> JobRecords]
    /\ version \in [Positions -> Versions]
    /\ writer \in [Writers -> Writes]
    /\ update \in Updates
    /\ jobQueue \in [Jobs -> Seq(Letters(Nat))]
    /\ jobRecent \in [Jobs -> SUBSET Nat]
    /\ jobWorker \in [Jobs -> JobWorkers]
    /\ lapses \in Nat

WorkerHasMessage == \A j \in Jobs : jobWorker[j].at # "idle" => jobQueue[j] # <<>>

\* What job j still has to do with the version at p, or has done.
Covered(j, p) == version[p].held = 0 \/ j \in version[p].after \/ version[p].held >= job[j].target

\* The policy has come at least as far as every job.
JobsBehindPolicy ==
    \A j \in Jobs :
        /\ job[j].status # "absent" => job[j].policy <= policy.revision /\ job[j].target <= policy.days
        /\ job[j].status = "absent" => job[j] = NoJobRecord
        /\ ~ job[j].due => job[j].marker = 0
        /\ job[j].due => job[j].status # "absent"
        /\ job[j].status \in {"queued", "completed"} => job[j].due
        /\ \A p \in Positions : p <= job[j].marker => Covered(j, p)
        /\ job[j].status = "completed" => \A p \in Positions : Covered(j, p)

PolicyOfJob ==
    \A j \in Jobs : policy.job = j =>
        /\ job[j].status # "absent"
        /\ job[j].policy = policy.revision /\ job[j].target = policy.days
        /\ policy.status = "applied" => job[j].status = "completed"

\* A write that is under way has read a policy that covers the jobs which are due.
WritersKnow ==
    \A w \in Writers : writer[w].at = "put" =>
        /\ writer[w].revision <= policy.revision
        /\ \A j \in Jobs :
              /\ job[j].status # "absent" /\ writer[w].revision >= job[j].policy =>
                    writer[w].days >= job[j].target
              /\ job[j].due => writer[w].revision >= job[j].policy

\* A version written after a cutover was written when it was due, and long enough.
LateWritesCovered ==
    \A p \in Positions : version[p].held # 0 =>
        \A j \in version[p].after :
            /\ job[j].due
            /\ version[p].aware => version[p].held >= job[j].target

UpdateKnows ==
    update.at # "idle" =>
        /\ update.revision <= policy.revision
        /\ update.revision = policy.revision => update.days >= policy.days
        /\ \A p \in update.records : version[p].held # 0

\* The worker of j has read the job that is, or an earlier revision.
WorkerKnows(j, x) ==
    x.at \in {"extend", "commit", "complete"} =>
        /\ x.seen.revision <= job[j].revision
        /\ x.seen.revision = job[j].revision =>
              /\ x.seen = job[j]
              /\ job[j].due
              /\ job[j].status \in {"settling", "queued"}
              /\ x.at \in {"commit", "complete"} =>
                    \A p \in Positions : p <= x.page => Covered(j, p)
              /\ x.at = "complete" => \A p \in Positions : Covered(j, p)

RetentionInv ==
    /\ RetentionTypeOK
    /\ WorkerHasMessage
    /\ JobsBehindPolicy
    /\ PolicyOfJob
    /\ WritersKnow
    /\ LateWritesCovered
    /\ UpdateKnows
    /\ \A j \in Jobs : WorkerKnows(j, jobWorker[j])

(***************************************************************************)
(* Queues, and the first of some positions.                                *)
(***************************************************************************)
\* Sends with the deduplication of SQS: _send_retention_message and the cycle.
LEMMA SentLetters ==
    ASSUME NEW S, NEW messages \in Seq(Letters(S)), NEW ids, NEW work \in S
    PROVE  /\ Sent(messages, ids, work) \in Seq(Letters(S))
           /\ messages # <<>> => Sent(messages, ids, work) # <<>>
<1> PICK M : M = Letters(S)
  OBVIOUS
<1> PICK m : m = [work |-> work, receives |-> 0]
  OBVIOUS
<1>1. m \in M
  BY QueueAssumption DEF Letters
<1>2. messages \in Seq(M)
  OBVIOUS
<1>3. Append(messages, m) \in Seq(M) /\ Append(messages, m) # <<>>
  BY <1>1, <1>2
<1> QED
  BY <1>3 DEF Sent

LEMMA ReceivedLetters ==
    ASSUME NEW S, NEW messages \in Seq(Letters(S)), messages # <<>>, ~ Exhausted(messages)
    PROVE  /\ Received(messages) \in Seq(Letters(S)) /\ Received(messages) # <<>>
           /\ Head(messages).work \in S
<1> PICK M : M = Letters(S)
  OBVIOUS
<1>0. messages \in Seq(M)
  OBVIOUS
<1>1. Len(messages) \in Nat \ {0} /\ 1 \in 1 .. Len(messages) /\ Head(messages) = messages[1]
  BY <1>0, EmptySeq
<1>2. messages[1] \in M
  BY <1>0, <1>1
<1>3. messages[1].receives \in 0 .. MaxReceives /\ messages[1].receives # MaxReceives /\ messages[1].work \in S
  BY <1>1, <1>2 DEF Letters, Exhausted
<1>4. messages[1].receives + 1 \in 0 .. MaxReceives
  BY <1>3, QueueAssumption
<1> PICK m : m = [messages[1] EXCEPT !.receives = @ + 1]
  OBVIOUS
<1>5. m \in M
  BY <1>2, <1>4 DEF Letters
<1>6. Received(messages) = [messages EXCEPT ![1] = m]
  BY Zenon DEF Received
<1>7. [messages EXCEPT ![1] = m] \in Seq(M) /\ [messages EXCEPT ![1] = m] # <<>>
  <2>1. [messages EXCEPT ![1] = m] \in Seq(M) /\ Len([messages EXCEPT ![1] = m]) = Len(messages)
    BY <1>0, <1>1, <1>5
  <2> QED
    BY <1>1, <2>1, EmptySeq
<1> QED
  BY <1>1, <1>3, <1>6, <1>7

LEMMA ReturnedLetters ==
    ASSUME NEW S, NEW messages \in Seq(S), messages # <<>>
    PROVE  Tail(messages) \in Seq(S) /\ Returned(messages) \in Seq(S)
  BY DEF Returned

LEMMA LeastNumber ==
    ASSUME NEW T \in SUBSET Nat, T # {}
    PROVE  \E x \in T : \A y \in T : x <= y
<1>1. PICK R : IsWellFoundedOn(R, Nat) /\ \A x, y \in Nat : x < y => <<x, y>> \in R
  <2>1. \A x, y \in Nat : x < y => <<x, y>> \in OpToRel(<, Nat)
    BY DEF OpToRel
  <2> QED
    BY <2>1, NatLessThanWellFounded
<1>2. PICK x \in T : \A y \in T : ~ (<<y, x>> \in R)
  <2>1. IsWellFoundedOn(R, Nat) /\ T \subseteq Nat /\ T # {}
    BY <1>1
  <2>2. \A S : IsWellFoundedOn(R, S) /\ T \subseteq S /\ T # {} =>
                   \E x \in T : \A y \in T : ~ (<<y, x>> \in R)
    BY WFMin, Zenon
  <2> QED
    BY <2>1, <2>2
<1>3. ASSUME NEW y \in T
      PROVE  x <= y
  <2>1. x \in Nat /\ y \in Nat /\ ~ (y < x)
    BY <1>1, <1>2
  <2> QED
    BY <2>1
<1> QED
  BY <1>3

\* The page that S3 lists after the marker is the next one, and none is left out.
LEMMA NextPageIsNext ==
    ASSUME RetentionTypeOK, NEW j \in Jobs
    PROVE  LET marker == jobWorker[j].seen.marker  page == NextPage(j) IN
           /\ page \in Nat
           /\ page # 0 => page \in Present
           /\ page = 0 => \A p \in Present : p <= marker
           /\ \A p \in Present : p <= page => p <= marker \/ p = page
<1> PICK marker : marker = jobWorker[j].seen.marker
  OBVIOUS
<1> PICK rest : rest = {p \in Present : p > marker}
  OBVIOUS
<1>1. marker \in Nat /\ Positions \subseteq Nat \ {0} /\ Present \subseteq Positions
  <2>1. jobWorker[j].seen \in JobRecords
    BY DEF RetentionTypeOK, JobWorkers
  <2>2. jobWorker[j].seen.marker \in Nat
    BY <2>1 DEF JobRecords
  <2>3. Positions \subseteq Nat \ {0}
    BY RetentionAssumption DEF Positions
  <2>4. Present \subseteq Positions
    BY DEF Present
  <2> QED
    BY <2>2, <2>3, <2>4
<1>2. rest \in SUBSET Nat /\ \A p \in Present : p \notin rest => p <= marker
  <2>1. rest \in SUBSET Nat
    BY <1>1
  <2>2. ASSUME NEW p \in Present, p \notin rest
        PROVE  p <= marker
    <3>1. p \in Nat /\ ~ (p > marker)
      BY <1>1, <2>2
    <3> QED
      BY <1>1, <3>1
  <2> QED
    BY <2>1, <2>2
<1>3. CASE rest = {}
  <2>1. NextPage(j) = 0
    BY <1>3 DEF NextPage
  <2>2. \A p \in Present : p <= marker
    BY <1>2, <1>3
  <2> QED
    BY <2>1, <2>2
<1>4. CASE rest # {}
  <2>1. NextPage(j) = CHOOSE p \in rest : \A q \in rest : p <= q
    BY <1>4 DEF NextPage
  <2>2. \E p \in rest : \A q \in rest : p <= q
    BY <1>2, <1>4, LeastNumber
  <2>3. NextPage(j) \in rest /\ \A q \in rest : NextPage(j) <= q
    BY <2>1, <2>2
  <2>4. NextPage(j) \in Present /\ NextPage(j) \in Nat \ {0}
    BY <1>1, <2>3
  <2>5. ASSUME NEW p \in Present, p <= NextPage(j)
        PROVE  p <= marker \/ p = NextPage(j)
    <3>1. p \in Nat
      BY <1>1
    <3> QED
      BY <1>2, <2>3, <2>4, <2>5, <3>1
  <2> QED
    BY <2>4, <2>5
<1> QED
  BY <1>3, <1>4

(***************************************************************************)
(* What becomes of the versions.                                           *)
(***************************************************************************)
\* put_object_retention extends only.
Longer(p) ==
    /\ version'[p].after = version[p].after /\ version'[p].aware = version[p].aware
    /\ version'[p].held >= version[p].held
    /\ version[p].held = 0 => version'[p].held = 0

\* A version of after the cutovers that have passed.
Written(p) ==
    /\ version[p].held = 0 /\ version'[p].held # 0
    /\ version'[p].after = {j \in Jobs : job[j].due}
    /\ version'[p].aware =>
          \A j \in Jobs : job[j].due => version'[p].held >= job[j].target

VersionsGoOn ==
    /\ version' \in [Positions -> Versions]
    /\ \A p \in Positions : Longer(p) \/ Written(p)

LEMMA VersionsStay ==
    ASSUME RetentionTypeOK, UNCHANGED version
    PROVE  VersionsGoOn
<1>1. \A p \in Positions : version[p].held \in Int
  BY RetentionAssumption DEF RetentionTypeOK, Versions
<1> QED
  BY <1>1 DEF RetentionTypeOK, VersionsGoOn, Longer

LEMMA CoveredGoesOn ==
    ASSUME RetentionTypeOK, VersionsGoOn, NEW j \in Jobs, NEW p \in Positions, Covered(j, p),
           job'[j].target = job[j].target,
           job[j].due \/ version'[p].held = 0 \/ version[p].held # 0
    PROVE  Covered(j, p)'
<1>1. /\ version[p].held \in Nat /\ version'[p].held \in Nat /\ job[j].target \in Nat
  BY RetentionAssumption DEF RetentionTypeOK, VersionsGoOn, Versions, JobRecords, Days
<1>2. CASE Longer(p)
  BY <1>1, <1>2 DEF Covered, Longer
<1>3. CASE Written(p)
  BY <1>3 DEF Covered, Written
<1> QED
  BY <1>2, <1>3 DEF VersionsGoOn

\* Audit writes and extensions take nothing from what the jobs have covered.
LEMMA VersionsStep ==
    ASSUME RetentionInv, VersionsGoOn, UNCHANGED <<policy, job>>
    PROVE  /\ JobsBehindPolicy' /\ PolicyOfJob' /\ LateWritesCovered'
           /\ \A j \in Jobs : \A x \in JobWorkers : WorkerKnows(j, x) => WorkerKnows(j, x)'
<1>0. RetentionTypeOK
  BY DEF RetentionInv
<1>1. ASSUME NEW j \in Jobs, NEW p \in Positions, job[j].due, Covered(j, p)
      PROVE  Covered(j, p)'
  BY <1>0, <1>1, CoveredGoesOn
<1>2. ASSUME NEW j \in Jobs, NEW p \in Positions, p <= job[j].marker
      PROVE  job[j].due /\ Covered(j, p)
  <2>1. p > 0 /\ p \in Nat
    BY RetentionAssumption DEF Positions
  <2>2. job[j].marker # 0
    BY <1>2, <2>1
  <2> QED
    BY <1>2, <2>2, <1>0 DEF RetentionInv, JobsBehindPolicy, RetentionTypeOK, JobRecords
<1>3. JobsBehindPolicy'
  <2> SUFFICES ASSUME NEW j \in Jobs
               PROVE  /\ \A p \in Positions : p <= job[j].marker => Covered(j, p)'
                      /\ job[j].status = "completed" => \A p \in Positions : Covered(j, p)'
    BY DEF RetentionInv, JobsBehindPolicy, Covered
  <2>1. \A p \in Positions : p <= job[j].marker => Covered(j, p)'
    BY <1>1, <1>2
  <2>2. job[j].status = "completed" => \A p \in Positions : Covered(j, p)'
    BY <1>1 DEF RetentionInv, JobsBehindPolicy
  <2> QED
    BY <2>1, <2>2
<1>4. PolicyOfJob'
  BY DEF RetentionInv, PolicyOfJob
<1>5. LateWritesCovered'
  <2> SUFFICES ASSUME NEW p \in Positions, version'[p].held # 0, NEW j \in version'[p].after
               PROVE  /\ job[j].due
                      /\ version'[p].aware => version'[p].held >= job[j].target
    BY DEF LateWritesCovered
  <2>1. CASE Longer(p)
    <3>1. version[p].held # 0 /\ j \in version[p].after /\ version'[p].held >= version[p].held
          /\ version'[p].aware = version[p].aware
      BY <2>1 DEF Longer
    <3>2. j \in Jobs
      BY <1>0, <3>1 DEF RetentionTypeOK, Versions
    <3>3. version[p].held \in Nat /\ version'[p].held \in Nat /\ job[j].target \in Nat
      BY <1>0, <3>2, RetentionAssumption DEF RetentionTypeOK, VersionsGoOn, Versions, JobRecords, Days
    <3> QED
      BY <3>1, <3>3 DEF RetentionInv, LateWritesCovered
  <2>2. CASE Written(p)
    BY <2>2 DEF Written
  <2> QED
    BY <2>1, <2>2 DEF VersionsGoOn
<1>6. ASSUME NEW j \in Jobs, NEW x \in JobWorkers, WorkerKnows(j, x)
      PROVE  WorkerKnows(j, x)'
  <2>1. job[j].due => \A p \in Positions : Covered(j, p) => Covered(j, p)'
    BY <1>1
  <2> QED
    BY <1>6, <2>1 DEF WorkerKnows
<1> QED
  BY <1>3, <1>4, <1>5, <1>6

LEMMA WorkersKnow ==
    ASSUME RetentionInv,
           \A j \in Jobs : \A x \in JobWorkers : WorkerKnows(j, x) => WorkerKnows(j, x)',
           \A j \in Jobs :
               \/ jobWorker'[j] = jobWorker[j]
               \/ jobWorker'[j].at \notin {"extend", "commit", "complete"}
               \/ \E y \in JobWorkers : jobWorker'[j] = y /\ WorkerKnows(j, y)'
    PROVE  (\A j \in Jobs : WorkerKnows(j, jobWorker[j]))'
<1> SUFFICES ASSUME NEW j \in Jobs
             PROVE  WorkerKnows(j, jobWorker[j])'
  OBVIOUS
<1>1. CASE jobWorker'[j].at \notin {"extend", "commit", "complete"}
  BY <1>1 DEF WorkerKnows
<1>2. ASSUME NEW y \in JobWorkers, jobWorker'[j] = y, WorkerKnows(j, y)'
      PROVE  WorkerKnows(j, jobWorker[j])'
  BY <1>2 DEF WorkerKnows
<1>3. CASE jobWorker'[j] = jobWorker[j]
  <2> PICK y : y = jobWorker[j]
    OBVIOUS
  <2>1. y \in JobWorkers /\ WorkerKnows(j, y)
    BY DEF RetentionInv, RetentionTypeOK
  <2> QED
    BY <1>2, <1>3, <2>1
<1> QED
  BY <1>1, <1>2, <1>3

LEMMA OthersStay ==
    ASSUME RetentionInv, VersionsGoOn, UNCHANGED <<policy, job>>
    PROVE  /\ UNCHANGED writer => WritersKnow'
           /\ UNCHANGED update => UpdateKnows'
<1>1. UNCHANGED writer => WritersKnow'
  BY DEF RetentionInv, WritersKnow
<1>2. ASSUME UNCHANGED update, update.at # "idle", NEW p \in update.records
      PROVE  version'[p].held # 0
  <2>1. p \in Positions
    BY DEF RetentionInv, RetentionTypeOK, Updates
  <2>2. version[p].held # 0 /\ version[p].held \in Nat /\ version'[p].held \in Nat
    BY <1>2, <2>1, RetentionAssumption DEF RetentionInv, RetentionTypeOK, UpdateKnows,
          VersionsGoOn, Versions
  <2> QED
    BY <2>1, <2>2 DEF VersionsGoOn, Longer, Written
<1> QED
  BY <1>1, <1>2 DEF RetentionInv, UpdateKnows

\* A step that changes neither the policy nor a job.
LEMMA QuietStep ==
    ASSUME RetentionInv, RetentionTypeOK', VersionsGoOn, UNCHANGED <<policy, job>>,
           WorkerHasMessage', WritersKnow', UpdateKnows',
           \A j \in Jobs :
               \/ jobWorker'[j] = jobWorker[j]
               \/ jobWorker'[j].at \notin {"extend", "commit", "complete"}
               \/ \E y \in JobWorkers : jobWorker'[j] = y /\ WorkerKnows(j, y)'
    PROVE  RetentionInv'
<1>1. /\ JobsBehindPolicy' /\ PolicyOfJob' /\ LateWritesCovered'
      /\ \A j \in Jobs : \A x \in JobWorkers : WorkerKnows(j, x) => WorkerKnows(j, x)'
  BY VersionsStep
<1>2. (\A j \in Jobs : WorkerKnows(j, jobWorker[j]))'
  BY <1>1, WorkersKnow
<1> QED
  BY <1>1, <1>2 DEF RetentionInv

LEMMA IdleRecords ==
    /\ NoJobRecord \in JobRecords /\ NoVersion \in Versions /\ NoUpdate \in Updates
    /\ IdleWriter \in Writes /\ IdleJobWorker \in JobWorkers /\ DoneWork \in JobWorkers
    /\ NoJobRecord.status = "absent" /\ NoJobRecord.marker = 0 /\ ~ NoJobRecord.due
    /\ NoVersion.held = 0 /\ NoUpdate.at = "idle" /\ IdleWriter.at = "idle"
    /\ IdleJobWorker.at = "idle" /\ DoneWork.at = "finish"
<1>1. 1 \in Days /\ 0 \in 0 .. MaxDays
  BY RetentionAssumption DEF Days
<1>2. NoJobRecord \in JobRecords
  BY <1>1 DEF NoJobRecord, JobRecords, JobStatuses
<1>3. IdleJobWorker \in JobWorkers /\ DoneWork \in JobWorkers /\ DoneWork.at = "finish"
  BY <1>2 DEF IdleJobWorker, DoneWork, JobWorkers
<1> QED
  BY <1>1, <1>2, <1>3 DEF NoJobRecord, NoVersion, Versions, NoUpdate, Updates, IdleWriter,
        Writes, IdleJobWorker

LEMMA RetentionBegins == RetentionInit => RetentionInv
<1> SUFFICES ASSUME RetentionInit
             PROVE  RetentionInv
  OBVIOUS
<1>1. RetentionTypeOK
  <2>1. policy \in Policies
    BY RetentionAssumption DEF RetentionInit, Policies, PolicyStatuses, Days
  <2>2. /\ job \in [Jobs -> JobRecords] /\ version \in [Positions -> Versions]
        /\ writer \in [Writers -> Writes] /\ update \in Updates
        /\ jobWorker \in [Jobs -> JobWorkers]
    BY IdleRecords DEF RetentionInit
  <2>3. /\ jobQueue \in [Jobs -> Seq(Letters(Nat))] /\ jobRecent \in [Jobs -> SUBSET Nat]
        /\ lapses \in Nat
    BY DEF RetentionInit
  <2> QED
    BY <2>1, <2>2, <2>3 DEF RetentionTypeOK
<1>2. WorkerHasMessage /\ \A j \in Jobs : WorkerKnows(j, jobWorker[j])
  BY IdleRecords DEF RetentionInit, WorkerHasMessage, WorkerKnows
<1>3. JobsBehindPolicy
  BY IdleRecords DEF RetentionInit, JobsBehindPolicy, Covered
<1>4. PolicyOfJob
  BY RetentionAssumption DEF RetentionInit, PolicyOfJob
<1>5. WritersKnow /\ LateWritesCovered /\ UpdateKnows
  BY IdleRecords DEF RetentionInit, WritersKnow, LateWritesCovered, UpdateKnows
<1> QED
  BY <1>1, <1>2, <1>3, <1>4, <1>5 DEF RetentionInv

(***************************************************************************)
(* Audit writes and updates.                                               *)
(***************************************************************************)
LEMMA PutGoesOn ==
    ASSUME RetentionInv, NEW p \in Positions, NEW days \in Days, NEW aware \in BOOLEAN,
           PutVersion(p, days, aware),
           aware => \A j \in Jobs : job[j].due => days >= job[j].target
    PROVE  VersionsGoOn
<1> PICK x : x = [held |-> days, after |-> {j \in Jobs : job[j].due}, aware |-> aware]
  OBVIOUS
<1>1. /\ version \in [Positions -> Versions] /\ version[p].held = 0
      /\ version' = [version EXCEPT ![p] = x]
  BY DEF RetentionInv, RetentionTypeOK, PutVersion, Present
<1>2. days \in 0 .. MaxDays /\ days # 0
  BY RetentionAssumption DEF Days
<1>3. x \in Versions /\ x.held = days
  BY <1>2 DEF Versions
<1>4. version' \in [Positions -> Versions] /\ Written(p)
  BY <1>1, <1>2, <1>3 DEF Written
<1>5. ASSUME NEW q \in Positions, q # p
      PROVE  Longer(q)
  <2>1. version'[q] = version[q] /\ version[q].held \in Int
    BY <1>1, <1>5, RetentionAssumption DEF Versions
  <2> QED
    BY <2>1 DEF Longer
<1> QED
  BY <1>4, <1>5 DEF VersionsGoOn

LEMMA ExtendGoesOn ==
    ASSUME RetentionTypeOK, NEW some \in SUBSET Present, NEW days \in Days,
           version' = [p \in Positions |-> IF p \in some THEN Extended(p, days) ELSE version[p]]
    PROVE  /\ VersionsGoOn
           /\ \A p \in some : version'[p].held >= days
<1>1. ASSUME NEW p \in Positions
      PROVE  /\ version'[p] \in Versions /\ Longer(p)
             /\ p \in some => version'[p].held >= days
  <2>1. /\ version[p] \in Versions /\ version[p].held \in 0 .. MaxDays /\ days \in 1 .. MaxDays
        /\ MaxDays \in Nat
    BY RetentionAssumption DEF RetentionTypeOK, Versions, Days
  <2> PICK x : x = Extended(p, days)
    OBVIOUS
  <2>2. /\ x \in Versions /\ x.after = version[p].after /\ x.aware = version[p].aware
        /\ x.held >= version[p].held /\ x.held >= days
    BY <2>1 DEF Extended, Versions
  <2>3. CASE p \in some
    <3>1. version'[p] = x /\ version[p].held # 0
      BY <2>3 DEF Present
    <3> QED
      BY <2>1, <2>2, <3>1 DEF Longer
  <2>4. CASE p \notin some
    <3>1. version'[p] = version[p]
      BY <2>4
    <3> QED
      BY <2>1, <2>4, <3>1 DEF Longer
  <2> QED
    BY <2>3, <2>4
<1>2. some \subseteq Positions
  BY DEF Present
<1> QED
  BY <1>1, <1>2 DEF VersionsGoOn

\* Nothing of a worker or a queue changes.
LEMMA RequestStep ==
    ASSUME RetentionInv, VersionsGoOn, WritersKnow', UpdateKnows',
           writer' \in [Writers -> Writes], update' \in Updates,
           UNCHANGED <<policy, job, jobQueue, jobRecent, jobWorker, lapses>>
    PROVE  RetentionInv'
<1>1. RetentionTypeOK'
  BY DEF RetentionInv, RetentionTypeOK, VersionsGoOn
<1>2. WorkerHasMessage'
  BY DEF RetentionInv, WorkerHasMessage
<1> QED
  BY <1>1, <1>2, QuietStep

LEMMA BeginWriteKeeps ==
    ASSUME RetentionInv, NEW w \in Writers, BeginWrite(w) PROVE RetentionInv'
<1> PICK x : x = [at |-> "put", days |-> policy.days, revision |-> policy.revision]
  OBVIOUS
<1>1. /\ policy \in Policies /\ policy.days \in Days /\ policy.revision \in Nat
      /\ writer \in [Writers -> Writes]
      /\ job \in [Jobs -> JobRecords]
  BY DEF RetentionInv, RetentionTypeOK, Policies
<1>2. /\ writer' = [writer EXCEPT ![w] = x]
      /\ UNCHANGED <<policy, job, version, update, jobQueue, jobRecent, jobWorker, lapses>>
  BY DEF BeginWrite
<1>3. x \in Writes
  BY <1>1 DEF Writes
<1>4. /\ writer' \in [Writers -> Writes] /\ writer'[w] = x
      /\ \A v \in Writers : v # w => writer'[v] = writer[v]
  BY <1>1, <1>2, <1>3
<1>5. ASSUME NEW j \in Jobs
      PROVE  /\ job[j].status # "absent" => policy.days >= job[j].target
             /\ job[j].due => policy.revision >= job[j].policy
  <2>1. job[j].target \in Nat /\ job[j].policy \in Nat /\ policy.days \in Nat
    BY <1>1, RetentionAssumption DEF JobRecords, Days
  <2> QED
    BY <1>1, <2>1 DEF RetentionInv, JobsBehindPolicy
<1>6. WritersKnow'
  <2>1. ASSUME NEW v \in Writers, writer'[v].at = "put"
        PROVE  /\ writer'[v].revision <= policy.revision
               /\ \A j \in Jobs :
                     /\ job[j].status # "absent" /\ writer'[v].revision >= job[j].policy =>
                           writer'[v].days >= job[j].target
                     /\ job[j].due => writer'[v].revision >= job[j].policy
    <3>1. CASE v = w
      BY <1>1, <1>4, <1>5, <3>1
    <3>2. CASE v # w
      BY <1>4, <2>1, <3>2 DEF RetentionInv, WritersKnow
    <3> QED
      BY <3>1, <3>2
  <2> QED
    BY <1>2, <2>1 DEF WritersKnow
<1>7. VersionsGoOn
  BY <1>2, VersionsStay DEF RetentionInv
<1>8. UpdateKnows' /\ update' \in Updates
  BY <1>2, <1>7, OthersStay DEF RetentionInv, RetentionTypeOK
<1> QED
  BY <1>2, <1>4, <1>6, <1>7, <1>8, RequestStep

LEMMA EndWriteKeeps ==
    ASSUME RetentionInv, NEW w \in Writers, EndWrite(w) PROVE RetentionInv'
<1>1. /\ writer[w].at = "put" /\ writer \in [Writers -> Writes] /\ writer[w].days \in Days
      /\ writer' = [writer EXCEPT ![w] = IdleWriter]
      /\ UNCHANGED <<policy, job, update, jobQueue, jobRecent, jobWorker, lapses>>
  BY DEF EndWrite, RetentionInv, RetentionTypeOK, Writes
<1>2. VersionsGoOn
  <2>1. ASSUME NEW p \in Positions, PutVersion(p, writer[w].days, TRUE)
        PROVE  VersionsGoOn
    <3>1. ASSUME NEW j \in Jobs, job[j].due
          PROVE  writer[w].days >= job[j].target
      BY <1>1, <3>1 DEF RetentionInv, WritersKnow, JobsBehindPolicy
    <3> QED
      BY <1>1, <2>1, <3>1, PutGoesOn
  <2>2. CASE UNCHANGED version
    BY <2>2, VersionsStay DEF RetentionInv
  <2> QED
    BY <2>1, <2>2 DEF EndWrite
<1>3. /\ writer' \in [Writers -> Writes]
      /\ \A v \in Writers : writer'[v] = writer[v] \/ writer'[v].at = "idle"
  BY <1>1, IdleRecords
<1>4. WritersKnow'
  BY <1>1, <1>3 DEF RetentionInv, WritersKnow
<1>5. UpdateKnows' /\ update' \in Updates
  BY <1>1, <1>2, OthersStay DEF RetentionInv, RetentionTypeOK
<1> QED
  BY <1>1, <1>2, <1>3, <1>4, <1>5, RequestStep

LEMMA WriteAtFloorKeeps ==
    ASSUME RetentionInv, NEW p \in Positions, WriteAtFloor(p) PROVE RetentionInv'
<1>1. /\ PutVersion(p, 1, FALSE)
      /\ UNCHANGED <<policy, job, writer, update, jobQueue, jobRecent, jobWorker, lapses>>
  BY DEF WriteAtFloor
<1>2. VersionsGoOn
  <2>1. 1 \in Days /\ FALSE \in BOOLEAN
    BY RetentionAssumption DEF Days
  <2> QED
    BY <1>1, <2>1, PutGoesOn
<1>3. WritersKnow' /\ UpdateKnows' /\ writer' \in [Writers -> Writes] /\ update' \in Updates
  BY <1>1, <1>2, OthersStay DEF RetentionInv, RetentionTypeOK
<1> QED
  BY <1>1, <1>2, <1>3, RequestStep

LEMMA BeginUpdateKeeps ==
    ASSUME RetentionInv, NEW days \in Days, BeginUpdate(days) PROVE RetentionInv'
<1>1. /\ days >= policy.days /\ policy.revision \in Nat
      /\ update' = [at |-> "extend", revision |-> policy.revision, days |-> days,
                    records |-> Present]
      /\ UNCHANGED <<policy, job, version, writer, jobQueue, jobRecent, jobWorker, lapses>>
  BY DEF BeginUpdate, RetentionInv, RetentionTypeOK, Policies
<1>2. update' \in Updates
  BY <1>1 DEF Updates, Present
<1>3. UpdateKnows'
  BY <1>1 DEF UpdateKnows, Present
<1>4. VersionsGoOn
  BY <1>1, VersionsStay DEF RetentionInv
<1>5. WritersKnow' /\ writer' \in [Writers -> Writes]
  BY <1>1, <1>4, OthersStay DEF RetentionInv, RetentionTypeOK
<1> QED
  BY <1>1, <1>2, <1>3, <1>4, <1>5, RequestStep

LEMMA ExtendInventoryKeeps == ASSUME RetentionInv, ExtendInventory PROVE RetentionInv'
<1>1. /\ update.at = "extend" /\ update \in Updates
      /\ update.records \subseteq Present /\ update.days \in Days
      /\ UNCHANGED <<policy, job, writer, jobQueue, jobRecent, jobWorker, lapses>>
  BY DEF ExtendInventory, RetentionInv, RetentionTypeOK, Updates, UpdateKnows, Present
<1>2. /\ VersionsGoOn
      /\ update' \in {NoUpdate, [update EXCEPT !.at = "commit"]}
  <2>1. ASSUME version' = [p \in Positions |->
                  IF p \in update.records THEN Extended(p, update.days) ELSE version[p]]
        PROVE  VersionsGoOn
    BY <1>1, <2>1, ExtendGoesOn DEF RetentionInv
  <2>2. ASSUME NEW some \in SUBSET update.records,
               version' = [p \in Positions |->
                  IF p \in some THEN Extended(p, update.days) ELSE version[p]]
        PROVE  VersionsGoOn
    BY <1>1, <2>2, ExtendGoesOn DEF RetentionInv
  <2> QED
    BY <2>1, <2>2 DEF ExtendInventory
<1>3. WritersKnow' /\ writer' \in [Writers -> Writes]
  BY <1>1, <1>2, OthersStay DEF RetentionInv, RetentionTypeOK
<1>4. /\ update' \in Updates
      /\ \/ update'.at = "idle"
         \/ /\ update'.revision = update.revision /\ update'.days = update.days
            /\ update'.records = update.records
  BY <1>1, <1>2, IdleRecords DEF Updates
<1>5. ASSUME NEW p \in update.records
      PROVE  version'[p].held # 0
  <2>1. p \in Positions /\ version[p].held # 0 /\ version[p].held \in Nat /\ version'[p].held \in Nat
    BY <1>1, <1>2, <1>5, RetentionAssumption DEF Present, RetentionInv, RetentionTypeOK,
          VersionsGoOn, Versions
  <2> QED
    BY <1>2, <2>1 DEF VersionsGoOn, Longer, Written
<1>6. UpdateKnows'
  BY <1>1, <1>4, <1>5 DEF RetentionInv, UpdateKnows
<1> QED
  BY <1>1, <1>2, <1>3, <1>4, <1>6, RequestStep

(***************************************************************************)
(* The queue and the worker of a job.                                      *)
(***************************************************************************)
\* One job's queue and worker move.
LEMMA JobWorkerStep ==
    ASSUME RetentionInv, NEW j \in Jobs, NEW x \in JobWorkers, NEW messages \in Seq(Letters(Nat)),
           Work(j, x), jobQueue' = [jobQueue EXCEPT ![j] = messages],
           x.at # "idle" => messages # <<>>,
           x.at \in {"extend", "commit", "complete"} => WorkerKnows(j, x)',
           jobRecent' \in [Jobs -> SUBSET Nat], lapses' \in Nat, VersionsGoOn,
           UNCHANGED <<policy, job, writer, update>>
    PROVE  RetentionInv'
<1>1. /\ jobQueue' \in [Jobs -> Seq(Letters(Nat))] /\ jobQueue'[j] = messages
      /\ \A i \in Jobs : i # j => jobQueue'[i] = jobQueue[i]
  BY DEF RetentionInv, RetentionTypeOK
<1>2. /\ jobWorker' \in [Jobs -> JobWorkers] /\ jobWorker'[j] = x
      /\ \A i \in Jobs : i # j => jobWorker'[i] = jobWorker[i]
  BY DEF RetentionInv, RetentionTypeOK, Work
<1>3. RetentionTypeOK'
  BY <1>1, <1>2 DEF RetentionInv, RetentionTypeOK, VersionsGoOn
<1>4. WorkerHasMessage'
  BY <1>1, <1>2 DEF RetentionInv, WorkerHasMessage
<1>5. WritersKnow' /\ UpdateKnows'
  BY OthersStay
<1> QED
  BY <1>2, <1>3, <1>4, <1>5, QuietStep

LEMMA QueueOf ==
    ASSUME RetentionInv, NEW j \in Jobs
    PROVE  /\ jobQueue[j] \in Seq(Letters(Nat)) /\ jobQueue \in [Jobs -> Seq(Letters(Nat))]
           /\ jobQueue = [jobQueue EXCEPT ![j] = jobQueue[j]]
           /\ jobWorker[j].at # "idle" => jobQueue[j] # <<>>
           /\ jobRecent \in [Jobs -> SUBSET Nat] /\ lapses \in Nat
           /\ jobWorker[j] \in JobWorkers /\ job[j] \in JobRecords /\ job[j].revision \in Nat
           /\ UNCHANGED version => VersionsGoOn
<1>1. UNCHANGED version => VersionsGoOn
  BY VersionsStay DEF RetentionInv
<1> QED
  BY <1>1 DEF RetentionInv, RetentionTypeOK, WorkerHasMessage, JobRecords

LEMMA ScheduleKeeps == ASSUME RetentionInv, NEW j \in Jobs, Schedule(j) PROVE RetentionInv'
<1> PICK messages : messages = Sent(jobQueue[j], jobRecent[j], job[j].revision)
  OBVIOUS
<1>1. /\ jobQueue' = [jobQueue EXCEPT ![j] = messages]
      /\ jobRecent' = [jobRecent EXCEPT ![j] = @ \cup {job[j].revision}]
      /\ UNCHANGED <<policy, job, version, writer, update, jobWorker, lapses>>
  BY DEF Schedule, Dispatch, SendRevision
<1>2. messages \in Seq(Letters(Nat)) /\ (jobQueue[j] # <<>> => messages # <<>>)
  BY QueueOf, SentLetters
<1>3. /\ jobQueue' \in [Jobs -> Seq(Letters(Nat))]
      /\ \A i \in Jobs : jobQueue[i] # <<>> => jobQueue'[i] # <<>>
      /\ jobRecent' \in [Jobs -> SUBSET Nat]
  BY <1>1, <1>2, QueueOf
<1>4. RetentionTypeOK'
  BY <1>1, <1>3 DEF RetentionInv, RetentionTypeOK
<1>5. WorkerHasMessage'
  BY <1>1, <1>3 DEF RetentionInv, WorkerHasMessage
<1>6. VersionsGoOn
  BY <1>1, QueueOf
<1> QED
  BY <1>1, <1>4, <1>5, <1>6, OthersStay, QuietStep

LEMMA ForgetRevisionKeeps ==
    ASSUME RetentionInv, NEW j \in Jobs, ForgetRevision(j) PROVE RetentionInv'
<1>1. /\ jobRecent' = [jobRecent EXCEPT ![j] = {}]
      /\ UNCHANGED <<policy, job, version, writer, update, jobQueue, jobWorker, lapses>>
  BY DEF ForgetRevision
<1>2. RetentionTypeOK'
  BY <1>1 DEF RetentionInv, RetentionTypeOK
<1>3. WorkerHasMessage'
  BY <1>1 DEF RetentionInv, WorkerHasMessage
<1>4. VersionsGoOn
  BY <1>1, QueueOf
<1> QED
  BY <1>1, <1>2, <1>3, <1>4, OthersStay, QuietStep

LEMMA TakeMessageKeeps ==
    ASSUME RetentionInv, NEW j \in Jobs, TakeMessage(j) PROVE RetentionInv'
<1> PICK messages : messages = Received(jobQueue[j])
  OBVIOUS
<1> PICK x : x = [IdleJobWorker EXCEPT !.at = "load", !.expected = Head(jobQueue[j]).work]
  OBVIOUS
<1>1. /\ jobQueue[j] # <<>> /\ ~ Exhausted(jobQueue[j])
      /\ jobQueue' = [jobQueue EXCEPT ![j] = messages]
      /\ Work(j, x)
      /\ UNCHANGED <<policy, job, version, writer, update, jobRecent, lapses>>
  BY DEF TakeMessage
<1>2. messages \in Seq(Letters(Nat)) /\ messages # <<>> /\ Head(jobQueue[j]).work \in Nat
  BY <1>1, QueueOf, ReceivedLetters
<1>3. x \in JobWorkers /\ x.at = "load"
  BY <1>2, IdleRecords DEF JobWorkers
<1> QED
  BY <1>1, <1>2, <1>3, QueueOf, JobWorkerStep

LEMMA LoadJobKeeps == ASSUME RetentionInv, NEW j \in Jobs, LoadJob(j) PROVE RetentionInv'
<1> PICK w : w = jobWorker[j]
  OBVIOUS
<1>0. w \in JobWorkers /\ job[j] \in JobRecords /\ job[j].revision \in Nat
  BY QueueOf
<1>1. /\ w.at = "load"
      /\ UNCHANGED <<policy, job, version, writer, update, jobQueue, jobRecent, lapses>>
  BY DEF LoadJob
<1>2. ASSUME NEW x \in JobWorkers, Work(j, x), x.at # "idle",
             x.at \in {"extend", "commit", "complete"} =>
                 /\ x.at = "extend" /\ x.seen = job[j] /\ job[j].due
                 /\ job[j].status \in {"settling", "queued"}
      PROVE  RetentionInv'
  <2>1. x.at \in {"extend", "commit", "complete"} => WorkerKnows(j, x)'
    BY <1>0, <1>1, <1>2 DEF WorkerKnows
  <2> QED
    BY <1>1, <1>2, <2>1, QueueOf, JobWorkerStep
<1>3. ASSUME job[j].revision = w.expected, job[j].status \in {"settling", "queued"}, job[j].due
      PROVE  RetentionInv'
  <2> PICK x : x = [w EXCEPT !.at = "extend", !.seen = job[j]]
    OBVIOUS
  <2>1. x \in JobWorkers /\ x.at = "extend" /\ x.seen = job[j]
    BY <1>0 DEF JobWorkers
  <2>2. job[j].revision # w.expected + 1
    BY <1>0, <1>3 DEF JobWorkers
  <2>3. Work(j, x)
    BY <1>3, <2>2 DEF LoadJob
  <2> QED
    BY <1>2, <1>3, <2>1, <2>3
<1>4. ASSUME job[j].revision # w.expected, job[j].revision = w.expected + 1,
             job[j].status = "queued"
      PROVE  RetentionInv'
  <2> PICK x : x = [w EXCEPT !.at = "send", !.seen = job[j]]
    OBVIOUS
  <2>1. x \in JobWorkers /\ x.at = "send"
    BY <1>0 DEF JobWorkers
  <2>2. Work(j, x)
    BY <1>4 DEF LoadJob
  <2> QED
    BY <1>2, <2>1, <2>2
<1>5. ASSUME Work(j, DoneWork)
      PROVE  RetentionInv'
  BY <1>2, <1>5, IdleRecords
<1>6. \/ job[j].revision = w.expected /\ job[j].status \in {"settling", "queued"} /\ job[j].due
      \/ /\ job[j].revision # w.expected /\ job[j].revision = w.expected + 1
         /\ job[j].status = "queued"
      \/ Work(j, DoneWork)
  <2>1. w.expected \in Nat
    BY <1>0 DEF JobWorkers
  <2> QED
    BY <1>0, <2>1 DEF LoadJob
<1> QED
  BY <1>3, <1>4, <1>5, <1>6

LEMMA ExtendPageKeeps == ASSUME RetentionInv, NEW j \in Jobs, ExtendPage(j) PROVE RetentionInv'
<1> PICK w : w = jobWorker[j]
  OBVIOUS
<1> PICK page : page = NextPage(j)
  OBVIOUS
<1> PICK examined : examined = {p \in {page} \cap Present : j \notin version[p].after}
  OBVIOUS
<1> PICK at : at = IF \E p \in Present : p > page /\ page # 0 THEN "commit" ELSE "complete"
  OBVIOUS
<1> PICK x : x = [w EXCEPT !.at = at, !.page = page]
  OBVIOUS
<1>0. /\ w \in JobWorkers /\ w.seen.target \in Days /\ WorkerKnows(j, w)
      /\ w.seen.marker \in Nat /\ job[j].revision \in Nat
  BY DEF RetentionInv, RetentionTypeOK, JobWorkers, JobRecords
<1>1. /\ w.at = "extend"
      /\ version' = [p \in Positions |->
             IF p \in examined THEN Extended(p, w.seen.target) ELSE version[p]]
      /\ Work(j, x)
      /\ UNCHANGED <<policy, job, writer, update, jobQueue, jobRecent, lapses>>
  BY DEF ExtendPage
<1>2. /\ page \in Nat
      /\ page # 0 => page \in Present
      /\ page = 0 => \A p \in Present : p <= w.seen.marker
      /\ \A p \in Present : p <= page => p <= w.seen.marker \/ p = page
  BY NextPageIsNext DEF RetentionInv
<1>3. VersionsGoOn /\ \A p \in examined : version'[p].held >= w.seen.target
  <2>1. RetentionTypeOK /\ examined \in SUBSET Present /\ w.seen.target \in Days
    BY <1>0 DEF RetentionInv
  <2>2. version' = [p \in Positions |->
              IF p \in examined THEN Extended(p, w.seen.target) ELSE version[p]]
    BY <1>1
  <2> QED
    BY <2>1, <2>2, ExtendGoesOn
<1>4. at \in {"commit", "complete"} /\ (at = "complete" /\ page # 0 => \A p \in Present : ~ (p > page))
  OBVIOUS
<1>5. x \in JobWorkers /\ x.at = at /\ x.page = page /\ x.seen = w.seen
  BY <1>0, <1>2, <1>4 DEF JobWorkers
<1>6. ASSUME w.seen.revision = job[j].revision, NEW p \in Positions,
             p <= page \/ at = "complete"
      PROVE  Covered(j, p)'
  <2>1. /\ w.seen = job[j] /\ job[j].due
        /\ \A q \in Positions : q <= job[j].marker => Covered(j, q)
    BY <1>0, <1>1, <1>6 DEF WorkerKnows, RetentionInv, JobsBehindPolicy
  <2>2. CASE p \notin Present
    <3>1. Covered(j, p)
      BY <2>2 DEF Covered, Present
    <3> QED
      BY <1>1, <1>3, <2>1, <3>1, CoveredGoesOn DEF RetentionInv
  <2>3. CASE p \in Present /\ p <= w.seen.marker
    BY <1>1, <1>3, <2>1, <2>3, CoveredGoesOn DEF RetentionInv
  <2>4. CASE p \in Present /\ p = page
    <3>1. CASE p \in examined
      <4>1. version'[p].held >= job[j].target
        BY <1>3, <2>1, <3>1
      <4> QED
        BY <1>1, <4>1 DEF Covered
    <3>2. CASE p \notin examined
      <4>1. Covered(j, p)
        BY <2>4, <3>2 DEF Covered
      <4> QED
        BY <1>1, <1>3, <2>1, <4>1, CoveredGoesOn DEF RetentionInv
    <3> QED
      BY <3>1, <3>2
  <2>5. CASE p \in Present /\ ~ (p <= w.seen.marker)
    <3>1. page # 0
      BY <1>2, <2>5
    <3>2. p \in Nat
      BY RetentionAssumption DEF Positions
    <3>3. p <= page
      BY <1>2, <1>4, <1>6, <2>5, <3>1, <3>2
    <3> QED
      BY <1>2, <2>4, <2>5, <3>3
  <2> QED
    BY <2>2, <2>3, <2>5
<1>7. WorkerKnows(j, x)'
  <2>1. /\ w.seen.revision <= job[j].revision
        /\ w.seen.revision = job[j].revision =>
              w.seen = job[j] /\ job[j].due /\ job[j].status \in {"settling", "queued"}
    BY <1>0, <1>1 DEF WorkerKnows
  <2> QED
    BY <1>1, <1>4, <1>5, <1>6, <2>1 DEF WorkerKnows
<1> QED
  BY <1>1, <1>3, <1>4, <1>5, <1>7, QueueOf, JobWorkerStep

LEMMA SendNextKeeps == ASSUME RetentionInv, NEW j \in Jobs, SendNext(j) PROVE RetentionInv'
<1> PICK revision : revision = jobWorker[j].seen.revision
  OBVIOUS
<1> PICK messages : messages = Sent(jobQueue[j], jobRecent[j], revision)
  OBVIOUS
<1>1. /\ jobWorker[j].at = "send"
      /\ jobQueue' = [jobQueue EXCEPT ![j] = messages]
      /\ jobRecent' = [jobRecent EXCEPT ![j] = @ \cup {revision}]
      /\ Work(j, DoneWork)
      /\ UNCHANGED <<policy, job, version, writer, update, lapses>>
  BY DEF SendNext, SendRevision
<1>2. revision \in Nat
  BY QueueOf DEF JobWorkers, JobRecords
<1>3. messages \in Seq(Letters(Nat)) /\ messages # <<>>
  BY <1>1, <1>2, QueueOf, SentLetters
<1>4. jobRecent' \in [Jobs -> SUBSET Nat]
  BY <1>1, <1>2, QueueOf
<1> QED
  BY <1>1, <1>3, <1>4, QueueOf, IdleRecords, JobWorkerStep

LEMMA FinishMessageKeeps ==
    ASSUME RetentionInv, NEW j \in Jobs, FinishMessage(j) PROVE RetentionInv'
<1>1. /\ jobWorker[j].at = "finish"
      /\ jobQueue' = [jobQueue EXCEPT ![j] = Tail(jobQueue[j])]
      /\ Work(j, IdleJobWorker)
      /\ UNCHANGED <<policy, job, version, writer, update, jobRecent, lapses>>
  BY DEF FinishMessage
<1>2. Tail(jobQueue[j]) \in Seq(Letters(Nat))
  BY <1>1, QueueOf, ReturnedLetters
<1> QED
  BY <1>1, <1>2, QueueOf, IdleRecords, JobWorkerStep

LEMMA ReturnMessageKeeps ==
    ASSUME RetentionInv, NEW j \in Jobs, jobWorker[j].at # "idle", ReturnMessage(j),
           lapses' \in Nat
    PROVE  RetentionInv'
<1>1. /\ jobQueue' = [jobQueue EXCEPT ![j] = Returned(jobQueue[j])]
      /\ Work(j, IdleJobWorker)
      /\ UNCHANGED <<policy, job, version, writer, update, jobRecent>>
  BY DEF ReturnMessage
<1>2. Returned(jobQueue[j]) \in Seq(Letters(Nat))
  BY QueueOf, ReturnedLetters
<1> QED
  BY <1>1, <1>2, QueueOf, IdleRecords, JobWorkerStep

LEMMA MessageFailsKeeps ==
    ASSUME RetentionInv, NEW j \in Jobs, MessageFails(j) PROVE RetentionInv'
<1>1. lapses' \in Nat /\ jobWorker[j].at # "idle"
  BY QueueOf DEF MessageFails, Conflict, CallFails, Lapse
<1>2. CASE Exhausted(jobQueue[j])
  <2> PICK x : x = [IdleJobWorker EXCEPT !.at = "fail", !.expected = jobWorker[j].expected]
    OBVIOUS
  <2>1. /\ Work(j, x)
        /\ UNCHANGED <<policy, job, version, writer, update, jobQueue, jobRecent>>
    BY <1>2 DEF MessageFails
  <2>2. x \in JobWorkers /\ x.at = "fail"
    <3>1. jobWorker[j].expected \in Nat
      BY QueueOf DEF JobWorkers
    <3> QED
      BY <3>1, IdleRecords DEF JobWorkers
  <2> QED
    BY <1>1, <2>1, <2>2, QueueOf, JobWorkerStep
<1>3. CASE ~ Exhausted(jobQueue[j])
  BY <1>1, <1>3, ReturnMessageKeeps DEF MessageFails
<1> QED
  BY <1>2, <1>3

LEMMA JobWorkerStopsKeeps ==
    ASSUME RetentionInv, NEW j \in Jobs, JobWorkerStops(j) PROVE RetentionInv'
<1>1. lapses' \in Nat
  BY QueueOf DEF JobWorkerStops, Lapse
<1> QED
  BY <1>1, ReturnMessageKeeps DEF JobWorkerStops

(***************************************************************************)
(* The policy and the jobs.                                                *)
(***************************************************************************)
\* A job is written with its next revision, and its policy perhaps decided.
LEMMA JobWritten ==
    ASSUME RetentionInv, NEW j \in Jobs, NEW y \in JobRecords, NEW x \in JobWorkers,
           job' = [job EXCEPT ![j] = y], job[j].status # "absent",
           y.status # "absent", y.revision = job[j].revision + 1,
           y.target = job[j].target, y.policy = job[j].policy, y.due = job[j].due,
           ~ y.due => y.marker = 0,
           y.status \in {"queued", "completed"} => y.due,
           \A p \in Positions : p <= y.marker => Covered(j, p),
           y.status = "completed" => \A p \in Positions : Covered(j, p),
           policy' \in Policies, policy'.revision = policy.revision, policy'.days = policy.days,
           policy'.job = policy.job,
           \A i \in Jobs : policy.job = i /\ policy'.status = "applied" =>
                               job'[i].status = "completed",
           Work(j, x), x.at \in {"send", "finish"},
           jobWorker[j].at # "idle",
           UNCHANGED <<version, writer, update, jobQueue, jobRecent, lapses>>
    PROVE  RetentionInv'
<1>1. /\ job \in [Jobs -> JobRecords] /\ job' \in [Jobs -> JobRecords] /\ job'[j] = y
      /\ \A i \in Jobs : i # j => job'[i] = job[i]
      /\ jobWorker' \in [Jobs -> JobWorkers] /\ jobWorker'[j] = x
      /\ \A i \in Jobs : i # j => jobWorker'[i] = jobWorker[i]
  BY DEF RetentionInv, RetentionTypeOK, Work
<1>2. RetentionTypeOK'
  BY <1>1 DEF RetentionInv, RetentionTypeOK
<1>3. WorkerHasMessage'
  BY <1>1 DEF RetentionInv, WorkerHasMessage
<1>4. \A i \in Jobs : /\ job'[i].target = job[i].target /\ job'[i].policy = job[i].policy
                      /\ job'[i].due = job[i].due
                      /\ job'[i].status = "absent" <=> job[i].status = "absent"
  BY <1>1
<1>5. \A i \in Jobs : \A p \in Positions : Covered(i, p) => Covered(i, p)'
  BY <1>4 DEF Covered
<1>6. JobsBehindPolicy'
  <2> SUFFICES ASSUME NEW i \in Jobs
               PROVE  /\ job'[i].status # "absent" =>
                            job'[i].policy <= policy'.revision /\ job'[i].target <= policy'.days
                      /\ job'[i].status = "absent" => job'[i] = NoJobRecord
                      /\ ~ job'[i].due => job'[i].marker = 0
                      /\ job'[i].due => job'[i].status # "absent"
                      /\ job'[i].status \in {"queued", "completed"} => job'[i].due
                      /\ \A p \in Positions : p <= job'[i].marker => Covered(i, p)'
                      /\ job'[i].status = "completed" => \A p \in Positions : Covered(i, p)'
    BY DEF JobsBehindPolicy
  <2>1. CASE i = j
    BY <1>1, <1>4, <1>5, <2>1 DEF RetentionInv, JobsBehindPolicy
  <2>2. CASE i # j
    BY <1>1, <1>5, <2>2 DEF RetentionInv, JobsBehindPolicy
  <2> QED
    BY <2>1, <2>2
<1>7. PolicyOfJob'
  BY <1>4 DEF RetentionInv, PolicyOfJob
<1>8. WritersKnow' /\ LateWritesCovered' /\ UpdateKnows'
  <2>1. WritersKnow'
    BY <1>4 DEF RetentionInv, WritersKnow
  <2>2. LateWritesCovered'
    <3>1. \A p \in Positions : version[p].after \subseteq Jobs
      BY DEF RetentionInv, RetentionTypeOK, Versions
    <3> QED
      BY <1>4, <3>1 DEF RetentionInv, LateWritesCovered
  <2>3. UpdateKnows'
    BY DEF RetentionInv, UpdateKnows
  <2> QED
    BY <2>1, <2>2, <2>3
<1>9. (\A i \in Jobs : WorkerKnows(i, jobWorker[i]))'
  <2> SUFFICES ASSUME NEW i \in Jobs
               PROVE  WorkerKnows(i, jobWorker[i])'
    OBVIOUS
  <2>1. CASE i = j
    BY <1>1, <2>1 DEF WorkerKnows
  <2>2. CASE i # j
    BY <1>1, <1>5, <2>2 DEF RetentionInv, WorkerKnows
  <2> QED
    BY <2>1, <2>2
<1> QED
  BY <1>2, <1>3, <1>6, <1>7, <1>8, <1>9 DEF RetentionInv

\* The next revision of a job whose record is s.
Revised(s, status, marker) == [s EXCEPT !.status = status, !.revision = @ + 1, !.marker = marker]

LEMMA NextRecord ==
    ASSUME NEW s \in JobRecords, NEW status \in JobStatuses, NEW marker \in Nat,
           NEW y, y = Revised(s, status, marker)
    PROVE  /\ y \in JobRecords /\ y.status = status /\ y.revision = s.revision + 1
           /\ y.target = s.target /\ y.policy = s.policy /\ y.due = s.due
           /\ y.marker = marker
<1> PICK D, B : D = Days /\ B = JobStatuses
  OBVIOUS
<1>1. s \in [status : B, revision : Nat, policy : Nat, target : D, due : BOOLEAN, marker : Nat]
  BY DEF JobRecords
<1>2. s.revision + 1 \in Nat
  BY <1>1
<1>3. y \in [status : B, revision : Nat, policy : Nat, target : D, due : BOOLEAN, marker : Nat]
  BY <1>1, <1>2 DEF Revised
<1>4. /\ y.status = status /\ y.revision = s.revision + 1
      /\ y.target = s.target /\ y.policy = s.policy /\ y.due = s.due
      /\ y.marker = marker
  BY <1>1 DEF Revised
<1> QED
  BY <1>3, <1>4 DEF JobRecords

LEMMA CommitPageKeeps == ASSUME RetentionInv, NEW j \in Jobs, CommitPage(j) PROVE RetentionInv'
<1> PICK w : w = jobWorker[j]
  OBVIOUS
<1>0. /\ w \in JobWorkers /\ WorkerKnows(j, w) /\ job[j] \in JobRecords
      /\ job \in [Jobs -> JobRecords]
  BY DEF RetentionInv, RetentionTypeOK
<1>9. w.page \in Nat /\ w.seen \in JobRecords /\ "queued" \in JobStatuses
  <2>1. w.page \in Nat /\ w.seen \in JobRecords
    BY <1>0 DEF JobWorkers
  <2> QED
    BY <2>1 DEF JobStatuses
<1>y. PICK y : y = Revised(w.seen, "queued", w.page)
  OBVIOUS
<1>8. /\ y \in JobRecords /\ y.status = "queued" /\ y.revision = w.seen.revision + 1
      /\ y.target = w.seen.target /\ y.policy = w.seen.policy /\ y.due = w.seen.due
      /\ y.marker = w.page
  <2>1. PICK s, q : s = w.seen /\ q = w.page
    OBVIOUS
  <2>2. s \in JobRecords /\ q \in Nat /\ "queued" \in JobStatuses /\ y = Revised(s, "queued", q)
    BY <1>9, <1>y, <2>1
  <2>3. /\ y \in JobRecords /\ y.status = "queued" /\ y.revision = s.revision + 1
        /\ y.target = s.target /\ y.policy = s.policy /\ y.due = s.due
        /\ y.marker = q
    BY <2>2, NextRecord
  <2> QED
    BY <2>1, <2>3
<1>x. PICK x : x = [IdleJobWorker EXCEPT !.at = "send", !.expected = w.expected, !.seen = y]
  OBVIOUS
<1>1. /\ w.at = "commit" /\ job[j].revision = w.seen.revision
      /\ job' = [job EXCEPT ![j] = y]
      /\ UNCHANGED <<policy, version, writer, update, jobQueue, jobRecent, lapses>>
  BY <1>y DEF CommitPage, Examined, Revised
<1>2. /\ w.seen = job[j] /\ job[j].due /\ job[j].status \in {"settling", "queued"}
      /\ \A p \in Positions : p <= w.page => Covered(j, p)
  BY <1>0, <1>1 DEF WorkerKnows
<1>3. /\ y \in JobRecords /\ y.status = "queued" /\ y.revision = job[j].revision + 1
      /\ y.target = job[j].target /\ y.policy = job[j].policy /\ y.due = job[j].due
      /\ y.marker = w.page
  BY <1>2, <1>8
<1>4. x \in JobWorkers /\ x.at = "send" /\ Work(j, x)
  <2>1. w.expected \in Nat
    BY <1>0 DEF JobWorkers
  <2>2. x \in JobWorkers /\ x.at = "send"
    BY <1>x, <1>3, <2>1, IdleRecords DEF JobWorkers
  <2>3. job'[j] = y
    BY <1>0, <1>1
  <2> QED
    BY <1>x, <2>2, <2>3 DEF CommitPage
<1>5. \A i \in Jobs : policy.job = i /\ policy'.status = "applied" => job'[i].status = "completed"
  <2>1. policy.job = j => policy.status # "applied"
    BY <1>2 DEF RetentionInv, PolicyOfJob
  <2> QED
    BY <1>0, <1>1, <2>1 DEF RetentionInv, PolicyOfJob
<1>6. job[j].status # "absent" /\ y.status # "absent" /\ y.due /\ y.status # "completed"
  BY <1>2, <1>3
<1>7. \A p \in Positions : p <= y.marker => Covered(j, p)
  BY <1>2, <1>3
<1>10. /\ policy' \in Policies /\ policy'.revision = policy.revision
       /\ policy'.days = policy.days /\ policy'.job = policy.job
  BY <1>1 DEF RetentionInv, RetentionTypeOK
<1>11. /\ job' = [job EXCEPT ![j] = y] /\ jobWorker[j].at # "idle"
       /\ UNCHANGED <<version, writer, update, jobQueue, jobRecent, lapses>>
  BY <1>1
<1> QED
  BY <1>3, <1>4, <1>5, <1>6, <1>7, <1>10, <1>11, JobWritten

LEMMA CompleteKeeps == ASSUME RetentionInv, NEW j \in Jobs, Complete(j) PROVE RetentionInv'
<1> PICK w : w = jobWorker[j]
  OBVIOUS
<1>0. /\ w \in JobWorkers /\ WorkerKnows(j, w) /\ job[j] \in JobRecords
      /\ job \in [Jobs -> JobRecords] /\ policy \in Policies
  BY DEF RetentionInv, RetentionTypeOK
<1>9. w.page \in Nat /\ w.seen \in JobRecords /\ "completed" \in JobStatuses
  BY <1>0 DEF JobWorkers, JobStatuses
<1>y. PICK y : y = Revised(w.seen, "completed", w.page)
  OBVIOUS
<1>8. /\ y \in JobRecords /\ y.status = "completed" /\ y.revision = w.seen.revision + 1
      /\ y.target = w.seen.target /\ y.policy = w.seen.policy /\ y.due = w.seen.due
      /\ y.marker = w.page
  <2>1. PICK s, q : s = w.seen /\ q = w.page
    OBVIOUS
  <2>2. s \in JobRecords /\ q \in Nat /\ "completed" \in JobStatuses /\ y = Revised(s, "completed", q)
    BY <1>9, <1>y, <2>1
  <2>3. /\ y \in JobRecords /\ y.status = "completed" /\ y.revision = s.revision + 1
        /\ y.target = s.target /\ y.policy = s.policy /\ y.due = s.due
        /\ y.marker = q
    BY <2>2, NextRecord
  <2> QED
    BY <2>1, <2>3
<1>1. /\ w.at = "complete" /\ job[j].revision = w.seen.revision
      /\ policy.job = j
      /\ job' = [job EXCEPT ![j] = y]
      /\ policy' = [policy EXCEPT !.status = "applied"]
      /\ Work(j, DoneWork)
      /\ UNCHANGED <<version, writer, update, jobQueue, jobRecent, lapses>>
  BY <1>y DEF Complete, Applying, Examined, Revised
<1>2. /\ w.seen = job[j] /\ job[j].due /\ job[j].status \in {"settling", "queued"}
      /\ \A p \in Positions : Covered(j, p)
  BY <1>0, <1>1 DEF WorkerKnows
<1>3. /\ y \in JobRecords /\ y.status = "completed" /\ y.revision = job[j].revision + 1
      /\ y.target = job[j].target /\ y.policy = job[j].policy /\ y.due = job[j].due
  BY <1>2, <1>8
<1>4. /\ policy' \in Policies /\ policy'.revision = policy.revision
      /\ policy'.days = policy.days /\ policy'.job = policy.job
  BY <1>0, <1>1 DEF Policies, PolicyStatuses
<1>5. \A i \in Jobs : policy.job = i /\ policy'.status = "applied" => job'[i].status = "completed"
  BY <1>0, <1>1, <1>3
<1>6. job[j].status # "absent" /\ y.status # "absent" /\ y.due
  BY <1>2, <1>3
<1>7. DoneWork \in JobWorkers /\ DoneWork.at = "finish" /\ jobWorker[j].at # "idle"
  BY <1>1, IdleRecords
<1> QED
  <2>1. \A p \in Positions : p <= y.marker => Covered(j, p)
    BY <1>2
  <2>2. /\ job' = [job EXCEPT ![j] = y] /\ Work(j, DoneWork)
        /\ UNCHANGED <<version, writer, update, jobQueue, jobRecent, lapses>>
    BY <1>1
  <2> QED
    BY <1>2, <1>3, <1>4, <1>5, <1>6, <1>7, <2>1, <2>2, JobWritten

LEMMA FailKeeps == ASSUME RetentionInv, NEW j \in Jobs, Fail(j) PROVE RetentionInv'
<1>1. jobWorker[j].at = "fail"
  BY DEF Fail
<1>2. ASSUME job[j].status \in {"settling", "queued"}, policy.job = j,
             job' = [job EXCEPT ![j].status = "failed", ![j].revision = @ + 1],
             policy' = [policy EXCEPT !.status = "failed"],
             Work(j, DoneWork),
             UNCHANGED <<version, writer, update, jobQueue, jobRecent, lapses>>
      PROVE  RetentionInv'
  <2> PICK old : old = job[j]
    OBVIOUS
  <2>0. /\ old \in JobRecords /\ job \in [Jobs -> JobRecords] /\ policy \in Policies
        /\ "failed" \in JobStatuses /\ old.marker \in Nat
    <3>1. old \in JobRecords /\ job \in [Jobs -> JobRecords] /\ policy \in Policies
      BY DEF RetentionInv, RetentionTypeOK
    <3> QED
      BY <3>1 DEF JobRecords, JobStatuses
  <2> PICK y : y = Revised(old, "failed", old.marker)
    OBVIOUS
  <2>1. /\ y \in JobRecords /\ y.status = "failed" /\ y.revision = old.revision + 1
        /\ y.target = old.target /\ y.policy = old.policy /\ y.due = old.due
        /\ y.marker = old.marker
    BY <2>0, NextRecord
  <2>2. job' = [job EXCEPT ![j] = y]
    <3>1. y = [old EXCEPT !.status = "failed", !.revision = @ + 1]
      BY <2>0 DEF JobRecords, Revised
    <3> QED
      BY <1>2, <2>0, <3>1
  <2>3. /\ policy' \in Policies /\ policy'.revision = policy.revision
        /\ policy'.days = policy.days /\ policy'.job = policy.job /\ policy'.status = "failed"
    BY <1>2, <2>0 DEF Policies, PolicyStatuses
  <2>4. /\ ~ y.due => y.marker = 0
        /\ \A p \in Positions : p <= y.marker => Covered(j, p)
    BY <2>1 DEF RetentionInv, JobsBehindPolicy
  <2>5. DoneWork \in JobWorkers /\ DoneWork.at = "finish" /\ jobWorker[j].at # "idle"
    BY <1>1, IdleRecords
  <2>6. /\ job[j].status # "absent" /\ y.status # "absent"
        /\ y.status \notin {"queued", "completed"}
        /\ \A i \in Jobs : policy.job = i /\ policy'.status = "applied" =>
              job'[i].status = "completed"
    BY <1>2, <2>1, <2>3
  <2> QED
    BY <1>2, <2>1, <2>2, <2>3, <2>4, <2>5, <2>6, JobWritten
<1>3. ASSUME ReturnMessage(j), UNCHANGED lapses
      PROVE  RetentionInv'
  BY <1>1, <1>3, QueueOf, ReturnMessageKeeps
<1>4. ASSUME Work(j, DoneWork),
             UNCHANGED <<policy, job, version, writer, update, jobQueue, jobRecent, lapses>>
      PROVE  RetentionInv'
  BY <1>1, <1>4, QueueOf, IdleRecords, JobWorkerStep
<1> QED
  BY <1>2, <1>3, <1>4 DEF Fail

\* Nothing is known of a job that is not there.
LEMMA NoWorkerYet ==
    ASSUME RetentionInv, NEW j \in Jobs, job[j].status = "absent"
    PROVE  /\ jobWorker[j].at \notin {"extend", "commit", "complete"}
           /\ ~ job[j].due /\ \A p \in Positions : version[p].held # 0 => j \notin version[p].after
<1>1. job[j] = NoJobRecord /\ jobWorker[j] \in JobWorkers
  BY DEF RetentionInv, RetentionTypeOK, JobsBehindPolicy
<1>2. jobWorker[j].seen.revision \in Nat /\ job[j].revision = 0 /\ ~ job[j].due
  BY <1>1 DEF JobWorkers, JobRecords, NoJobRecord
<1>3. jobWorker[j].at \notin {"extend", "commit", "complete"}
  BY <1>2 DEF RetentionInv, WorkerKnows
<1>4. \A p \in Positions : version[p].held # 0 => j \notin version[p].after
  BY <1>2 DEF RetentionInv, LateWritesCovered
<1> QED
  BY <1>2, <1>3, <1>4

LEMMA CreateJobKeeps ==
    ASSUME RetentionInv, NEW j \in Jobs, NEW days \in Days, CreateJob(j, days)
    PROVE  RetentionInv'
<1> PICK y : y = [NoJobRecord EXCEPT
          !.status = "settling", !.revision = 1, !.policy = policy.revision + 1, !.target = days]
  OBVIOUS
<1>0. /\ job \in [Jobs -> JobRecords] /\ policy \in Policies
      /\ policy.revision \in Nat /\ policy.days \in Days /\ policy.days \in Nat /\ days \in Nat
  BY RetentionAssumption DEF RetentionInv, RetentionTypeOK, Policies, Days
<1>1. /\ job[j].status = "absent" /\ days >= policy.days
      /\ job' = [job EXCEPT ![j] = y]
      /\ policy' = [revision |-> policy.revision + 1, days |-> days,
                    status |-> "applying", job |-> j]
      /\ UNCHANGED <<version, writer, update, jobQueue, jobRecent, jobWorker, lapses>>
  <2>1. days >= policy.days
    BY <1>0 DEF CreateJob
  <2> QED
    BY <2>1, Zenon DEF CreateJob
<1>2. /\ y \in JobRecords /\ y.status = "settling" /\ y.policy = policy.revision + 1
      /\ y.target = days /\ ~ y.due /\ y.marker = 0
  <2>1. /\ "settling" \in JobStatuses /\ policy.revision + 1 \in Nat /\ 1 \in Nat
        /\ NoJobRecord \in JobRecords /\ ~ NoJobRecord.due /\ NoJobRecord.marker = 0
    BY <1>0, IdleRecords DEF JobStatuses
  <2> PICK D, B, n : D = Days /\ B = JobStatuses /\ n = NoJobRecord
    OBVIOUS
  <2>2. n \in [status : B, revision : Nat, policy : Nat, target : D, due : BOOLEAN, marker : Nat]
    BY <2>1 DEF JobRecords
  <2>3. y \in [status : B, revision : Nat, policy : Nat, target : D, due : BOOLEAN, marker : Nat]
    BY <2>1, <2>2
  <2>4. y.status = "settling" /\ y.policy = policy.revision + 1 /\ y.target = days
        /\ y.due = n.due /\ y.marker = n.marker
    BY <2>2
  <2> QED
    BY <2>1, <2>3, <2>4 DEF JobRecords
<1>3. /\ job' \in [Jobs -> JobRecords] /\ job'[j] = y
      /\ \A i \in Jobs : i # j => job'[i] = job[i]
  BY <1>0, <1>1, <1>2
<1>4. policy' \in Policies
  BY <1>0, <1>1 DEF Policies, PolicyStatuses
<1>5. RetentionTypeOK'
  BY <1>1, <1>3, <1>4 DEF RetentionInv, RetentionTypeOK
<1>6. WorkerHasMessage'
  BY <1>1 DEF RetentionInv, WorkerHasMessage
<1>7. \A i \in Jobs : \A p \in Positions : i # j => (Covered(i, p) => Covered(i, p)')
  BY <1>1, <1>3 DEF Covered
<1>8. JobsBehindPolicy'
  <2> SUFFICES ASSUME NEW i \in Jobs
               PROVE  /\ job'[i].status # "absent" =>
                            job'[i].policy <= policy'.revision /\ job'[i].target <= policy'.days
                      /\ job'[i].status = "absent" => job'[i] = NoJobRecord
                      /\ ~ job'[i].due => job'[i].marker = 0
                      /\ job'[i].due => job'[i].status # "absent"
                      /\ job'[i].status \in {"queued", "completed"} => job'[i].due
                      /\ \A p \in Positions : p <= job'[i].marker => Covered(i, p)'
                      /\ job'[i].status = "completed" => \A p \in Positions : Covered(i, p)'
    BY DEF JobsBehindPolicy
  <2>1. CASE i = j
    <3>1. \A p \in Positions : ~ (p <= 0)
      BY RetentionAssumption DEF Positions
    <3>2. policy.revision + 1 <= policy'.revision /\ days <= policy'.days
      BY <1>0, <1>1
    <3> QED
      BY <1>2, <1>3, <2>1, <3>1, <3>2
  <2>2. CASE i # j
    <3>1. job[i].policy \in Nat /\ job[i].target \in Nat
      BY <1>0, RetentionAssumption DEF JobRecords, Days
    <3>2. job[i].status # "absent" =>
              job[i].policy <= policy'.revision /\ job[i].target <= policy'.days
      BY <1>0, <1>1, <3>1 DEF RetentionInv, JobsBehindPolicy
    <3> QED
      BY <1>3, <1>7, <2>2, <3>2 DEF RetentionInv, JobsBehindPolicy
  <2> QED
    BY <2>1, <2>2
<1>9. PolicyOfJob'
  BY <1>1, <1>2, <1>3 DEF PolicyOfJob
<1>10. WritersKnow'
  <2> SUFFICES ASSUME NEW w \in Writers, writer[w].at = "put"
               PROVE  /\ writer[w].revision <= policy'.revision
                      /\ \A i \in Jobs :
                            /\ job'[i].status # "absent" /\ writer[w].revision >= job'[i].policy =>
                                  writer[w].days >= job'[i].target
                            /\ job'[i].due => writer[w].revision >= job'[i].policy
    BY <1>1 DEF WritersKnow
  <2>1. writer[w].revision <= policy.revision /\ writer[w].revision \in Nat
    BY DEF RetentionInv, RetentionTypeOK, Writes, WritersKnow
  <2>2. ~ (writer[w].revision >= policy.revision + 1) /\ writer[w].revision <= policy'.revision
    BY <1>0, <1>1, <2>1
  <2>3. ASSUME NEW i \in Jobs
        PROVE  /\ job[i].status # "absent" /\ writer[w].revision >= job[i].policy =>
                     writer[w].days >= job[i].target
               /\ job[i].due => writer[w].revision >= job[i].policy
    BY DEF RetentionInv, WritersKnow
  <2>4. ~ job'[j].due /\ ~ (writer[w].revision >= job'[j].policy)
    BY <1>2, <1>3, <2>2
  <2>5. \A i \in Jobs : i # j => job'[i] = job[i]
    BY <1>3
  <2> QED
    BY <2>2, <2>3, <2>4, <2>5
<1>11. LateWritesCovered'
  <2>1. \A p \in Positions : version[p].after \subseteq Jobs
    BY DEF RetentionInv, RetentionTypeOK, Versions
  <2> QED
    BY <1>1, <1>3, <2>1, NoWorkerYet DEF RetentionInv, LateWritesCovered
<1>12. UpdateKnows'
  <2>1. update.at # "idle" => update.revision < policy'.revision
    BY <1>0, <1>1 DEF RetentionInv, RetentionTypeOK, Updates, UpdateKnows
  <2>2. update.revision \in Nat /\ policy'.revision \in Nat
    BY <1>0, <1>1 DEF RetentionInv, RetentionTypeOK, Updates
  <2> QED
    BY <1>1, <2>1, <2>2 DEF RetentionInv, UpdateKnows
<1>13. (\A i \in Jobs : WorkerKnows(i, jobWorker[i]))'
  <2> SUFFICES ASSUME NEW i \in Jobs
               PROVE  WorkerKnows(i, jobWorker[i])'
    OBVIOUS
  <2>1. CASE i = j
    BY <1>1, <2>1, NoWorkerYet DEF WorkerKnows
  <2>2. CASE i # j
    BY <1>1, <1>3, <1>7, <2>2 DEF RetentionInv, WorkerKnows
  <2> QED
    BY <2>1, <2>2
<1> QED
  BY <1>5, <1>6, <1>8, <1>9, <1>10, <1>11, <1>12, <1>13 DEF RetentionInv

LEMMA PassCutoverKeeps == ASSUME RetentionInv, NEW j \in Jobs, PassCutover(j) PROVE RetentionInv'
<1> PICK old : old = job[j]
  OBVIOUS
<1> PICK y : y = [old EXCEPT !.due = TRUE]
  OBVIOUS
<1>0. old \in JobRecords /\ job \in [Jobs -> JobRecords]
  BY DEF RetentionInv, RetentionTypeOK
<1>1. /\ \A w \in Writers : writer[w].at = "put" => writer[w].revision >= old.policy
      /\ old.status = "settling" /\ ~ old.due
      /\ UNCHANGED <<policy, version, writer, update, jobQueue, jobRecent, jobWorker, lapses>>
  BY DEF PassCutover, CutOver
<1>2. job' = [job EXCEPT ![j] = y]
  BY Zenon DEF PassCutover, CutOver
<1>3. /\ y \in JobRecords /\ y.due
      /\ y.status = old.status /\ y.revision = old.revision /\ y.policy = old.policy
      /\ y.target = old.target /\ y.marker = old.marker
  <2> PICK D, B : D = Days /\ B = JobStatuses
    OBVIOUS
  <2>1. old \in [status : B, revision : Nat, policy : Nat, target : D, due : BOOLEAN, marker : Nat]
    BY <1>0 DEF JobRecords
  <2>2. y \in [status : B, revision : Nat, policy : Nat, target : D, due : BOOLEAN, marker : Nat]
    BY <2>1
  <2> QED
    BY <2>1, <2>2 DEF JobRecords
<1>4. /\ job' \in [Jobs -> JobRecords] /\ job'[j] = y
      /\ \A i \in Jobs : i # j => job'[i] = job[i]
  BY <1>0, <1>2, <1>3
<1>5. \A i \in Jobs : /\ job'[i].status = job[i].status /\ job'[i].revision = job[i].revision
                      /\ job'[i].policy = job[i].policy /\ job'[i].target = job[i].target
                      /\ job'[i].marker = job[i].marker /\ (job[i].due => job'[i].due)
                      /\ (i # j => job'[i] = job[i])
  BY <1>1, <1>3, <1>4
<1>6. RetentionTypeOK'
  BY <1>1, <1>4 DEF RetentionInv, RetentionTypeOK
<1>7. WorkerHasMessage'
  BY <1>1 DEF RetentionInv, WorkerHasMessage
<1>8. \A i \in Jobs : \A p \in Positions : Covered(i, p) => Covered(i, p)'
  BY <1>1, <1>5 DEF Covered
<1>9. JobsBehindPolicy'
  <2> SUFFICES ASSUME NEW i \in Jobs
               PROVE  /\ job'[i].status # "absent" =>
                            job'[i].policy <= policy'.revision /\ job'[i].target <= policy'.days
                      /\ job'[i].status = "absent" => job'[i] = NoJobRecord
                      /\ ~ job'[i].due => job'[i].marker = 0
                      /\ job'[i].due => job'[i].status # "absent"
                      /\ job'[i].status \in {"queued", "completed"} => job'[i].due
                      /\ \A p \in Positions : p <= job'[i].marker => Covered(i, p)'
                      /\ job'[i].status = "completed" => \A p \in Positions : Covered(i, p)'
    BY DEF JobsBehindPolicy
  <2>1. CASE i = j
    BY <1>1, <1>3, <1>4, <1>5, <1>8, <2>1 DEF RetentionInv, JobsBehindPolicy
  <2>2. CASE i # j
    BY <1>1, <1>4, <1>8, <2>2 DEF RetentionInv, JobsBehindPolicy
  <2> QED
    BY <2>1, <2>2
<1>10. PolicyOfJob'
  BY <1>1, <1>5 DEF RetentionInv, PolicyOfJob
<1>11. WritersKnow'
  <2> SUFFICES ASSUME NEW w \in Writers, writer[w].at = "put", NEW i \in Jobs
               PROVE  /\ writer[w].revision <= policy.revision
                      /\ job'[i].status # "absent" /\ writer[w].revision >= job'[i].policy =>
                            writer[w].days >= job'[i].target
                      /\ job'[i].due => writer[w].revision >= job'[i].policy
    BY <1>1 DEF RetentionInv, WritersKnow
  <2>1. CASE i = j
    BY <1>1, <1>5, <2>1 DEF RetentionInv, WritersKnow
  <2>2. CASE i # j
    BY <1>4, <2>2 DEF RetentionInv, WritersKnow
  <2> QED
    BY <2>1, <2>2
<1>12. LateWritesCovered'
  <2>1. \A p \in Positions : version[p].after \subseteq Jobs
    BY DEF RetentionInv, RetentionTypeOK, Versions
  <2> QED
    BY <1>1, <1>5, <2>1 DEF RetentionInv, LateWritesCovered
<1>13. UpdateKnows'
  BY <1>1 DEF RetentionInv, UpdateKnows
<1>14. (\A i \in Jobs : WorkerKnows(i, jobWorker[i]))'
  <2> SUFFICES ASSUME NEW i \in Jobs
               PROVE  WorkerKnows(i, jobWorker[i])'
    OBVIOUS
  <2>1. CASE i = j
    BY <1>1, <1>5, <2>1 DEF RetentionInv, WorkerKnows
  <2>2. CASE i # j
    BY <1>1, <1>4, <1>8, <2>2 DEF RetentionInv, WorkerKnows
  <2> QED
    BY <2>1, <2>2
<1> QED
  BY <1>6, <1>7, <1>9, <1>10, <1>11, <1>12, <1>13, <1>14 DEF RetentionInv

LEMMA CommitUpdateKeeps == ASSUME RetentionInv, CommitUpdate PROVE RetentionInv'
<1>0. /\ policy \in Policies /\ update \in Updates /\ policy.revision \in Nat
      /\ policy.days \in Nat /\ update.days \in Days /\ update.days \in Nat
      /\ update.revision \in Nat /\ update.at # "idle"
  BY RetentionAssumption DEF RetentionInv, RetentionTypeOK, Policies, Updates, Days, CommitUpdate
<1>1. /\ update' = NoUpdate
      /\ UNCHANGED <<job, version, writer, jobQueue, jobRecent, jobWorker, lapses>>
  BY DEF CommitUpdate
<1>2. /\ policy' \in Policies /\ policy'.revision >= policy.revision
      /\ policy'.days >= policy.days
      /\ policy' = policy \/ policy'.job = NoJob
  <2>1. CASE policy.revision = update.revision
    <3>1. policy' = [revision |-> policy.revision + 1, days |-> update.days,
                     status |-> "applied", job |-> NoJob]
      BY <2>1 DEF CommitUpdate
    <3>2. update.days >= policy.days
      BY <1>0, <2>1 DEF RetentionInv, UpdateKnows
    <3> QED
      BY <1>0, <3>1, <3>2 DEF Policies, PolicyStatuses
  <2>2. CASE policy.revision # update.revision
    BY <1>0, <2>2 DEF CommitUpdate
  <2> QED
    BY <2>1, <2>2
<1>3. policy'.revision \in Nat /\ policy'.days \in Nat
  BY <1>2, RetentionAssumption DEF Policies, Days
<1>4. RetentionTypeOK'
  BY <1>1, <1>2, IdleRecords DEF RetentionInv, RetentionTypeOK
<1>5. WorkerHasMessage'
  BY <1>1 DEF RetentionInv, WorkerHasMessage
<1>6. \A i \in Jobs : \A p \in Positions : Covered(i, p)' <=> Covered(i, p)
  BY <1>1 DEF Covered
<1>7. JobsBehindPolicy'
  <2> SUFFICES ASSUME NEW i \in Jobs, job[i].status # "absent"
               PROVE  job[i].policy <= policy'.revision /\ job[i].target <= policy'.days
    BY <1>1, <1>6 DEF RetentionInv, JobsBehindPolicy
  <2>1. job[i].policy \in Nat /\ job[i].target \in Nat
    BY RetentionAssumption DEF RetentionInv, RetentionTypeOK, JobRecords, Days
  <2>2. job[i].policy <= policy.revision /\ job[i].target <= policy.days
    BY DEF RetentionInv, JobsBehindPolicy
  <2> QED
    BY <1>0, <1>2, <1>3, <2>1, <2>2
<1>8. PolicyOfJob'
  BY <1>1, <1>2, RetentionAssumption DEF RetentionInv, PolicyOfJob
<1>9. WritersKnow'
  <2>1. \A w \in Writers : writer[w].revision \in Nat
    BY DEF RetentionInv, RetentionTypeOK, Writes
  <2>2. \A w \in Writers : writer[w].at = "put" => writer[w].revision <= policy'.revision
    BY <1>0, <1>2, <1>3, <2>1 DEF RetentionInv, WritersKnow
  <2> QED
    BY <1>1, <2>2 DEF RetentionInv, WritersKnow
<1>10. LateWritesCovered'
  BY <1>1 DEF RetentionInv, LateWritesCovered
<1>11. UpdateKnows'
  BY <1>1, IdleRecords DEF UpdateKnows
<1>12. (\A i \in Jobs : WorkerKnows(i, jobWorker[i]))'
  BY <1>1, <1>6 DEF RetentionInv, WorkerKnows
<1> QED
  BY <1>4, <1>5, <1>7, <1>8, <1>9, <1>10, <1>11, <1>12 DEF RetentionInv

(***************************************************************************)
(* Every step, and the theorems.                                           *)
(***************************************************************************)
LEMMA JobStepKeeps == ASSUME RetentionInv, NEW j \in Jobs, JobStep(j) PROVE RetentionInv'
  BY TakeMessageKeeps, LoadJobKeeps, ExtendPageKeeps, CommitPageKeeps, CompleteKeeps,
     SendNextKeeps, FinishMessageKeeps, MessageFailsKeeps, FailKeeps DEF JobStep

LEMMA RetentionStepKeeps == RetentionInv /\ [RetentionNext]_retention => RetentionInv'
<1> SUFFICES ASSUME RetentionInv, [RetentionNext]_retention
             PROVE  RetentionInv'
  OBVIOUS
<1>1. CASE UNCHANGED retention
  <2>1. UNCHANGED <<policy, job, version, writer, update, jobQueue, jobRecent, jobWorker, lapses>>
    BY <1>1 DEF retention
  <2>2. VersionsGoOn
    BY <2>1, VersionsStay DEF RetentionInv
  <2>3. WritersKnow' /\ UpdateKnows'
    BY <2>1, <2>2, OthersStay
  <2>4. writer' \in [Writers -> Writes] /\ update' \in Updates
    BY <2>1 DEF RetentionInv, RetentionTypeOK
  <2> QED
    BY <2>1, <2>2, <2>3, <2>4, RequestStep
<1>2. ASSUME NEW w \in Writers, BeginWrite(w) \/ EndWrite(w)
      PROVE  RetentionInv'
  BY <1>2, BeginWriteKeeps, EndWriteKeeps
<1>3. ASSUME NEW p \in Positions, WriteAtFloor(p)
      PROVE  RetentionInv'
  BY <1>3, WriteAtFloorKeeps
<1>4. ASSUME NEW days \in Days, BeginUpdate(days) \/ \E j \in Jobs : CreateJob(j, days)
      PROVE  RetentionInv'
  BY <1>4, BeginUpdateKeeps, CreateJobKeeps
<1>5. ASSUME ExtendInventory \/ CommitUpdate
      PROVE  RetentionInv'
  BY <1>5, ExtendInventoryKeeps, CommitUpdateKeeps
<1>6. ASSUME NEW j \in Jobs,
             \/ PassCutover(j) \/ Schedule(j) \/ ForgetRevision(j) \/ JobStep(j)
             \/ JobWorkerStops(j)
      PROVE  RetentionInv'
  BY <1>6, PassCutoverKeeps, ScheduleKeeps, ForgetRevisionKeeps, JobStepKeeps, JobWorkerStopsKeeps
<1> QED
  BY <1>1, <1>2, <1>3, <1>4, <1>5, <1>6 DEF RetentionNext

\* A policy is never behind a job, a write under way has read the period of every job
\* whose cutover has passed, and a worker that will write has read the revision it
\* writes over (_create_evidence_retention_job, _process_retention_job).
THEOREM RetentionInvariant == RetentionSpec => []RetentionInv
<1> QED
  BY RetentionBegins, RetentionStepKeeps, PTL DEF RetentionSpec

\* The items of the policy, the jobs, the versions, the writes, the messages and the
\* workers keep their forms (_process_retention_job and the requests).
THEOREM RetentionTypes == RetentionSpec => []RetentionTypeOK
<1>1. RetentionInv => RetentionTypeOK
  BY DEF RetentionInv
<1> QED
  BY <1>1, RetentionInvariant, PTL

\* When a job has applied a policy, every version written until the job's cutover, and
\* every version written under the policy after it, is held for the policy's period,
\* whatever pages were repeated, writes came late and synchronous updates intervened
\* (_process_retention_job).
THEOREM AppliedIsCovered == RetentionSpec => []CoveredWhenApplied
<1>1. RetentionInv => CoveredWhenApplied
  <2> SUFFICES ASSUME RetentionInv, NEW j \in Jobs, AppliedBy(j), NEW p \in Present,
                      version[p].aware \/ j \notin version[p].after
               PROVE  version[p].held >= policy.days
    BY DEF CoveredWhenApplied
  <2>1. p \in Positions /\ version[p].held # 0
    BY DEF Present
  <2>2. job[j].status = "completed" /\ job[j].target = policy.days
    BY DEF RetentionInv, PolicyOfJob, AppliedBy
  <2>3. Covered(j, p)
    BY <2>1, <2>2 DEF RetentionInv, JobsBehindPolicy
  <2>4. CASE j \in version[p].after
    BY <2>1, <2>2, <2>4 DEF RetentionInv, LateWritesCovered
  <2>5. CASE j \notin version[p].after
    BY <2>1, <2>2, <2>3, <2>5 DEF Covered
  <2> QED
    BY <2>4, <2>5
<1> QED
  BY <1>1, RetentionInvariant, PTL
================================================================================
