--------------------------- MODULE DiscoveryProofs ----------------------------
(***************************************************************************)
(* Proofs about DiscoveryConnectors and DiscoveryGenerations, for every    *)
(* number of administrators, collections, publishers, generations, pages   *)
(* and contents: LiveCollectorServed and EvidenceIsWhole.                  *)
(***************************************************************************)
EXTENDS DiscoveryGenerations, TLAPS

(***************************************************************************)
(* The inductive invariants.                                               *)
(***************************************************************************)
Credentials ==
    [status : {"absent", "active", "revoked"}, revision : Nat, token : Nat, managed : BOOLEAN]

Creating == {"schedule", "commit", "abandon", "abandonSecret"}

Reading == {"rotate", "revoke", "disable"}

Disabling == {"unschedule", "dropSecret", "cleanup"}

Requests ==
    [at : {"idle"} \cup Creating \cup Reading \cup Disabling, seen : Credentials,
     made : SUBSET {"secret", "schedule"}]

ConnectorTypeOK ==
    /\ connector \in Credentials
    /\ collector \in {"absent", "disabled"} \cup Scheduled
    /\ schedule \in BOOLEAN
    /\ vault \in [status : {"absent", "held", "deleted"}, token : Nat]
    /\ issued \in Nat
    /\ admin \in [Administrators -> Requests]
    /\ collection \in [Collections -> {"idle", "bound", "running"}]
    /\ misreported \in BOOLEAN

\* The request r is of the creation that made the source's secret.
Maker(r) == "secret" \in r.made

\* A secret is made when there is none, and none is purged while a request may
\* still clean up: no second creation makes one before the first has ended.
OneMaker == \A a, b \in Administrators : Maker(admin[a]) /\ Maker(admin[b]) => a = b

\* Only a creation cleans up what it made, and only a disable what it disabled.
RequestOwns(r) ==
    /\ r.at \in {"idle"} \cup Reading => r.made = {}
    /\ r.at \in Creating /\ "schedule" \in r.made => Maker(r)
    /\ Maker(r) => r.at \in Creating /\ vault.status # "absent"
    /\ r.at \in {"schedule", "commit"} => Maker(r)
    /\ r.at \in {"schedule", "commit"} /\ collector # "disabled" =>
          vault.status = "held" /\ vault.token = r.seen.token
    /\ r.at = "commit" /\ collector # "disabled" => schedule
    /\ r.at \in Disabling => collector = "disabled"

\* The resources of a live job are no request's to clean up.
CollectorServed ==
    collector \in Scheduled /\ ~ misreported =>
        /\ schedule
        /\ vault.status = "held"
        /\ connector.managed => connector.token = vault.token
        /\ \A a \in Administrators :
              /\ ~ Maker(admin[a])
              /\ admin[a].at \in Reading /\ admin[a].seen.managed =>
                    admin[a].seen.token = vault.token

\* Before the creation is committed no connector is the collector's.
UnmanagedBefore ==
    collector = "absent" =>
        /\ ~ connector.managed
        /\ \A a \in Administrators : ~ admin[a].seen.managed

ConnectorInv ==
    /\ ConnectorTypeOK
    /\ OneMaker
    /\ \A a \in Administrators : RequestOwns(admin[a])
    /\ CollectorServed
    /\ UnmanagedBefore

-----------------------------------------------------------------------------

Observed == Contents \cup {Nowhere}

Uploads ==
    [at : {"idle", "declare", "object", "item", "load", "baseline", "commit", "snapshot"},
     gen : GenerationIds \cup {Nowhere}, base : Nat, page : Nat, content : Observed,
     loaded : Seq(Contents)]

EvidenceTypeOK ==
    /\ source \in [revision : Nat, generation : GenerationIds \cup {Nowhere}]
    /\ generation \in [GenerationIds ->
          [state : {"absent", "uploading", "committed"}, base : Nat, count : 0 .. MaxPages]]
    /\ page \in [GenerationIds -> [Pages -> Observed]]
    /\ object \in [GenerationIds -> [Pages -> Observed]]
    /\ baseline \in [GenerationIds -> Seq(Contents)]
    /\ upload \in [Publishers -> Uploads]
    /\ verified \in [GenerationIds -> Seq(Contents)]

\* The contents are those of the generation's pages, whose items and objects agree.
Verified(g, contents) ==
    /\ Len(contents) <= generation[g].count
    /\ \A n \in 1 .. Len(contents) : contents[n] = page[g][n] /\ contents[n] = object[g][n]

\* What a request of a publisher knows.
UploadPlaced(u) ==
    /\ u.at \in {"declare", "object", "item", "load", "baseline", "commit"} =>
          u.gen \in GenerationIds
    /\ u.at \in {"object", "item", "load", "baseline", "commit"} =>
          generation[u.gen].state # "absent"
    /\ u.at \in {"object", "item"} => u.page \in Pages /\ u.content \in Contents
    /\ u.at \in {"load", "baseline", "commit"} =>
          /\ u.base = generation[u.gen].base
          /\ Verified(u.gen, u.loaded)
    /\ u.at = "idle" => u.loaded = <<>>
    /\ u.at = "load" => Len(u.loaded) < generation[u.gen].count
    /\ u.at \in {"baseline", "commit"} =>
          /\ Len(u.loaded) = generation[u.gen].count
          /\ u.loaded # <<>>
    /\ u.at = "commit" /\ WithBaseline => baseline[u.gen] = u.loaded

CommittedPlaced(g) ==
    generation[g].state = "committed" =>
        /\ Len(verified[g]) = generation[g].count
        /\ verified[g] # <<>>
        /\ Verified(g, verified[g])
        /\ WithBaseline => baseline[g] = verified[g]
        /\ generation[g].base < source.revision

OnePerRevision ==
    \A g, h \in Committed : generation[g].base = generation[h].base => g = h

EvidenceInv ==
    /\ EvidenceTypeOK
    /\ source.generation \in Committed \cup {Nowhere}
    /\ \A p \in Publishers : UploadPlaced(upload[p])
    /\ \A g \in GenerationIds : generation[g].state # "absent" => generation[g].count \in Pages
    /\ \A g \in GenerationIds : CommittedPlaced(g)
    /\ OnePerRevision


-----------------------------------------------------------------------------
(* The connector and its collector *)

LEMMA RequestFacts ==
    /\ NoConnector \in Credentials /\ ~ NoConnector.managed /\ NoConnector.token = 0
    /\ NoRequest \in Requests /\ NoRequest.at = "idle" /\ NoRequest.made = {}
    /\ NoRequest.seen = NoConnector
  <1>1. NoConnector \in Credentials /\ NoConnector.token = 0
    BY DEF NoConnector, Credentials
  <1>2. NoConnector.managed = FALSE
    BY DEF NoConnector
  <1>3. NoRequest \in Requests /\ NoRequest.at = "idle" /\ NoRequest.made = {}
        /\ NoRequest.seen = NoConnector
    BY <1>1 DEF NoRequest, Requests
  <1> QED BY <1>1, <1>2, <1>3

LEMMA ConnectorStarts == ConnectorInit => ConnectorInv
  <1> SUFFICES ASSUME ConnectorInit PROVE ConnectorInv
    OBVIOUS
  <1>1. \A a \in Administrators : admin[a] = NoRequest
    BY DEF ConnectorInit
  <1>2. ConnectorTypeOK
    BY RequestFacts DEF ConnectorInit, ConnectorTypeOK, NoSecret
  <1>3. \A a \in Administrators : ~ Maker(admin[a]) /\ RequestOwns(admin[a])
    BY <1>1, RequestFacts DEF Maker, RequestOwns, Creating, Disabling
  <1>4. CollectorServed
    BY DEF ConnectorInit, CollectorServed, Scheduled
  <1>5. UnmanagedBefore
    BY <1>1, RequestFacts DEF UnmanagedBefore, ConnectorInit
  <1> QED BY <1>2, <1>3, <1>4, <1>5 DEF ConnectorInv, OneMaker

\* One request goes on to r.
LEMMA RequestContinues ==
    ASSUME ConnectorTypeOK, NEW a \in Administrators, NEW r \in Requests, Keep(a, r)
    PROVE  /\ admin' \in [Administrators -> Requests]
           /\ admin'[a] = r
           /\ \A b \in Administrators : b # a => admin'[b] = admin[b]
  BY DEF ConnectorTypeOK, Keep

\* The types of what no request remembers.
StateTyped ==
    /\ connector \in Credentials
    /\ collector \in {"absent", "disabled"} \cup Scheduled
    /\ schedule \in BOOLEAN
    /\ vault \in [status : {"absent", "held", "deleted"}, token : Nat]
    /\ issued \in Nat
    /\ collection \in [Collections -> {"idle", "bound", "running"}]
    /\ misreported \in BOOLEAN

LEMMA ConnectorMoves ==
    ASSUME ConnectorInv, StateTyped', NEW a \in Administrators, NEW r \in Requests, Keep(a, r),
           RequestOwns(r)',
           Maker(r) => Maker(admin[a]) \/ \A b \in Administrators : ~ Maker(admin[b]),
           \A b \in Administrators : b # a => RequestOwns(admin[b])',
           CollectorServed', UnmanagedBefore'
    PROVE  ConnectorInv'
  <1>1. /\ admin' \in [Administrators -> Requests]
        /\ admin'[a] = r
        /\ \A b \in Administrators : b # a => admin'[b] = admin[b]
    BY RequestContinues DEF ConnectorInv
  <1>2. ConnectorTypeOK'
    BY <1>1 DEF ConnectorTypeOK, StateTyped
  <1>3. OneMaker'
    BY <1>1 DEF ConnectorInv, OneMaker, Maker
  <1>4. \A b \in Administrators : RequestOwns(admin[b])'
    BY <1>1 DEF RequestOwns, Maker
  <1> QED BY <1>2, <1>3, <1>4 DEF ConnectorInv

\* The other requests own what they did: a creation that goes on keeps its secret
\* and its schedule, unless there is no other or the job is disabled.
LEMMA OthersOwn ==
    ASSUME ConnectorInv, NEW a \in Administrators, NEW r \in Requests, Keep(a, r),
           collector = "disabled" => collector' = "disabled",
           vault.status # "absent" => vault'.status # "absent",
           \/ \A b \in Administrators : b # a => ~ Maker(admin[b])
           \/ vault' = vault /\ (schedule => schedule')
           \/ collector' = "disabled"
    PROVE  \A b \in Administrators : b # a => RequestOwns(admin[b])'
  <1> SUFFICES ASSUME NEW b \in Administrators, b # a PROVE RequestOwns(admin[b])'
    OBVIOUS
  <1>1. admin'[b] = admin[b] /\ RequestOwns(admin[b])
    BY RequestContinues DEF ConnectorInv
  <1> QED BY <1>1 DEF RequestOwns, Maker

\* A step that changes the request only.
LEMMA RequestMoves ==
    ASSUME ConnectorInv, NEW a \in Administrators, NEW r \in Requests, Keep(a, r),
           UNCHANGED <<connector, collector, schedule, vault, issued, collection, misreported>>,
           RequestOwns(r), Maker(r) => Maker(admin[a]),
           \/ r.seen = admin[a].seen /\ r.at \notin Reading
           \/ r.seen \in {connector, NoConnector}
    PROVE  ConnectorInv'
  <1>1. /\ admin' \in [Administrators -> Requests]
        /\ admin'[a] = r
        /\ \A b \in Administrators : b # a => admin'[b] = admin[b]
    BY RequestContinues DEF ConnectorInv
  <1>2. StateTyped' /\ RequestOwns(r)'
    BY DEF ConnectorInv, ConnectorTypeOK, StateTyped, RequestOwns
  <1>3. \A b \in Administrators : b # a => RequestOwns(admin[b])'
    BY OthersOwn
  <1>4. CollectorServed'
    <2> SUFFICES ASSUME collector \in Scheduled, ~ misreported PROVE CollectorServed'
      BY DEF CollectorServed
    <2>1. /\ schedule
          /\ vault.status = "held"
          /\ connector.managed => connector.token = vault.token
          /\ \A b \in Administrators :
                /\ ~ Maker(admin[b])
                /\ admin[b].at \in Reading /\ admin[b].seen.managed =>
                      admin[b].seen.token = vault.token
      BY DEF ConnectorInv, CollectorServed
    <2>2. ~ Maker(r) /\ (r.at \in Reading /\ r.seen.managed => r.seen.token = vault.token)
      BY <2>1, RequestFacts
    <2>3. ASSUME NEW b \in Administrators
          PROVE  /\ ~ Maker(admin'[b])
                 /\ admin'[b].at \in Reading /\ admin'[b].seen.managed =>
                       admin'[b].seen.token = vault.token
      BY <1>1, <2>1, <2>2
    <2> QED BY <2>1, <2>3 DEF CollectorServed, Maker
  <1>5. UnmanagedBefore'
    BY <1>1, RequestFacts DEF ConnectorInv, UnmanagedBefore
  <1> QED BY <1>2, <1>3, <1>4, <1>5, ConnectorMoves

\* A step of the one creation that has, or just made, the secret.
LEMMA MakerMoves ==
    ASSUME ConnectorInv, NEW a \in Administrators, NEW r \in Requests, Keep(a, r),
           StateTyped', UNCHANGED <<connector, collector, misreported>>,
           \A b \in Administrators : b # a => ~ Maker(admin[b]),
           Maker(admin[a]) \/ vault.status # "held",
           vault.status # "absent" => vault'.status # "absent",
           RequestOwns(r)', r.seen = admin[a].seen \/ ~ r.seen.managed
    PROVE  ConnectorInv'
  <1>1. /\ admin' \in [Administrators -> Requests]
        /\ admin'[a] = r
        /\ \A b \in Administrators : b # a => admin'[b] = admin[b]
    BY RequestContinues DEF ConnectorInv
  <1>2. \A b \in Administrators : b # a => RequestOwns(admin[b])'
    BY OthersOwn
  <1>3. CollectorServed'
    BY DEF ConnectorInv, CollectorServed
  <1>4. UnmanagedBefore'
    BY <1>1 DEF ConnectorInv, UnmanagedBefore
  <1>5. Maker(r) => Maker(admin[a]) \/ \A b \in Administrators : ~ Maker(admin[b])
    OBVIOUS
  <1> QED BY <1>1, <1>2, <1>3, <1>4, <1>5, ConnectorMoves

\* A step that disables the job, or follows its disabling.
LEMMA DisabledMoves ==
    ASSUME ConnectorInv, NEW a \in Administrators, NEW r \in Requests, Keep(a, r),
           StateTyped', collector' = "disabled", RequestOwns(r)', ~ Maker(r),
           vault.status # "absent" => vault'.status # "absent"
    PROVE  ConnectorInv'
  <1>1. \A b \in Administrators : b # a => RequestOwns(admin[b])'
    BY OthersOwn
  <1>2. CollectorServed' /\ UnmanagedBefore'
    BY DEF CollectorServed, UnmanagedBefore, Scheduled
  <1> QED BY <1>1, <1>2, ConnectorMoves

\* A collection goes on.
LEMMA CollectionMoves ==
    ASSUME ConnectorInv, UNCHANGED <<connector, schedule, vault, issued, admin, misreported>>,
           \/ collector' = collector
           \/ collector \in Scheduled /\ collector' \in Scheduled,
           collection' \in [Collections -> {"idle", "bound", "running"}]
    PROVE  ConnectorInv'
  <1>1. /\ collector' = "disabled" <=> collector = "disabled"
        /\ collector' = "absent" <=> collector = "absent"
        /\ collector' \in Scheduled <=> collector \in Scheduled
    BY DEF Scheduled
  <1>2. ConnectorTypeOK'
    BY DEF ConnectorInv, ConnectorTypeOK
  <1>3. OneMaker' /\ \A a \in Administrators : RequestOwns(admin[a])'
    BY <1>1 DEF ConnectorInv, OneMaker, RequestOwns, Maker
  <1>4. CollectorServed' /\ UnmanagedBefore'
    BY <1>1 DEF ConnectorInv, CollectorServed, UnmanagedBefore, Maker
  <1> QED BY <1>2, <1>3, <1>4 DEF ConnectorInv

\* The creations' requests: what makes one the maker, and what it leaves the others.
LEMMA MakerAlone ==
    ASSUME ConnectorInv, NEW a \in Administrators
    PROVE  /\ admin[a] \in Requests
           /\ Maker(admin[a]) => \A b \in Administrators : b # a => ~ Maker(admin[b])
           /\ admin[a].at \in {"schedule", "commit"} => Maker(admin[a])
           /\ Maker(admin[a]) => vault.status # "absent"
  BY DEF ConnectorInv, ConnectorTypeOK, OneMaker, RequestOwns

LEMMA CreateSecretKeeps ==
    ASSUME ConnectorInv, NEW a \in Administrators, CreateSecret(a)
    PROVE  ConnectorInv'
  <1> PICK begun : begun = [NoRequest EXCEPT !.at = "schedule"]
    OBVIOUS
  <1> PICK s : s = [begun.seen EXCEPT !.token = issued']
    OBVIOUS
  <1> PICK knowing : knowing = [begun EXCEPT !.seen = s]
    OBVIOUS
  <1> PICK r : r = [knowing EXCEPT !.made = {"secret"}]
    OBVIOUS
  <1>1. issued' \in Nat /\ vault.status = "absent"
        /\ vault' = [status |-> "held", token |-> issued']
        /\ UNCHANGED <<connector, collector, schedule, collection, misreported>>
    BY DEF CreateSecret, ConnectorInv, ConnectorTypeOK
  <1>2. s \in Credentials /\ s.token = issued' /\ ~ s.managed
    <2>1. begun \in Requests /\ begun.seen = NoConnector
      BY RequestFacts DEF Requests, Creating
    <2> QED BY <1>1, <2>1, RequestFacts DEF Credentials
  <1>3. r \in Requests /\ r.at = "schedule" /\ r.seen = s /\ r.made = {"secret"}
    <2>1. begun \in Requests /\ begun.at = "schedule"
      BY RequestFacts DEF Requests, Creating
    <2>2. knowing \in Requests /\ knowing.at = "schedule" /\ knowing.seen = s
      BY <1>2, <2>1 DEF Requests
    <2> QED BY <2>2 DEF Requests
  <1>4. Keep(a, r)
    BY Zenon DEF CreateSecret
  <1>5. StateTyped'
    BY <1>1 DEF StateTyped, ConnectorInv, ConnectorTypeOK
  <1>6. \A b \in Administrators : ~ Maker(admin[b])
    BY <1>1, MakerAlone
  <1>7. RequestOwns(r)'
    BY <1>1, <1>2, <1>3 DEF RequestOwns, Maker, Reading, Creating, Disabling
  <1> QED BY <1>1, <1>2, <1>3, <1>4, <1>5, <1>6, <1>7, MakerMoves

\* A request that only goes on to another step.
LEMMA GotoKeeps ==
    ASSUME ConnectorInv, NEW a \in Administrators, NEW at \in Creating \cup Disabling, Goto(a, at)
    PROVE  \E r \in Requests : /\ Keep(a, r)
                               /\ r.at = at /\ r.seen = admin[a].seen /\ r.made = admin[a].made
  <1> PICK r : r = [admin[a] EXCEPT !.at = at]
    OBVIOUS
  <1>1. r \in Requests /\ r.at = at /\ r.seen = admin[a].seen /\ r.made = admin[a].made
    BY DEF ConnectorInv, ConnectorTypeOK, Requests
  <1>2. Keep(a, r)
    BY DEF Goto
  <1> QED BY <1>1, <1>2

LEMMA RefuseSecretKeeps ==
    ASSUME ConnectorInv, NEW a \in Administrators, RefuseSecret(a)
    PROVE  ConnectorInv'
  <1>1. PICK r \in Requests : /\ Keep(a, r)
                              /\ r.at = "abandon" /\ r.seen = admin[a].seen /\ r.made = admin[a].made
    BY GotoKeeps DEF RefuseSecret, Creating
  <1>2. r.made = {}
    BY <1>1 DEF RefuseSecret, ConnectorInv, RequestOwns
  <1>3. RequestOwns(r) /\ r.at \notin Reading /\ ~ Maker(r)
    BY <1>1, <1>2 DEF RequestOwns, Maker, Creating, Reading, Disabling
  <1>4. UNCHANGED <<connector, collector, schedule, vault, issued, collection, misreported>>
    BY DEF RefuseSecret
  <1> QED BY <1>1, <1>3, <1>4, RequestMoves

LEMMA CreateScheduleKeeps ==
    ASSUME ConnectorInv, NEW a \in Administrators, CreateSchedule(a)
    PROVE  ConnectorInv'
  <1> PICK r : r = [admin[a] EXCEPT !.at = "commit", !.made = @ \cup {"schedule"}]
    OBVIOUS
  <1>1. admin[a] \in Requests /\ Maker(admin[a]) /\ RequestOwns(admin[a])
        /\ admin[a].at = "schedule" /\ \A b \in Administrators : b # a => ~ Maker(admin[b])
    BY MakerAlone DEF CreateSchedule, ConnectorInv
  <1>2. r \in Requests /\ r.at = "commit" /\ r.seen = admin[a].seen
        /\ r.made = admin[a].made \cup {"schedule"}
    BY <1>1 DEF Requests, Creating
  <1>3. Keep(a, r) /\ schedule' = TRUE
        /\ UNCHANGED <<connector, collector, vault, issued, collection, misreported>>
    BY DEF CreateSchedule
  <1>4. StateTyped'
    BY <1>3 DEF StateTyped, ConnectorInv, ConnectorTypeOK
  <1>5. RequestOwns(r)'
    BY <1>1, <1>2, <1>3 DEF RequestOwns, Maker, Reading, Creating, Disabling
  <1> QED BY <1>1, <1>2, <1>3, <1>4, <1>5, MakerMoves

LEMMA RefuseScheduleKeeps ==
    ASSUME ConnectorInv, NEW a \in Administrators, RefuseSchedule(a)
    PROVE  ConnectorInv'
  <1>1. PICK r \in Requests : /\ Keep(a, r)
                              /\ r.at = "abandon" /\ r.seen = admin[a].seen /\ r.made = admin[a].made
    BY GotoKeeps DEF RefuseSchedule, Creating
  <1>2. Maker(admin[a]) /\ RequestOwns(admin[a])
        /\ \A b \in Administrators : b # a => ~ Maker(admin[b])
    BY MakerAlone DEF RefuseSchedule, ConnectorInv
  <1>3. schedule' \in BOOLEAN
        /\ UNCHANGED <<connector, collector, vault, issued, collection, misreported>>
    BY DEF RefuseSchedule, ConnectorInv, ConnectorTypeOK
  <1>4. StateTyped'
    BY <1>3 DEF StateTyped, ConnectorInv, ConnectorTypeOK
  <1>5. RequestOwns(r)'
    BY <1>1, <1>2, <1>3 DEF RequestOwns, Maker, Reading, Creating, Disabling
  <1> QED BY <1>1, <1>2, <1>3, <1>4, <1>5, MakerMoves

LEMMA RefuseManagedKeeps ==
    ASSUME ConnectorInv, NEW a \in Administrators, RefuseManaged(a)
    PROVE  ConnectorInv'
  <1>1. PICK r \in Requests : /\ Keep(a, r)
                              /\ r.at = "abandon" /\ r.seen = admin[a].seen /\ r.made = admin[a].made
    BY GotoKeeps DEF RefuseManaged, Creating
  <1>2. Maker(admin[a]) /\ RequestOwns(admin[a])
    BY MakerAlone DEF RefuseManaged, ConnectorInv
  <1>3. RequestOwns(r) /\ r.at \notin Reading
    BY <1>1, <1>2 DEF RequestOwns, Maker, Reading, Creating, Disabling
  <1>4. UNCHANGED <<connector, collector, schedule, vault, issued, collection, misreported>>
    BY DEF RefuseManaged
  <1> QED BY <1>1, <1>2, <1>3, <1>4, RequestMoves

\* A creation deletes a schedule it made, or none.
LEMMA AbandonScheduleKeeps ==
    ASSUME ConnectorInv, NEW a \in Administrators, AbandonSchedule(a)
    PROVE  ConnectorInv'
  <1>1. PICK r \in Requests : /\ Keep(a, r) /\ r.at = "abandonSecret"
                              /\ r.seen = admin[a].seen /\ r.made = admin[a].made
    BY GotoKeeps DEF AbandonSchedule, Creating
  <1>2. admin[a].at = "abandon" /\ RequestOwns(admin[a])
        /\ UNCHANGED <<connector, collector, vault, issued, collection, misreported>>
    BY DEF AbandonSchedule, ConnectorInv
  <1>3. RequestOwns(r) /\ r.at \notin Reading /\ (Maker(r) => Maker(admin[a]))
    BY <1>1, <1>2 DEF RequestOwns, Maker, Reading, Creating, Disabling
  <1>4. CASE schedule' = schedule
    BY <1>1, <1>2, <1>3, <1>4, RequestMoves
  <1>5. CASE schedule' # schedule
    <2>1. "schedule" \in admin[a].made /\ schedule' = FALSE
      BY <1>5 DEF AbandonSchedule
    <2>2. Maker(admin[a]) /\ \A b \in Administrators : b # a => ~ Maker(admin[b])
      BY <1>2, <2>1, MakerAlone DEF RequestOwns, Creating
    <2>3. StateTyped'
      BY <1>2, <2>1 DEF StateTyped, ConnectorInv, ConnectorTypeOK
    <2>4. RequestOwns(r)'
      BY <1>1, <1>2, <1>3 DEF RequestOwns, Maker
    <2> QED BY <1>1, <1>2, <2>2, <2>3, <2>4, MakerMoves
  <1> QED BY <1>4, <1>5

LEMMA AbandonSecretKeeps ==
    ASSUME ConnectorInv, NEW a \in Administrators, AbandonSecret(a)
    PROVE  ConnectorInv'
  <1>1. NoRequest \in Requests /\ Keep(a, NoRequest) /\ NoRequest.seen \in {connector, NoConnector}
        /\ ~ NoRequest.seen.managed
    BY RequestFacts DEF AbandonSecret, Conclude
  <1>2. ~ Maker(NoRequest) /\ RequestOwns(NoRequest) /\ RequestOwns(NoRequest)'
    BY RequestFacts DEF RequestOwns, Maker, Reading, Creating, Disabling
  <1>3. UNCHANGED <<connector, collector, schedule, issued, collection, misreported>>
    BY DEF AbandonSecret
  <1>4. CASE vault' = vault
    BY <1>1, <1>2, <1>3, <1>4, RequestMoves
  <1>5. CASE vault' # vault
    <2>1. Maker(admin[a]) /\ vault' = [vault EXCEPT !.status = "deleted"]
      BY <1>5 DEF AbandonSecret, Maker
    <2>2. \A b \in Administrators : b # a => ~ Maker(admin[b])
      BY <2>1, MakerAlone
    <2>3. vault' \in [status : {"absent", "held", "deleted"}, token : Nat]
          /\ vault'.status = "deleted"
      BY <2>1 DEF ConnectorInv, ConnectorTypeOK
    <2>4. StateTyped'
      BY <1>3, <2>3 DEF StateTyped, ConnectorInv, ConnectorTypeOK
    <2> QED BY <1>1, <1>2, <1>3, <2>1, <2>2, <2>3, <2>4, MakerMoves
  <1> QED BY <1>4, <1>5

\* What CommitManaged and ManagedUnanswered do before they answer.
LEMMA CreateManagedServes ==
    ASSUME ConnectorInv, NEW a \in Administrators, CreateManaged(a)
    PROVE  /\ connector' \in Credentials /\ collector' = "scheduled" /\ collector = "absent"
           /\ connector'.managed /\ connector'.token = vault.token
           /\ vault.status = "held" /\ schedule
           /\ Maker(admin[a]) /\ RequestOwns(admin[a])
           /\ \A b \in Administrators : b # a => ~ Maker(admin[b])
           /\ \A b \in Administrators : ~ admin[b].seen.managed
  <1>1. /\ admin[a].at = "commit" /\ collector = "absent" /\ collector' = "scheduled"
        /\ connector' = [status |-> "active", revision |-> 1,
                         token |-> admin[a].seen.token, managed |-> TRUE]
    BY DEF CreateManaged
  <1>2. admin[a].seen.token \in Nat
    BY DEF ConnectorInv, ConnectorTypeOK, Requests, Credentials
  <1>3. RequestOwns(admin[a])
    BY DEF ConnectorInv
  <1>4. vault.status = "held" /\ vault.token = admin[a].seen.token /\ schedule
    BY <1>1, <1>3 DEF RequestOwns
  <1>5. connector' \in Credentials /\ connector'.token = admin[a].seen.token
    BY <1>1, <1>2 DEF Credentials
  <1>6. connector'.managed
    BY <1>1
  <1>7. \A b \in Administrators : ~ admin[b].seen.managed
    BY <1>1 DEF ConnectorInv, UnmanagedBefore
  <1> QED BY <1>1, <1>3, <1>4, <1>5, <1>6, <1>7, MakerAlone

LEMMA CommitManagedKeeps ==
    ASSUME ConnectorInv, NEW a \in Administrators, CommitManaged(a)
    PROVE  ConnectorInv'
  <1>1. /\ connector' \in Credentials /\ collector' = "scheduled" /\ collector = "absent"
        /\ connector'.managed /\ connector'.token = vault.token
        /\ vault.status = "held" /\ schedule
        /\ \A b \in Administrators : b # a => ~ Maker(admin[b])
        /\ \A b \in Administrators : ~ admin[b].seen.managed
    BY CreateManagedServes DEF CommitManaged
  <1>2. NoRequest \in Requests /\ Keep(a, NoRequest) /\ ~ NoRequest.seen.managed
    BY RequestFacts DEF CommitManaged, Conclude
  <1>3. ~ Maker(NoRequest) /\ RequestOwns(NoRequest)'
    BY RequestFacts DEF RequestOwns, Maker, Reading, Creating, Disabling
  <1>4. UNCHANGED <<schedule, vault, issued, collection, misreported>>
    BY DEF CommitManaged
  <1>5. StateTyped'
    BY <1>1, <1>4 DEF StateTyped, Scheduled, ConnectorInv, ConnectorTypeOK
  <1>6. \A b \in Administrators : b # a => RequestOwns(admin[b])'
    BY <1>1, <1>2, <1>4, OthersOwn
  <1>7. CollectorServed'
    <2>1. \A b \in Administrators : admin'[b] \in {NoRequest, admin[b]}
          /\ (admin'[b] = NoRequest \/ b # a)
      BY <1>2, RequestContinues DEF ConnectorInv
    <2>2. \A b \in Administrators : ~ Maker(admin'[b]) /\ ~ admin'[b].seen.managed
      BY <1>1, <1>2, <1>3, <2>1
    <2> QED BY <1>1, <1>4, <2>2 DEF CollectorServed, Maker
  <1>8. UnmanagedBefore'
    BY <1>1 DEF UnmanagedBefore
  <1> QED BY <1>2, <1>3, <1>5, <1>6, <1>7, <1>8, ConnectorMoves

LEMMA ManagedUnansweredKeeps ==
    ASSUME ConnectorInv, NEW a \in Administrators, ManagedUnanswered(a)
    PROVE  ConnectorInv'
  <1>1. /\ connector' \in Credentials /\ collector' = "scheduled" /\ collector = "absent"
        /\ Maker(admin[a]) /\ RequestOwns(admin[a])
        /\ \A b \in Administrators : b # a => ~ Maker(admin[b])
    BY CreateManagedServes DEF ManagedUnanswered
  <1>2. PICK r \in Requests : /\ Keep(a, r)
                              /\ r.at = "abandon" /\ r.seen = admin[a].seen /\ r.made = admin[a].made
    BY GotoKeeps DEF ManagedUnanswered, Creating
  <1>3. UNCHANGED <<schedule, vault, issued, collection>> /\ misreported' = TRUE
    BY DEF ManagedUnanswered
  <1>4. StateTyped'
    BY <1>1, <1>3 DEF StateTyped, Scheduled, ConnectorInv, ConnectorTypeOK
  <1>5. RequestOwns(r)'
    BY <1>1, <1>2, <1>3 DEF RequestOwns, Maker, Reading, Creating, Disabling
  <1>6. \A b \in Administrators : b # a => RequestOwns(admin[b])'
    BY <1>1, <1>2, <1>3, OthersOwn
  <1>7. CollectorServed' /\ UnmanagedBefore'
    BY <1>1, <1>3 DEF CollectorServed, UnmanagedBefore
  <1> QED BY <1>1, <1>2, <1>4, <1>5, <1>6, <1>7, ConnectorMoves

LEMMA ReadKeeps ==
    ASSUME ConnectorInv, NEW a \in Administrators, NEW at \in Reading, Read(a, at)
    PROVE  ConnectorInv'
  <1> PICK r : r = [NoRequest EXCEPT !.at = at, !.seen = connector]
    OBVIOUS
  <1>1. r \in Requests /\ r.at = at /\ r.seen = connector /\ r.made = {}
    BY RequestFacts DEF Requests, ConnectorInv, ConnectorTypeOK
  <1>2. Keep(a, r) /\ UNCHANGED <<connector, collector, schedule, vault, issued, collection, misreported>>
    BY DEF Read
  <1>3. ~ Maker(r) /\ RequestOwns(r)
    BY <1>1 DEF RequestOwns, Maker, Reading, Creating, Disabling
  <1> QED BY <1>1, <1>2, <1>3, RequestMoves

\* The request is answered, and the connector is what it was, another one that is
\* not the collector's, or what some request read.
LEMMA ConnectorChanges ==
    ASSUME ConnectorInv, NEW a \in Administrators, Conclude(a), connector' \in Credentials,
           issued' \in Nat, UNCHANGED <<collector, schedule, vault, collection, misreported>>,
           connector'.managed =>
              /\ admin[a].at \in Reading
              /\ admin[a].seen.managed
              /\ connector'.token = admin[a].seen.token
    PROVE  ConnectorInv'
  <1>1. NoRequest \in Requests /\ Keep(a, NoRequest) /\ ~ NoRequest.seen.managed
        /\ NoRequest.at \notin Reading
    BY RequestFacts DEF Conclude, Reading
  <1>2. ~ Maker(NoRequest) /\ RequestOwns(NoRequest)'
    BY RequestFacts DEF RequestOwns, Maker, Reading, Creating, Disabling
  <1>3. StateTyped'
    BY DEF StateTyped, ConnectorInv, ConnectorTypeOK
  <1>4. \A b \in Administrators : b # a => RequestOwns(admin[b])'
    BY <1>1, OthersOwn
  <1>5. \A b \in Administrators : admin'[b] = NoRequest \/ admin'[b] = admin[b]
    BY <1>1, RequestContinues DEF ConnectorInv
  <1>6. CollectorServed'
    <2> SUFFICES ASSUME collector \in Scheduled, ~ misreported PROVE CollectorServed'
      BY DEF CollectorServed
    <2>1. /\ schedule
          /\ vault.status = "held"
          /\ \A b \in Administrators :
                /\ ~ Maker(admin[b])
                /\ admin[b].at \in Reading /\ admin[b].seen.managed =>
                      admin[b].seen.token = vault.token
      BY DEF ConnectorInv, CollectorServed
    <2>2. connector'.managed => connector'.token = vault.token
      BY <2>1
    <2>3. ASSUME NEW b \in Administrators
          PROVE  /\ ~ Maker(admin'[b])
                 /\ admin'[b].at \in Reading /\ admin'[b].seen.managed =>
                       admin'[b].seen.token = vault.token
      BY <1>1, <1>2, <1>5, <2>1
    <2> QED BY <2>1, <2>2, <2>3 DEF CollectorServed, Maker
  <1>7. UnmanagedBefore'
    BY <1>1, <1>5 DEF ConnectorInv, UnmanagedBefore
  <1> QED BY <1>1, <1>2, <1>3, <1>4, <1>6, <1>7, ConnectorMoves

LEMMA CommitRotateTokenKeeps ==
    ASSUME ConnectorInv, NEW a \in Administrators, CommitRotateToken(a)
    PROVE  ConnectorInv'
  <1>1. issued' \in Nat /\ Conclude(a)
        /\ connector' = [status |-> "active", revision |-> connector.revision + 1,
                         token |-> issued', managed |-> FALSE]
        /\ UNCHANGED <<collector, schedule, vault, collection, misreported>>
    BY DEF CommitRotateToken, ConnectorInv, ConnectorTypeOK
  <1>2. connector.revision + 1 \in Nat
    BY DEF ConnectorInv, ConnectorTypeOK, Credentials
  <1>3. connector' \in Credentials
    BY <1>1, <1>2 DEF Credentials
  <1>4. connector'.managed = FALSE
    BY <1>1
  <1> QED BY <1>1, <1>3, <1>4, ConnectorChanges

\* What a request read, revoked.
LEMMA RevokedCredential ==
    ASSUME NEW c \in Credentials, NEW n \in Nat
    PROVE  /\ [c EXCEPT !.status = "revoked", !.revision = n] \in Credentials
           /\ [c EXCEPT !.status = "revoked", !.revision = n].token = c.token
           /\ [c EXCEPT !.status = "revoked", !.revision = n].managed = c.managed
  <1> PICK s : s = [c EXCEPT !.status = "revoked"]
    OBVIOUS
  <1> PICK e : e = [s EXCEPT !.revision = n]
    OBVIOUS
  <1>1. s \in Credentials /\ s.token = c.token
    BY DEF Credentials
  <1>2. s.managed = c.managed
    BY DEF Credentials
  <1>3. e \in Credentials /\ e.token = s.token
    BY <1>1 DEF Credentials
  <1>4. e.managed = s.managed
    BY <1>1 DEF Credentials
  <1>5. [c EXCEPT !.status = "revoked", !.revision = n] = e
    OBVIOUS
  <1> QED BY <1>1, <1>2, <1>3, <1>4, <1>5, Zenon

LEMMA WriteRevokeKeeps ==
    ASSUME ConnectorInv, NEW a \in Administrators, WriteRevoke(a)
    PROVE  ConnectorInv'
  <1> PICK c : c = admin[a].seen
    OBVIOUS
  <1>1. c \in Credentials /\ c.revision + 1 \in Nat
    BY DEF ConnectorInv, ConnectorTypeOK, Requests, Credentials
  <1>2. connector' = [c EXCEPT !.status = "revoked", !.revision = c.revision + 1]
    <2>1. connector' = [admin[a].seen EXCEPT !.status = "revoked", !.revision = @ + 1]
      BY Zenon DEF WriteRevoke
    <2>2. [c EXCEPT !.status = "revoked", !.revision = @ + 1]
          = [c EXCEPT !.status = "revoked", !.revision = c.revision + 1]
      BY <1>1 DEF Credentials
    <2> QED BY <2>1, <2>2
  <1>3. connector' \in Credentials /\ connector'.token = c.token
    BY <1>1, <1>2, RevokedCredential
  <1>4. connector'.managed = c.managed
    BY <1>1, <1>2, RevokedCredential
  <1>5. /\ admin[a].at \in Reading /\ Conclude(a) /\ issued' \in Nat
        /\ UNCHANGED <<collector, schedule, vault, collection, misreported>>
    BY DEF WriteRevoke, Reading, ConnectorInv, ConnectorTypeOK
  <1>6. connector'.managed => admin[a].seen.managed
    BY <1>4
  <1> QED BY <1>3, <1>5, <1>6, ConnectorChanges

LEMMA CommitDisableKeeps ==
    ASSUME ConnectorInv, NEW a \in Administrators, CommitDisable(a)
    PROVE  ConnectorInv'
  <1>1. PICK r \in Requests : /\ Keep(a, r) /\ r.at = "unschedule"
                              /\ r.seen = admin[a].seen /\ r.made = admin[a].made
    BY GotoKeeps DEF CommitDisable, Disabling
  <1>2. admin[a].seen \in Credentials /\ connector.revision + 1 \in Nat
    BY DEF ConnectorInv, ConnectorTypeOK, Requests, Credentials
  <1>3. connector' \in Credentials
    BY <1>2, RevokedCredential DEF CommitDisable
  <1>4. admin[a].at = "disable" /\ collector' = "disabled"
        /\ UNCHANGED <<schedule, vault, issued, collection, misreported>>
    BY DEF CommitDisable
  <1>5. r.made = {}
    BY <1>1, <1>4 DEF ConnectorInv, RequestOwns, Reading
  <1>6. ~ Maker(r) /\ RequestOwns(r)'
    BY <1>1, <1>4, <1>5 DEF RequestOwns, Maker, Reading, Creating, Disabling
  <1>7. StateTyped'
    BY <1>3, <1>4 DEF StateTyped, ConnectorInv, ConnectorTypeOK
  <1> QED BY <1>1, <1>4, <1>6, <1>7, DisabledMoves

LEMMA DisablingFacts ==
    ASSUME ConnectorInv, NEW a \in Administrators, admin[a].at \in Disabling
    PROVE  admin[a] \in Requests /\ collector = "disabled" /\ ~ Maker(admin[a])
  BY DEF ConnectorInv, ConnectorTypeOK, RequestOwns, Creating, Disabling

LEMMA UnscheduleKeeps ==
    ASSUME ConnectorInv, NEW a \in Administrators, Unschedule(a)
    PROVE  ConnectorInv'
  <1>1. admin[a] \in Requests /\ collector = "disabled" /\ ~ Maker(admin[a])
    BY DisablingFacts DEF Unschedule, Disabling
  <1>2. PICK r \in Requests : Keep(a, r) /\ r.at = "dropSecret" /\ ~ Maker(r)
    <2>1. CASE Goto(a, "dropSecret")
      <3>1. PICK q \in Requests : /\ Keep(a, q) /\ q.at = "dropSecret"
                                  /\ q.seen = admin[a].seen /\ q.made = admin[a].made
        BY <2>1, GotoKeeps DEF Disabling
      <3>2. ~ Maker(q)
        BY <1>1, <3>1 DEF Maker
      <3> QED BY <3>1, <3>2
    <2>2. CASE Keep(a, [admin[a] EXCEPT !.at = "dropSecret", !.made = {"schedule"}])
      <3> PICK q : q = [admin[a] EXCEPT !.at = "dropSecret", !.made = {"schedule"}]
        OBVIOUS
      <3>1. q \in Requests /\ q.at = "dropSecret" /\ q.made = {"schedule"}
        BY <1>1 DEF Requests, Disabling
      <3>2. ~ Maker(q)
        BY <3>1 DEF Maker
      <3>3. Keep(a, q)
        BY <2>2
      <3> QED BY <3>1, <3>2, <3>3
    <2> QED BY <2>1, <2>2 DEF Unschedule
  <1>3. schedule' \in BOOLEAN
        /\ UNCHANGED <<connector, collector, vault, issued, collection, misreported>>
    BY DEF Unschedule, ConnectorInv, ConnectorTypeOK
  <1>4. StateTyped'
    BY <1>3 DEF StateTyped, ConnectorInv, ConnectorTypeOK
  <1>5. RequestOwns(r)'
    BY <1>1, <1>2, <1>3 DEF RequestOwns, Maker, Reading, Creating, Disabling
  <1> QED BY <1>1, <1>2, <1>3, <1>4, <1>5, DisabledMoves

LEMMA DropSecretKeeps ==
    ASSUME ConnectorInv, NEW a \in Administrators, DropSecret(a)
    PROVE  ConnectorInv'
  <1>1. admin[a] \in Requests /\ collector = "disabled" /\ ~ Maker(admin[a])
    BY DisablingFacts DEF DropSecret, Disabling
  <1>2. PICK r \in Requests : Keep(a, r) /\ r.at \in {"idle", "cleanup"} /\ ~ Maker(r)
                              /\ (r.at = "idle" => r.made = {})
    <2>1. CASE Conclude(a)
      BY <2>1, RequestFacts DEF Conclude, Maker
    <2>2. CASE Goto(a, "cleanup")
      <3>1. PICK q \in Requests : /\ Keep(a, q) /\ q.at = "cleanup"
                                  /\ q.seen = admin[a].seen /\ q.made = admin[a].made
        BY <2>2, GotoKeeps DEF Disabling
      <3>2. ~ Maker(q)
        BY <1>1, <3>1 DEF Maker
      <3> QED BY <3>1, <3>2
    <2> QED BY <2>1, <2>2 DEF DropSecret
  <1>3. /\ vault' \in [status : {"absent", "held", "deleted"}, token : Nat]
        /\ vault.status # "absent" => vault'.status # "absent"
    BY DEF DropSecret, ConnectorInv, ConnectorTypeOK
  <1>4. UNCHANGED <<connector, collector, schedule, issued, collection, misreported>>
    BY DEF DropSecret
  <1>5. StateTyped'
    BY <1>3, <1>4 DEF StateTyped, ConnectorInv, ConnectorTypeOK
  <1>6. RequestOwns(r)'
    BY <1>1, <1>2, <1>4 DEF RequestOwns, Maker, Reading, Creating, Disabling
  <1> QED BY <1>1, <1>2, <1>3, <1>4, <1>5, <1>6, DisabledMoves

LEMMA AskCleanupKeeps ==
    ASSUME ConnectorInv, NEW a \in Administrators, AskCleanup(a)
    PROVE  ConnectorInv'
  <1>1. NoRequest \in Requests /\ Keep(a, NoRequest) /\ ~ Maker(NoRequest)
    BY RequestFacts DEF AskCleanup, Conclude, Maker
  <1>2. collector' = "disabled"
        /\ UNCHANGED <<connector, schedule, vault, issued, collection, misreported>>
    BY DEF AskCleanup
  <1>3. StateTyped'
    BY <1>2 DEF StateTyped, ConnectorInv, ConnectorTypeOK
  <1>4. RequestOwns(NoRequest)'
    BY RequestFacts DEF RequestOwns, Maker, Reading, Creating, Disabling
  <1> QED BY <1>1, <1>2, <1>3, <1>4, DisabledMoves

LEMMA EndRequestKeeps ==
    ASSUME ConnectorInv, NEW a \in Administrators, EndRequest(a)
    PROVE  ConnectorInv'
  <1>1. NoRequest \in Requests /\ Keep(a, NoRequest) /\ NoRequest.seen \in {connector, NoConnector}
    BY RequestFacts DEF EndRequest, Conclude
  <1>2. ~ Maker(NoRequest) /\ RequestOwns(NoRequest)
    BY RequestFacts DEF RequestOwns, Maker, Reading, Creating, Disabling
  <1>3. UNCHANGED <<connector, collector, schedule, vault, issued, collection, misreported>>
    BY DEF EndRequest
  <1> QED BY <1>1, <1>2, <1>3, RequestMoves

\* A secret is purged when no request may still clean up.
LEMMA PurgeKeeps == ConnectorInv /\ PurgeSecret => ConnectorInv'
  <1> SUFFICES ASSUME ConnectorInv, PurgeSecret PROVE ConnectorInv'
    OBVIOUS
  <1>1. /\ vault.status = "deleted" /\ vault' = NoSecret
        /\ \A a \in Administrators : admin[a].at = "idle"
        /\ UNCHANGED <<connector, collector, schedule, issued, admin, collection, misreported>>
    BY DEF PurgeSecret
  <1>2. ConnectorTypeOK'
    BY <1>1 DEF ConnectorInv, ConnectorTypeOK, NoSecret
  <1>3. \A a \in Administrators : ~ Maker(admin[a])
    BY <1>1 DEF ConnectorInv, RequestOwns, Creating
  <1>4. OneMaker'
    BY <1>1, <1>3 DEF OneMaker, Maker
  <1>5. \A a \in Administrators : RequestOwns(admin[a])'
    BY <1>1, <1>3 DEF ConnectorInv, RequestOwns, Maker, Creating, Disabling
  <1>6. CollectorServed' /\ UnmanagedBefore'
    BY <1>1 DEF ConnectorInv, CollectorServed, UnmanagedBefore
  <1> QED BY <1>2, <1>4, <1>5, <1>6 DEF ConnectorInv

LEMMA CollectionKeeps ==
    ASSUME ConnectorInv, NEW c \in Collections,
           BindJob(c) \/ MarkRunning(c) \/ ReportHealth(c) \/ EndCollection(c)
    PROVE  ConnectorInv'
  <1>1. UNCHANGED <<connector, schedule, vault, issued, admin, misreported>>
    BY DEF BindJob, MarkRunning, ReportHealth, EndCollection
  <1>2. \/ collector' = collector
        \/ collector \in Scheduled /\ collector' \in Scheduled
    BY DEF BindJob, MarkRunning, ReportHealth, EndCollection, UpdateJob, Scheduled
  <1>3. collection' \in [Collections -> {"idle", "bound", "running"}]
    BY DEF BindJob, MarkRunning, ReportHealth, EndCollection, ConnectorInv, ConnectorTypeOK
  <1> QED BY <1>1, <1>2, <1>3, CollectionMoves

LEMMA ConnectorKeeps == ConnectorInv /\ [ConnectorNext]_connectors => ConnectorInv'
  <1> SUFFICES ASSUME ConnectorInv, [ConnectorNext]_connectors PROVE ConnectorInv'
    OBVIOUS
  <1>1. CASE UNCHANGED connectors
    BY <1>1 DEF connectors, ConnectorInv, ConnectorTypeOK, OneMaker, RequestOwns, Maker,
                CollectorServed, UnmanagedBefore
  <1>2. ASSUME NEW a \in Administrators,
               BeginRotateToken(a) \/ BeginRevoke(a) \/ BeginDisable(a)
        PROVE  ConnectorInv'
    <2>1. PICK at \in Reading : Read(a, at)
      BY <1>2 DEF BeginRotateToken, BeginRevoke, BeginDisable, Reading
    <2> QED BY <2>1, ReadKeeps
  <1>3. ASSUME NEW a \in Administrators,
               \/ CreateSecret(a) \/ RefuseSecret(a) \/ CreateSchedule(a) \/ RefuseSchedule(a)
               \/ CommitManaged(a) \/ ManagedUnanswered(a) \/ RefuseManaged(a)
               \/ AbandonSchedule(a) \/ AbandonSecret(a)
        PROVE  ConnectorInv'
    BY <1>3, CreateSecretKeeps, RefuseSecretKeeps, CreateScheduleKeeps, RefuseScheduleKeeps,
       CommitManagedKeeps, ManagedUnansweredKeeps, RefuseManagedKeeps, AbandonScheduleKeeps,
       AbandonSecretKeeps
  <1>4. ASSUME NEW a \in Administrators,
               \/ CommitRotateToken(a) \/ WriteRevoke(a) \/ CommitDisable(a)
               \/ Unschedule(a) \/ DropSecret(a) \/ AskCleanup(a) \/ EndRequest(a)
        PROVE  ConnectorInv'
    BY <1>4, CommitRotateTokenKeeps, WriteRevokeKeeps, CommitDisableKeeps, UnscheduleKeeps,
       DropSecretKeeps, AskCleanupKeeps, EndRequestKeeps
  <1> QED BY <1>1, <1>2, <1>3, <1>4, PurgeKeeps, CollectionKeeps DEF ConnectorNext

-----------------------------------------------------------------------------
(* The evidence *)

LEMMA NoUploadPlaced == NoUpload \in Uploads /\ UploadPlaced(NoUpload) /\ UploadPlaced(NoUpload)'
  <1>1. NoUpload \in Uploads
    BY DEF NoUpload, Uploads, Observed
  <1>2. NoUpload.at = "idle" /\ NoUpload.loaded = <<>>
    BY DEF NoUpload
  <1> QED BY <1>1, <1>2 DEF UploadPlaced

LEMMA EvidenceStarts == GenerationInit => EvidenceInv
  <1> SUFFICES ASSUME GenerationInit PROVE EvidenceInv
    OBVIOUS
  <1>1. EvidenceTypeOK
    BY NoUploadPlaced, EvidenceAssumption DEF GenerationInit, EvidenceTypeOK, NoGeneration, Observed
  <1>2. \A g \in GenerationIds : generation[g].state = "absent"
    BY DEF GenerationInit, NoGeneration
  <1>3. \A p \in Publishers : UploadPlaced(upload[p])
    BY NoUploadPlaced DEF GenerationInit
  <1>4. source.generation = Nowhere
    BY DEF GenerationInit
  <1> QED BY <1>1, <1>2, <1>3, <1>4 DEF EvidenceInv, CommittedPlaced, OnePerRevision, Committed

\* What no step takes back: a generation's declaration, its pages, its baseline.
EvidenceStays ==
    /\ \A g \in GenerationIds :
          /\ generation[g].state # "absent" =>
                /\ generation'[g].state # "absent"
                /\ generation'[g].base = generation[g].base
                /\ generation'[g].count = generation[g].count
          /\ baseline[g] # <<>> => baseline'[g] = baseline[g]
          /\ \A n \in Pages :
                /\ page[g][n] # Nowhere => page'[g][n] = page[g][n]
                /\ object[g][n] # Nowhere => object'[g][n] = object[g][n]

LEMMA VerifiedStays ==
    ASSUME EvidenceTypeOK, EvidenceStays, NEW g \in GenerationIds, generation[g].state # "absent",
           NEW s \in Seq(Contents), Verified(g, s)
    PROVE  Verified(g, s)'
  <1>1. generation[g].count \in 0 .. MaxPages /\ generation'[g].count = generation[g].count
    BY DEF EvidenceTypeOK, EvidenceStays
  <1>2. ASSUME NEW n \in 1 .. Len(s) PROVE s[n] = page'[g][n] /\ s[n] = object'[g][n]
    <2>1. n \in Pages
      BY <1>1, EvidenceAssumption DEF Verified, Pages
    <2>2. s[n] \in Contents
      OBVIOUS
    <2>3. s[n] = page[g][n] /\ s[n] = object[g][n] /\ s[n] # Nowhere
      BY <2>2, EvidenceAssumption DEF Verified
    <2> QED BY <2>1, <2>3 DEF EvidenceStays
  <1> QED BY <1>1, <1>2 DEF Verified

LEMMA UploadStays ==
    ASSUME EvidenceTypeOK, EvidenceStays, NEW u \in Uploads, UploadPlaced(u)
    PROVE  UploadPlaced(u)'
  <1>1. u.loaded \in Seq(Contents)
    BY DEF Uploads
  <1>2. CASE u.at \notin {"object", "item", "load", "baseline", "commit"}
    BY <1>2 DEF UploadPlaced
  <1>3. CASE u.at \in {"object", "item"}
    BY <1>3 DEF UploadPlaced, EvidenceStays
  <1>4. CASE u.at \in {"load", "baseline", "commit"}
    <2>1. u.gen \in GenerationIds /\ generation[u.gen].state # "absent"
          /\ Verified(u.gen, u.loaded) /\ u.base = generation[u.gen].base
      BY <1>4 DEF UploadPlaced
    <2>2. /\ generation'[u.gen].state # "absent"
          /\ generation'[u.gen].base = generation[u.gen].base
          /\ generation'[u.gen].count = generation[u.gen].count
      BY <2>1 DEF EvidenceStays
    <2>3. Verified(u.gen, u.loaded)'
      BY <1>1, <2>1, VerifiedStays
    <2>4. u.at \in {"baseline", "commit"} =>
              Len(u.loaded) = generation[u.gen].count /\ u.loaded # <<>>
      BY DEF UploadPlaced
    <2>5. u.at = "commit" /\ WithBaseline => baseline'[u.gen] = u.loaded
      BY <2>1, <2>4 DEF UploadPlaced, EvidenceStays
    <2>6. u.at = "load" => Len(u.loaded) < generation[u.gen].count
      BY DEF UploadPlaced
    <2> QED BY <1>4, <2>1, <2>2, <2>3, <2>4, <2>5, <2>6 DEF UploadPlaced
  <1> QED BY <1>2, <1>3, <1>4

LEMMA CommittedStays ==
    ASSUME EvidenceInv, EvidenceStays, NEW g \in GenerationIds,
           generation[g].state = "committed", verified'[g] = verified[g],
           source'.revision \in Nat, source.revision <= source'.revision
    PROVE  CommittedPlaced(g)'
  <1>1. /\ Len(verified[g]) = generation[g].count
        /\ verified[g] # <<>>
        /\ Verified(g, verified[g])
        /\ WithBaseline => baseline[g] = verified[g]
        /\ generation[g].base < source.revision
    BY DEF EvidenceInv, CommittedPlaced
  <1>2. verified[g] \in Seq(Contents) /\ generation[g].base \in Nat /\ source.revision \in Nat
    BY DEF EvidenceInv, EvidenceTypeOK
  <1>3. generation'[g].base = generation[g].base /\ generation'[g].count = generation[g].count
    BY DEF EvidenceStays
  <1>4. Verified(g, verified[g])'
    <2> PICK s : s = verified[g]
      OBVIOUS
    <2>1. Verified(g, s)'
      BY <1>1, <1>2, VerifiedStays DEF EvidenceInv
    <2> QED BY <2>1
  <1>5. WithBaseline => baseline'[g] = verified[g]
    BY <1>1 DEF EvidenceStays
  <1>6. generation'[g].base < source'.revision
    BY <1>1, <1>2, <1>3
  <1> QED BY <1>1, <1>3, <1>4, <1>5, <1>6 DEF CommittedPlaced

LEMMA UploadContinues ==
    ASSUME EvidenceTypeOK, NEW p \in Publishers, NEW u \in Uploads, Then(p, u)
    PROVE  /\ upload' \in [Publishers -> Uploads]
           /\ upload'[p] = u
           /\ \A q \in Publishers : q # p => upload'[q] = upload[q]
  BY DEF EvidenceTypeOK, Then

LEMMA UploadsPlaced ==
    ASSUME EvidenceInv, EvidenceStays, NEW p \in Publishers, NEW u \in Uploads, Then(p, u),
           UploadPlaced(u)'
    PROVE  \A q \in Publishers : UploadPlaced(upload[q])'
  <1>1. /\ upload' \in [Publishers -> Uploads]
        /\ upload'[p] = u
        /\ \A q \in Publishers : q # p => upload'[q] = upload[q]
    BY UploadContinues DEF EvidenceInv
  <1> SUFFICES ASSUME NEW q \in Publishers PROVE UploadPlaced(upload[q])'
    OBVIOUS
  <1> PICK v : v = upload'[q]
    OBVIOUS
  <1>2. v \in Uploads /\ (q = p \/ v = upload[q])
    BY <1>1
  <1>3. UploadPlaced(v)'
    <2>1. CASE q = p
      BY <1>1, <2>1 DEF UploadPlaced, Verified
    <2>2. CASE q # p
      <3>1. UploadPlaced(v)
        BY <1>2, <2>2 DEF EvidenceInv
      <3> QED BY <1>2, <3>1, UploadStays DEF EvidenceInv
    <2> QED BY <2>1, <2>2
  <1> QED BY <1>3 DEF UploadPlaced, Verified

\* The types of what no request remembers.
EvidenceTyped ==
    /\ source \in [revision : Nat, generation : GenerationIds \cup {Nowhere}]
    /\ generation \in [GenerationIds ->
          [state : {"absent", "uploading", "committed"}, base : Nat, count : 0 .. MaxPages]]
    /\ page \in [GenerationIds -> [Pages -> Observed]]
    /\ object \in [GenerationIds -> [Pages -> Observed]]
    /\ baseline \in [GenerationIds -> Seq(Contents)]
    /\ verified \in [GenerationIds -> Seq(Contents)]

\* A step that commits no generation.
LEMMA EvidenceMoves ==
    ASSUME EvidenceInv, EvidenceTyped', EvidenceStays,
           NEW p \in Publishers, NEW u \in Uploads, Then(p, u), UploadPlaced(u)',
           source.revision <= source'.revision,
           source'.generation \in {source.generation, Nowhere},
           verified' = verified,
           \A g \in GenerationIds :
              /\ generation[g].state = "committed" <=> generation'[g].state = "committed"
              /\ generation'[g].state # "absent" => generation'[g].count \in Pages
    PROVE  EvidenceInv'
  <1>1. EvidenceTypeOK'
    BY UploadContinues DEF EvidenceInv, EvidenceTyped, EvidenceTypeOK
  <1>2. \A q \in Publishers : UploadPlaced(upload[q])'
    BY UploadsPlaced
  <1>3. ASSUME NEW g \in GenerationIds PROVE CommittedPlaced(g)'
    <2>1. CASE generation'[g].state # "committed"
      BY <2>1 DEF CommittedPlaced
    <2>2. CASE generation'[g].state = "committed"
      <3>1. generation[g].state = "committed" /\ verified'[g] = verified[g]
            /\ source'.revision \in Nat
        BY <2>2 DEF EvidenceTyped
      <3> QED BY <3>1, CommittedStays
    <2> QED BY <2>1, <2>2
  <1>4. Committed' = Committed
    BY DEF Committed
  <1>5. source'.generation \in Committed' \cup {Nowhere}
    BY <1>4 DEF EvidenceInv
  <1>6. OnePerRevision'
    <2>1. \A g \in Committed : g \in GenerationIds /\ generation'[g].base = generation[g].base
      BY DEF Committed, EvidenceStays
    <2> QED BY <1>4, <2>1 DEF EvidenceInv, OnePerRevision
  <1> QED BY <1>1, <1>2, <1>3, <1>5, <1>6 DEF EvidenceInv

\* A step that changes the request only.
LEMMA OnlyUpload ==
    ASSUME EvidenceInv, NEW p \in Publishers, NEW u \in Uploads, Then(p, u), UploadPlaced(u),
           UNCHANGED <<source, generation, page, object, baseline, verified>>
    PROVE  EvidenceInv'
  <1>1. EvidenceTyped' /\ source.revision \in Nat
    BY DEF EvidenceInv, EvidenceTypeOK, EvidenceTyped
  <1>2. EvidenceStays
    BY DEF EvidenceStays
  <1>3. UploadPlaced(u)'
    BY DEF UploadPlaced, Verified
  <1>4. \A g \in GenerationIds : generation'[g].state # "absent" => generation'[g].count \in Pages
    BY DEF EvidenceInv
  <1> QED BY <1>1, <1>2, <1>3, <1>4, EvidenceMoves

LEMMA BeginGenerationKeeps ==
    ASSUME EvidenceInv, NEW p \in Publishers, NEW g \in GenerationIds, BeginGeneration(p, g)
    PROVE  EvidenceInv'
  <1> PICK u : u = [upload[p] EXCEPT !.at = "declare", !.gen = g, !.base = source.revision]
    OBVIOUS
  <1>1. u \in Uploads /\ u.at = "declare" /\ u.gen = g
    BY ZenonT(40) DEF EvidenceInv, EvidenceTypeOK, Uploads
  <1>2. Then(p, u) /\ UNCHANGED <<source, generation, page, object, baseline, verified>>
    BY DEF BeginGeneration
  <1>3. UploadPlaced(u)
    BY <1>1 DEF UploadPlaced
  <1> QED BY <1>1, <1>2, <1>3, OnlyUpload

LEMMA BeginPageKeeps ==
    ASSUME EvidenceInv, NEW p \in Publishers, NEW g \in GenerationIds, NEW n \in Pages,
           NEW c \in Contents, BeginPage(p, g, n, c)
    PROVE  EvidenceInv'
  <1> PICK u : u = [upload[p] EXCEPT !.at = "object", !.gen = g, !.page = n, !.content = c]
    OBVIOUS
  <1>1. u \in Uploads /\ u.at = "object" /\ u.gen = g /\ u.page = n /\ u.content = c
    <2>1. upload[p] \in Uploads /\ n \in Nat /\ c \in Observed
      BY EvidenceAssumption DEF EvidenceInv, EvidenceTypeOK, Observed, Pages
    <2> PICK v : v = [upload[p] EXCEPT !.at = "object", !.gen = g]
      OBVIOUS
    <2>2. v \in Uploads /\ v.at = "object" /\ v.gen = g
      BY <2>1 DEF Uploads
    <2>3. u = [v EXCEPT !.page = n, !.content = c]
      OBVIOUS
    <2> QED BY <2>1, <2>2, <2>3 DEF Uploads
  <1>2. Then(p, u) /\ UNCHANGED <<source, generation, page, object, baseline, verified>>
        /\ generation[g].state = "uploading"
    BY DEF BeginPage
  <1>3. UploadPlaced(u)
    BY <1>1, <1>2 DEF UploadPlaced
  <1> QED BY <1>1, <1>2, <1>3, OnlyUpload

\* A request without anything loaded yet.
LEMMA BeginCommitKeeps ==
    ASSUME EvidenceInv, NEW p \in Publishers, NEW g \in GenerationIds, BeginCommit(p, g)
    PROVE  EvidenceInv'
  <1> PICK u : u = [upload[p] EXCEPT !.at = "load", !.gen = g, !.base = generation[g].base]
    OBVIOUS
  <1>1. u \in Uploads /\ u.at = "load" /\ u.gen = g /\ u.base = generation[g].base
        /\ u.loaded = upload[p].loaded
    BY ZenonT(40) DEF EvidenceInv, EvidenceTypeOK, Uploads
  <1>2. Then(p, u) /\ UNCHANGED <<source, generation, page, object, baseline, verified>>
        /\ generation[g].state = "uploading" /\ upload[p].at = "idle"
    BY DEF BeginCommit, Authentic
  <1>3. u.loaded = <<>>
    BY <1>1, <1>2 DEF EvidenceInv, UploadPlaced
  <1>4. generation[g].count \in Pages
    BY <1>2 DEF EvidenceInv
  <1>5. Verified(g, u.loaded) /\ Len(u.loaded) < generation[g].count
    BY <1>3, <1>4, EvidenceAssumption DEF Verified, Pages
  <1>6. UploadPlaced(u)
    BY <1>1, <1>2, <1>5 DEF UploadPlaced
  <1> QED BY <1>1, <1>2, <1>6, OnlyUpload

\* One more page is loaded, which is as its object.
LEMMA OneMorePage ==
    ASSUME NEW r \in Seq(Contents), NEW c \in Contents
    PROVE  /\ Append(r, c) \in Seq(Contents)
           /\ Len(Append(r, c)) = Len(r) + 1
           /\ Append(r, c) # <<>>
           /\ Append(r, c)[Len(r) + 1] = c
           /\ \A n \in 1 .. Len(r) : Append(r, c)[n] = r[n]
  <1>1. Append(r, c) \in Seq(Contents) /\ Len(Append(r, c)) = Len(r) + 1 /\ Len(r) \in Nat
    OBVIOUS
  <1>2. Append(r, c)[Len(r) + 1] = c
    OBVIOUS
  <1>3. \A n \in 1 .. Len(r) : Append(r, c)[n] = r[n]
    OBVIOUS
  <1>4. Append(r, c) # <<>>
    <2>1. Len(Append(r, c)) # 0
      BY <1>1
    <2> QED BY <2>1
  <1> QED BY <1>1, <1>2, <1>3, <1>4

LEMMA OneMoreVerified ==
    ASSUME NEW g, NEW r \in Seq(Contents), NEW s \in Seq(Contents), Verified(g, r),
           Len(s) = Len(r) + 1, Len(s) <= generation[g].count,
           s[Len(s)] = page[g][Len(s)], s[Len(s)] = object[g][Len(s)],
           \A n \in 1 .. Len(r) : s[n] = r[n]
    PROVE  Verified(g, s)
  <1>1. ASSUME NEW n \in 1 .. Len(s) PROVE s[n] = page[g][n] /\ s[n] = object[g][n]
    <2>1. n = Len(s) \/ n \in 1 .. Len(r)
      OBVIOUS
    <2>2. CASE n = Len(s)
      BY <2>2
    <2>3. CASE n \in 1 .. Len(r)
      BY <2>3 DEF Verified
    <2> QED BY <2>1, <2>2, <2>3
  <1> QED BY <1>1, Zenon DEF Verified

LEMMA LoadPageKeeps ==
    ASSUME EvidenceInv, NEW p \in Publishers, LoadPage(p)
    PROVE  EvidenceInv'
  <1>a. PICK v : v = upload[p]
    OBVIOUS
  <1>b. PICK next : next = Len(v.loaded) + 1
    OBVIOUS
  <1>c. PICK s : s = Append(v.loaded, page[v.gen][next])
    OBVIOUS
  <1>d. PICK at : at = IF next < generation[v.gen].count THEN "load"
                     ELSE IF WithBaseline THEN "baseline" ELSE "commit"
    OBVIOUS
  <1>e. PICK u : u = [v EXCEPT !.loaded = s, !.at = at]
    OBVIOUS
  <1>1. v \in Uploads /\ UploadPlaced(v) /\ v.at = "load" /\ v.loaded \in Seq(Contents)
    BY <1>a DEF LoadPage, EvidenceInv, EvidenceTypeOK, Uploads
  <1>2. /\ v.gen \in GenerationIds /\ generation[v.gen].state # "absent"
        /\ v.base = generation[v.gen].base /\ Verified(v.gen, v.loaded)
        /\ Len(v.loaded) < generation[v.gen].count
    BY <1>1 DEF UploadPlaced
  <1>3. generation[v.gen].count \in Nat /\ generation[v.gen].count <= MaxPages
    BY <1>2, EvidenceAssumption DEF EvidenceInv, EvidenceTypeOK
  <1>4. next \in Pages /\ next <= generation[v.gen].count /\ Len(v.loaded) \in Nat
    BY <1>b, <1>1, <1>2, <1>3, EvidenceAssumption DEF Pages
  <1>5. page[v.gen][next] # Nowhere /\ page[v.gen][next] = object[v.gen][next]
    BY <1>a, <1>b DEF LoadPage
  <1>6. page[v.gen][next] \in Contents
    BY <1>2, <1>4, <1>5 DEF EvidenceInv, EvidenceTypeOK, Observed
  <1>7. /\ s \in Seq(Contents) /\ Len(s) = next /\ s # <<>>
        /\ s[next] = page[v.gen][next]
        /\ \A n \in 1 .. Len(v.loaded) : s[n] = v.loaded[n]
    BY <1>b, <1>c, <1>1, <1>6, OneMorePage
  <1>8. Verified(v.gen, s)
    <2>1. /\ Len(s) = Len(v.loaded) + 1 /\ Len(s) <= generation[v.gen].count
          /\ s[Len(s)] = page[v.gen][Len(s)] /\ s[Len(s)] = object[v.gen][Len(s)]
      BY <1>b, <1>4, <1>5, <1>7, Zenon
    <2> QED BY <1>1, <1>2, <1>7, <2>1, OneMoreVerified, Zenon
  <1>9. /\ at \in {"load", "baseline", "commit"}
        /\ at = "load" => next < generation[v.gen].count
        /\ at # "load" => next = generation[v.gen].count
        /\ at = "commit" => ~ WithBaseline
    <2>1. CASE next < generation[v.gen].count
      <3>1. at = "load"
        BY <1>d, <2>1
      <3> QED BY <2>1, <3>1
    <2>2. CASE ~ (next < generation[v.gen].count)
      <3>1. next = generation[v.gen].count
        <4>1. next \in Nat
          BY <1>4, EvidenceAssumption DEF Pages
        <4> QED BY <1>3, <1>4, <2>2, <4>1
      <3>2. at = IF WithBaseline THEN "baseline" ELSE "commit"
        BY <1>d, <2>2
      <3>3. CASE WithBaseline
        BY <3>1, <3>2, <3>3
      <3>4. CASE ~ WithBaseline
        BY <3>1, <3>2, <3>4
      <3> QED BY <3>3, <3>4
    <2> QED BY <2>1, <2>2
  <1>10. u \in Uploads /\ u.at = at /\ u.gen = v.gen /\ u.base = v.base /\ u.loaded = s
    <2>1. at \in {"idle", "declare", "object", "item", "load", "baseline", "commit", "snapshot"}
      BY <1>9
    <2>2. s \in Seq(Contents)
      BY <1>7
    <2>3. u.at = at /\ u.gen = v.gen /\ u.base = v.base /\ u.loaded = s
      BY <1>e, <1>1 DEF Uploads
    <2> QED BY <1>e, <1>1, <2>1, <2>2, <2>3 DEF Uploads
  <1>11. UploadPlaced(u)
    <2>1. at = "load" => Len(s) < generation[v.gen].count
      BY <1>7, <1>9, Zenon
    <2>2. at \in {"baseline", "commit"} => Len(s) = generation[v.gen].count /\ s # <<>>
      <3>1. at \in {"baseline", "commit"} => at # "load"
        OBVIOUS
      <3> QED BY <1>7, <1>9, <3>1, Zenon
    <2>3. /\ at \notin {"idle", "object", "item"}
          /\ ~ (at = "commit" /\ WithBaseline)
      BY <1>9
    <2> QED BY <1>2, <1>8, <1>10, <2>1, <2>2, <2>3 DEF UploadPlaced
  <1>12. Then(p, u) /\ UNCHANGED <<source, generation, page, object, baseline, verified>>
    <2>1. UNCHANGED <<source, generation, page, object, baseline, verified>>
      BY DEF LoadPage
    <2>2. Then(p, u)
      BY <1>a, <1>b, <1>c, <1>d, <1>e, Zenon DEF LoadPage
    <2> QED BY <2>1, <2>2
  <1> QED BY <1>10, <1>11, <1>12, OnlyUpload

LEMMA BeginSnapshotKeeps ==
    ASSUME EvidenceInv, NEW p \in Publishers, BeginSnapshot(p)
    PROVE  EvidenceInv'
  <1> PICK u : u = [NoUpload EXCEPT !.at = "snapshot", !.base = source.revision]
    OBVIOUS
  <1>1. u \in Uploads /\ u.at = "snapshot"
    <2>1. source.revision \in Nat /\ NoUpload \in Uploads
      BY NoUploadPlaced DEF EvidenceInv, EvidenceTypeOK
    <2> QED BY <2>1 DEF Uploads
  <1>2. Then(p, u) /\ UNCHANGED <<source, generation, page, object, baseline, verified>>
    BY DEF BeginSnapshot
  <1>3. UploadPlaced(u)
    BY <1>1 DEF UploadPlaced
  <1> QED BY <1>1, <1>2, <1>3, OnlyUpload

LEMMA DeclareGenerationKeeps ==
    ASSUME EvidenceInv, NEW p \in Publishers, NEW count \in Pages, DeclareGeneration(p, count)
    PROVE  EvidenceInv'
  <1> PICK g : g = upload[p].gen
    OBVIOUS
  <1> PICK n : n = [state |-> "uploading", base |-> upload[p].base, count |-> count]
    OBVIOUS
  <1>1. /\ upload[p].at = "declare" /\ generation[g] = NoGeneration
        /\ generation' = [generation EXCEPT ![g] = n]
        /\ Then(p, NoUpload)
        /\ UNCHANGED <<source, page, object, baseline, verified>>
    BY DEF DeclareGeneration, Answer
  <1>2. g \in GenerationIds /\ upload[p].base \in Nat
    BY <1>1 DEF EvidenceInv, EvidenceTypeOK, UploadPlaced, Uploads
  <1>3. n \in [state : {"absent", "uploading", "committed"}, base : Nat, count : 0 .. MaxPages]
        /\ n.state = "uploading" /\ n.count = count
    BY <1>2, EvidenceAssumption DEF Pages
  <1>4. generation[g].state = "absent"
    BY <1>1 DEF NoGeneration
  <1>5. /\ generation'[g] = n
        /\ \A h \in GenerationIds : h # g => generation'[h] = generation[h]
        /\ EvidenceTyped'
    BY <1>1, <1>2, <1>3 DEF EvidenceInv, EvidenceTypeOK, EvidenceTyped
  <1>6. EvidenceStays
    <2>1. ASSUME NEW h \in GenerationIds, generation[h].state # "absent"
          PROVE  generation'[h] = generation[h]
      BY <1>4, <1>5, <2>1
    <2> QED BY <1>1, <2>1 DEF EvidenceStays
  <1>7. \A h \in GenerationIds :
           /\ generation[h].state = "committed" <=> generation'[h].state = "committed"
           /\ generation'[h].state # "absent" => generation'[h].count \in Pages
    <2> TAKE h \in GenerationIds
    <2>1. CASE h = g
      BY <1>3, <1>4, <1>5, <2>1
    <2>2. CASE h # g
      BY <1>5, <2>2 DEF EvidenceInv
    <2> QED BY <2>1, <2>2
  <1>8. source.revision \in Nat
    BY DEF EvidenceInv, EvidenceTypeOK
  <1> QED BY <1>1, <1>5, <1>6, <1>7, <1>8, NoUploadPlaced, EvidenceMoves

\* An object is put where there is none, or has the same content.
LEMMA StoreObjectKeeps ==
    ASSUME EvidenceInv, NEW p \in Publishers, StoreObject(p)
    PROVE  EvidenceInv'
  <1> PICK v : v = upload[p]
    OBVIOUS
  <1> PICK u : u = [v EXCEPT !.at = "item"]
    OBVIOUS
  <1>1. /\ v.at = "object" /\ Then(p, u)
        /\ object[v.gen][v.page] \in {Nowhere, v.content}
        /\ object' = [object EXCEPT ![v.gen][v.page] = v.content]
        /\ UNCHANGED <<source, generation, page, baseline, verified>>
    BY DEF StoreObject
  <1>2. v \in Uploads /\ UploadPlaced(v)
    BY DEF EvidenceInv, EvidenceTypeOK
  <1>3. v.gen \in GenerationIds /\ v.page \in Pages /\ v.content \in Contents
        /\ generation[v.gen].state # "absent"
    BY <1>1, <1>2 DEF UploadPlaced
  <1>4. u \in Uploads /\ u.at = "item" /\ u.gen = v.gen /\ u.page = v.page /\ u.content = v.content
    BY <1>2 DEF Uploads
  <1>5. /\ object' \in [GenerationIds -> [Pages -> Observed]]
        /\ \A g \in GenerationIds, n \in Pages :
              \/ object'[g][n] = object[g][n]
              \/ g = v.gen /\ n = v.page /\ object'[g][n] = v.content
    BY <1>1, <1>3 DEF EvidenceInv, EvidenceTypeOK, Observed
  <1>6. EvidenceTyped'
    BY <1>1, <1>5 DEF EvidenceInv, EvidenceTypeOK, EvidenceTyped
  <1>7. EvidenceStays
    BY <1>1, <1>5 DEF EvidenceStays
  <1>8. UploadPlaced(u)'
    BY <1>1, <1>3, <1>4 DEF UploadPlaced
  <1>9. source.revision \in Nat
        /\ \A g \in GenerationIds : generation[g].state # "absent" => generation[g].count \in Pages
    BY DEF EvidenceInv, EvidenceTypeOK
  <1> QED BY <1>1, <1>4, <1>6, <1>7, <1>8, <1>9, EvidenceMoves

\* An item is put where there is none.
LEMMA StorePageKeeps ==
    ASSUME EvidenceInv, NEW p \in Publishers, StorePage(p)
    PROVE  EvidenceInv'
  <1> PICK v : v = upload[p]
    OBVIOUS
  <1>1. /\ v.at = "item" /\ Then(p, NoUpload)
        /\ page[v.gen][v.page] = Nowhere
        /\ page' = [page EXCEPT ![v.gen][v.page] = v.content]
        /\ UNCHANGED <<source, generation, object, baseline, verified>>
    BY DEF StorePage, Answer
  <1>2. v.gen \in GenerationIds /\ v.page \in Pages /\ v.content \in Contents
    BY <1>1 DEF EvidenceInv, UploadPlaced
  <1>3. /\ page' \in [GenerationIds -> [Pages -> Observed]]
        /\ \A g \in GenerationIds, n \in Pages :
              \/ page'[g][n] = page[g][n]
              \/ g = v.gen /\ n = v.page
    BY <1>1, <1>2 DEF EvidenceInv, EvidenceTypeOK, Observed
  <1>4. EvidenceTyped'
    BY <1>1, <1>3 DEF EvidenceInv, EvidenceTypeOK, EvidenceTyped
  <1>5. EvidenceStays
    BY <1>1, <1>3 DEF EvidenceStays
  <1>6. source.revision \in Nat
        /\ \A g \in GenerationIds : generation[g].state # "absent" => generation[g].count \in Pages
    BY DEF EvidenceInv, EvidenceTypeOK
  <1> QED BY <1>1, <1>4, <1>5, <1>6, NoUploadPlaced, EvidenceMoves

\* A baseline is put where there is none, or is the same.
LEMMA StoreBaselineKeeps ==
    ASSUME EvidenceInv, NEW p \in Publishers, StoreBaseline(p)
    PROVE  EvidenceInv'
  <1> PICK v : v = upload[p]
    OBVIOUS
  <1> PICK u : u = [v EXCEPT !.at = "commit"]
    OBVIOUS
  <1>1. /\ v.at = "baseline" /\ Then(p, u)
        /\ baseline[v.gen] \in {<<>>, v.loaded}
        /\ baseline' = [baseline EXCEPT ![v.gen] = v.loaded]
        /\ UNCHANGED <<source, generation, page, object, verified>>
    BY DEF StoreBaseline
  <1>2. v \in Uploads /\ UploadPlaced(v) /\ v.loaded \in Seq(Contents)
    BY DEF EvidenceInv, EvidenceTypeOK, Uploads
  <1>3. /\ v.gen \in GenerationIds /\ generation[v.gen].state # "absent"
        /\ v.base = generation[v.gen].base /\ Verified(v.gen, v.loaded)
        /\ Len(v.loaded) = generation[v.gen].count /\ v.loaded # <<>>
    BY <1>1, <1>2 DEF UploadPlaced
  <1>4. u \in Uploads /\ u.at = "commit" /\ u.gen = v.gen /\ u.base = v.base /\ u.loaded = v.loaded
    BY <1>2 DEF Uploads
  <1>5. /\ baseline' \in [GenerationIds -> Seq(Contents)]
        /\ baseline'[v.gen] = v.loaded
        /\ \A g \in GenerationIds : g # v.gen => baseline'[g] = baseline[g]
    BY <1>1, <1>2, <1>3 DEF EvidenceInv, EvidenceTypeOK
  <1>6. EvidenceTyped'
    BY <1>1, <1>5 DEF EvidenceInv, EvidenceTypeOK, EvidenceTyped
  <1>7. EvidenceStays
    BY <1>1, <1>5 DEF EvidenceStays
  <1>8. UploadPlaced(u)'
    BY <1>1, <1>3, <1>4, <1>5 DEF UploadPlaced, Verified
  <1>9. source.revision \in Nat
        /\ \A g \in GenerationIds : generation[g].state # "absent" => generation[g].count \in Pages
    BY DEF EvidenceInv, EvidenceTypeOK
  <1> QED BY <1>1, <1>4, <1>6, <1>7, <1>8, <1>9, EvidenceMoves

LEMMA CommitSnapshotKeeps ==
    ASSUME EvidenceInv, NEW p \in Publishers, CommitSnapshot(p)
    PROVE  EvidenceInv'
  <1>1. /\ Then(p, NoUpload) /\ source.revision = upload[p].base
        /\ source' = [revision |-> upload[p].base + 1, generation |-> Nowhere]
        /\ UNCHANGED <<generation, page, object, baseline, verified>>
    BY DEF CommitSnapshot, Answer
  <1>2. source.revision \in Nat
        /\ \A g \in GenerationIds : generation[g].state # "absent" => generation[g].count \in Pages
    BY DEF EvidenceInv, EvidenceTypeOK
  <1>3. source'.revision \in Nat /\ source.revision <= source'.revision
        /\ source'.generation = Nowhere
    BY <1>1, <1>2
  <1>4. EvidenceTyped'
    BY <1>1, <1>2 DEF EvidenceInv, EvidenceTypeOK, EvidenceTyped
  <1>5. EvidenceStays
    BY <1>1 DEF EvidenceStays
  <1> QED BY <1>1, <1>2, <1>3, <1>4, <1>5, NoUploadPlaced, EvidenceMoves

\* The commit: the generations committed before were declared against revisions
\* below the source's, which is the revision of this one.
LEMMA CommitGenerationKeeps ==
    ASSUME EvidenceInv, NEW p \in Publishers, CommitGeneration(p)
    PROVE  EvidenceInv'
  <1> PICK v : v = upload[p]
    OBVIOUS
  <1> PICK g : g = v.gen
    OBVIOUS
  <1>1. /\ v.at = "commit" /\ source.revision = v.base /\ generation[g].state = "uploading"
        /\ source' = [revision |-> v.base + 1, generation |-> g]
        /\ generation' = [generation EXCEPT ![g].state = "committed"]
        /\ verified' = [verified EXCEPT ![g] = v.loaded]
        /\ Then(p, NoUpload)
        /\ UNCHANGED <<page, object, baseline>>
    BY DEF CommitGeneration, Committable, Answer
  <1>2. v \in Uploads /\ UploadPlaced(v) /\ v.loaded \in Seq(Contents) /\ v.base \in Nat
    BY DEF EvidenceInv, EvidenceTypeOK, Uploads
  <1>3. /\ g \in GenerationIds
        /\ v.base = generation[g].base /\ Verified(g, v.loaded)
        /\ Len(v.loaded) = generation[g].count /\ v.loaded # <<>>
        /\ WithBaseline => baseline[g] = v.loaded
    BY <1>1, <1>2 DEF UploadPlaced
  <1>4. /\ generation' \in [GenerationIds ->
              [state : {"absent", "uploading", "committed"}, base : Nat, count : 0 .. MaxPages]]
        /\ generation'[g].state = "committed"
        /\ generation'[g].base = generation[g].base
        /\ generation'[g].count = generation[g].count
        /\ \A h \in GenerationIds : h # g => generation'[h] = generation[h]
    BY <1>1, <1>3, ZenonT(40) DEF EvidenceInv, EvidenceTypeOK
  <1>5. /\ verified' \in [GenerationIds -> Seq(Contents)]
        /\ verified'[g] = v.loaded
        /\ \A h \in GenerationIds : h # g => verified'[h] = verified[h]
    BY <1>1, <1>2, <1>3 DEF EvidenceInv, EvidenceTypeOK
  <1>6. source'.revision = v.base + 1 /\ source'.revision \in Nat /\ source'.generation = g
        /\ source' \in [revision : Nat, generation : GenerationIds \cup {Nowhere}]
    BY <1>1, <1>2, <1>3
  <1>7. EvidenceTypeOK'
    BY <1>1, <1>4, <1>5, <1>6, NoUploadPlaced, UploadContinues DEF EvidenceInv, EvidenceTypeOK
  <1>8. EvidenceStays
    BY <1>1, <1>3, <1>4 DEF EvidenceStays
  <1>9. \A q \in Publishers : UploadPlaced(upload[q])'
    BY <1>1, <1>8, NoUploadPlaced, UploadsPlaced
  <1>10. ASSUME NEW h \in GenerationIds PROVE CommittedPlaced(h)'
    <2>1. CASE h = g
      <3>1. Verified(g, v.loaded)'
        BY <1>1, <1>3, <1>4 DEF Verified
      <3>2. /\ Len(verified'[g]) = generation'[g].count
            /\ verified'[g] # <<>>
            /\ WithBaseline => baseline'[g] = verified'[g]
        BY <1>1, <1>3, <1>4, <1>5
      <3>3. generation'[g].base < source'.revision
        BY <1>2, <1>3, <1>4, <1>6
      <3>4. \A n \in 1 .. Len(verified'[g]) :
               verified'[g][n] = page'[g][n] /\ verified'[g][n] = object'[g][n]
        BY <1>1, <1>3, <1>5 DEF Verified
      <3>5. Len(verified'[g]) <= generation'[g].count
        BY <1>3, <1>4, <1>5, <1>7, <3>2 DEF Verified
      <3> QED BY <2>1, <3>2, <3>3, <3>4, <3>5 DEF CommittedPlaced, Verified
    <2>2. CASE h # g
      <3>1. CASE generation[h].state # "committed"
        BY <1>4, <2>2, <3>1 DEF CommittedPlaced
      <3>2. CASE generation[h].state = "committed"
        <4>1. verified'[h] = verified[h] /\ source.revision <= source'.revision
          BY <1>1, <1>2, <1>5, <1>6, <2>2
        <4> QED BY <1>6, <1>8, <3>2, <4>1, CommittedStays
      <3> QED BY <3>1, <3>2
    <2> QED BY <2>1, <2>2
  <1>11. Committed' = Committed \cup {g}
    BY <1>3, <1>4 DEF Committed
  <1>12. source'.generation \in Committed' \cup {Nowhere}
    BY <1>6, <1>11
  <1>13. \A h \in GenerationIds : generation'[h].state # "absent" => generation'[h].count \in Pages
    BY <1>1, <1>4 DEF EvidenceInv
  <1>14. OnePerRevision'
    <2>1. \A h \in Committed : h \in GenerationIds /\ h # g /\ generation'[h].base = generation[h].base
                               /\ generation[h].base # generation[g].base
      <3> TAKE h \in Committed
      <3>1. h \in GenerationIds /\ generation[h].state = "committed" /\ h # g
        BY <1>1 DEF Committed
      <3>2. generation[h].base < source.revision
        BY <3>1 DEF EvidenceInv, CommittedPlaced
      <3>3. generation[h].base \in Nat /\ generation'[h].base = generation[h].base
        BY <1>4, <3>1 DEF EvidenceInv, EvidenceTypeOK
      <3> QED BY <1>1, <1>2, <1>3, <3>1, <3>2, <3>3
    <2>2. ASSUME NEW h \in Committed', NEW k \in Committed', generation'[h].base = generation'[k].base
          PROVE  h = k
      BY <1>4, <1>11, <2>1, <2>2 DEF EvidenceInv, OnePerRevision
    <2> QED BY <2>2 DEF OnePerRevision
  <1> QED BY <1>7, <1>9, <1>10, <1>12, <1>13, <1>14 DEF EvidenceInv

LEMMA EvidenceKeeps == EvidenceInv /\ [GenerationNext]_evidence => EvidenceInv'
  <1> SUFFICES ASSUME EvidenceInv, [GenerationNext]_evidence PROVE EvidenceInv'
    OBVIOUS
  <1>1. CASE UNCHANGED evidence
    BY <1>1 DEF evidence, EvidenceInv, EvidenceTypeOK, UploadPlaced, Verified, CommittedPlaced,
                OnePerRevision, Committed
  <1>2. ASSUME NEW p \in Publishers, EndUpload(p) PROVE EvidenceInv'
    <2>1. Then(p, NoUpload) /\ UNCHANGED <<source, generation, page, object, baseline, verified>>
      BY <1>2 DEF EndUpload, Answer
    <2> QED BY <2>1, NoUploadPlaced, OnlyUpload
  <1> QED BY <1>1, <1>2, BeginGenerationKeeps, BeginCommitKeeps, DeclareGenerationKeeps,
             BeginPageKeeps, StoreObjectKeeps, StorePageKeeps, LoadPageKeeps, StoreBaselineKeeps,
             CommitGenerationKeeps, BeginSnapshotKeeps, CommitSnapshotKeeps DEF GenerationNext

-----------------------------------------------------------------------------
(* The theorems *)

LEMMA DiscoveryKeeps ==
    ConnectorInv /\ EvidenceInv /\ [DiscoveryNext]_<<connectors, evidence>>
        => (ConnectorInv /\ EvidenceInv)'
  <1> SUFFICES ASSUME ConnectorInv, EvidenceInv, [DiscoveryNext]_<<connectors, evidence>>
               PROVE  (ConnectorInv /\ EvidenceInv)'
    OBVIOUS
  <1>1. [ConnectorNext]_connectors /\ [GenerationNext]_evidence
    BY DEF DiscoveryNext
  <1> QED BY <1>1, ConnectorKeeps, EvidenceKeeps

\* The connector, its collector's resources and the requests about them, and the
\* generations, their pages and the uploads, keep their types and their places
\* (_create_managed_discovery, _disable_discovery_job, _commit_discovery_generation).
THEOREM DiscoveryInvariant == DiscoverySpec => [](ConnectorInv /\ EvidenceInv)
  <1>1. DiscoveryInit => ConnectorInv /\ EvidenceInv
    BY ConnectorStarts, EvidenceStarts DEF DiscoveryInit
  <1> QED BY <1>1, DiscoveryKeeps, PTL DEF DiscoverySpec

\* A live job whose connector is its collector's has its schedule and the secret
\* with the token that is accepted, however creations that fail, clean-ups and
\* disables race (_create_managed_discovery).
THEOREM LiveCollectorsAreServed == DiscoverySpec => []LiveCollectorServed
  <1>1. ConnectorInv => LiveCollectorServed
    <2> SUFFICES ASSUME ConnectorInv, collector \in Scheduled, connector.managed, ~ misreported
                 PROVE  schedule /\ vault = [status |-> "held", token |-> connector.token]
      BY DEF LiveCollectorServed
    <2>1. schedule /\ vault.status = "held" /\ connector.token = vault.token
      BY DEF ConnectorInv, CollectorServed
    <2>2. vault \in [status : {"absent", "held", "deleted"}, token : Nat]
      BY DEF ConnectorInv, ConnectorTypeOK
    <2> QED BY <2>1, <2>2
  <1> QED BY <1>1, DiscoveryInvariant, PTL

\* A committed generation is read as its commit verified it, page by page and in
\* its baseline, and two commits never know of one revision of the source
\* (_commit_discovery_generation).
THEOREM EvidenceStaysWhole == DiscoverySpec => []EvidenceIsWhole
  <1>1. EvidenceInv => EvidenceIsWhole
    <2> SUFFICES ASSUME EvidenceInv PROVE EvidenceIsWhole
      OBVIOUS
    <2>1. ASSUME NEW g \in Committed
          PROVE  /\ Len(verified[g]) = generation[g].count
                 /\ WithBaseline => baseline[g] = verified[g]
                 /\ \A n \in 1 .. generation[g].count :
                       verified[g][n] = page[g][n] /\ verified[g][n] = object[g][n]
                 /\ generation[g].base < source.revision
      BY DEF Committed, EvidenceInv, CommittedPlaced, Verified
    <2> QED BY <2>1 DEF EvidenceIsWhole, EvidenceInv, OnePerRevision
  <1> QED BY <1>1, DiscoveryInvariant, PTL
=============================================================================
