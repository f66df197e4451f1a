------------------------- MODULE ManagedRolloutsProofs -------------------------
(***************************************************************************)
(* Proofs about ManagedRollouts, for every number of endpoints, operators, *)
(* reconciliations, configurations, packages, windows and shares: its      *)
(* types and KnownGoodIsProved.                                            *)
(***************************************************************************)
EXTENDS ManagedRollouts, TLAPS

RolloutSpec == RolloutInit /\ [][RolloutNext]_rollouts

(***************************************************************************)
(* The inductive invariant.                                                *)
(***************************************************************************)
Versions == 0 .. MaxConfigurations
Documents == Contents \cup {NoContent}
Windows == Schedules \cup {Unscheduled}

RolloutStates ==
    {"staged", "scheduled", "paused", "converged", "drifted"} \cup Active
        \cup {row[1] : row \in LegacyRows}

Percentages == Shares \cup {0, 100} \cup {row[2] : row \in LegacyRows}

Configurations ==
    [revision : Nat, version : Versions, desired : Documents, state : RolloutStates,
     requested : {"none"} \cup Active, share : Percentages, package : Nat, good : Versions,
     goodPackage : Nat, schedule : Windows, started : Int]

EndpointRecords == [holds : Documents, report : Documents \cup {Lapsed}, up : BOOLEAN]

PublisherRecords ==
    [at : {"idle", "look", "publish", "bind", "start"}, seen : Configurations, content : Documents,
     package : Nat]

Postures == {"unseen", "unavailable", "pending", "converged", "drifted"}

ReconcilerRecords ==
    [at : {"idle", "open", "measure"}, seen : Configurations, now : Int, schedule : Windows,
     posture : [Endpoints -> Postures]]

RolloutTypeOK ==
    /\ configuration \in Configurations
    /\ document \in [1 .. MaxConfigurations -> Documents]
    /\ package \in Seq(Documents)
    /\ endpoint \in [Endpoints -> EndpointRecords]
    /\ publisher \in [Publishers -> PublisherRecords]
    /\ reconciler \in [Reconcilers -> ReconcilerRecords]
    /\ clock \in Int
    /\ enforced \in [Endpoints -> SUBSET Documents]

\* The versions are numbered in the order they are staged, and the row desires
\* the last one.
VersionsInOrder ==
    /\ \A v \in DOMAIN document :
          /\ v > configuration.version => document[v] = NoContent
          /\ v = configuration.version => document[v] \in {configuration.desired, NoContent}
    /\ configuration.version # 0 => configuration.desired \in Contents

BoundPackage ==
    configuration.package # 0 =>
        /\ configuration.package \in DOMAIN package
        /\ package[configuration.package] = configuration.desired

GoodVersion ==
    /\ configuration.good # 0 =>
          /\ configuration.good <= configuration.version
          /\ document[configuration.good] \in Contents
          /\ \A a \in Endpoints : document[configuration.good] \in enforced[a]
    /\ configuration.goodPackage # 0 =>
          /\ configuration.good # 0
          /\ configuration.goodPackage \in DOMAIN package
          /\ package[configuration.goodPackage] = document[configuration.good]

ReportsAreHistory ==
    \A a \in Endpoints : endpoint[a].report \in Contents => endpoint[a].report \in enforced[a]

\* A row that was read is the row that is, or an earlier revision.
Read(seen) ==
    /\ Governed
    /\ seen.revision <= configuration.revision
    /\ seen.revision = configuration.revision => seen = configuration

PublisherKnows(x) ==
    /\ x.at \in {"bind", "start"} => Read(x.seen)
    /\ x.at = "start" /\ x.seen.revision = configuration.revision =>
          /\ x.package \in DOMAIN package
          /\ package[x.package] = configuration.desired

\* What was measured as converged was enforced, if the rollout has not changed.
ReconcilerKnows(x) ==
    /\ x.at # "idle" => Read(x.seen)
    /\ x.at = "open" => \A a \in Endpoints : x.posture[a] = "unseen"
    /\ x.at = "measure" /\ x.seen.revision = configuration.revision =>
          \A a \in Endpoints :
              x.posture[a] = "converged" => configuration.desired \in enforced[a]

RolloutInv ==
    /\ RolloutTypeOK
    /\ VersionsInOrder
    /\ BoundPackage
    /\ GoodVersion
    /\ ReportsAreHistory
    /\ \A p \in Publishers : PublisherKnows(publisher[p])
    /\ \A r \in Reconcilers : ReconcilerKnows(reconciler[r])

(***************************************************************************)
(* What a step does to the row, and to what requests know of it.           *)
(***************************************************************************)
\* _put_configuration_record
LEMMA RowWritten ==
    ASSUME configuration \in Configurations, NEW new \in Configurations, Put(new)
    PROVE  /\ configuration' \in Configurations
           /\ configuration'.revision = configuration.revision + 1
           /\ configuration'.version = new.version
           /\ configuration'.desired = new.desired
           /\ configuration'.package = new.package
           /\ configuration'.good = new.good
           /\ configuration'.goodPackage = new.goodPackage
  BY DEF Put, Configurations

\* What was read before a write is out of date after it.
LEMMA WriteOutdates ==
    ASSUME RolloutTypeOK, Governed => Governed',
           configuration'.revision = configuration.revision + 1
    PROVE  /\ \A x \in PublisherRecords : PublisherKnows(x) => PublisherKnows(x)'
           /\ \A x \in ReconcilerRecords : ReconcilerKnows(x) => ReconcilerKnows(x)'
<1>1. configuration.revision \in Nat
  BY DEF RolloutTypeOK, Configurations
<1>2. ASSUME NEW seen \in Configurations, Read(seen)
      PROVE  Read(seen)' /\ seen.revision # configuration'.revision
  <2>1. seen.revision \in Nat
    BY DEF Configurations
  <2> QED
    BY <1>1, <1>2, <2>1 DEF Read
<1>3. ASSUME NEW x \in PublisherRecords, PublisherKnows(x)
      PROVE  PublisherKnows(x)'
  <2>1. x.seen \in Configurations
    BY DEF PublisherRecords
  <2> QED
    BY <1>2, <1>3, <2>1 DEF PublisherKnows
<1>4. ASSUME NEW x \in ReconcilerRecords, ReconcilerKnows(x)
      PROVE  ReconcilerKnows(x)'
  <2>1. x.seen \in Configurations
    BY DEF ReconcilerRecords
  <2> QED
    BY <1>2, <1>4, <2>1 DEF ReconcilerKnows
<1> QED
  BY <1>3, <1>4

\* The documents that are kept, the packages and the history only grow.
Grown ==
    /\ document' \in [1 .. MaxConfigurations -> Documents]
    /\ \A v \in DOMAIN document : document[v] # NoContent => document'[v] = document[v]
    /\ DOMAIN package \subseteq DOMAIN package'
    /\ \A k \in DOMAIN package : package'[k] = package[k]
    /\ \A a \in Endpoints : enforced[a] \subseteq enforced'[a]

LEMMA NothingGrown ==
    ASSUME RolloutTypeOK, UNCHANGED <<document, package, enforced>>
    PROVE  Grown
  BY DEF RolloutTypeOK, Grown

LEMMA GovernedStays ==
    ASSUME RolloutTypeOK, Grown, Governed, configuration' = configuration
    PROVE  Governed'
<1>1. configuration.version \in DOMAIN document
  BY DEF RolloutTypeOK, Configurations, Versions, Governed
<1> QED
  BY <1>1 DEF Governed, Grown

LEMMA RowStays ==
    ASSUME RolloutTypeOK, Grown, configuration' = configuration
    PROVE  /\ \A x \in PublisherRecords : PublisherKnows(x) => PublisherKnows(x)'
           /\ \A x \in ReconcilerRecords : ReconcilerKnows(x) => ReconcilerKnows(x)'
<1>1. ASSUME NEW seen \in Configurations, Read(seen)
      PROVE  Read(seen)'
  BY <1>1, GovernedStays DEF Read
<1>2. ASSUME NEW x \in PublisherRecords, PublisherKnows(x)
      PROVE  PublisherKnows(x)'
  <2>1. x.seen \in Configurations
    BY DEF PublisherRecords
  <2> QED
    BY <1>1, <1>2, <2>1 DEF PublisherKnows, Grown
<1>3. ASSUME NEW x \in ReconcilerRecords, ReconcilerKnows(x)
      PROVE  ReconcilerKnows(x)'
  <2>1. x.seen \in Configurations
    BY DEF ReconcilerRecords
  <2> QED
    BY <1>1, <1>3, <2>1 DEF ReconcilerKnows, Grown
<1> QED
  BY <1>2, <1>3

\* A publisher that the step did not move knows what it knew.
LEMMA PublishersKnow ==
    ASSUME RolloutInv,
           \A x \in PublisherRecords : PublisherKnows(x) => PublisherKnows(x)',
           \A p \in Publishers :
               \/ publisher'[p] = publisher[p]
               \/ publisher'[p].at \in {"idle", "look", "publish"}
               \/ \E y \in PublisherRecords : publisher'[p] = y /\ PublisherKnows(y)'
    PROVE  (\A p \in Publishers : PublisherKnows(publisher[p]))'
<1> SUFFICES ASSUME NEW p \in Publishers
             PROVE  PublisherKnows(publisher[p])'
  OBVIOUS
<1>1. CASE publisher'[p].at \in {"idle", "look", "publish"}
  BY <1>1 DEF PublisherKnows
<1>2. ASSUME NEW y \in PublisherRecords, publisher'[p] = y, PublisherKnows(y)'
      PROVE  PublisherKnows(publisher[p])'
  BY <1>2 DEF PublisherKnows, Read
<1>3. CASE publisher'[p] = publisher[p]
  <2> PICK y : y = publisher[p]
    OBVIOUS
  <2>1. y \in PublisherRecords /\ PublisherKnows(y)
    BY DEF RolloutInv, RolloutTypeOK
  <2> QED
    BY <1>2, <1>3, <2>1
<1> QED
  BY <1>1, <1>2, <1>3

LEMMA ReconcilersKnow ==
    ASSUME RolloutInv,
           \A x \in ReconcilerRecords : ReconcilerKnows(x) => ReconcilerKnows(x)',
           \A r \in Reconcilers :
               \/ reconciler'[r] = reconciler[r]
               \/ reconciler'[r] = NoReconciler
               \/ \E y \in ReconcilerRecords : reconciler'[r] = y /\ ReconcilerKnows(y)'
    PROVE  (\A r \in Reconcilers : ReconcilerKnows(reconciler[r]))'
<1> SUFFICES ASSUME NEW r \in Reconcilers
             PROVE  ReconcilerKnows(reconciler[r])'
  OBVIOUS
<1>1. CASE reconciler'[r] = NoReconciler
  BY <1>1 DEF ReconcilerKnows, NoReconciler
<1>2. ASSUME NEW y \in ReconcilerRecords, reconciler'[r] = y, ReconcilerKnows(y)'
      PROVE  ReconcilerKnows(reconciler[r])'
  BY <1>2 DEF ReconcilerKnows, Read
<1>3. CASE reconciler'[r] = reconciler[r]
  <2> PICK y : y = reconciler[r]
    OBVIOUS
  <2>1. y \in ReconcilerRecords /\ ReconcilerKnows(y)
    BY DEF RolloutInv, RolloutTypeOK
  <2> QED
    BY <1>2, <1>3, <2>1
<1> QED
  BY <1>1, <1>2, <1>3

LEMMA GoodStays ==
    ASSUME RolloutInv, Grown, configuration' = configuration
    PROVE  BoundPackage' /\ GoodVersion'
<1>1. BoundPackage'
  BY DEF RolloutInv, BoundPackage, Grown
<1>2. ASSUME configuration.good # 0
      PROVE  /\ configuration.good \in DOMAIN document
             /\ document'[configuration.good] = document[configuration.good]
  <2>1. configuration.good \in DOMAIN document
    BY <1>2 DEF RolloutInv, RolloutTypeOK, Configurations, Versions
  <2>2. document[configuration.good] # NoContent
    BY <1>2, RolloutAssumption DEF RolloutInv, GoodVersion
  <2> QED
    BY <2>1, <2>2 DEF Grown
<1> QED
  BY <1>1, <1>2 DEF RolloutInv, GoodVersion, Grown

\* What a row says of what is good, whatever else it says.
Good(row) ==
    /\ row.good # 0 =>
          /\ row.good <= row.version
          /\ document[row.good] \in Contents
          /\ \A a \in Endpoints : document[row.good] \in enforced[a]
    /\ row.goodPackage # 0 =>
          /\ row.good # 0
          /\ row.goodPackage \in DOMAIN package
          /\ package[row.goodPackage] = document[row.good]

Bound(row) ==
    row.package # 0 =>
        /\ row.package \in DOMAIN package
        /\ package[row.package] = row.desired

\* _pause_managed_configuration, _start_managed_rollouts, _reconcile_deployment_rollout
LEMMA SameVersionWritten ==
    ASSUME RolloutInv, NEW new \in Configurations, Put(new),
           new.version = configuration.version, new.desired = configuration.desired,
           Bound(new), Good(new),
           UNCHANGED <<document, package, enforced>>
    PROVE  /\ VersionsInOrder' /\ BoundPackage' /\ GoodVersion'
           /\ Governed => Governed'
           /\ \A x \in PublisherRecords : PublisherKnows(x) => PublisherKnows(x)'
           /\ \A x \in ReconcilerRecords : ReconcilerKnows(x) => ReconcilerKnows(x)'
<1>1. /\ configuration'.revision = configuration.revision + 1
      /\ configuration'.version = configuration.version
      /\ configuration'.desired = configuration.desired
      /\ configuration'.package = new.package
      /\ configuration'.good = new.good
      /\ configuration'.goodPackage = new.goodPackage
  BY RowWritten DEF RolloutInv, RolloutTypeOK
<1>2. VersionsInOrder'
  BY <1>1 DEF RolloutInv, VersionsInOrder
<1>3. BoundPackage'
  BY <1>1 DEF BoundPackage, Bound
<1>4. GoodVersion'
  BY <1>1 DEF GoodVersion, Good
<1>5. Governed => Governed'
  BY <1>1 DEF Governed
<1> QED
  BY <1>1, <1>2, <1>3, <1>4, <1>5, WriteOutdates DEF RolloutInv

\* A new version: _stage_managed_configuration, _rollback_managed_configuration.
LEMMA NextVersionWritten ==
    ASSUME RolloutInv, NEW new \in Configurations, Put(new),
           new.version = configuration.version + 1, new.desired \in Contents,
           document' = [document EXCEPT ![new.version] = new.desired],
           document[new.version] = NoContent,
           Bound(new),
           new.good = configuration.good, new.goodPackage = configuration.goodPackage,
           UNCHANGED <<package, enforced>>
    PROVE  /\ VersionsInOrder' /\ BoundPackage' /\ GoodVersion'
           /\ document' \in [1 .. MaxConfigurations -> Documents]
           /\ \A x \in PublisherRecords : PublisherKnows(x) => PublisherKnows(x)'
           /\ \A x \in ReconcilerRecords : ReconcilerKnows(x) => ReconcilerKnows(x)'
<1>1. /\ configuration'.revision = configuration.revision + 1
      /\ configuration'.version = new.version
      /\ configuration'.desired = new.desired
      /\ configuration'.package = new.package
      /\ configuration'.good = configuration.good
      /\ configuration'.goodPackage = configuration.goodPackage
  BY RowWritten DEF RolloutInv, RolloutTypeOK
<1>2. /\ configuration.version \in 0 .. MaxConfigurations
      /\ configuration.good \in 0 .. MaxConfigurations
      /\ new.version \in 1 .. MaxConfigurations
      /\ document \in [1 .. MaxConfigurations -> Documents]
      /\ NoContent \notin Contents
      /\ MaxConfigurations \in Nat
  <2>1. configuration \in Configurations /\ document \in [1 .. MaxConfigurations -> Documents]
    BY DEF RolloutInv, RolloutTypeOK
  <2>2. /\ configuration.version \in 0 .. MaxConfigurations
        /\ configuration.good \in 0 .. MaxConfigurations
        /\ new.version \in 0 .. MaxConfigurations
    BY <2>1 DEF Configurations, Versions
  <2>3. NoContent \notin Contents /\ MaxConfigurations \in Nat
    BY RolloutAssumption
  <2>4. new.version \in 1 .. MaxConfigurations
    BY <2>2, <2>3
  <2> QED
    BY <2>1, <2>2, <2>3, <2>4
<1>3. document' \in [1 .. MaxConfigurations -> Documents]
  BY <1>2 DEF Documents
<1>4. document'[new.version] = new.desired
  BY <1>2
<1>5. VersionsInOrder'
  <2>1. ASSUME NEW v \in 1 .. MaxConfigurations, v > new.version
        PROVE  document'[v] = NoContent
    BY <1>2, <2>1 DEF RolloutInv, VersionsInOrder
  <2>2. DOMAIN document' = 1 .. MaxConfigurations
    BY <1>3
  <2> QED
    BY <1>1, <1>4, <2>1, <2>2 DEF VersionsInOrder
<1>6. BoundPackage'
  BY <1>1 DEF BoundPackage, Bound
<1>7. GoodVersion'
  <2>1. ASSUME configuration.good # 0
        PROVE  document'[configuration.good] = document[configuration.good]
    BY <1>2, <2>1 DEF RolloutInv, GoodVersion
  <2>2. configuration.good # 0 =>
           configuration.good <= configuration.version /\ configuration.good <= new.version
    BY <1>2 DEF RolloutInv, GoodVersion
  <2> QED
    BY <1>1, <2>1, <2>2 DEF RolloutInv, GoodVersion
<1>8. Governed'
  BY <1>1, <1>2, <1>4 DEF Governed
<1> QED
  BY <1>1, <1>3, <1>5, <1>6, <1>7, <1>8, WriteOutdates DEF RolloutInv

LEMMA GoodOfRow == RolloutInv => Good(configuration) /\ Bound(configuration)
  BY DEF RolloutInv, GoodVersion, BoundPackage, Good, Bound

(***************************************************************************)
(* The initial state and the steps of operators.                           *)
(***************************************************************************)
LEMMA EmptyRow ==
    /\ NoConfiguration \in Configurations
    /\ NoConfiguration.revision = 0 /\ NoConfiguration.version = 0
    /\ NoConfiguration.package = 0 /\ NoConfiguration.good = 0
    /\ NoConfiguration.goodPackage = 0 /\ NoConfiguration.desired = NoContent
  BY RolloutAssumption DEF NoConfiguration, Configurations, Versions, Documents,
        RolloutStates, Percentages, Windows

LEMMA IdleRequests ==
    /\ NoPublisher \in PublisherRecords /\ NoPublisher.at = "idle"
    /\ NoReconciler \in ReconcilerRecords /\ NoReconciler.at = "idle"
    /\ \A a \in Endpoints : NoReconciler.posture[a] = "unseen"
  BY EmptyRow DEF NoPublisher, NoReconciler, PublisherRecords, ReconcilerRecords,
        Postures, Documents, Windows

LEMMA RolloutBegins == RolloutInit => RolloutInv
<1> SUFFICES ASSUME RolloutInit
             PROVE  RolloutInv
  OBVIOUS
<1>1. /\ configuration \in Configurations
      /\ configuration.version = 0 /\ configuration.package = 0
      /\ configuration.good = 0 /\ configuration.goodPackage = 0
  <2>1. CASE configuration = NoConfiguration
    BY <2>1, EmptyRow
  <2>2. ASSUME NEW row \in LegacyRows, NEW c \in Contents,
               configuration = [NoConfiguration EXCEPT !.desired = c, !.state = row[1],
                                                       !.share = row[2]]
        PROVE  <1>1
    <3>1. row[1] \in RolloutStates /\ row[2] \in Percentages /\ c \in Documents
      BY DEF RolloutStates, Percentages, Documents
    <3>2. PICK old \in Configurations : old = NoConfiguration
      BY EmptyRow
    <3>3. [old EXCEPT !.desired = c, !.state = row[1], !.share = row[2]] \in Configurations
      BY <3>1 DEF Configurations
    <3>4. configuration = [old EXCEPT !.desired = c, !.state = row[1], !.share = row[2]]
      BY <2>2, <3>2
    <3>5. old.version = 0 /\ old.package = 0 /\ old.good = 0 /\ old.goodPackage = 0
      BY <3>2, EmptyRow
    <3> QED
      BY <3>3, <3>4, <3>5 DEF Configurations
  <2> QED
    BY <2>1, <2>2 DEF RolloutInit
<1>0. /\ document = [v \in 1 .. MaxConfigurations |-> NoContent]
      /\ package = <<>>
      /\ endpoint = [a \in Endpoints |-> [holds |-> NoContent, report |-> NoContent, up |-> TRUE]]
      /\ publisher = [p \in Publishers |-> NoPublisher]
      /\ reconciler = [r \in Reconcilers |-> NoReconciler]
      /\ clock = 0
      /\ enforced = [a \in Endpoints |-> {}]
  BY Zenon DEF RolloutInit
<1>2. RolloutTypeOK
  <2>1. document \in [1 .. MaxConfigurations -> Documents] /\ package \in Seq(Documents)
    BY <1>0 DEF Documents
  <2>2. endpoint \in [Endpoints -> EndpointRecords] /\ enforced \in [Endpoints -> SUBSET Documents]
    BY <1>0 DEF EndpointRecords, Documents
  <2>3. publisher \in [Publishers -> PublisherRecords]
    BY <1>0, IdleRequests
  <2>4. reconciler \in [Reconcilers -> ReconcilerRecords]
    BY <1>0, IdleRequests
  <2>5. clock \in Int
    BY <1>0
  <2> QED
    BY <1>1, <2>1, <2>2, <2>3, <2>4, <2>5 DEF RolloutTypeOK
<1>3. VersionsInOrder /\ BoundPackage /\ GoodVersion
  BY <1>0, <1>1 DEF VersionsInOrder, BoundPackage, GoodVersion
<1>4. ReportsAreHistory
  BY <1>0, RolloutAssumption DEF ReportsAreHistory
<1>5. \A p \in Publishers : PublisherKnows(publisher[p])
  BY <1>0, IdleRequests DEF PublisherKnows
<1>6. \A r \in Reconcilers : ReconcilerKnows(reconciler[r])
  BY <1>0, IdleRequests DEF ReconcilerKnows
<1> QED
  BY <1>2, <1>3, <1>4, <1>5, <1>6 DEF RolloutInv

LEMMA MigrateRowKeeps == ASSUME RolloutInv, MigrateRow PROVE RolloutInv'
<1> PICK new : new = [configuration EXCEPT
          !.version = 1,
          !.requested = IF configuration.state \in Active THEN configuration.state ELSE "none"]
  OBVIOUS
<1>0. configuration \in Configurations /\ 1 \in Versions
  BY RolloutAssumption DEF RolloutInv, RolloutTypeOK, Versions
<1>1. /\ new \in Configurations /\ new.version = 1 /\ new.desired = configuration.desired
      /\ new.package = configuration.package /\ new.good = configuration.good
      /\ new.goodPackage = configuration.goodPackage
      /\ configuration.version = 0 /\ configuration.desired # NoContent
      /\ configuration.good \in Nat
      /\ configuration.desired \in Documents
  <2>1. /\ new \in Configurations /\ new.version = 1 /\ new.desired = configuration.desired
        /\ new.package = configuration.package /\ new.good = configuration.good
        /\ new.goodPackage = configuration.goodPackage
    BY <1>0 DEF Configurations
  <2>2. configuration.version = 0 /\ configuration.desired # NoContent
    BY DEF MigrateRow
  <2>3. configuration.good \in Nat /\ configuration.desired \in Documents
    BY <1>0 DEF Configurations, Versions
  <2> QED
    BY <2>1, <2>2, <2>3
<1>2. Put(new) /\ UNCHANGED <<document, package, endpoint, publisher, reconciler, clock, enforced>>
  BY DEF MigrateRow
<1>3. /\ configuration' \in Configurations
      /\ configuration'.revision = configuration.revision + 1
      /\ configuration'.version = 1 /\ configuration'.desired = configuration.desired
      /\ configuration'.package = configuration.package
      /\ configuration'.good = configuration.good
      /\ configuration'.goodPackage = configuration.goodPackage
  BY <1>1, <1>2, RowWritten DEF RolloutInv, RolloutTypeOK
<1>4. ~Governed
  BY <1>1 DEF Governed
<1>5. RolloutTypeOK'
  BY <1>2, <1>3 DEF RolloutInv, RolloutTypeOK
<1>6. VersionsInOrder'
  <2>1. \A v \in DOMAIN document : v > 0 => document[v] = NoContent
    BY <1>1 DEF RolloutInv, VersionsInOrder
  <2>2. \A v \in DOMAIN document : v > 0
    BY DEF RolloutInv, RolloutTypeOK
  <2> QED
    BY <1>1, <1>2, <1>3, <2>1, <2>2 DEF VersionsInOrder, Documents
<1>7. BoundPackage'
  BY <1>2, <1>3 DEF RolloutInv, BoundPackage
<1>8. GoodVersion'
  <2>1. configuration.good # 0 => configuration.good <= 1
    BY <1>1 DEF RolloutInv, GoodVersion
  <2> QED
    BY <1>2, <1>3, <2>1 DEF RolloutInv, GoodVersion
<1>9. ReportsAreHistory'
  BY <1>2 DEF RolloutInv, ReportsAreHistory
<1>10. /\ \A x \in PublisherRecords : PublisherKnows(x) => PublisherKnows(x)'
       /\ \A x \in ReconcilerRecords : ReconcilerKnows(x) => ReconcilerKnows(x)'
  BY <1>3, <1>4, WriteOutdates DEF RolloutInv
<1> QED
  BY <1>2, <1>5, <1>6, <1>7, <1>8, <1>9, <1>10, PublishersKnow, ReconcilersKnow DEF RolloutInv

LEMMA KeepVersionKeeps == ASSUME RolloutInv, KeepVersion PROVE RolloutInv'
<1>1. /\ configuration' = configuration /\ UNCHANGED <<package, endpoint, publisher, reconciler, clock, enforced>>
      /\ configuration.version \in 1 .. MaxConfigurations
      /\ configuration.desired \in Documents
      /\ document \in [1 .. MaxConfigurations -> Documents]
      /\ document[configuration.version] = NoContent
      /\ document' = [document EXCEPT ![configuration.version] = configuration.desired]
  BY DEF KeepVersion, RolloutInv, RolloutTypeOK, Configurations, Versions
<1>2. Grown
  BY <1>1 DEF Grown
<1>3. RolloutTypeOK'
  BY <1>1, <1>2 DEF RolloutInv, RolloutTypeOK, Grown
<1>4. VersionsInOrder'
  BY <1>1 DEF RolloutInv, VersionsInOrder
<1>5. ReportsAreHistory'
  BY <1>1 DEF RolloutInv, ReportsAreHistory
<1>6. /\ \A x \in PublisherRecords : PublisherKnows(x) => PublisherKnows(x)'
      /\ \A x \in ReconcilerRecords : ReconcilerKnows(x) => ReconcilerKnows(x)'
  BY <1>1, <1>2, RowStays DEF RolloutInv
<1> QED
  BY <1>1, <1>2, <1>3, <1>4, <1>5, <1>6, GoodStays, PublishersKnow, ReconcilersKnow DEF RolloutInv

\* A request learns something, or an endpoint moves.
LEMMA RequestStep ==
    ASSUME RolloutInv, RolloutTypeOK', UNCHANGED <<configuration, document>>,
           Grown, ReportsAreHistory',
           \A p \in Publishers :
               \/ publisher'[p] = publisher[p]
               \/ publisher'[p].at \in {"idle", "look", "publish"}
               \/ \E y \in PublisherRecords : publisher'[p] = y /\ PublisherKnows(y)',
           \A r \in Reconcilers :
               \/ reconciler'[r] = reconciler[r]
               \/ reconciler'[r] = NoReconciler
               \/ \E y \in ReconcilerRecords : reconciler'[r] = y /\ ReconcilerKnows(y)'
    PROVE  RolloutInv'
<1>1. VersionsInOrder'
  BY DEF RolloutInv, VersionsInOrder
<1>2. /\ \A x \in PublisherRecords : PublisherKnows(x) => PublisherKnows(x)'
      /\ \A x \in ReconcilerRecords : ReconcilerKnows(x) => ReconcilerKnows(x)'
  BY RowStays DEF RolloutInv
<1>3. BoundPackage' /\ GoodVersion'
  BY GoodStays
<1>4. (\A p \in Publishers : PublisherKnows(publisher[p]))'
  BY <1>2, PublishersKnow
<1>5. (\A r \in Reconcilers : ReconcilerKnows(reconciler[r]))'
  BY <1>2, ReconcilersKnow
<1> QED
  BY <1>1, <1>3, <1>4, <1>5 DEF RolloutInv

\* The row gets another state, share, package or good version.
LEMMA WriteStep ==
    ASSUME RolloutInv, NEW new \in Configurations, Put(new),
           new.version = configuration.version, new.desired = configuration.desired,
           Bound(new), Good(new),
           UNCHANGED <<document, package, endpoint, clock, enforced>>,
           publisher' \in [Publishers -> PublisherRecords],
           reconciler' \in [Reconcilers -> ReconcilerRecords],
           \A p \in Publishers : publisher'[p] = publisher[p] \/ publisher'[p] = NoPublisher,
           \A r \in Reconcilers :
               \/ reconciler'[r] = reconciler[r]
               \/ reconciler'[r] = NoReconciler
               \/ \E y \in ReconcilerRecords : reconciler'[r] = y /\ ReconcilerKnows(y)'
    PROVE  RolloutInv'
<1>1. /\ VersionsInOrder' /\ BoundPackage' /\ GoodVersion'
      /\ \A x \in PublisherRecords : PublisherKnows(x) => PublisherKnows(x)'
      /\ \A x \in ReconcilerRecords : ReconcilerKnows(x) => ReconcilerKnows(x)'
  BY SameVersionWritten
<1>2. RolloutTypeOK'
  BY RowWritten DEF RolloutInv, RolloutTypeOK
<1>3. ReportsAreHistory'
  BY DEF RolloutInv, ReportsAreHistory
<1>4. (\A p \in Publishers : PublisherKnows(publisher[p]))'
  BY <1>1, PublishersKnow, IdleRequests
<1>5. (\A r \in Reconcilers : ReconcilerKnows(reconciler[r]))'
  BY <1>1, ReconcilersKnow
<1> QED
  BY <1>1, <1>2, <1>3, <1>4, <1>5 DEF RolloutInv

\* The row gets a new version, with its document.
LEMMA VersionStep ==
    ASSUME RolloutInv, NEW new \in Configurations, Put(new),
           new.version = configuration.version + 1, new.desired \in Contents,
           document' = [document EXCEPT ![new.version] = new.desired],
           document[new.version] = NoContent,
           Bound(new),
           new.good = configuration.good, new.goodPackage = configuration.goodPackage,
           UNCHANGED <<package, endpoint, publisher, reconciler, clock, enforced>>
    PROVE  RolloutInv'
<1>1. /\ VersionsInOrder' /\ BoundPackage' /\ GoodVersion'
      /\ document' \in [1 .. MaxConfigurations -> Documents]
      /\ \A x \in PublisherRecords : PublisherKnows(x) => PublisherKnows(x)'
      /\ \A x \in ReconcilerRecords : ReconcilerKnows(x) => ReconcilerKnows(x)'
  BY NextVersionWritten
<1>2. RolloutTypeOK'
  BY <1>1, RowWritten DEF RolloutInv, RolloutTypeOK
<1>3. ReportsAreHistory'
  BY DEF RolloutInv, ReportsAreHistory
<1>4. (\A p \in Publishers : PublisherKnows(publisher[p]))'
  BY <1>1, PublishersKnow
<1>5. (\A r \in Reconcilers : ReconcilerKnows(reconciler[r]))'
  BY <1>1, ReconcilersKnow
<1> QED
  BY <1>1, <1>2, <1>3, <1>4, <1>5 DEF RolloutInv

LEMMA StageKeeps == ASSUME RolloutInv, NEW c \in Contents, Stage(c) PROVE RolloutInv'
<1> PICK v : v = configuration.version + 1
  OBVIOUS
<1> PICK new : new = [NoConfiguration EXCEPT
          !.version = v, !.desired = c, !.good = configuration.good,
          !.goodPackage = configuration.goodPackage]
  OBVIOUS
<1>0. configuration \in Configurations
  BY DEF RolloutInv, RolloutTypeOK
<1>1. /\ v <= MaxConfigurations /\ document[v] = NoContent
      /\ Put(new)
      /\ document' = [document EXCEPT ![v] = c]
      /\ UNCHANGED <<package, endpoint, publisher, reconciler, clock, enforced>>
  BY DEF Stage
<1>2. v \in Versions /\ c \in Documents
  BY <1>0, <1>1, RolloutAssumption DEF Configurations, Versions, Documents
<1>3. /\ new \in Configurations /\ new.version = v /\ new.desired = c
      /\ new.good = configuration.good /\ new.goodPackage = configuration.goodPackage
      /\ new.package = 0
  BY <1>0, <1>2, EmptyRow DEF Configurations
<1>4. Bound(new)
  BY <1>3 DEF Bound
<1> QED
  BY <1>1, <1>3, <1>4, VersionStep

LEMMA RollbackKeeps == ASSUME RolloutInv, Rollback PROVE RolloutInv'
<1> PICK v : v = configuration.version + 1
  OBVIOUS
<1> PICK c : c = document[configuration.good]
  OBVIOUS
<1>n. PICK new : new = [configuration EXCEPT
          !.version = v, !.desired = c, !.state = "rolling_back", !.requested = "rolling_back",
          !.share = 100, !.package = configuration.goodPackage, !.schedule = Unscheduled,
          !.started = clock]
  OBVIOUS
<1>0. configuration \in Configurations /\ clock \in Int
  BY DEF RolloutInv, RolloutTypeOK
<1>1. /\ configuration.good # 0 /\ configuration.goodPackage # 0
      /\ v <= MaxConfigurations /\ document[v] = NoContent
      /\ Put(new)
      /\ document' = [document EXCEPT ![v] = c]
      /\ UNCHANGED <<package, endpoint, publisher, reconciler, clock, enforced>>
  BY <1>n DEF Rollback
<1>2. /\ v \in Versions /\ c \in Contents /\ c \in Documents /\ Unscheduled \in Windows
      /\ "rolling_back" \in RolloutStates /\ "rolling_back" \in {"none"} \cup Active
      /\ 100 \in Percentages
      /\ configuration.goodPackage \in DOMAIN package
      /\ package[configuration.goodPackage] = c
  <2>1. v \in Versions
    BY <1>0, <1>1, RolloutAssumption DEF Configurations, Versions
  <2>2. /\ c \in Contents /\ configuration.goodPackage \in DOMAIN package
        /\ package[configuration.goodPackage] = c
    BY <1>1 DEF RolloutInv, GoodVersion
  <2> QED
    BY <2>1, <2>2 DEF Documents, Windows, RolloutStates, Active, Percentages
<1>3. /\ new \in Configurations /\ new.version = v /\ new.desired = c
      /\ new.good = configuration.good /\ new.goodPackage = configuration.goodPackage
      /\ new.package = configuration.goodPackage
  <2>1. v \in Versions /\ c \in Documents /\ Unscheduled \in Windows /\ 100 \in Percentages
    BY <1>2
  <2>2. "rolling_back" \in RolloutStates /\ "rolling_back" \in {"none"} \cup Active
    BY <1>2
  <2>3. configuration.goodPackage \in Nat
    BY <1>0 DEF Configurations
  <2> QED
    BY <1>n, <1>0, <2>1, <2>2, <2>3, ZenonT(40) DEF Configurations
<1>4. Bound(new)
  BY <1>2, <1>3 DEF Bound
<1>5. /\ new.version = configuration.version + 1 /\ new.desired \in Contents
      /\ document' = [document EXCEPT ![new.version] = new.desired]
      /\ document[new.version] = NoContent
  BY <1>1, <1>2, <1>3
<1>6. Put(new) /\ UNCHANGED <<package, endpoint, publisher, reconciler, clock, enforced>>
  BY <1>1
<1> QED
  BY <1>3, <1>4, <1>5, <1>6, VersionStep

LEMMA PauseKeeps == ASSUME RolloutInv, Pause PROVE RolloutInv'
<1> PICK new : new = [configuration EXCEPT !.state = "paused"]
  OBVIOUS
<1>0. configuration \in Configurations
  BY DEF RolloutInv, RolloutTypeOK
<1>1. Put(new) /\ UNCHANGED <<document, package, endpoint, publisher, reconciler, clock, enforced>>
  BY DEF Pause
<1>2. /\ new \in Configurations /\ new.version = configuration.version
      /\ new.desired = configuration.desired /\ new.package = configuration.package
      /\ new.good = configuration.good /\ new.goodPackage = configuration.goodPackage
  BY <1>0 DEF Configurations, RolloutStates
<1>3. Bound(new) /\ Good(new)
  BY <1>2, GoodOfRow DEF Bound, Good
<1> QED
  BY <1>1, <1>2, <1>3, WriteStep DEF RolloutInv, RolloutTypeOK

(***************************************************************************)
(* Starts and publications.                                                *)
(***************************************************************************)
\* Nothing but the place and the memory of one start or publication changes.
LEMMA PublisherStep ==
    ASSUME RolloutInv, NEW p \in Publishers, NEW x \in PublisherRecords,
           publisher' = [publisher EXCEPT ![p] = x],
           x.at \in {"idle", "look", "publish"} \/ PublisherKnows(x)',
           UNCHANGED <<configuration, document, package, endpoint, reconciler, clock, enforced>>
    PROVE  RolloutInv'
<1>1. /\ publisher' \in [Publishers -> PublisherRecords] /\ publisher'[p] = x
      /\ \A q \in Publishers : q # p => publisher'[q] = publisher[q]
  BY DEF RolloutInv, RolloutTypeOK
<1>2. RolloutTypeOK' /\ Grown
  BY <1>1, NothingGrown DEF RolloutInv, RolloutTypeOK
<1>3. ReportsAreHistory'
  BY DEF RolloutInv, ReportsAreHistory
<1> QED
  BY <1>1, <1>2, <1>3, RequestStep

LEMMA BeginPublishKeeps ==
    ASSUME RolloutInv, NEW p \in Publishers, BeginPublish(p) PROVE RolloutInv'
<1> PICK x : x = [NoPublisher EXCEPT !.at = "look", !.content = configuration.desired]
  OBVIOUS
<1>1. configuration.desired \in Documents
  BY DEF RolloutInv, RolloutTypeOK, Configurations
<1>2. x \in PublisherRecords /\ x.at = "look"
  BY <1>1, EmptyRow DEF NoPublisher, PublisherRecords
<1> QED
  BY <1>2, PublisherStep DEF BeginPublish

LEMMA ReadPackageKeeps ==
    ASSUME RolloutInv, NEW p \in Publishers, ReadPackage(p) PROVE RolloutInv'
<1> PICK old : old = publisher[p]
  OBVIOUS
<1> PICK x : x = [old EXCEPT !.at = "publish", !.package = Len(package)]
  OBVIOUS
<1>1. /\ old \in PublisherRecords /\ Len(package) \in Nat
      /\ publisher \in [Publishers -> PublisherRecords]
  BY DEF RolloutInv, RolloutTypeOK
<1>2. x \in PublisherRecords /\ x.at = "publish"
  BY <1>1 DEF PublisherRecords
<1>3. publisher' = [publisher EXCEPT ![p] = x]
  BY <1>1 DEF ReadPackage, PublisherRecords
<1> QED
  BY <1>2, <1>3, PublisherStep DEF ReadPackage

LEMMA EndPublisherKeeps ==
    ASSUME RolloutInv, NEW p \in Publishers, EndPublisher(p) PROVE RolloutInv'
  BY IdleRequests, PublisherStep DEF EndPublisher

LEMMA BeginStartKeeps ==
    ASSUME RolloutInv, NEW p \in Publishers, BeginStart(p) PROVE RolloutInv'
<1> PICK x : x = [NoPublisher EXCEPT !.at = "bind", !.seen = configuration]
  OBVIOUS
<1>1. configuration \in Configurations /\ configuration.revision \in Nat
  BY DEF RolloutInv, RolloutTypeOK, Configurations
<1>2. x \in PublisherRecords /\ x.at = "bind" /\ x.seen = configuration
  BY <1>1, EmptyRow DEF NoPublisher, PublisherRecords, Documents
<1>3. /\ Governed
      /\ publisher' = [publisher EXCEPT ![p] = x]
      /\ UNCHANGED <<configuration, document, package, endpoint, reconciler, clock, enforced>>
  BY DEF BeginStart
<1>4. Governed'
  BY <1>3 DEF Governed
<1>5. PublisherKnows(x)'
  BY <1>1, <1>2, <1>3, <1>4 DEF PublisherKnows, Read
<1> QED
  BY <1>2, <1>3, <1>5, PublisherStep

LEMMA BindPackageKeeps ==
    ASSUME RolloutInv, NEW p \in Publishers, BindPackage(p) PROVE RolloutInv'
<1> PICK old : old = publisher[p]
  OBVIOUS
<1> PICK x : x = [old EXCEPT !.at = "start", !.package = Len(package)]
  OBVIOUS
<1>1. /\ old \in PublisherRecords /\ PublisherKnows(old)
      /\ publisher \in [Publishers -> PublisherRecords]
      /\ package \in Seq(Documents)
  BY DEF RolloutInv, RolloutTypeOK
<1>2. /\ old.at = "bind" /\ Len(package) > 0 /\ package[Len(package)] = configuration.desired
      /\ UNCHANGED <<configuration, document, package, endpoint, reconciler, clock, enforced>>
  BY DEF BindPackage
<1>3. publisher' = [publisher EXCEPT ![p] = x]
  BY <1>1 DEF BindPackage, PublisherRecords
<1>4. /\ x \in PublisherRecords /\ x.at = "start" /\ x.seen = old.seen
      /\ x.package = Len(package)
  <2>1. Len(package) \in Nat
    BY <1>1
  <2> QED
    BY <1>1, <2>1 DEF PublisherRecords
<1>5. Len(package) \in DOMAIN package
  BY <1>1, <1>2
<1>6. PublisherKnows(x)'
  BY <1>1, <1>2, <1>4, <1>5 DEF PublisherKnows, Read, Governed
<1> QED
  BY <1>2, <1>3, <1>4, <1>6, PublisherStep

LEMMA CommitPublishKeeps ==
    ASSUME RolloutInv, NEW p \in Publishers, CommitPublish(p) PROVE RolloutInv'
<1>1. /\ package \in Seq(Documents) /\ publisher[p].content \in Documents
      /\ package' = Append(package, publisher[p].content)
      /\ publisher' = [publisher EXCEPT ![p] = NoPublisher]
      /\ UNCHANGED <<configuration, document, endpoint, reconciler, clock, enforced>>
  BY DEF RolloutInv, RolloutTypeOK, PublisherRecords, CommitPublish
<1>2. /\ package' \in Seq(Documents)
      /\ DOMAIN package \subseteq DOMAIN package'
      /\ \A k \in DOMAIN package : package'[k] = package[k]
  BY <1>1
<1>3. Grown
  BY <1>1, <1>2 DEF Grown, RolloutInv, RolloutTypeOK
<1>4. /\ publisher' \in [Publishers -> PublisherRecords]
      /\ \A q \in Publishers : publisher'[q] = publisher[q] \/ publisher'[q].at = "idle"
  BY <1>1, IdleRequests DEF RolloutInv, RolloutTypeOK
<1>5. RolloutTypeOK'
  BY <1>1, <1>2, <1>4 DEF RolloutInv, RolloutTypeOK
<1>6. ReportsAreHistory'
  BY <1>1 DEF RolloutInv, ReportsAreHistory
<1> QED
  BY <1>1, <1>3, <1>4, <1>5, <1>6, RequestStep

LEMMA CommitStartKeeps ==
    ASSUME RolloutInv, NEW p \in Publishers, NEW target \in {"canary", "active"},
           NEW share \in Shares, NEW schedule \in Windows,
           CommitStart(p, target, share, schedule)
    PROVE  RolloutInv'
<1> PICK x : x = publisher[p]
  OBVIOUS
<1> PICK state : state = IF schedule[1] > clock THEN "scheduled" ELSE target
  OBVIOUS
<1> PICK started : started = IF schedule[1] > clock THEN -1 ELSE clock
  OBVIOUS
<1> PICK new : new = [x.seen EXCEPT
          !.state = state, !.requested = target, !.share = share,
          !.package = x.package, !.schedule = schedule, !.started = started]
  OBVIOUS
<1>0. /\ configuration \in Configurations /\ clock \in Int
      /\ x \in PublisherRecords /\ PublisherKnows(x)
  BY DEF RolloutInv, RolloutTypeOK
<1>1. /\ x.at = "start" /\ configuration.revision = x.seen.revision
      /\ Put(new)
      /\ publisher' = [publisher EXCEPT ![p] = NoPublisher]
      /\ UNCHANGED <<document, package, endpoint, reconciler, clock, enforced>>
  BY DEF CommitStart
<1>2. /\ x.seen = configuration /\ x.package \in Nat
      /\ x.package \in DOMAIN package /\ package[x.package] = configuration.desired
  BY <1>0, <1>1 DEF PublisherKnows, Read, PublisherRecords
<1>3. /\ state \in RolloutStates /\ target \in {"none"} \cup Active /\ share \in Percentages
      /\ started \in Int
  BY <1>0 DEF RolloutStates, Active, Percentages
<1>4. /\ new \in Configurations /\ new.version = configuration.version
      /\ new.desired = configuration.desired /\ new.package = x.package
      /\ new.good = configuration.good /\ new.goodPackage = configuration.goodPackage
  BY <1>0, <1>2, <1>3 DEF Configurations
<1>5. Bound(new) /\ Good(new)
  BY <1>2, <1>4, GoodOfRow DEF Bound, Good
<1>6. /\ publisher' \in [Publishers -> PublisherRecords]
      /\ \A q \in Publishers : publisher'[q] = publisher[q] \/ publisher'[q] = NoPublisher
      /\ reconciler' \in [Reconcilers -> ReconcilerRecords]
  BY <1>1, IdleRequests DEF RolloutInv, RolloutTypeOK
<1> QED
  BY <1>1, <1>4, <1>5, <1>6, WriteStep

(***************************************************************************)
(* Endpoints and the clock.                                                *)
(***************************************************************************)
LEMMA EndpointStep ==
    ASSUME RolloutInv, RolloutTypeOK', ReportsAreHistory',
           \A a \in Endpoints : enforced[a] \subseteq enforced'[a],
           UNCHANGED <<configuration, document, package, publisher, reconciler>>
    PROVE  RolloutInv'
<1>1. Grown
  BY DEF RolloutInv, RolloutTypeOK, Grown
<1> QED
  BY <1>1, RequestStep

LEMMA FetchKeeps == ASSUME RolloutInv, NEW a \in Endpoints, Fetch(a) PROVE RolloutInv'
<1> PICK old : old = endpoint[a]
  OBVIOUS
<1> PICK x : x = [old EXCEPT !.holds = configuration.desired]
  OBVIOUS
<1>1. /\ old \in EndpointRecords /\ configuration.desired \in Documents
      /\ endpoint \in [Endpoints -> EndpointRecords]
  BY DEF RolloutInv, RolloutTypeOK, Configurations
<1>2. UNCHANGED <<configuration, document, package, publisher, reconciler, clock, enforced>>
  BY DEF Fetch
<1>3. endpoint' = [endpoint EXCEPT ![a] = x]
  BY <1>1 DEF Fetch, EndpointRecords
<1>4. x \in EndpointRecords /\ x.report = old.report
  BY <1>1 DEF EndpointRecords
<1>5. /\ endpoint' \in [Endpoints -> EndpointRecords]
      /\ \A b \in Endpoints : endpoint'[b].report = endpoint[b].report
  BY <1>1, <1>3, <1>4
<1>6. RolloutTypeOK' /\ ReportsAreHistory'
  BY <1>2, <1>5 DEF RolloutInv, RolloutTypeOK, ReportsAreHistory
<1> QED
  BY <1>2, <1>6, EndpointStep

LEMMA ReportKeeps == ASSUME RolloutInv, NEW a \in Endpoints, Report(a) PROVE RolloutInv'
<1> PICK old : old = endpoint[a]
  OBVIOUS
<1> PICK x : x = [old EXCEPT !.report = old.holds, !.up = TRUE]
  OBVIOUS
<1>1. /\ old \in EndpointRecords /\ old.holds \in Documents
      /\ endpoint \in [Endpoints -> EndpointRecords]
      /\ enforced \in [Endpoints -> SUBSET Documents]
  BY DEF RolloutInv, RolloutTypeOK, EndpointRecords
<1>2. /\ UNCHANGED <<configuration, document, package, publisher, reconciler, clock>>
      /\ endpoint' = [endpoint EXCEPT ![a] = x]
      /\ enforced' = [enforced EXCEPT ![a] = @ \cup {old.holds}]
  BY DEF Report
<1>3. x \in EndpointRecords /\ x.report = old.holds
  BY <1>1 DEF EndpointRecords
<1>4. /\ endpoint' \in [Endpoints -> EndpointRecords] /\ endpoint'[a] = x
      /\ \A b \in Endpoints : b # a => endpoint'[b] = endpoint[b]
  BY <1>1, <1>2, <1>3
<1>5. /\ enforced' \in [Endpoints -> SUBSET Documents] /\ old.holds \in enforced'[a]
      /\ \A b \in Endpoints : enforced[b] \subseteq enforced'[b]
  BY <1>1, <1>2
<1>6. RolloutTypeOK'
  BY <1>2, <1>4, <1>5 DEF RolloutInv, RolloutTypeOK
<1>7. ReportsAreHistory'
  BY <1>3, <1>4, <1>5 DEF RolloutInv, ReportsAreHistory
<1> QED
  BY <1>2, <1>5, <1>6, <1>7, EndpointStep

LEMMA FadeKeeps == ASSUME RolloutInv, NEW a \in Endpoints, Fade(a) PROVE RolloutInv'
<1> PICK old : old = endpoint[a]
  OBVIOUS
<1>1. /\ old \in EndpointRecords
      /\ endpoint \in [Endpoints -> EndpointRecords]
  BY DEF RolloutInv, RolloutTypeOK
<1>2. UNCHANGED <<configuration, document, package, publisher, reconciler, clock, enforced>>
  BY DEF Fade
<1>3. PICK x \in EndpointRecords :
         /\ endpoint' = [endpoint EXCEPT ![a] = x]
         /\ x.report \in {old.report, Lapsed}
  <2>1. CASE endpoint' = [endpoint EXCEPT ![a].up = FALSE]
    <3> PICK x : x = [old EXCEPT !.up = FALSE]
      OBVIOUS
    <3>1. x \in EndpointRecords /\ x.report = old.report
      BY <1>1 DEF EndpointRecords
    <3>2. endpoint' = [endpoint EXCEPT ![a] = x]
      BY <1>1, <2>1 DEF EndpointRecords
    <3> QED
      BY <3>1, <3>2
  <2>2. CASE endpoint' = [endpoint EXCEPT ![a].report = Lapsed]
    <3> PICK x : x = [old EXCEPT !.report = Lapsed]
      OBVIOUS
    <3>1. x \in EndpointRecords /\ x.report = Lapsed
      BY <1>1 DEF EndpointRecords
    <3>2. endpoint' = [endpoint EXCEPT ![a] = x]
      BY <1>1, <2>2 DEF EndpointRecords
    <3> QED
      BY <3>1, <3>2
  <2> QED
    BY <2>1, <2>2 DEF Fade
<1>4. /\ endpoint' \in [Endpoints -> EndpointRecords]
      /\ \A b \in Endpoints : endpoint'[b].report \in {endpoint[b].report, Lapsed}
  BY <1>1, <1>3
<1>5. RolloutTypeOK'
  BY <1>2, <1>4 DEF RolloutInv, RolloutTypeOK
<1>6. ReportsAreHistory'
  BY <1>2, <1>4, RolloutAssumption DEF RolloutInv, ReportsAreHistory
<1> QED
  BY <1>2, <1>5, <1>6, EndpointStep

LEMMA TickKeeps == ASSUME RolloutInv, Tick PROVE RolloutInv'
<1>1. UNCHANGED <<configuration, document, package, endpoint, publisher, reconciler, enforced>>
  BY DEF Tick
<1>2. clock' \in Int
  BY DEF Tick, RolloutInv, RolloutTypeOK
<1>3. RolloutTypeOK' /\ ReportsAreHistory'
  BY <1>1, <1>2 DEF RolloutInv, RolloutTypeOK, ReportsAreHistory
<1> QED
  BY <1>1, <1>3, EndpointStep

(***************************************************************************)
(* The reconciliation.                                                     *)
(***************************************************************************)
\* Nothing but the place and the memory of one reconciliation changes.
LEMMA ReconcilerStep ==
    ASSUME RolloutInv, NEW r \in Reconcilers, NEW x \in ReconcilerRecords,
           reconciler' = [reconciler EXCEPT ![r] = x],
           x = NoReconciler \/ ReconcilerKnows(x)',
           UNCHANGED <<configuration, document, package, endpoint, publisher, clock, enforced>>
    PROVE  RolloutInv'
<1>1. /\ reconciler' \in [Reconcilers -> ReconcilerRecords] /\ reconciler'[r] = x
      /\ \A q \in Reconcilers : q # r => reconciler'[q] = reconciler[q]
  BY DEF RolloutInv, RolloutTypeOK
<1>2. RolloutTypeOK' /\ Grown
  BY <1>1, NothingGrown DEF RolloutInv, RolloutTypeOK
<1>3. ReportsAreHistory'
  BY DEF RolloutInv, ReportsAreHistory
<1> QED
  BY <1>1, <1>2, <1>3, RequestStep

LEMMA EndReconcileKeeps ==
    ASSUME RolloutInv, NEW r \in Reconcilers, EndReconcile(r) PROVE RolloutInv'
  BY IdleRequests, ReconcilerStep DEF EndReconcile

LEMMA BeginReconcileKeeps ==
    ASSUME RolloutInv, NEW r \in Reconcilers, BeginReconcile(r) PROVE RolloutInv'
<1> PICK at : at = IF configuration.state = "scheduled" /\ configuration.schedule[1] <= clock
                   THEN "open" ELSE "measure"
  OBVIOUS
<1> PICK x : x = [NoReconciler EXCEPT
          !.seen = configuration, !.now = clock, !.schedule = configuration.schedule, !.at = at]
  OBVIOUS
<1>1. /\ configuration \in Configurations /\ configuration.revision \in Nat
      /\ configuration.schedule \in Windows /\ clock \in Int
  BY DEF RolloutInv, RolloutTypeOK, Configurations
<1>2. at \in {"open", "measure"}
  OBVIOUS
<1>3. /\ x \in ReconcilerRecords /\ x.at = at /\ x.seen = configuration
      /\ \A a \in Endpoints : x.posture[a] = "unseen"
  BY <1>1, <1>2, IdleRequests DEF ReconcilerRecords
<1>4. /\ Governed
      /\ reconciler' = [reconciler EXCEPT ![r] = x]
      /\ UNCHANGED <<configuration, document, package, endpoint, publisher, clock, enforced>>
  BY DEF BeginReconcile
<1>5. Governed'
  BY <1>4 DEF Governed
<1>6. ReconcilerKnows(x)'
  BY <1>1, <1>3, <1>4, <1>5 DEF ReconcilerKnows, Read
<1> QED
  BY <1>3, <1>4, <1>6, ReconcilerStep

LEMMA MeasureKeeps ==
    ASSUME RolloutInv, NEW r \in Reconcilers, NEW a \in Endpoints, Measure(r, a)
    PROVE  RolloutInv'
<1> PICK old : old = reconciler[r]
  OBVIOUS
<1> PICK measured : measured = Posture(a)
  OBVIOUS
<1> PICK x : x = [old EXCEPT !.posture = [@ EXCEPT ![a] = measured]]
  OBVIOUS
<1>1. /\ old \in ReconcilerRecords /\ ReconcilerKnows(old)
      /\ reconciler \in [Reconcilers -> ReconcilerRecords]
  BY DEF RolloutInv, RolloutTypeOK
<1>2. /\ old.at = "measure"
      /\ UNCHANGED <<configuration, document, package, endpoint, publisher, clock, enforced>>
  BY DEF Measure
<1>3. measured \in Postures
  BY DEF Posture, Postures
<1>4. /\ x \in ReconcilerRecords /\ x.at = "measure" /\ x.seen = old.seen
      /\ \A b \in Endpoints : x.posture[b] = IF b = a THEN measured ELSE old.posture[b]
  BY <1>1, <1>2, <1>3 DEF ReconcilerRecords
<1>5. reconciler' = [reconciler EXCEPT ![r] = x]
  BY <1>1 DEF Measure, ReconcilerRecords
<1>6. Read(x.seen)'
  <2>1. Read(old.seen)
    BY <1>1, <1>2 DEF ReconcilerKnows
  <2> QED
    BY <1>2, <1>4, <2>1 DEF Read, Governed
<1>7. ASSUME measured = "converged"
      PROVE  configuration.desired \in enforced[a]
  <2>1. endpoint[a].report = configuration.desired
    BY <1>7 DEF Posture
  <2>2. configuration.desired \in Contents
    BY <1>1, <1>2 DEF ReconcilerKnows, Read, Governed, RolloutInv, VersionsInOrder
  <2> QED
    BY <2>1, <2>2 DEF RolloutInv, ReportsAreHistory
<1>8. ReconcilerKnows(x)'
  BY <1>1, <1>2, <1>4, <1>6, <1>7 DEF ReconcilerKnows
<1> QED
  BY <1>2, <1>4, <1>5, <1>8, ReconcilerStep

LEMMA OpenWindowKeeps ==
    ASSUME RolloutInv, NEW r \in Reconcilers, OpenWindow(r) PROVE RolloutInv'
<1> PICK old : old = reconciler[r]
  OBVIOUS
<1> PICK x : x = [old EXCEPT !.at = "measure", !.seen = configuration']
  OBVIOUS
<1> PICK new : new = [old.seen EXCEPT !.state = old.seen.requested, !.started = old.now]
  OBVIOUS
<1>1. /\ old \in ReconcilerRecords /\ ReconcilerKnows(old)
      /\ reconciler \in [Reconcilers -> ReconcilerRecords]
      /\ configuration \in Configurations /\ configuration.revision \in Nat
      /\ publisher \in [Publishers -> PublisherRecords]
  BY DEF RolloutInv, RolloutTypeOK, Configurations
<1>2. /\ old.at = "open"
      /\ UNCHANGED <<document, package, endpoint, publisher, clock, enforced>>
      /\ IF StillAsSeen(r) THEN Put(new) ELSE UNCHANGED configuration
  BY DEF OpenWindow
<1>3. Read(old.seen) /\ \A a \in Endpoints : old.posture[a] = "unseen"
  BY <1>1, <1>2 DEF ReconcilerKnows
<1>4. ASSUME configuration' \in Configurations
      PROVE  /\ x \in ReconcilerRecords /\ x.at = "measure" /\ x.seen = configuration'
             /\ \A a \in Endpoints : x.posture[a] = "unseen"
             /\ reconciler' = [reconciler EXCEPT ![r] = x]
  <2>1. /\ x \in ReconcilerRecords /\ x.at = "measure" /\ x.seen = configuration'
        /\ x.posture = old.posture
    BY <1>1, <1>4 DEF ReconcilerRecords
  <2>2. reconciler' = [reconciler EXCEPT ![r] = x]
    BY <1>1 DEF OpenWindow, ReconcilerRecords
  <2> QED
    BY <1>3, <2>1, <2>2
<1>5. CASE StillAsSeen(r)
  <2>1. old.seen = configuration /\ Put(new)
    BY <1>2, <1>3, <1>5 DEF StillAsSeen, Read
  <2>2. configuration.requested \in RolloutStates /\ old.now \in Int
    BY <1>1, <2>1 DEF OpenWindow, RolloutStates, Active, ReconcilerRecords
  <2>3. /\ new \in Configurations /\ new.version = configuration.version
        /\ new.desired = configuration.desired /\ new.package = configuration.package
        /\ new.good = configuration.good /\ new.goodPackage = configuration.goodPackage
    BY <1>1, <2>1, <2>2 DEF Configurations
  <2>4. Bound(new) /\ Good(new)
    BY <2>3, GoodOfRow DEF Bound, Good
  <2>5. /\ configuration' \in Configurations
        /\ configuration'.version = configuration.version
        /\ configuration'.revision \in Nat
    BY <1>1, <2>1, <2>3, RowWritten DEF Configurations
  <2>6. Governed'
    BY <1>2, <1>3, <2>5 DEF Governed, Read
  <2>7. ReconcilerKnows(x)'
    BY <1>4, <2>5, <2>6 DEF ReconcilerKnows, Read
  <2>8. /\ reconciler' \in [Reconcilers -> ReconcilerRecords] /\ reconciler'[r] = x
        /\ \A q \in Reconcilers : q # r => reconciler'[q] = reconciler[q]
    BY <1>1, <1>4, <2>5
  <2> QED
    BY <1>1, <1>2, <1>4, <2>1, <2>3, <2>4, <2>5, <2>7, <2>8, WriteStep
<1>6. CASE ~StillAsSeen(r)
  <2>1. configuration' = configuration
    BY <1>2, <1>6
  <2>2. Governed'
    BY <1>2, <1>3, <2>1 DEF Governed, Read
  <2>3. ReconcilerKnows(x)'
    BY <1>1, <1>4, <2>1, <2>2 DEF ReconcilerKnows, Read
  <2> QED
    BY <1>1, <1>2, <1>4, <2>1, <2>3, ReconcilerStep
<1> QED
  BY <1>5, <1>6

\* What is good from now on was measured at every endpoint since the row was read.
LEMMA JudgedGood ==
    ASSUME RolloutInv, NEW r \in Reconcilers, reconciler[r].at = "measure", StillAsSeen(r),
           FullConverged(r)
    PROVE  LET row == configuration IN
           /\ row.version # 0 /\ document[row.version] = row.desired
           /\ row.desired \in Contents
           /\ \A a \in Endpoints : row.desired \in enforced[a]
<1>1. /\ configuration \in Configurations
      /\ ReconcilerKnows(reconciler[r])
      /\ document \in [1 .. MaxConfigurations -> Documents]
  BY DEF RolloutInv, RolloutTypeOK
<1>2. Governed /\ reconciler[r].seen = configuration
  BY <1>1 DEF ReconcilerKnows, Read, StillAsSeen
<1>3. \A a \in Endpoints : reconciler[r].posture[a] = "converged"
  BY DEF FullConverged, SelectedAs
<1>4. \A a \in Endpoints : configuration.desired \in enforced[a]
  BY <1>1, <1>2, <1>3 DEF ReconcilerKnows, Read
<1>5. configuration.version \in DOMAIN document
  BY <1>1, <1>2 DEF Governed, Configurations, Versions
<1> QED
  BY <1>2, <1>4, <1>5 DEF Governed, RolloutInv, VersionsInOrder

LEMMA JudgeKeeps == ASSUME RolloutInv, NEW r \in Reconcilers, Judge(r) PROVE RolloutInv'
<1> PICK old : old = reconciler[r]
  OBVIOUS
<1> PICK new : new = Judgement(r)
  OBVIOUS
<1>1. /\ old \in ReconcilerRecords /\ ReconcilerKnows(old)
      /\ reconciler \in [Reconcilers -> ReconcilerRecords]
      /\ publisher \in [Publishers -> PublisherRecords]
      /\ configuration \in Configurations
  BY DEF RolloutInv, RolloutTypeOK
<1>2. /\ old.at = "measure"
      /\ reconciler' = [reconciler EXCEPT ![r] = NoReconciler]
      /\ UNCHANGED <<document, package, endpoint, publisher, clock, enforced>>
      /\ \/ StillAsSeen(r) /\ Put(new)
         \/ UNCHANGED configuration
  BY DEF Judge
<1>3. CASE UNCHANGED configuration
  BY <1>2, <1>3, IdleRequests, ReconcilerStep
<1>4. CASE StillAsSeen(r) /\ Put(new)
  <2>1. old.seen = configuration
    BY <1>1, <1>2, <1>4 DEF ReconcilerKnows, Read, StillAsSeen
  <2>2. CASE new = [configuration EXCEPT !.state = "converged", !.good = configuration.version,
                                         !.goodPackage = configuration.package]
             /\ FullConverged(r)
    <3>1. /\ new \in Configurations /\ new.version = configuration.version
          /\ new.desired = configuration.desired /\ new.package = configuration.package
          /\ new.good = configuration.version /\ new.goodPackage = configuration.package
      BY <1>1, <2>2 DEF Configurations, RolloutStates
    <3>2. /\ configuration.version # 0
          /\ document[configuration.version] = configuration.desired
          /\ configuration.desired \in Contents
          /\ \A a \in Endpoints : configuration.desired \in enforced[a]
      BY <1>2, <1>4, <2>2, JudgedGood
    <3>3. configuration.version \in Nat
      BY <1>1 DEF Configurations, Versions
    <3>4. Bound(new) /\ Good(new)
      BY <3>1, <3>2, <3>3, GoodOfRow DEF Bound, Good
    <3> QED
      BY <1>1, <1>2, <1>4, <3>1, <3>4, IdleRequests, WriteStep
  <2>3. ASSUME NEW state \in RolloutStates, new = [configuration EXCEPT !.state = state]
        PROVE  RolloutInv'
    <3>1. /\ new \in Configurations /\ new.version = configuration.version
          /\ new.desired = configuration.desired /\ new.package = configuration.package
          /\ new.good = configuration.good /\ new.goodPackage = configuration.goodPackage
      BY <1>1, <2>3 DEF Configurations
    <3>2. Bound(new) /\ Good(new)
      BY <3>1, GoodOfRow DEF Bound, Good
    <3> QED
      BY <1>1, <1>2, <1>4, <3>1, <3>2, IdleRequests, WriteStep
  <2>4. \/ /\ new = [configuration EXCEPT !.state = "converged", !.good = configuration.version,
                                           !.goodPackage = configuration.package]
           /\ FullConverged(r)
        \/ \E state \in {"paused", "drifted", "converged", configuration.state} :
              new = [configuration EXCEPT !.state = state]
    <3>1. configuration = [configuration EXCEPT !.state = configuration.state]
      BY <1>1 DEF Configurations
    <3> QED
      BY <2>1, <3>1 DEF Judgement
  <2>5. {"paused", "drifted", "converged", configuration.state} \subseteq RolloutStates
    BY <1>1 DEF Configurations, RolloutStates
  <2> QED
    BY <2>2, <2>3, <2>4, <2>5
<1> QED
  BY <1>2, <1>3, <1>4

(***************************************************************************)
(* Theorems.                                                               *)
(***************************************************************************)
LEMMA RolloutStepKeeps == RolloutInv /\ RolloutNext => RolloutInv'
<1> SUFFICES ASSUME RolloutInv, RolloutNext
             PROVE  RolloutInv'
  OBVIOUS
<1>1. CASE MigrateRow \/ KeepVersion \/ Pause \/ Rollback \/ Tick
  BY <1>1, MigrateRowKeeps, KeepVersionKeeps, PauseKeeps, RollbackKeeps, TickKeeps
<1>2. ASSUME NEW c \in Contents, Stage(c) PROVE RolloutInv'
  BY <1>2, StageKeeps
<1>3. ASSUME NEW p \in Publishers,
             \/ BeginPublish(p) \/ ReadPackage(p) \/ CommitPublish(p) \/ BeginStart(p)
             \/ BindPackage(p) \/ EndPublisher(p)
      PROVE  RolloutInv'
  BY <1>3, BeginPublishKeeps, ReadPackageKeeps, CommitPublishKeeps, BeginStartKeeps, BindPackageKeeps,
     EndPublisherKeeps
<1>4. ASSUME NEW p \in Publishers, NEW target \in {"canary", "active"}, NEW share \in Shares,
             NEW schedule \in Windows, CommitStart(p, target, share, schedule)
      PROVE  RolloutInv'
  BY <1>4, CommitStartKeeps
<1>5. ASSUME NEW a \in Endpoints, Fetch(a) \/ Report(a) \/ Fade(a) PROVE RolloutInv'
  BY <1>5, FetchKeeps, ReportKeeps, FadeKeeps
<1>6. ASSUME NEW r \in Reconcilers,
             BeginReconcile(r) \/ OpenWindow(r) \/ Judge(r) \/ EndReconcile(r)
      PROVE  RolloutInv'
  BY <1>6, BeginReconcileKeeps, OpenWindowKeeps, JudgeKeeps, EndReconcileKeeps
<1>7. ASSUME NEW r \in Reconcilers, NEW a \in Endpoints, Measure(r, a) PROVE RolloutInv'
  BY <1>7, MeasureKeeps
<1> QED
  BY <1>1, <1>2, <1>3, <1>4, <1>5, <1>6, <1>7 DEF RolloutNext, Windows

\* Each write is conditional on the revision that was read, and what was read is
\* that revision as it was (_put_configuration_record, _put_reconciled_rollout).
THEOREM RolloutInvariant == RolloutSpec => []RolloutInv
<1>1. RolloutInv /\ UNCHANGED rollouts => RolloutInv'
  BY DEF rollouts, RolloutInv, RolloutTypeOK, VersionsInOrder, BoundPackage, GoodVersion,
         ReportsAreHistory, PublisherKnows, ReconcilerKnows, Read, Governed
<1> QED
  BY <1>1, RolloutBegins, RolloutStepKeeps, PTL DEF RolloutSpec

\* What the handlers of a rollout write is of these forms, whatever they raced
\* with (_stage_managed_configuration, _start_managed_rollouts,
\* _reconcile_deployment_rollout and the endpoints' reports).
THEOREM RolloutTypes == RolloutSpec => []RolloutTypeOK
<1>1. RolloutInv => RolloutTypeOK
  BY DEF RolloutInv
<1> QED
  BY <1>1, RolloutInvariant, PTL

\* The configuration is its last version, a rollout's package is one of what the
\* row desires, and what a rollback would restore was enforced by every endpoint
\* (_reconcile_deployment_rollout, _rollback_managed_configuration).
THEOREM KnownGoodWasEnforced == RolloutSpec => []KnownGoodIsProved
<1>1. RolloutInv => KnownGoodIsProved
  BY DEF RolloutInv, VersionsInOrder, BoundPackage, GoodVersion, KnownGoodIsProved
<1> QED
  BY <1>1, RolloutInvariant, PTL
=============================================================================
