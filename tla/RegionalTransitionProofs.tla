----------------------- MODULE RegionalTransitionProofs -----------------------
(***************************************************************************)
(* Proofs about RegionalTransition, for every set of runs, of manifests,   *)
(* their directions and their generations: its types, OneRegionRuns and    *)
(* RouteServes.                                                            *)
(***************************************************************************)
EXTENDS RegionalTransition, SequenceTheorems, TLAPS

\* No proof depends on what a manifest approves: a generation that the journal
\* has had is a number.
RegionalSpec == RegionalInit /\ [][RegionalNext]_regional

(***************************************************************************)
(* The inductive invariant.                                                *)
(***************************************************************************)
\* The phases in the order a transition goes through them.
Rank ==
    [NONE |-> 0, STABLE |-> 0,
     FENCING_SOURCE |-> 1, SOURCE_FENCED |-> 2,
     ACTIVATING_TARGET |-> 3, TARGET_ACTIVE_NOT_ROUTED |-> 4,
     RECONCILING_TARGET_JOBS |-> 5, TARGET_JOBS_RECONCILED_NOT_ROUTED |-> 6,
     VERIFYING_TARGET_INGRESS |-> 7, TARGET_INGRESS_VERIFIED_NOT_ROUTED |-> 8,
     ROUTING_TARGET |-> 9, VERIFYING_STABLE_ROUTE |-> 10,
     FENCING_FAILED_TARGET |-> 11, FAILED_TARGET_FENCED |-> 12,
     REACTIVATING_SOURCE |-> 13, SOURCE_REACTIVATED_NOT_ROUTED |-> 14,
     VERIFYING_SOURCE_INGRESS |-> 15, SOURCE_INGRESS_VERIFIED_NOT_ROUTED |-> 16,
     ROUTING_SOURCE_ROLLBACK |-> 17, VERIFYING_SOURCE_ROLLBACK |-> 18]

Now == Rank[journal.phase]

\* A transition under way is the one that the journal's generation allows.
JournalOK ==
    /\ journal.phase = "NONE" => journal = NewJournal("NONE")
    /\ Now > 0 =>
         /\ journal.transition \in Transitions
         /\ journal.generation = GenerationOf[journal.transition]
         /\ journal.active = Source(journal.transition)

Falling(r) == \A p \in Paths : cell[r][p] # "starting"
Rising(r) == \A p \in Paths : cell[r][p] # "stopping"

\* What each phase says of the two cells.
CellsFollow ==
    LET source == Source(journal.transition)
        target == Target(journal.transition)
    IN
    /\ Now = 0 => \A r \in Regions : IF r = journal.active THEN Live(r) ELSE Fenced(r)
    /\ Now = 1 => Falling(source)
    /\ Now \in 2 .. 12 => Fenced(source)
    /\ Now = 13 => Rising(source)
    /\ Now > 13 => Live(source)
    /\ Now \in 1 .. 2 => Fenced(target)
    /\ Now \in 3 .. 5 => Rising(target)
    /\ Now \in 6 .. 10 => Live(target)
    /\ Now = 11 => Falling(target)
    /\ Now > 11 => Fenced(target)

HomeRoute == Marked(journal.active, journal.generation, journal.last)

\* What each phase says of the DNS.
RouteFollows ==
    LET t == journal.transition IN
    /\ Now < 9 => route = HomeRoute
    /\ Now = 9 => route \in {HomeRoute, TargetRoute(t)}
    /\ Now \in 10 .. 16 => route = TargetRoute(t)
    /\ Now = 17 => route \in {TargetRoute(t), RollbackRoute(t)}
    /\ Now = 18 => route = RollbackRoute(t)

\* What is left to do of a command.
Fencing == {"fence_source", "fence_failed_target"}
Routing == {"route_target", "route_source_rollback"}
Lefts ==
    {<<>>, <<"claim">>, <<"complete">>, <<"prove", "complete">>,
     <<"disable", "prove", "complete">>,
     <<"enable", "prove", "complete">>, <<"precheck", "enable", "prove", "complete">>,
     <<"precheck", "prove", "complete">>,
     <<"precheck", "deploy", "settle", "complete">>,
     <<"deploy", "settle", "complete">>, <<"settle", "complete">>,
     <<"change", "prove", "complete">>, <<"read", "change", "prove", "complete">>}

PathQueues ==
    {<<>>, <<"sources">>, <<"functions">>, <<"sources", "functions">>,
     <<"functions", "sources">>}

Executions ==
    [command : Commands \cup {"none"}, transition : Transitions \cup {NoTransition},
     left : Lefts, paths : PathQueues, failed : BOOLEAN, fresh : BOOLEAN,
     move : [from : Routes, to : Routes]]

Begun(x) == x.left \notin {<<>>, <<"claim">>}

\* Each command does its own work.
Fitting(x) ==
    /\ x.left # <<>> => x.command \in Commands /\ x.transition \in Transitions
    /\ x.left = <<"disable", "prove", "complete">> => x.command \in Fencing
    /\ x.left \in {<<"enable", "prove", "complete">>,
                   <<"precheck", "enable", "prove", "complete">>} =>
          x.command \in {"activate_target", "reactivate_source"}
    /\ x.left \in {<<"change", "prove", "complete">>,
                   <<"read", "change", "prove", "complete">>} => x.command \in Routing
    /\ x.left \in {<<"precheck", "deploy", "settle", "complete">>,
                   <<"deploy", "settle", "complete">>, <<"settle", "complete">>} =>
          x.command = "activate_target"
    /\ x.command \in Routing =>
          x.left \in {<<>>, <<"claim">>, <<"read", "change", "prove", "complete">>,
                     <<"change", "prove", "complete">>, <<"prove", "complete">>, <<"complete">>}

\* A claim that was once granted: the journal is in its phase or beyond.  A
\* rollback takes a generation more than the cutover that it takes back.
Behind(x) ==
    /\ journal.generation > GenerationOf[x.transition]
    /\ Rank[During(x.command)] > 10 => journal.generation > GenerationOf[x.transition] + 1

Reached(x) ==
    Begun(x) =>
        /\ GenerationOf[x.transition] \in Nat
        /\ \/ Behind(x)
           \/ journal.transition = x.transition /\ Now >= Rank[During(x.command)]

HasRead(x) ==
    x.left \in {<<"change", "prove", "complete">>, <<"prove", "complete">>, <<"complete">>}

\* The batch of a command is the one its manifest approves.
Prepared(x) ==
    HasRead(x) =>
        /\ x.command = "route_target" =>
              /\ x.move.to = TargetRoute(x.transition)
              /\ x.move.from.generation = GenerationOf[x.transition]
              /\ journal.transition = x.transition /\ Now > 0 => x.move.from = HomeRoute
        /\ x.command = "route_source_rollback" =>
              x.move = [from |-> TargetRoute(x.transition), to |-> RollbackRoute(x.transition)]

\* What a command has proved is so as long as its phase lasts.
StillProved(x) ==
    LET t == x.transition IN
    x.left = <<"complete">> /\ journal.transition = t /\ journal.phase = During(x.command) =>
        /\ x.command = "fence_source" => Fenced(Source(t))
        /\ x.command = "fence_failed_target" => Fenced(Target(t))
        /\ x.command = "reconcile_target" => Live(Target(t))
        /\ x.command = "reactivate_source" => Live(Source(t))
        /\ x.command = "route_target" => route = TargetRoute(t)
        /\ x.command = "route_source_rollback" => route = RollbackRoute(t)

JournalPhases ==
    {"NONE", "STABLE"} \cup {During(c) : c \in Commands} \cup {After(c) : c \in Commands}

Journals ==
    [phase : JournalPhases, generation : Nat, active : Regions,
     last : Transitions \cup {NoTransition},
     transition : Transitions \cup {NoTransition}]

Types ==
    /\ journal \in Journals
    /\ route \in Routes
    /\ cell \in [Regions -> [Paths -> States]]
    /\ stack \in {"staged", "updating", "active", "rolled_back"}
    /\ expired \subseteq Transitions
    /\ executor \in [Executors -> Executions]
    /\ trespass \in BOOLEAN

Known(x) == Fitting(x) /\ Reached(x)
Trusted(x) == Prepared(x) /\ StillProved(x)

RegionalInv ==
    /\ Types
    /\ JournalOK
    /\ \A e \in Executors : Known(executor[e])
    /\ ~trespass =>
          /\ CellsFollow
          /\ RouteFollows
          /\ \A e \in Executors : Trusted(executor[e])

-----------------------------------------------------------------------------
(* The commands, their phases and their places *)

\* The eleven commands of the two scripts (PHASE_STEPS).
LEMMA CommandsAre ==
    Commands = {"fence_source", "activate_target", "reconcile_target", "verify_ingress",
                "route_target", "verify_stable", "fence_failed_target", "reactivate_source",
                "verify_source_ingress", "route_source_rollback", "verify_source_rollback"}
BY DEF Commands, Phases

\* The phase that a command works in.
LEMMA WorksIn ==
    /\ During("fence_source") = "FENCING_SOURCE"
    /\ During("activate_target") = "ACTIVATING_TARGET"
    /\ During("reconcile_target") = "RECONCILING_TARGET_JOBS"
    /\ During("verify_ingress") = "VERIFYING_TARGET_INGRESS"
    /\ During("route_target") = "ROUTING_TARGET"
    /\ During("verify_stable") = "VERIFYING_STABLE_ROUTE"
    /\ During("fence_failed_target") = "FENCING_FAILED_TARGET"
    /\ During("reactivate_source") = "REACTIVATING_SOURCE"
    /\ During("verify_source_ingress") = "VERIFYING_SOURCE_INGRESS"
    /\ During("route_source_rollback") = "ROUTING_SOURCE_ROLLBACK"
    /\ During("verify_source_rollback") = "VERIFYING_SOURCE_ROLLBACK"
BY DEF During, Phases

\* The phases that it starts from and ends with.
LEMMA LeadsFromTo ==
    /\ Before("fence_source") = "STABLE" /\ After("fence_source") = "SOURCE_FENCED"
    /\ Before("activate_target") = "SOURCE_FENCED"
    /\ After("activate_target") = "TARGET_ACTIVE_NOT_ROUTED"
    /\ Before("reconcile_target") = "TARGET_ACTIVE_NOT_ROUTED"
    /\ After("reconcile_target") = "TARGET_JOBS_RECONCILED_NOT_ROUTED"
    /\ Before("verify_ingress") = "TARGET_JOBS_RECONCILED_NOT_ROUTED"
    /\ After("verify_ingress") = "TARGET_INGRESS_VERIFIED_NOT_ROUTED"
    /\ Before("route_target") = "TARGET_INGRESS_VERIFIED_NOT_ROUTED"
    /\ After("route_target") = "VERIFYING_STABLE_ROUTE"
    /\ Before("verify_stable") = "VERIFYING_STABLE_ROUTE" /\ After("verify_stable") = "STABLE"
    /\ Before("fence_failed_target") = "VERIFYING_STABLE_ROUTE"
    /\ After("fence_failed_target") = "FAILED_TARGET_FENCED"
    /\ Before("reactivate_source") = "FAILED_TARGET_FENCED"
    /\ After("reactivate_source") = "SOURCE_REACTIVATED_NOT_ROUTED"
    /\ Before("verify_source_ingress") = "SOURCE_REACTIVATED_NOT_ROUTED"
    /\ After("verify_source_ingress") = "SOURCE_INGRESS_VERIFIED_NOT_ROUTED"
    /\ Before("route_source_rollback") = "SOURCE_INGRESS_VERIFIED_NOT_ROUTED"
    /\ After("route_source_rollback") = "VERIFYING_SOURCE_ROLLBACK"
    /\ Before("verify_source_rollback") = "VERIFYING_SOURCE_ROLLBACK"
    /\ After("verify_source_rollback") = "STABLE"
BY DEF Before, After, Phases

\* The phases, and the order of them.
LEMMA Ranks ==
    /\ Rank["NONE"] = 0 /\ Rank["STABLE"] = 0
    /\ Rank["FENCING_SOURCE"] = 1 /\ Rank["SOURCE_FENCED"] = 2
    /\ Rank["ACTIVATING_TARGET"] = 3 /\ Rank["TARGET_ACTIVE_NOT_ROUTED"] = 4
    /\ Rank["RECONCILING_TARGET_JOBS"] = 5 /\ Rank["TARGET_JOBS_RECONCILED_NOT_ROUTED"] = 6
    /\ Rank["VERIFYING_TARGET_INGRESS"] = 7 /\ Rank["TARGET_INGRESS_VERIFIED_NOT_ROUTED"] = 8
    /\ Rank["ROUTING_TARGET"] = 9 /\ Rank["VERIFYING_STABLE_ROUTE"] = 10
    /\ Rank["FENCING_FAILED_TARGET"] = 11 /\ Rank["FAILED_TARGET_FENCED"] = 12
    /\ Rank["REACTIVATING_SOURCE"] = 13 /\ Rank["SOURCE_REACTIVATED_NOT_ROUTED"] = 14
    /\ Rank["VERIFYING_SOURCE_INGRESS"] = 15
    /\ Rank["SOURCE_INGRESS_VERIFIED_NOT_ROUTED"] = 16
    /\ Rank["ROUTING_SOURCE_ROLLBACK"] = 17 /\ Rank["VERIFYING_SOURCE_ROLLBACK"] = 18
BY DEF Rank

LEMMA PhasesAre ==
    JournalPhases =
        {"NONE", "STABLE", "FENCING_SOURCE", "SOURCE_FENCED",
         "ACTIVATING_TARGET", "TARGET_ACTIVE_NOT_ROUTED", "RECONCILING_TARGET_JOBS",
         "TARGET_JOBS_RECONCILED_NOT_ROUTED", "VERIFYING_TARGET_INGRESS",
         "TARGET_INGRESS_VERIFIED_NOT_ROUTED", "ROUTING_TARGET", "VERIFYING_STABLE_ROUTE",
         "FENCING_FAILED_TARGET", "FAILED_TARGET_FENCED", "REACTIVATING_SOURCE",
         "SOURCE_REACTIVATED_NOT_ROUTED", "VERIFYING_SOURCE_INGRESS",
         "SOURCE_INGRESS_VERIFIED_NOT_ROUTED", "ROUTING_SOURCE_ROLLBACK",
         "VERIFYING_SOURCE_ROLLBACK"}
<1>1. \A c \in Commands : During(c) \in JournalPhases /\ After(c) \in JournalPhases
  BY DEF JournalPhases
<1>2. \A p \in JournalPhases :
         p \in {"NONE", "STABLE"} \/ \E c \in Commands : p = During(c) \/ p = After(c)
  BY DEF JournalPhases
<1>3. "NONE" \in JournalPhases /\ "STABLE" \in JournalPhases
  BY DEF JournalPhases
<1> QED
  BY <1>1, <1>2, <1>3, CommandsAre, WorksIn, LeadsFromTo

\* A phase has a rank, and a phase that a command works in has one to itself.
LEMMA RankedPhases ==
    /\ \A p \in JournalPhases : Rank[p] \in 0 .. 18
    /\ \A c \in Commands :
          /\ During(c) \in JournalPhases /\ After(c) \in JournalPhases
          /\ Rank[During(c)] > 0
          /\ Rank[Before(c)] <= Rank[During(c)]
          /\ After(c) # "STABLE" => Rank[After(c)] = Rank[During(c)] + 1
          /\ \A d \in Commands : During(c) = During(d) => c = d
<1>1. \A p \in JournalPhases : Rank[p] \in 0 .. 18
  BY PhasesAre, Ranks
<1>2. \A c \in Commands : During(c) \in JournalPhases /\ After(c) \in JournalPhases
  BY DEF JournalPhases
<1>3. ASSUME NEW c \in Commands
      PROVE  /\ Rank[During(c)] > 0
             /\ Rank[Before(c)] <= Rank[During(c)]
             /\ After(c) # "STABLE" => Rank[After(c)] = Rank[During(c)] + 1
  BY CommandsAre, WorksIn, LeadsFromTo, Ranks
<1>4. ASSUME NEW c \in Commands, NEW d \in Commands, During(c) = During(d)
      PROVE  c = d
  BY <1>4, CommandsAre, WorksIn
<1> QED
  BY <1>1, <1>2, <1>3, <1>4

\* Where a command is, from what is left of it.
LEMMA Places ==
    ASSUME NEW l \in Lefts, l # <<>>
    PROVE  /\ Head(l) \in {"claim", "disable", "enable", "precheck", "deploy", "settle",
                           "read", "change", "prove", "complete"}
           /\ Head(l) = "claim" <=> l = <<"claim">>
           /\ Head(l) = "complete" <=> l = <<"complete">>
           /\ Head(l) = "prove" <=> l = <<"prove", "complete">>
           /\ Head(l) = "disable" <=> l = <<"disable", "prove", "complete">>
           /\ Head(l) = "enable" <=> l = <<"enable", "prove", "complete">>
           /\ Head(l) = "settle" <=> l = <<"settle", "complete">>
           /\ Head(l) = "deploy" <=> l = <<"deploy", "settle", "complete">>
           /\ Head(l) = "change" <=> l = <<"change", "prove", "complete">>
           /\ Head(l) = "read" <=> l = <<"read", "change", "prove", "complete">>
           /\ Head(l) = "precheck" <=>
                 l \in {<<"precheck", "enable", "prove", "complete">>,
                        <<"precheck", "prove", "complete">>,
                        <<"precheck", "deploy", "settle", "complete">>}
BY DEF Lefts

LEMMA Remains ==
    /\ Tail(<<"prove", "complete">>) = <<"complete">>
    /\ Tail(<<"disable", "prove", "complete">>) = <<"prove", "complete">>
    /\ Tail(<<"enable", "prove", "complete">>) = <<"prove", "complete">>
    /\ Tail(<<"precheck", "enable", "prove", "complete">>) = <<"enable", "prove", "complete">>
    /\ Tail(<<"precheck", "prove", "complete">>) = <<"prove", "complete">>
    /\ Tail(<<"precheck", "deploy", "settle", "complete">>) = <<"deploy", "settle", "complete">>
    /\ Tail(<<"deploy", "settle", "complete">>) = <<"settle", "complete">>
    /\ Tail(<<"settle", "complete">>) = <<"complete">>
    /\ Tail(<<"change", "prove", "complete">>) = <<"prove", "complete">>
    /\ Tail(<<"read", "change", "prove", "complete">>) = <<"change", "prove", "complete">>
OBVIOUS

\* Appending to a short sequence.
LEMMA EndOf ==
    ASSUME NEW S, NEW s \in Seq(S), NEW d \in S, NEW w \in Seq(S),
           Len(w) = Len(s) + 1, w[Len(s) + 1] = d, \A i \in 1 .. Len(s) : w[i] = s[i]
    PROVE  s \o <<d>> = w
<1>1. /\ Append(s, d) \in Seq(S) /\ Len(Append(s, d)) = Len(s) + 1
      /\ \A i \in 1 .. Len(s) : Append(s, d)[i] = s[i]
      /\ Append(s, d)[Len(s) + 1] = d
  BY AppendProperties
<1>2. Append(s, d) = w
  BY <1>1, SeqEqual
<1> QED
  BY <1>2, AppendIsConcat, Zenon

LEMMA EndOfOne ==
    ASSUME NEW a, NEW d
    PROVE  <<a>> \o <<d>> = <<a, d>>
<1> PICK S : a \in S /\ d \in S
  <2> a \in {a, d} /\ d \in {a, d}
    OBVIOUS
  <2> QED BY Zenon
<1> PICK s : s = <<a>>
  OBVIOUS
<1> PICK w : w = <<a, d>>
  OBVIOUS
<1>1. /\ s \in Seq(S) /\ w \in Seq(S) /\ Len(w) = Len(s) + 1 /\ w[Len(s) + 1] = d
      /\ \A i \in 1 .. Len(s) : w[i] = s[i]
  OBVIOUS
<1> QED
  BY <1>1, EndOf, Zenon

LEMMA EndOfTwo ==
    ASSUME NEW a, NEW b, NEW d
    PROVE  <<a, b>> \o <<d>> = <<a, b, d>>
<1> PICK S : a \in S /\ b \in S /\ d \in S
  <2> a \in {a, b, d} /\ b \in {a, b, d} /\ d \in {a, b, d}
    OBVIOUS
  <2> QED BY Zenon
<1> PICK s : s = <<a, b>>
  OBVIOUS
<1> PICK w : w = <<a, b, d>>
  OBVIOUS
<1>1. /\ s \in Seq(S) /\ w \in Seq(S) /\ Len(w) = Len(s) + 1 /\ w[Len(s) + 1] = d
      /\ \A i \in 1 .. Len(s) : w[i] = s[i]
  OBVIOUS
<1> QED
  BY <1>1, EndOf, Zenon

LEMMA EndOfThree ==
    ASSUME NEW a, NEW b, NEW c, NEW d
    PROVE  <<a, b, c>> \o <<d>> = <<a, b, c, d>>
<1> PICK S : a \in S /\ b \in S /\ c \in S /\ d \in S
  <2> a \in {a, b, c, d} /\ b \in {a, b, c, d} /\ c \in {a, b, c, d} /\ d \in {a, b, c, d}
    OBVIOUS
  <2> QED BY Zenon
<1> PICK s : s = <<a, b, c>>
  OBVIOUS
<1> PICK w : w = <<a, b, c, d>>
  OBVIOUS
<1>1. /\ s \in Seq(S) /\ w \in Seq(S) /\ Len(w) = Len(s) + 1 /\ w[Len(s) + 1] = d
      /\ \A i \in 1 .. Len(s) : w[i] = s[i]
  OBVIOUS
<1> QED
  BY <1>1, EndOf, Zenon

LEMMA Concatenations ==
    /\ <<"disable", "prove">> \o <<"complete">> = <<"disable", "prove", "complete">>
    /\ <<"precheck", "deploy", "settle">> \o <<"complete">>
          = <<"precheck", "deploy", "settle", "complete">>
    /\ <<"precheck", "enable", "prove">> \o <<"complete">>
          = <<"precheck", "enable", "prove", "complete">>
    /\ <<"precheck", "prove">> \o <<"complete">> = <<"precheck", "prove", "complete">>
    /\ <<"read", "change", "prove">> \o <<"complete">>
          = <<"read", "change", "prove", "complete">>
    /\ <<"prove">> \o <<"complete">> = <<"prove", "complete">>
<1>1. <<"disable", "prove">> \o <<"complete">> = <<"disable", "prove", "complete">>
  BY EndOfTwo, Zenon
<1>2. <<"precheck", "deploy", "settle">> \o <<"complete">>
          = <<"precheck", "deploy", "settle", "complete">>
  BY EndOfThree, Zenon
<1>3. <<"precheck", "enable", "prove">> \o <<"complete">>
          = <<"precheck", "enable", "prove", "complete">>
  BY EndOfThree, Zenon
<1>4. <<"precheck", "prove">> \o <<"complete">> = <<"precheck", "prove", "complete">>
  BY EndOfTwo, Zenon
<1>5. <<"read", "change", "prove">> \o <<"complete">>
          = <<"read", "change", "prove", "complete">>
  BY EndOfThree, Zenon
<1>6. <<"prove">> \o <<"complete">> = <<"prove", "complete">>
  BY EndOfOne, Zenon
<1> QED
  BY <1>1, <1>2, <1>3, <1>4, <1>5, <1>6

\* How the work of a command may begin.
Starts ==
    {<<"disable", "prove", "complete">>, <<"prove", "complete">>,
     <<"precheck", "enable", "prove", "complete">>, <<"precheck", "prove", "complete">>,
     <<"precheck", "deploy", "settle", "complete">>,
     <<"read", "change", "prove", "complete">>}

LEMMA Beginnings ==
    ASSUME NEW l \in Starts
    PROVE  /\ l \in Lefts
           /\ l # <<>> /\ l # <<"claim">> /\ l # <<"complete">>
           /\ l # <<"change", "prove", "complete">> /\ l # <<"settle", "complete">>
           /\ l # <<"enable", "prove", "complete">>
           /\ l = <<"disable", "prove", "complete">> <=> l[1] = "disable"
           /\ l = <<"read", "change", "prove", "complete">> <=> l[1] = "read"
           /\ l # <<"deploy", "settle", "complete">>
           /\ l = <<"precheck", "enable", "prove", "complete">>
                 <=> l[1] = "precheck" /\ l[2] = "enable"
           /\ l = <<"precheck", "deploy", "settle", "complete">>
                 <=> l[1] = "precheck" /\ l[2] = "deploy"
<1>1. CASE l = <<"disable", "prove", "complete">>
  BY <1>1 DEF Lefts
<1>2. CASE l = <<"prove", "complete">>
  BY <1>2 DEF Lefts
<1>3. CASE l = <<"precheck", "enable", "prove", "complete">>
  BY <1>3 DEF Lefts
<1>4. CASE l = <<"precheck", "prove", "complete">>
  BY <1>4 DEF Lefts
<1>5. CASE l = <<"precheck", "deploy", "settle", "complete">>
  BY <1>5 DEF Lefts
<1>6. CASE l = <<"read", "change", "prove", "complete">>
  BY <1>6 DEF Lefts
<1> QED
  BY <1>1, <1>2, <1>3, <1>4, <1>5, <1>6 DEF Starts

\* The work of a command begins where the command says.
LEMMA WorkBegins ==
    ASSUME NEW c \in Commands, NEW t, NEW l, l = Work(c, t) \o <<"complete">>
    PROVE  /\ l \in Lefts
           /\ l # <<>> /\ l # <<"claim">> /\ l # <<"complete">>
           /\ l # <<"change", "prove", "complete">> /\ l # <<"settle", "complete">>
           /\ l # <<"enable", "prove", "complete">>
           /\ l = <<"disable", "prove", "complete">> => c \in Fencing
           /\ l = <<"precheck", "enable", "prove", "complete">> =>
                 c \in {"activate_target", "reactivate_source"}
           /\ l # <<"deploy", "settle", "complete">>
           /\ l = <<"precheck", "deploy", "settle", "complete">> => c = "activate_target"
           /\ l = <<"read", "change", "prove", "complete">> <=> c \in Routing
<1>1. CASE c \in Fencing
  <2>1. Work(c, t) = <<"disable", "prove">>
    BY <1>1 DEF Work, Fencing
  <2>2. l = <<"disable", "prove", "complete">>
    BY <2>1, Concatenations
  <2>3. l[1] = "disable" /\ c \notin Routing
    BY <1>1, <2>2 DEF Fencing, Routing
  <2>4. l \in Starts
    BY <2>2 DEF Starts
  <2> QED
    BY <1>1, <2>2, <2>3, <2>4, Beginnings
<1>2. CASE c = "activate_target"
  <2>1. \/ Work(c, t) = <<"precheck", "deploy", "settle">>
        \/ Work(c, t) = <<"precheck", "enable", "prove">>
        \/ Work(c, t) = <<"prove">>
    BY <1>2 DEF Work, Fencing
  <2>2. \/ l = <<"precheck", "deploy", "settle", "complete">>
        \/ l = <<"precheck", "enable", "prove", "complete">>
        \/ l = <<"prove", "complete">>
    BY <2>1, Concatenations
  <2>3. l[1] # "disable" /\ l[1] # "read" /\ c \notin Routing
    <3>1. CASE l = <<"precheck", "deploy", "settle", "complete">>
      BY <1>2, <3>1 DEF Routing
    <3>2. CASE l = <<"precheck", "enable", "prove", "complete">>
      BY <1>2, <3>2 DEF Routing
    <3>3. CASE l = <<"prove", "complete">>
      BY <1>2, <3>3 DEF Routing
    <3> QED
      BY <2>2, <3>1, <3>2, <3>3
  <2>4. l \in Starts
    BY <2>2 DEF Starts
  <2> QED
    BY <1>2, <2>2, <2>3, <2>4, Beginnings
<1>3. CASE c = "reactivate_source"
  <2>1. Work(c, t) = <<"precheck", "enable", "prove">>
    BY <1>3 DEF Work, Fencing
  <2>2. l = <<"precheck", "enable", "prove", "complete">>
    BY <2>1, Concatenations
  <2>3. l[1] = "precheck" /\ l[2] = "enable" /\ c \notin Routing
    BY <1>3, <2>2 DEF Routing
  <2>4. l \in Starts
    BY <2>2 DEF Starts
  <2> QED
    BY <1>3, <2>2, <2>3, <2>4, Beginnings
<1>4. CASE c = "reconcile_target"
  <2>1. Work(c, t) = <<"precheck", "prove">>
    BY <1>4 DEF Work, Fencing
  <2>2. l = <<"precheck", "prove", "complete">>
    BY <2>1, Concatenations
  <2>3. l[1] = "precheck" /\ l[2] = "prove" /\ c \notin Routing
    BY <1>4, <2>2 DEF Routing
  <2>4. l \in Starts
    BY <2>2 DEF Starts
  <2> QED
    BY <1>4, <2>2, <2>3, <2>4, Beginnings
<1>5. CASE c \in Routing
  <2>1. Work(c, t) = <<"read", "change", "prove">>
    BY <1>5 DEF Work, Routing
  <2>2. l = <<"read", "change", "prove", "complete">>
    BY <2>1, Concatenations
  <2>3. l[1] = "read"
    BY <2>2
  <2>4. l \in Starts
    BY <2>2 DEF Starts
  <2> QED
    BY <1>5, <2>2, <2>3, <2>4, Beginnings
<1>6. CASE c \notin Fencing \cup Routing
              \cup {"activate_target", "reactivate_source", "reconcile_target"}
  <2>1. Work(c, t) = <<"prove">>
    BY <1>6 DEF Work, Fencing, Routing
  <2>2. l = <<"prove", "complete">>
    BY <2>1, Concatenations
  <2>3. l[1] = "prove"
    BY <2>2
  <2>4. l \in Starts
    BY <2>2 DEF Starts
  <2> QED
    BY <1>6, <2>2, <2>3, <2>4, Beginnings
<1> QED
  BY <1>1, <1>2, <1>3, <1>4, <1>5, <1>6

-----------------------------------------------------------------------------
(* Types *)

\* The two cells of a transition.
LEMMA TwoCells ==
    ASSUME NEW t
    PROVE  /\ Source(t) \in Regions /\ Target(t) \in Regions
           /\ Source(t) # Target(t)
           /\ \A r \in Regions : r = Source(t) \/ r = Target(t)
           /\ Regions = {"primary", "recovery"}
BY DEF Source, Target, Regions

LEMMA RouteTyped ==
    ASSUME NEW r \in Regions, NEW g \in Nat, NEW t \in Transitions \cup {NoTransition}
    PROVE  Marked(r, g, t) \in Routes
BY DEF Marked, Routes

LEMMA ApprovedRoutes ==
    ASSUME NEW t \in Transitions, GenerationOf[t] \in Nat
    PROVE  /\ TargetRoute(t) \in Routes /\ RollbackRoute(t) \in Routes
           /\ TargetRoute(t).region = Target(t)
           /\ TargetRoute(t).generation = GenerationOf[t] + 1
           /\ RollbackRoute(t).region = Source(t)
           /\ RollbackRoute(t).generation = GenerationOf[t] + 2
<1>1. /\ Source(t) \in Regions /\ Target(t) \in Regions
      /\ GenerationOf[t] + 1 \in Nat /\ GenerationOf[t] + 2 \in Nat
      /\ t \in Transitions \cup {NoTransition}
  BY TwoCells
<1>2. TargetRoute(t) \in Routes /\ RollbackRoute(t) \in Routes
  BY <1>1, RouteTyped DEF TargetRoute, RollbackRoute
<1> QED
  BY <1>2 DEF TargetRoute, RollbackRoute, Marked

LEMMA IdleTyped == IdleExecutor \in Executions
<1>1. Marked("primary", 0, NoTransition) \in Routes
  BY RouteTyped DEF Regions
<1> QED
  BY <1>1 DEF IdleExecutor, Executions, NoMove, Lefts, PathQueues

LEMMA HomeTyped ==
    ASSUME Types
    PROVE  /\ HomeRoute \in Routes /\ HomeRoute.region = journal.active
           /\ HomeRoute.generation = journal.generation
           /\ journal.generation \in Nat /\ Now \in 0 .. 18 /\ journal.phase \in JournalPhases
<1>1. journal \in Journals
  BY DEF Types
<1> QED
  BY <1>1, RouteTyped, RankedPhases DEF Journals, HomeRoute, Marked, Now

\* Only one run takes a step at a time.
LEMMA OneRun ==
    ASSUME Types, NEW e \in Executors, NEW x \in Executions,
           executor' = [executor EXCEPT ![e] = x]
    PROVE  /\ executor' \in [Executors -> Executions]
           /\ executor'[e] = x
           /\ \A f \in Executors : f # e => executor'[f] = executor[f]
BY DEF Types

\* A run that goes to its next place is else as it was.
LEMMA NextPlace ==
    ASSUME Types, NEW e \in Executors, GoOn(e), NEW l \in Lefts, Tail(executor[e].left) = l
    PROVE  \E x \in Executions :
              /\ executor' = [executor EXCEPT ![e] = x]
              /\ x.left = l
              /\ x.command = executor[e].command /\ x.transition = executor[e].transition
              /\ x.move = executor[e].move
<1> PICK x : x = [executor[e] EXCEPT !.left = l]
  OBVIOUS
<1>1. executor[e] \in Executions
  BY DEF Types
<1>2. x \in Executions
  BY <1>1 DEF Executions
<1>3. executor' = [executor EXCEPT ![e] = x]
  BY DEF GoOn, Types
<1>4. /\ x.left = l
      /\ x.command = executor[e].command /\ x.transition = executor[e].transition
      /\ x.move = executor[e].move
  BY <1>1 DEF Executions
<1> QED
  BY <1>2, <1>3, <1>4

-----------------------------------------------------------------------------
(* Steps that leave the journal, the cells and the DNS alone *)

Alone(e, x) ==
    /\ executor' = [executor EXCEPT ![e] = x]
    /\ UNCHANGED <<journal, route, cell, trespass>>

\* What is said of the others stays, and of the run that takes the step it is
\* said again.
LEMMA QuietStep ==
    ASSUME RegionalInv, NEW e \in Executors, NEW x \in Executions, Alone(e, x),
           stack' \in {"staged", "updating", "active", "rolled_back"},
           expired' \subseteq Transitions,
           Known(x), ~trespass => Trusted(x)
    PROVE  RegionalInv'
<1>1. /\ executor' \in [Executors -> Executions] /\ executor'[e] = x
      /\ \A f \in Executors : f # e => executor'[f] = executor[f]
  BY OneRun DEF RegionalInv, Alone
<1>2. Types'
  BY <1>1 DEF RegionalInv, Types, Alone
<1>3. JournalOK'
  BY DEF RegionalInv, JournalOK, Now, NewJournal, Alone
<1>4. \A y \in Executions : (Known(y) => Known(y)') /\ (Trusted(y) => Trusted(y)')
  BY DEF Known, Trusted, Fitting, Reached, Behind, Prepared, StillProved, HasRead, Begun, Now,
         HomeRoute, Fenced, Live, Alone
<1>5. \A f \in Executors :
         \E y \in Executions : /\ y = executor'[f]
                               /\ Known(y) /\ (~trespass => Trusted(y))
  BY <1>1 DEF RegionalInv, Types
<1>6. ASSUME NEW f \in Executors
      PROVE  Known(executor[f])' /\ (~trespass' => Trusted(executor[f])')
  <2> PICK y \in Executions : /\ y = executor'[f]
                             /\ Known(y) /\ (~trespass => Trusted(y))
    BY <1>5
  <2>1. Known(y)' /\ (~trespass' => Trusted(y)')
    BY <1>4 DEF Alone
  <2> QED
    BY <2>1 DEF Known, Trusted, Fitting, Reached, Behind, Prepared, StillProved, HasRead, Begun
<1>7. ASSUME ~trespass'
      PROVE  CellsFollow' /\ RouteFollows'
  <2>1. ~trespass
    BY <1>7 DEF Alone
  <2>2. CellsFollow'
    BY <2>1 DEF RegionalInv, CellsFollow, Now, Fenced, Live, Falling, Rising, Alone
  <2>3. RouteFollows'
    BY <2>1 DEF RegionalInv, RouteFollows, Now, HomeRoute, Alone
  <2> QED
    BY <2>2, <2>3
<1> QED
  BY <1>2, <1>3, <1>6, <1>7 DEF RegionalInv

-----------------------------------------------------------------------------
(* Steps of the journal *)

LEMMA EachRun ==
    ASSUME NEW f \in Executors, NEW y \in Executions, y = executor'[f]
    PROVE  /\ Known(y)' => Known(executor[f])'
           /\ Trusted(y)' => Trusted(executor[f])'
BY DEF Known, Trusted, Fitting, Reached, Behind, Prepared, StillProved, HasRead, Begun

Advances(p) ==
    /\ p \in JournalPhases /\ Now > 0 /\ Rank[p] > Now
    /\ journal' = [journal EXCEPT !.phase = p]

Claims(t) ==
    /\ t \in Transitions
    /\ journal.phase = "STABLE"
    /\ journal.generation = GenerationOf[t]
    /\ journal.active = Source(t)
    /\ journal' = [journal EXCEPT !.phase = "FENCING_SOURCE", !.transition = t]

Settles ==
    /\ journal' \in Journals /\ Now' = 0
    /\ journal'.generation >= journal.generation
    /\ Now > 0 => journal'.generation > journal.generation
    /\ Now > 10 => journal'.generation > journal.generation + 1

JournalMoves ==
    \/ \E p \in JournalPhases : Advances(p)
    \/ \E t \in Transitions : Claims(t)
    \/ Settles

\* No step of the journal takes it back to where a run has claimed a phase of it.
LEMMA JournalGoesOn ==
    ASSUME RegionalInv, JournalMoves
    PROVE  /\ journal' \in Journals
           /\ Now \in 0 .. 18 /\ Now' \in 0 .. 18
           /\ journal.generation \in Nat /\ journal'.generation \in Nat
           /\ \/ /\ Now' > Now /\ Now > 0
                 /\ journal'.transition = journal.transition
                 /\ journal'.generation = journal.generation
                 /\ journal'.active = journal.active /\ journal'.last = journal.last
                 /\ journal.generation = GenerationOf[journal.transition]
              \/ /\ Now = 0 /\ Now' = 1
                 /\ journal'.generation = journal.generation
                 /\ journal.generation = GenerationOf[journal'.transition]
              \/ /\ Now' = 0
                 /\ journal'.generation >= journal.generation
                 /\ Now > 0 => journal'.generation > journal.generation
                 /\ Now > 10 => journal'.generation > journal.generation + 1
                 /\ Now > 0 => journal.generation = GenerationOf[journal.transition]
<1>1. journal \in Journals /\ Now \in 0 .. 18 /\ journal.generation \in Nat
  BY HomeTyped DEF RegionalInv, Types
<1>2. Now > 0 => journal.generation = GenerationOf[journal.transition]
  BY DEF RegionalInv, JournalOK
<1>3. ASSUME NEW p \in JournalPhases, Advances(p)
      PROVE  /\ journal' \in Journals /\ Now' \in 0 .. 18
             /\ Now' > Now /\ Now > 0
             /\ journal'.transition = journal.transition
             /\ journal'.generation = journal.generation
             /\ journal'.active = journal.active /\ journal'.last = journal.last
  <2>1. /\ journal' \in Journals /\ journal'.phase = p
        /\ journal'.transition = journal.transition
        /\ journal'.generation = journal.generation
        /\ journal'.active = journal.active /\ journal'.last = journal.last
    BY <1>1, <1>3 DEF Advances, Journals
  <2> QED
    BY <1>3, <2>1, RankedPhases DEF Advances, Now
<1>4. ASSUME NEW t \in Transitions, Claims(t)
      PROVE  /\ journal' \in Journals /\ Now = 0 /\ Now' = 1
             /\ journal'.generation = journal.generation
             /\ journal.generation = GenerationOf[journal'.transition]
  <2>1. /\ journal' \in Journals /\ journal'.phase = "FENCING_SOURCE"
        /\ journal'.transition = t /\ journal'.generation = journal.generation
    BY <1>1, <1>4, PhasesAre DEF Claims, Journals
  <2> QED
    BY <1>4, <2>1, Ranks DEF Claims, Now
<1>5. ASSUME Settles
      PROVE  /\ journal' \in Journals /\ Now' = 0 /\ journal'.generation \in Nat
             /\ journal'.generation >= journal.generation
             /\ Now > 0 => journal'.generation > journal.generation
             /\ Now > 10 => journal'.generation > journal.generation + 1
  BY <1>5 DEF Settles, Journals
<1>6. CASE \E p \in JournalPhases : Advances(p)
  BY <1>1, <1>2, <1>3, <1>6
<1>7. CASE \E t \in Transitions : Claims(t)
  BY <1>1, <1>4, <1>7
<1>8. CASE Settles
  BY <1>1, <1>2, <1>5, <1>8
<1> QED
  BY <1>6, <1>7, <1>8 DEF JournalMoves

\* A run that has read its route is one that has begun.
LEMMA ReadHasBegun ==
    ASSUME NEW x, HasRead(x)
    PROVE  Begun(x)
<1>1. PICK l : l = x.left
  OBVIOUS
<1>2. CASE l = <<"change", "prove", "complete">>
  BY <1>1, <1>2 DEF Begun
<1>3. CASE l = <<"prove", "complete">>
  BY <1>1, <1>3 DEF Begun
<1>4. CASE l = <<"complete">>
  BY <1>1, <1>4 DEF Begun
<1> QED
  BY <1>1, <1>2, <1>3, <1>4 DEF HasRead

\* A run that has been overtaken stays known for it.
LEMMA JournalSpares ==
    ASSUME RegionalInv, JournalMoves, NEW y \in Executions, Known(y)
    PROVE  /\ Known(y)'
           /\ Trusted(y) /\ route' = route /\ cell' = cell => Trusted(y)'
<1> PICK g : g = GenerationOf[y.transition]
  OBVIOUS
<1> PICK k : k = Rank[During(y.command)]
  OBVIOUS
<1>1. Begun(y) => g \in Nat /\ k \in 0 .. 18 /\ k > 0
  BY RankedPhases DEF Known, Fitting, Reached, Behind, Begun
<1>2. Begun(y) => \/ journal.generation > g /\ (k > 10 => journal.generation > g + 1)
                  \/ journal.transition = y.transition /\ Now >= k
  BY DEF Known, Reached, Behind
<1>3. Begun(y) => \/ journal'.generation > g /\ (k > 10 => journal'.generation > g + 1)
                  \/ journal'.transition = y.transition /\ Now' >= k
  BY <1>1, <1>2, JournalGoesOn
<1>4. Known(y)'
  BY <1>1, <1>3 DEF Known, Fitting, Reached, Behind, Begun
<1>5. Begun(y) /\ journal'.transition = y.transition /\ Now' > 0 =>
         /\ journal.transition = y.transition
         /\ journal'.active = journal.active /\ journal'.last = journal.last
         /\ journal'.generation = journal.generation /\ Now > 0
         /\ Now >= k /\ Now' > k
  BY <1>1, <1>2, JournalGoesOn
<1>6. HasRead(y) => Begun(y)
  BY ReadHasBegun
<1>7. Prepared(y) => Prepared(y)'
  BY <1>5, <1>6 DEF Prepared, HasRead, HomeRoute, Marked
<1>8. Begun(y) /\ journal'.transition = y.transition => journal'.phase # During(y.command)
  BY <1>1, <1>5 DEF Now
<1>9. StillProved(y)'
  BY <1>8 DEF StillProved, Begun
<1> QED
  BY <1>4, <1>7, <1>9 DEF Trusted

-----------------------------------------------------------------------------
(* The steps of a run that change nothing else *)

LEMMA RunsTyped ==
    ASSUME RegionalInv, NEW e \in Executors
    PROVE  /\ executor[e] \in Executions /\ Known(executor[e])
           /\ executor[e].left \in Lefts
           /\ executor[e].left # <<>> =>
                 executor[e].command \in Commands /\ executor[e].transition \in Transitions
           /\ expired \subseteq Transitions
           /\ stack \in {"staged", "updating", "active", "rolled_back"}
BY DEF RegionalInv, Types, Executions, Known, Fitting

\* A run that has read nothing and proved nothing.
LEMMA Fresh ==
    ASSUME NEW y \in Executions, y.left \in {<<>>, <<"claim">>},
           y.left # <<>> => y.command \in Commands /\ y.transition \in Transitions
    PROVE  Trusted(y) /\ Known(y)
<1>1. ~HasRead(y) /\ y.left # <<"complete">> /\ ~Begun(y)
  <2>1. CASE y.left = <<>>
    BY <2>1 DEF HasRead, Begun
  <2>2. CASE y.left = <<"claim">>
    BY <2>2 DEF HasRead, Begun
  <2> QED
    BY <2>1, <2>2
<1>2. Fitting(y)
  <2>1. CASE y.left = <<>>
    BY <2>1 DEF Fitting
  <2>2. CASE y.left = <<"claim">>
    BY <2>2 DEF Fitting
  <2> QED
    BY <2>1, <2>2
<1> QED
  BY <1>1, <1>2 DEF Trusted, Known, Prepared, StillProved, Reached, Behind

LEMMA RunCommandStep ==
    ASSUME RegionalInv, NEW e \in Executors, NEW c \in Commands, NEW t \in Transitions,
           RunCommand(e, c, t)
    PROVE  RegionalInv'
<1> PICK x : x = [IdleExecutor EXCEPT !.command = c, !.transition = t, !.left = <<"claim">>]
  OBVIOUS
<1>1. /\ x \in Executions /\ x.left = <<"claim">>
      /\ x.command \in Commands /\ x.transition \in Transitions
  BY IdleTyped DEF Executions, Lefts
<1>2. Alone(e, x) /\ UNCHANGED <<stack, expired>>
  BY DEF RunCommand, Alone
<1>3. Known(x) /\ Trusted(x)
  BY <1>1, Fresh
<1> QED
  BY <1>1, <1>2, <1>3, QuietStep, RunsTyped

LEMMA IdleIsKnown ==
    /\ IdleExecutor \in Executions /\ IdleExecutor.left = <<>>
    /\ Known(IdleExecutor) /\ Trusted(IdleExecutor)
<1>1. IdleExecutor \in Executions /\ IdleExecutor.left = <<>>
  BY IdleTyped DEF IdleExecutor
<1> QED
  BY <1>1, Fresh

LEMMA StopCommandStep ==
    ASSUME RegionalInv, NEW e \in Executors, StopCommand(e)
    PROVE  RegionalInv'
<1>1. Alone(e, IdleExecutor) /\ UNCHANGED <<stack, expired>>
  BY DEF StopCommand, Alone
<1> QED
  BY <1>1, IdleIsKnown, QuietStep, RunsTyped

\* A run that is as another one was, but at a later place.
SameRun(x, y) ==
    x.command = y.command /\ x.transition = y.transition /\ x.move = y.move

\* A run that goes on.
LEMMA GoesOn ==
    ASSUME RegionalInv, NEW e \in Executors, GoOn(e), Begun(executor[e]),
           UNCHANGED <<journal, route, cell, trespass>>,
           stack' \in {"staged", "updating", "active", "rolled_back"}, expired' = expired,
           NEW l \in Lefts, Tail(executor[e].left) = l, l # <<"claim">>,
           \A x \in Executions :
              x.left = l /\ SameRun(x, executor[e]) =>
                 Fitting(x) /\ (~trespass => Trusted(x))
    PROVE  RegionalInv'
<1>1. executor[e] \in Executions /\ Known(executor[e])
  BY RunsTyped
<1> PICK x \in Executions :
        /\ executor' = [executor EXCEPT ![e] = x]
        /\ x.left = l
        /\ SameRun(x, executor[e])
  BY NextPlace DEF RegionalInv, SameRun
<1>2. Fitting(x) /\ (~trespass => Trusted(x))
  OBVIOUS
<1>3. Known(x)
  BY <1>1, <1>2 DEF Known, Reached, Behind, Begun, SameRun
<1>4. Alone(e, x)
  BY DEF Alone
<1> QED
  BY <1>2, <1>3, <1>4, QuietStep, RunsTyped

\* Where a run is at a place.
LEMMA AtPlace ==
    ASSUME RegionalInv, NEW e \in Executors, NEW p, At(e, p)
    PROVE  /\ executor[e].left \in Lefts /\ executor[e].left # <<>>
           /\ Head(executor[e].left) = p
           /\ p # "claim" => Begun(executor[e])
           /\ executor[e].command \in Commands /\ executor[e].transition \in Transitions
           /\ Fitting(executor[e])
<1>1. executor[e].left \in Lefts /\ executor[e].left # <<>> /\ Head(executor[e].left) = p
  BY RunsTyped DEF At
<1>2. p # "claim" => executor[e].left # <<"claim">>
  BY <1>1, Places
<1> QED
  BY <1>1, <1>2, RunsTyped DEF Begun, Known

LEMMA PrecheckStep ==
    ASSUME RegionalInv, NEW e \in Executors, Precheck(e)
    PROVE  RegionalInv'
<1>1. /\ executor[e].left \in {<<"precheck", "enable", "prove", "complete">>,
                              <<"precheck", "prove", "complete">>,
                              <<"precheck", "deploy", "settle", "complete">>}
      /\ Begun(executor[e]) /\ Fitting(executor[e])
      /\ executor[e].command \in Commands /\ executor[e].transition \in Transitions
  BY AtPlace, Places DEF Precheck
<1>2. GoOn(e) /\ UNCHANGED <<journal, route, cell, stack, expired, trespass>>
  BY DEF Precheck
<1>3. executor[e].command \notin Routing
  BY <1>1 DEF Fitting
<1>4. CASE executor[e].left = <<"precheck", "enable", "prove", "complete">>
  <2> PICK l : l = <<"enable", "prove", "complete">>
    OBVIOUS
  <2>1. Tail(executor[e].left) = l /\ l \in Lefts /\ l # <<"claim">>
    BY <1>4, Remains DEF Lefts
  <2>2. ASSUME NEW x \in Executions, x.left = l /\ SameRun(x, executor[e])
        PROVE  Fitting(x) /\ Trusted(x)
    BY <1>1, <1>3, <1>4, <2>2 DEF Fitting, Trusted, Prepared, StillProved, HasRead, SameRun
  <2> QED
    BY <1>1, <1>2, <2>1, <2>2, GoesOn, RunsTyped
<1>5. CASE executor[e].left = <<"precheck", "prove", "complete">>
  <2> PICK l : l = <<"prove", "complete">>
    OBVIOUS
  <2>1. Tail(executor[e].left) = l /\ l \in Lefts /\ l # <<"claim">>
    BY <1>5, Remains DEF Lefts
  <2>2. ASSUME NEW x \in Executions, x.left = l /\ SameRun(x, executor[e])
        PROVE  Fitting(x) /\ Trusted(x)
    BY <1>1, <1>3, <2>2 DEF Fitting, Trusted, Prepared, StillProved, HasRead, SameRun, Routing
  <2> QED
    BY <1>1, <1>2, <2>1, <2>2, GoesOn, RunsTyped
<1>6. CASE executor[e].left = <<"precheck", "deploy", "settle", "complete">>
  <2> PICK l : l = <<"deploy", "settle", "complete">>
    OBVIOUS
  <2>1. Tail(executor[e].left) = l /\ l \in Lefts /\ l # <<"claim">>
    BY <1>6, Remains DEF Lefts
  <2>2. ASSUME NEW x \in Executions, x.left = l /\ SameRun(x, executor[e])
        PROVE  Fitting(x) /\ Trusted(x)
    BY <1>1, <1>3, <1>6, <2>2 DEF Fitting, Trusted, Prepared, StillProved, HasRead, SameRun
  <2> QED
    BY <1>1, <1>2, <2>1, <2>2, GoesOn, RunsTyped
<1> QED
  BY <1>1, <1>4, <1>5, <1>6

LEMMA AllPathsChangedStep ==
    ASSUME RegionalInv, NEW e \in Executors, AllPathsChanged(e)
    PROVE  RegionalInv'
<1>1. /\ executor[e].left \in {<<"disable", "prove", "complete">>,
                              <<"enable", "prove", "complete">>}
      /\ Begun(executor[e]) /\ Fitting(executor[e])
      /\ executor[e].command \in Commands /\ executor[e].transition \in Transitions
  BY AtPlace, Places DEF AllPathsChanged
<1>2. GoOn(e) /\ UNCHANGED <<journal, route, cell, stack, expired, trespass>>
  BY DEF AllPathsChanged
<1>3. executor[e].command \notin Routing
  BY <1>1 DEF Fitting, Routing, Fencing
<1> PICK l : l = <<"prove", "complete">>
  OBVIOUS
<1>4. Tail(executor[e].left) = l /\ l \in Lefts /\ l # <<"claim">>
  BY <1>1, Remains DEF Lefts
<1>5. ASSUME NEW x \in Executions, x.left = l /\ SameRun(x, executor[e])
      PROVE  Fitting(x) /\ Trusted(x)
  BY <1>1, <1>3, <1>5 DEF Fitting, Trusted, Prepared, StillProved, HasRead, SameRun, Routing
<1> QED
  BY <1>1, <1>2, <1>4, <1>5, GoesOn, RunsTyped

LEMMA DeployStep ==
    ASSUME RegionalInv, NEW e \in Executors, Deploy(e)
    PROVE  RegionalInv'
<1>1. /\ executor[e].left = <<"deploy", "settle", "complete">>
      /\ Begun(executor[e]) /\ executor[e].command = "activate_target"
      /\ executor[e].command \in Commands /\ executor[e].transition \in Transitions
  BY AtPlace, Places DEF Deploy, Fitting
<1>2. /\ GoOn(e) /\ UNCHANGED <<journal, route, cell, expired, trespass>>
      /\ stack' \in {"staged", "updating", "active", "rolled_back"}
  BY DEF Deploy
<1> PICK l : l = <<"settle", "complete">>
  OBVIOUS
<1>3. Tail(executor[e].left) = l /\ l \in Lefts /\ l # <<"claim">>
  BY <1>1, Remains DEF Lefts
<1>4. ASSUME NEW x \in Executions, x.left = l /\ SameRun(x, executor[e])
      PROVE  Fitting(x) /\ Trusted(x)
  BY <1>1, <1>4 DEF Fitting, Trusted, Prepared, StillProved, HasRead, SameRun, Routing
<1> QED
  BY <1>1, <1>2, <1>3, <1>4, GoesOn

LEMMA AwaitStackStep ==
    ASSUME RegionalInv, NEW e \in Executors, AwaitStack(e)
    PROVE  RegionalInv'
<1>1. /\ executor[e].left = <<"settle", "complete">>
      /\ Begun(executor[e]) /\ executor[e].command = "activate_target"
      /\ executor[e].command \in Commands /\ executor[e].transition \in Transitions
  BY AtPlace, Places DEF AwaitStack, Fitting
<1>2. GoOn(e) /\ UNCHANGED <<journal, route, cell, stack, expired, trespass>>
  BY DEF AwaitStack
<1> PICK l : l = <<"complete">>
  OBVIOUS
<1>3. Tail(executor[e].left) = l /\ l \in Lefts /\ l # <<"claim">>
  BY <1>1, Remains DEF Lefts
<1>4. ASSUME NEW x \in Executions, x.left = l /\ SameRun(x, executor[e])
      PROVE  Fitting(x) /\ Trusted(x)
  BY <1>1, <1>4 DEF Fitting, Trusted, Prepared, StillProved, HasRead, SameRun, Routing, Fencing
<1> QED
  BY <1>1, <1>2, <1>3, <1>4, GoesOn, RunsTyped

\* What a command has proved when it goes on to complete.
LEMMA ProofHolds ==
    ASSUME NEW x, Proof(x.command, x.transition, x.move)
    PROVE  LET t == x.transition IN
           /\ x.command = "fence_source" => Fenced(Source(t))
           /\ x.command = "fence_failed_target" => Fenced(Target(t))
           /\ x.command = "reconcile_target" => Live(Target(t))
           /\ x.command = "reactivate_source" => Live(Source(t))
           /\ x.command \in Routing => route = x.move.to
<1>1. x.command = "fence_source" => Fenced(Source(x.transition))
  BY DEF Proof
<1>2. x.command = "fence_failed_target" => Fenced(Target(x.transition))
  BY DEF Proof
<1>3. x.command = "reconcile_target" => Live(Target(x.transition))
  BY DEF Proof
<1>4. x.command = "reactivate_source" => Live(Source(x.transition))
  BY DEF Proof
<1>5. x.command \in Routing => route = x.move.to
  BY DEF Proof, Routing
<1> QED
  BY <1>1, <1>2, <1>3, <1>4, <1>5

LEMMA ProveStep ==
    ASSUME RegionalInv, NEW e \in Executors, Prove(e)
    PROVE  RegionalInv'
<1>1. /\ executor[e].left = <<"prove", "complete">>
      /\ Begun(executor[e]) /\ Fitting(executor[e])
      /\ executor[e].command \in Commands /\ executor[e].transition \in Transitions
  BY AtPlace, Places DEF Prove
<1>2. GoOn(e) /\ UNCHANGED <<journal, route, cell, stack, expired, trespass>>
  BY DEF Prove
<1> PICK l : l = <<"complete">>
  OBVIOUS
<1>3. Tail(executor[e].left) = l /\ l \in Lefts /\ l # <<"claim">>
  BY <1>1, Remains DEF Lefts
<1>4. ASSUME NEW x \in Executions, x.left = l /\ SameRun(x, executor[e])
      PROVE  Fitting(x) /\ (~trespass => Trusted(x))
  <2>1. Fitting(x)
    BY <1>1, <1>4 DEF Fitting, SameRun, Routing
  <2>2. ASSUME ~trespass PROVE Prepared(x)
    <3>1. Prepared(executor[e]) /\ HasRead(executor[e])
      BY <1>1, <2>2 DEF RegionalInv, Trusted, HasRead
    <3> QED
      BY <1>4, <3>1 DEF Prepared, SameRun
  <2>3. ASSUME ~trespass PROVE StillProved(x)
    <3>1. Proof(x.command, x.transition, x.move)
      BY <1>4 DEF Prove, SameRun
    <3>2. HasRead(x)
      BY <1>4 DEF HasRead
    <3>3. x.command = "route_target" => x.move.to = TargetRoute(x.transition)
      BY <2>2, <2>3, <3>2 DEF Prepared
    <3>4. x.command = "route_source_rollback" => x.move.to = RollbackRoute(x.transition)
      BY <2>2, <2>3, <3>2 DEF Prepared
    <3> QED
      BY <3>1, <3>3, <3>4, ProofHolds DEF StillProved, Routing
  <2> QED
    BY <2>1, <2>2, <2>3 DEF Trusted
<1> QED
  BY <1>1, <1>2, <1>3, <1>4, GoesOn, RunsTyped

-----------------------------------------------------------------------------
(* The steps of a run that change the journal *)

LEMMA MovedRuns ==
    ASSUME RegionalInv, JournalMoves, NEW e \in Executors, NEW x \in Executions,
           executor' = [executor EXCEPT ![e] = x],
           UNCHANGED <<route, cell, stack, expired, trespass>>,
           Known(x)', ~trespass => Trusted(x)',
           JournalOK', ~trespass => CellsFollow' /\ RouteFollows'
    PROVE  RegionalInv'
<1>1. /\ executor' \in [Executors -> Executions] /\ executor'[e] = x
      /\ \A f \in Executors : f # e => executor'[f] = executor[f]
  BY OneRun DEF RegionalInv
<1>2. Types'
  BY <1>1, JournalGoesOn DEF RegionalInv, Types
<1>3. ASSUME NEW f \in Executors
      PROVE  Known(executor[f])' /\ (~trespass' => Trusted(executor[f])')
  <2>1. CASE f = e
    BY <1>1, <2>1, EachRun
  <2>2. CASE f # e
    <3> PICK y \in Executions : y = executor[f] /\ y = executor'[f]
      BY <1>1, <2>2, RunsTyped
    <3>1. Known(y) /\ (~trespass => Trusted(y))
      BY RunsTyped DEF RegionalInv
    <3>2. Known(y)' /\ (~trespass => Trusted(y)')
      BY <3>1, JournalSpares
    <3> QED
      BY <3>2, EachRun
  <2> QED
    BY <2>1, <2>2
<1> QED
  BY <1>2, <1>3 DEF RegionalInv

LEMMA CellFacts ==
    ASSUME NEW r
    PROVE  /\ Live(r) => Rising(r) /\ Falling(r)
           /\ Fenced(r) => Rising(r) /\ Falling(r)
BY DEF Live, Fenced, Rising, Falling

\* One phase further, after what its command has proved.
LEMMA NextPhase ==
    ASSUME RegionalInv, NEW p \in JournalPhases, Advances(p), Rank[p] = Now + 1,
           UNCHANGED <<route, cell>>,
           ~trespass =>
              /\ Now = 1 => Fenced(Source(journal.transition))
              /\ Now = 5 => Live(Target(journal.transition))
              /\ Now = 9 => route = TargetRoute(journal.transition)
              /\ Now = 11 => Fenced(Target(journal.transition))
              /\ Now = 13 => Live(Source(journal.transition))
              /\ Now = 17 => route = RollbackRoute(journal.transition)
    PROVE  JournalOK' /\ (~trespass => CellsFollow' /\ RouteFollows')
<1>1. /\ journal \in Journals /\ Now \in 0 .. 18 /\ Now > 0
  BY HomeTyped DEF RegionalInv, Types, Advances
<1>2. /\ journal'.phase = p /\ journal'.transition = journal.transition
      /\ journal'.generation = journal.generation
      /\ journal'.active = journal.active /\ journal'.last = journal.last
  BY <1>1 DEF Advances, Journals
<1>3. Now' = Now + 1
  BY <1>2 DEF Now
<1>4. JournalOK'
  <2>1. p # "NONE"
    BY <1>1, Ranks
  <2> QED
    BY <1>1, <1>2, <2>1 DEF RegionalInv, JournalOK
<1>5. /\ HomeRoute' = HomeRoute
      /\ \A r : /\ Fenced(r)' <=> Fenced(r)
                /\ Live(r)' <=> Live(r)
                /\ Rising(r)' <=> Rising(r)
                /\ Falling(r)' <=> Falling(r)
  BY <1>2 DEF HomeRoute, Fenced, Live, Rising, Falling
<1>6. ASSUME ~trespass PROVE CellsFollow'
  <2>1. CellsFollow
    BY <1>6 DEF RegionalInv
  <2> PICK s : s = Source(journal.transition)
    OBVIOUS
  <2> PICK t : t = Target(journal.transition)
    OBVIOUS
  <2>2. /\ Now' \in 2 .. 12 => Fenced(s)
        /\ Now' = 13 => Rising(s)
        /\ Now' > 13 => Live(s)
        /\ Now' = 2 => Fenced(t)
        /\ Now' \in 3 .. 5 => Rising(t)
        /\ Now' \in 6 .. 10 => Live(t)
        /\ Now' = 11 => Falling(t)
        /\ Now' > 11 => Fenced(t)
    BY <1>1, <1>3, <1>6, <2>1, CellFacts DEF CellsFollow
  <2>3. Source(journal.transition)' = s /\ Target(journal.transition)' = t
    BY <1>2
  <2> QED
    BY <1>1, <1>3, <1>5, <2>2, <2>3 DEF CellsFollow
<1>7. ASSUME ~trespass PROVE RouteFollows'
  <2>1. RouteFollows
    BY <1>7 DEF RegionalInv
  <2> QED
    BY <1>1, <1>2, <1>3, <1>5, <1>7, <2>1 DEF RouteFollows
<1> QED
  BY <1>4, <1>6, <1>7

\* A run whose claim is granted begins its work.
LEMMA ClaimedRun ==
    ASSUME RegionalInv, NEW e \in Executors, At(e, "claim"), NEW b \in BOOLEAN, Claimed(e, b)
    PROVE  \E x \in Executions :
              /\ executor' = [executor EXCEPT ![e] = x]
              /\ x.command = executor[e].command /\ x.transition = executor[e].transition
              /\ x.command \in Commands /\ x.transition \in Transitions
              /\ Fitting(x) /\ Begun(x) /\ x.left # <<"complete">>
              /\ HasRead(x) => x.command \notin Routing
<1> PICK c : c = executor[e].command
  OBVIOUS
<1> PICK t : t = executor[e].transition
  OBVIOUS
<1> PICK l : l = Work(c, t) \o <<"complete">>
  OBVIOUS
<1> PICK q : q = IF c \in {"fence_source", "fence_failed_target"}
                 THEN <<"sources", "functions">> ELSE <<"functions", "sources">>
  OBVIOUS
<1> PICK x : x = [executor[e] EXCEPT !.left = l, !.paths = q, !.fresh = b]
  OBVIOUS
<1>1. /\ executor[e] \in Executions /\ c \in Commands /\ t \in Transitions
      /\ executor[e].left # <<>>
  BY RunsTyped, AtPlace
<1>2. l \in Lefts /\ q \in PathQueues
  BY <1>1, WorkBegins DEF PathQueues
<1>3. /\ x \in Executions /\ x.left = l /\ x.command = c /\ x.transition = t
  BY <1>1, <1>2 DEF Executions
<1>4. executor' = [executor EXCEPT ![e] = x]
  BY <1>1 DEF Claimed, RegionalInv, Types
<1>5. Fitting(x)
  <2>1. /\ l # <<>> /\ l # <<"claim">> /\ l # <<"complete">>
        /\ l # <<"change", "prove", "complete">> /\ l # <<"settle", "complete">>
        /\ l # <<"enable", "prove", "complete">> /\ l # <<"deploy", "settle", "complete">>
        /\ l = <<"disable", "prove", "complete">> => c \in Fencing
        /\ l = <<"precheck", "enable", "prove", "complete">> =>
              c \in {"activate_target", "reactivate_source"}
        /\ l = <<"precheck", "deploy", "settle", "complete">> => c = "activate_target"
        /\ l = <<"read", "change", "prove", "complete">> <=> c \in Routing
    BY <1>1, WorkBegins
  <2> QED
    BY <1>1, <1>3, <2>1, Zenon DEF Fitting
<1>6. Begun(x) /\ x.left # <<"complete">>
  BY <1>1, <1>3, WorkBegins DEF Begun
<1>7. HasRead(x) => x.command \notin Routing
  <2>1. c \in Routing => x.left = <<"read", "change", "prove", "complete">>
    BY <1>1, <1>3, WorkBegins
  <2> QED
    BY <1>3, <2>1 DEF HasRead
<1> QED
  BY <1>1, <1>3, <1>4, <1>5, <1>6, <1>7

\* A claim that the journal has already.
LEMMA ClaimedAgain ==
    ASSUME RegionalInv, NEW e \in Executors, At(e, "claim"), NEW b \in BOOLEAN, Claimed(e, b),
           UNCHANGED <<journal, route, cell, stack, expired, trespass>>,
           journal.transition = executor[e].transition,
           Now >= Rank[During(executor[e].command)]
    PROVE  RegionalInv'
<1> PICK x \in Executions :
        /\ executor' = [executor EXCEPT ![e] = x]
        /\ x.command = executor[e].command /\ x.transition = executor[e].transition
        /\ x.command \in Commands /\ x.transition \in Transitions
        /\ Fitting(x) /\ Begun(x) /\ x.left # <<"complete">>
        /\ HasRead(x) => x.command \notin Routing
  BY ClaimedRun
<1>1. Now > 0 /\ journal.generation \in Nat
  BY HomeTyped, RankedPhases DEF RegionalInv
<1>2. GenerationOf[x.transition] \in Nat
  BY <1>1 DEF RegionalInv, JournalOK
<1>3. Known(x)
  BY <1>2 DEF Known, Reached, Behind
<1>4. Trusted(x)
  BY DEF Trusted, Prepared, StillProved, Routing
<1>5. Alone(e, x)
  BY DEF Alone
<1> QED
  BY <1>3, <1>4, <1>5, QuietStep, RunsTyped

\* A claim that the journal grants.
LEMMA ClaimedFirst ==
    ASSUME RegionalInv, JournalMoves, NEW e \in Executors, At(e, "claim"),
           NEW b \in BOOLEAN, Claimed(e, b),
           UNCHANGED <<route, cell, stack, expired, trespass>>,
           journal'.transition = executor[e].transition,
           Now' = Rank[During(executor[e].command)],
           GenerationOf[executor[e].transition] \in Nat,
           JournalOK', ~trespass => CellsFollow' /\ RouteFollows'
    PROVE  RegionalInv'
<1> PICK x \in Executions :
        /\ executor' = [executor EXCEPT ![e] = x]
        /\ x.command = executor[e].command /\ x.transition = executor[e].transition
        /\ x.command \in Commands /\ x.transition \in Transitions
        /\ Fitting(x) /\ Begun(x) /\ x.left # <<"complete">>
        /\ HasRead(x) => x.command \notin Routing
  BY ClaimedRun
<1>1. Fitting(x)' /\ Reached(x)'
  <2>1. Now' >= Rank[During(x.command)]
    BY JournalGoesOn
  <2> QED
    BY <2>1 DEF Reached, Behind, Fitting
<1>2. Known(x)'
  BY <1>1 DEF Known
<1>3. Trusted(x)'
  BY DEF Trusted, Prepared, StillProved, HasRead, Routing
<1> QED
  BY <1>2, <1>3, MovedRuns

LEMMA ClaimSourceFenceStep ==
    ASSUME RegionalInv, NEW e \in Executors, ClaimSourceFence(e)
    PROVE  RegionalInv'
<1> PICK t : t = executor[e].transition
  OBVIOUS
<1>1. /\ At(e, "claim") /\ Claimed(e, FALSE) /\ executor[e].command = "fence_source"
      /\ UNCHANGED <<route, cell, stack, expired, trespass>>
      /\ t \in Transitions /\ journal \in Journals /\ journal.generation \in Nat
  BY AtPlace, HomeTyped DEF ClaimSourceFence, RegionalInv, Types
<1>2. Rank[During(executor[e].command)] = 1
  BY <1>1, WorksIn, Ranks
<1>3. CASE journal.phase \in {"FENCING_SOURCE", "SOURCE_FENCED"} /\ Owns(t) /\ UNCHANGED journal
  <2>1. Now >= 1
    BY <1>3, Ranks DEF Now
  <2> QED
    BY <1>1, <1>2, <1>3, <2>1, ClaimedAgain DEF Owns
<1>4. CASE /\ journal.phase = "STABLE"
           /\ journal.generation = GenerationOf[t]
           /\ journal.active = Source(t)
           /\ journal' = [journal EXCEPT !.phase = "FENCING_SOURCE", !.transition = t]
  <2>1. JournalMoves
    BY <1>1, <1>4 DEF JournalMoves, Claims
  <2>2. /\ journal'.transition = t /\ journal'.phase = "FENCING_SOURCE"
        /\ journal'.generation = journal.generation
        /\ journal'.active = journal.active /\ journal'.last = journal.last
    BY <1>1, <1>4 DEF Journals
  <2>3. Now = 0 /\ Now' = 1
    BY <1>4, <2>2, Ranks DEF Now
  <2>4. JournalOK'
    BY <1>1, <1>4, <2>2 DEF JournalOK
  <2>5. ASSUME ~trespass PROVE CellsFollow'
    <3>1. \A r \in Regions : IF r = Source(t) THEN Live(r) ELSE Fenced(r)
      BY <1>4, <2>3, <2>5 DEF RegionalInv, CellsFollow
    <3>2. Live(Source(t)) /\ Fenced(Target(t))
      BY <3>1, TwoCells
    <3>3. Falling(Source(t))' /\ Fenced(Target(t))'
      BY <1>1, <3>2 DEF Falling, Live, Fenced
    <3> QED
      BY <2>2, <2>3, <3>3 DEF CellsFollow
  <2>6. ASSUME ~trespass PROVE RouteFollows'
    <3>1. route = HomeRoute
      BY <2>3, <2>6 DEF RegionalInv, RouteFollows
    <3> QED
      BY <1>1, <2>2, <2>3, <3>1 DEF RouteFollows, HomeRoute
  <2> QED
    BY <1>1, <1>2, <1>4, <2>1, <2>2, <2>3, <2>4, <2>5, <2>6, ClaimedFirst
<1> QED
  BY <1>3, <1>4 DEF ClaimSourceFence

\* The phases that commands start from are those that ask nothing of a proof.
LEMMA StartRanks ==
    ASSUME NEW c \in Commands, c # "fence_source"
    PROVE  /\ Rank[Before(c)] > 0
           /\ Before(c) # During(c) =>
                 /\ Rank[During(c)] = Rank[Before(c)] + 1
                 /\ Rank[Before(c)] \notin {1, 5, 9, 11, 13, 17}
BY CommandsAre, WorksIn, LeadsFromTo, Ranks

LEMMA ClaimPhaseStep ==
    ASSUME RegionalInv, NEW e \in Executors, ClaimPhase(e)
    PROVE  RegionalInv'
<1> PICK c : c = executor[e].command
  OBVIOUS
<1> PICK t : t = executor[e].transition
  OBVIOUS
<1> PICK b \in BOOLEAN : b = (journal.phase = Before(c))
  OBVIOUS
<1>1. /\ At(e, "claim") /\ c # "fence_source" /\ c \in Commands /\ t \in Transitions
      /\ journal.transition = t /\ journal \in Journals /\ Now \in 0 .. 18
      /\ UNCHANGED <<route, cell, stack, expired, trespass>>
  BY AtPlace, HomeTyped DEF ClaimPhase, RegionalInv, Types, Owns
<1>2. Claimed(e, b)
  BY DEF ClaimPhase
<1>3. CASE journal.phase = During(c) /\ UNCHANGED journal
  <2>1. Now = Rank[During(c)]
    BY <1>3 DEF Now
  <2>2. Now >= Rank[During(c)]
    BY <1>1, <2>1
  <2> QED
    BY <1>1, <1>2, <1>3, <2>2, ClaimedAgain
<1>4. CASE /\ journal.phase = Before(c) /\ Before(c) # During(c)
           /\ journal' = [journal EXCEPT !.phase = During(c)]
  <2>1. /\ Now > 0 /\ Rank[During(c)] = Now + 1 /\ Now \notin {1, 5, 9, 11, 13, 17}
        /\ During(c) \in JournalPhases
    BY <1>1, <1>4, StartRanks, RankedPhases DEF Now
  <2>2. Advances(During(c))
    BY <1>1, <1>4, <2>1 DEF Advances
  <2>3. JournalMoves
    BY <2>1, <2>2 DEF JournalMoves
  <2>4. JournalOK' /\ (~trespass => CellsFollow' /\ RouteFollows')
    BY <1>1, <2>1, <2>2, NextPhase
  <2>5. journal'.transition = t /\ journal'.phase = During(c)
    BY <1>1, <1>4 DEF Journals
  <2>6. Now' = Rank[During(c)]
    BY <2>5 DEF Now
  <2>7. GenerationOf[t] \in Nat
    BY <1>1, <2>1, HomeTyped DEF RegionalInv, JournalOK
  <2> QED
    BY <1>1, <1>2, <2>3, <2>4, <2>5, <2>6, <2>7, ClaimedFirst
<1>5. CASE /\ journal.phase = Before(c) /\ Before(c) = During(c)
           /\ journal' = [journal EXCEPT !.phase = During(c)]
  <2>1. journal' = journal
    BY <1>1, <1>5 DEF Journals
  <2> QED
    BY <1>3, <1>5, <2>1
<1> QED
  BY <1>3, <1>4, <1>5 DEF ClaimPhase

\* What a command has to have proved to leave its phase, by the phase.
LEMMA EndRanks ==
    ASSUME NEW c \in Commands
    PROVE  /\ Rank[During(c)] = 1 => c = "fence_source"
           /\ Rank[During(c)] = 5 => c = "reconcile_target"
           /\ Rank[During(c)] = 9 => c = "route_target"
           /\ Rank[During(c)] = 11 => c = "fence_failed_target"
           /\ Rank[During(c)] = 13 => c = "reactivate_source"
           /\ Rank[During(c)] = 17 => c = "route_source_rollback"
BY CommandsAre, WorksIn, Ranks

LEMMA AdvancePhaseStep ==
    ASSUME RegionalInv, NEW e \in Executors, AdvancePhase(e)
    PROVE  RegionalInv'
<1> PICK c : c = executor[e].command
  OBVIOUS
<1> PICK t : t = executor[e].transition
  OBVIOUS
<1>1. /\ executor[e].left = <<"complete">> /\ executor[e].left # <<>>
      /\ c \in Commands /\ t \in Transitions /\ After(c) # "STABLE"
      /\ journal.transition = t /\ journal.phase = During(c)
      /\ journal' = [journal EXCEPT !.phase = After(c)]
      /\ executor' = [executor EXCEPT ![e] = IdleExecutor]
      /\ UNCHANGED <<route, cell, stack, expired, trespass>>
  BY AtPlace, Places DEF AdvancePhase, Owns, Ended
<1>2. /\ After(c) \in JournalPhases /\ Now = Rank[During(c)] /\ Now > 0
      /\ Rank[After(c)] = Now + 1 /\ Now \in 0 .. 18
  BY <1>1, RankedPhases, HomeTyped DEF Now, RegionalInv
<1>3. Advances(After(c))
  BY <1>1, <1>2 DEF Advances
<1>4. JournalMoves
  BY <1>2, <1>3 DEF JournalMoves
<1>5. ASSUME ~trespass
      PROVE  /\ Now = 1 => Fenced(Source(journal.transition))
             /\ Now = 5 => Live(Target(journal.transition))
             /\ Now = 9 => route = TargetRoute(journal.transition)
             /\ Now = 11 => Fenced(Target(journal.transition))
             /\ Now = 13 => Live(Source(journal.transition))
             /\ Now = 17 => route = RollbackRoute(journal.transition)
  <2>1. StillProved(executor[e])
    BY <1>5 DEF RegionalInv, Trusted
  <2>2. /\ c = "fence_source" => Fenced(Source(t))
        /\ c = "fence_failed_target" => Fenced(Target(t))
        /\ c = "reconcile_target" => Live(Target(t))
        /\ c = "reactivate_source" => Live(Source(t))
        /\ c = "route_target" => route = TargetRoute(t)
        /\ c = "route_source_rollback" => route = RollbackRoute(t)
    BY <1>1, <2>1 DEF StillProved
  <2>3. /\ Now = 1 => c = "fence_source"
        /\ Now = 5 => c = "reconcile_target"
        /\ Now = 9 => c = "route_target"
        /\ Now = 11 => c = "fence_failed_target"
        /\ Now = 13 => c = "reactivate_source"
        /\ Now = 17 => c = "route_source_rollback"
    BY <1>1, <1>2, EndRanks
  <2> QED
    BY <1>1, <2>2, <2>3
<1>6. JournalOK' /\ (~trespass => CellsFollow' /\ RouteFollows')
  BY <1>1, <1>2, <1>3, <1>5, NextPhase
<1>7. Known(IdleExecutor)' /\ Trusted(IdleExecutor)'
  BY IdleIsKnown DEF Known, Trusted, Fitting, Reached, Behind, Prepared, StillProved, HasRead, Begun
<1> QED
  BY <1>1, <1>4, <1>6, <1>7, IdleIsKnown, MovedRuns

\* The journal is settled on a Region that runs alone and is served.
LEMMA SettledOn ==
    ASSUME RegionalInv, NEW t \in Transitions, NEW r \in Regions, NEW g \in Nat,
           journal' = Settled(r, g, t), g > journal.generation, Now > 0,
           Now > 10 => g > journal.generation + 1,
           UNCHANGED <<route, cell, trespass>>,
           ~trespass => /\ route = Marked(r, g, t)
                        /\ \A q \in Regions : IF q = r THEN Live(q) ELSE Fenced(q)
    PROVE  JournalMoves /\ JournalOK' /\ (~trespass => CellsFollow' /\ RouteFollows')
<1>1. /\ journal' \in Journals /\ journal'.phase = "STABLE" /\ journal'.active = r
      /\ journal'.generation = g /\ journal'.last = t
  BY PhasesAre DEF Settled, Journals
<1>2. Now' = 0
  BY <1>1, Ranks DEF Now
<1>3. JournalMoves
  <2>1. journal.generation \in Nat
    BY HomeTyped DEF RegionalInv
  <2> QED
    BY <1>1, <1>2, <2>1 DEF JournalMoves, Settles
<1>4. JournalOK'
  BY <1>1, <1>2 DEF JournalOK
<1>5. ASSUME ~trespass PROVE CellsFollow'
  <2>1. \A q \in Regions : IF q = r THEN Live(q)' ELSE Fenced(q)'
    BY <1>5 DEF Live, Fenced
  <2> QED
    BY <1>1, <1>2, <2>1 DEF CellsFollow
<1>6. ASSUME ~trespass PROVE RouteFollows'
  BY <1>1, <1>2, <1>6 DEF RouteFollows, HomeRoute
<1> QED
  BY <1>3, <1>4, <1>5, <1>6

LEMMA CompleteTransitionStep ==
    ASSUME RegionalInv, NEW e \in Executors, CompleteTransition(e)
    PROVE  RegionalInv'
<1> PICK t : t = executor[e].transition
  OBVIOUS
<1>1. /\ t \in Transitions /\ journal.transition = t
      /\ journal.phase = "VERIFYING_STABLE_ROUTE"
      /\ journal' = Settled(Target(t), GenerationOf[t] + 1, t)
      /\ executor' = [executor EXCEPT ![e] = IdleExecutor]
      /\ UNCHANGED <<route, cell, stack, expired, trespass>>
  BY AtPlace DEF CompleteTransition, Owns, Ended
<1>2. Now = 10 /\ journal.generation \in Nat
  BY <1>1, Ranks, HomeTyped DEF Now, RegionalInv
<1>3. journal.generation = GenerationOf[t]
  BY <1>1, <1>2 DEF RegionalInv, JournalOK
<1>4. ASSUME ~trespass
      PROVE  /\ route = Marked(Target(t), GenerationOf[t] + 1, t)
             /\ \A q \in Regions : IF q = Target(t) THEN Live(q) ELSE Fenced(q)
  <2>1. Fenced(Source(t)) /\ Live(Target(t)) /\ route = TargetRoute(t)
    BY <1>1, <1>2, <1>4 DEF RegionalInv, CellsFollow, RouteFollows
  <2> QED
    BY <2>1, TwoCells DEF TargetRoute
<1>5. JournalMoves /\ JournalOK' /\ (~trespass => CellsFollow' /\ RouteFollows')
  <2>1. /\ Target(t) \in Regions /\ GenerationOf[t] + 1 \in Nat
        /\ GenerationOf[t] + 1 > journal.generation /\ Now > 0
        /\ Now > 10 => GenerationOf[t] + 1 > journal.generation + 1
    BY <1>2, <1>3, TwoCells
  <2> QED
    BY <1>1, <1>4, <2>1, SettledOn
<1>6. Known(IdleExecutor)' /\ Trusted(IdleExecutor)'
  BY IdleIsKnown DEF Known, Trusted, Fitting, Reached, Behind, Prepared, StillProved, HasRead, Begun
<1> QED
  BY <1>1, <1>5, <1>6, IdleIsKnown, MovedRuns

LEMMA CompleteRollbackStep ==
    ASSUME RegionalInv, NEW e \in Executors, CompleteRollback(e)
    PROVE  RegionalInv'
<1> PICK t : t = executor[e].transition
  OBVIOUS
<1>1. /\ t \in Transitions /\ journal.transition = t
      /\ journal.phase = "VERIFYING_SOURCE_ROLLBACK"
      /\ journal' = Settled(Source(t), GenerationOf[t] + 2, t)
      /\ executor' = [executor EXCEPT ![e] = IdleExecutor]
      /\ UNCHANGED <<route, cell, stack, expired, trespass>>
  BY AtPlace DEF CompleteRollback, Owns, Ended
<1>2. Now = 18 /\ journal.generation \in Nat
  BY <1>1, Ranks, HomeTyped DEF Now, RegionalInv
<1>3. journal.generation = GenerationOf[t]
  BY <1>1, <1>2 DEF RegionalInv, JournalOK
<1>4. ASSUME ~trespass
      PROVE  /\ route = Marked(Source(t), GenerationOf[t] + 2, t)
             /\ \A q \in Regions : IF q = Source(t) THEN Live(q) ELSE Fenced(q)
  <2>1. Fenced(Target(t)) /\ Live(Source(t)) /\ route = RollbackRoute(t)
    BY <1>1, <1>2, <1>4 DEF RegionalInv, CellsFollow, RouteFollows
  <2> QED
    BY <2>1, TwoCells DEF RollbackRoute
<1>5. JournalMoves /\ JournalOK' /\ (~trespass => CellsFollow' /\ RouteFollows')
  <2>1. /\ Source(t) \in Regions /\ GenerationOf[t] + 2 \in Nat
        /\ GenerationOf[t] + 2 > journal.generation /\ Now > 0
        /\ Now > 10 => GenerationOf[t] + 2 > journal.generation + 1
    BY <1>2, <1>3, TwoCells
  <2> QED
    BY <1>1, <1>4, <2>1, SettledOn
<1>6. Known(IdleExecutor)' /\ Trusted(IdleExecutor)'
  BY IdleIsKnown DEF Known, Trusted, Fitting, Reached, Behind, Prepared, StillProved, HasRead, Begun
<1> QED
  BY <1>1, <1>5, <1>6, IdleIsKnown, MovedRuns

LEMMA InitializeJournalStep ==
    ASSUME RegionalInv, NEW t \in Transitions, InitializeJournal(t)
    PROVE  RegionalInv'
<1>1. /\ journal = NewJournal("NONE") /\ journal' = NewJournal("STABLE")
      /\ UNCHANGED <<route, cell, stack, expired, executor, trespass>>
  BY DEF InitializeJournal, RegionalInv, JournalOK
<1>2. /\ journal' \in Journals /\ journal'.phase = "STABLE"
      /\ journal.phase = "NONE"
      /\ journal'.generation = journal.generation /\ journal.generation = 0
      /\ journal'.active = journal.active /\ journal'.last = journal.last
  BY <1>1, PhasesAre DEF NewJournal, Journals, Regions
<1>3. Now = 0 /\ Now' = 0
  BY <1>2, Ranks DEF Now
<1>4. JournalMoves
  BY <1>2, <1>3 DEF JournalMoves, Settles
<1>5. JournalOK'
  BY <1>2, <1>3 DEF JournalOK
<1>6. ASSUME ~trespass PROVE CellsFollow' /\ RouteFollows'
  <2>1. /\ \A r \in Regions : IF r = journal.active THEN Live(r) ELSE Fenced(r)
        /\ route = HomeRoute
    BY <1>3, <1>6 DEF RegionalInv, CellsFollow, RouteFollows
  <2>2. \A r \in Regions : IF r = journal'.active THEN Live(r)' ELSE Fenced(r)'
    BY <1>1, <1>2, <2>1 DEF Live, Fenced
  <2>3. route' = HomeRoute'
    BY <1>1, <1>2, <2>1 DEF HomeRoute
  <2> QED
    BY <1>3, <2>2, <2>3 DEF CellsFollow, RouteFollows
<1>7. ASSUME NEW f \in Executors
      PROVE  Known(executor[f])' /\ (~trespass' => Trusted(executor[f])')
  <2> PICK y \in Executions : y = executor[f] /\ y = executor'[f]
    BY <1>1, RunsTyped
  <2>1. Known(y) /\ (~trespass => Trusted(y))
    BY RunsTyped DEF RegionalInv
  <2>2. Known(y)' /\ (~trespass' => Trusted(y)')
    BY <1>1, <1>4, <2>1, JournalSpares
  <2> QED
    BY <2>2, EachRun
<1> QED
  BY <1>1, <1>2, <1>5, <1>6, <1>7 DEF RegionalInv, Types

-----------------------------------------------------------------------------
(* The steps that change the cells or the DNS *)

LEMMA WorldStep ==
    ASSUME RegionalInv, journal' = journal, Types',
           \A f \in Executors : \E y \in Executions :
              y = executor'[f] /\ Known(y) /\ (~trespass' => Trusted(y)'),
           ~trespass' => CellsFollow' /\ RouteFollows'
    PROVE  RegionalInv'
<1>1. ASSUME NEW f \in Executors
      PROVE  Known(executor[f])' /\ (~trespass' => Trusted(executor[f])')
  <2> PICK y \in Executions : y = executor'[f] /\ Known(y) /\ (~trespass' => Trusted(y)')
    OBVIOUS
  <2>1. Known(y)'
    BY DEF Known, Fitting, Reached, Behind, Begun, Now
  <2> QED
    BY <2>1, EachRun
<1>2. JournalOK'
  BY DEF RegionalInv, JournalOK, Now, NewJournal
<1> QED
  BY <1>1, <1>2 DEF RegionalInv

LEMMA RunsStay ==
    ASSUME RegionalInv, executor' = executor, NEW f \in Executors
    PROVE  \E y \in Executions :
              /\ y = executor'[f] /\ y = executor[f] /\ Known(y)
              /\ ~trespass => Trusted(y)
BY RunsTyped DEF RegionalInv

\* What was said of the cells is still so.
CellsKeep ==
    \A r \in Regions : /\ Fenced(r) => Fenced(r)'
                       /\ Live(r) => Live(r)'
                       /\ Falling(r) => Falling(r)'
                       /\ Rising(r) => Rising(r)'

LEMMA KeptCells ==
    ASSUME RegionalInv, CellsKeep, ~trespass, UNCHANGED <<journal, route>>
    PROVE  /\ CellsFollow' /\ RouteFollows'
           /\ \A y : Trusted(y) => Trusted(y)'
<1>1. CellsFollow /\ RouteFollows
  BY DEF RegionalInv
<1> PICK s \in Regions : s = Source(journal.transition)
  BY TwoCells
<1> PICK t \in Regions : t = Target(journal.transition)
  BY TwoCells
<1>2. Source(journal.transition)' = s /\ Target(journal.transition)' = t /\ Now' = Now
  BY DEF Now
<1>3. /\ Now = 0 => \A r \in Regions : IF r = journal.active THEN Live(r)' ELSE Fenced(r)'
      /\ Now = 1 => Falling(s)'
      /\ Now \in 2 .. 12 => Fenced(s)'
      /\ Now = 13 => Rising(s)'
      /\ Now > 13 => Live(s)'
      /\ Now \in 1 .. 2 => Fenced(t)'
      /\ Now \in 3 .. 5 => Rising(t)'
      /\ Now \in 6 .. 10 => Live(t)'
      /\ Now = 11 => Falling(t)'
      /\ Now > 11 => Fenced(t)'
  BY <1>1 DEF CellsFollow, CellsKeep
<1>4. CellsFollow'
  BY <1>2, <1>3 DEF CellsFollow
<1>5. RouteFollows'
  BY <1>1 DEF RouteFollows, HomeRoute, Now
<1>6. ASSUME NEW y, Trusted(y) PROVE Trusted(y)'
  <2>1. Prepared(y)'
    BY <1>6 DEF Trusted, Prepared, HasRead, HomeRoute, Now
  <2> PICK w \in Regions : w = Source(y.transition)
    BY TwoCells
  <2> PICK z \in Regions : z = Target(y.transition)
    BY TwoCells
  <2>2. (Fenced(w) => Fenced(w)') /\ (Fenced(z) => Fenced(z)')
        /\ (Live(w) => Live(w)') /\ (Live(z) => Live(z)')
    BY DEF CellsKeep
  <2>3. StillProved(y)'
    BY <1>6, <2>2 DEF Trusted, StillProved
  <2> QED
    BY <2>1, <2>3 DEF Trusted
<1> QED
  BY <1>4, <1>5, <1>6

\* AWS Lambda ends what was asked of it: a path that is on or off stays so.
LEMMA SourcesSettleStep ==
    ASSUME RegionalInv, NEW r \in Regions, SourcesSettle(r)
    PROVE  RegionalInv'
<1> PICK v \in {"on", "off"} : v = IF cell[r]["sources"] = "starting" THEN "on" ELSE "off"
  OBVIOUS
<1>1. /\ cell[r]["sources"] \in {"starting", "stopping"}
      /\ cell' = [cell EXCEPT ![r]["sources"] = v]
      /\ cell \in [Regions -> [Paths -> States]]
      /\ UNCHANGED <<journal, route, stack, expired, executor, trespass>>
  BY DEF SourcesSettle, RegionalInv, Types
<1>2. /\ cell' \in [Regions -> [Paths -> States]]
      /\ \A q \in Regions, p \in Paths :
            cell'[q][p] = IF q = r /\ p = "sources" THEN v ELSE cell[q][p]
  BY <1>1 DEF Paths, States
<1>3. CellsKeep
  <2>1. ASSUME NEW q \in Regions
        PROVE  /\ Fenced(q) => Fenced(q)'
               /\ Live(q) => Live(q)'
               /\ Falling(q) => Falling(q)'
               /\ Rising(q) => Rising(q)'
    BY <1>1, <1>2 DEF Fenced, Live, Falling, Rising, Paths
  <2> QED
    BY <2>1 DEF CellsKeep
<1>4. Types'
  BY <1>1, <1>2 DEF RegionalInv, Types
<1>5. ~trespass' => CellsFollow' /\ RouteFollows'
  BY <1>1, <1>3, KeptCells
<1>6. ASSUME NEW f \in Executors
      PROVE  \E y \in Executions :
                y = executor'[f] /\ Known(y) /\ (~trespass' => Trusted(y)')
  BY <1>1, <1>3, RunsStay, KeptCells
<1> QED
  BY <1>1, <1>4, <1>5, <1>6, WorldStep

\* The recovery Region may come and go while it is activated.
LEMMA RecoveryChanges ==
    ASSUME RegionalInv, ActivatesRecovery, ~trespass, UNCHANGED <<journal, route>>,
           NEW v \in {"on", "off"}, cell' = [cell EXCEPT !["recovery"] = All(v)]
    PROVE  /\ CellsFollow' /\ RouteFollows'
           /\ \A y \in Executions : Known(y) /\ Trusted(y) => Trusted(y)'
<1>1. /\ CellsFollow /\ RouteFollows /\ journal.phase = "ACTIVATING_TARGET"
      /\ cell \in [Regions -> [Paths -> States]]
  BY DEF RegionalInv, ActivatesRecovery, Types
<1>2. Now = 3 /\ Now' = 3
  BY <1>1, Ranks DEF Now
<1> PICK s \in Regions : s = Source(journal.transition)
  BY TwoCells
<1>3. Target(journal.transition) = "recovery" /\ s = "primary" /\ "recovery" \in Regions
  BY TwoCells DEF ActivatesRecovery, Source, Target, Regions
<1>4. /\ cell'["primary"] = cell["primary"]
      /\ \A p \in Paths : cell'["recovery"][p] = v
  BY <1>1, <1>3 DEF All, Regions
<1>5. Fenced("primary")' /\ Rising("recovery")'
  <2>1. Fenced("primary")
    BY <1>1, <1>2, <1>3 DEF CellsFollow
  <2> QED
    BY <1>4, <2>1 DEF Fenced, Rising
<1>6. CellsFollow'
  <2>1. Source(journal.transition)' = "primary" /\ Target(journal.transition)' = "recovery"
    BY <1>3
  <2> QED
    BY <1>2, <1>5, <2>1 DEF CellsFollow
<1>7. RouteFollows'
  BY <1>1 DEF RouteFollows, HomeRoute, Now
<1>8. ASSUME NEW y \in Executions, Known(y), Trusted(y) PROVE Trusted(y)'
  <2>1. Prepared(y)'
    BY <1>8 DEF Trusted, Prepared, HasRead, HomeRoute, Now
  <2>2. y.left # <<>> => y.command \in Commands
    BY <1>8 DEF Known, Fitting
  <2>3. y.left = <<"complete">> /\ journal.phase = During(y.command) =>
           y.command = "activate_target"
    <3>1. <<"complete">> # <<>>
      OBVIOUS
    <3> QED
      BY <1>1, <2>2, <3>1, CommandsAre, WorksIn
  <2>4. StillProved(y)'
    BY <2>3 DEF StillProved
  <2> QED
    BY <2>1, <2>4 DEF Trusted
<1> QED
  BY <1>6, <1>7, <1>8

LEMMA CellsStay ==
    ASSUME cell' = cell
    PROVE  CellsKeep
BY DEF CellsKeep, Fenced, Live, Falling, Rising

LEMMA RecoveryTyped ==
    ASSUME RegionalInv, NEW v \in {"on", "off"}, cell' = [cell EXCEPT !["recovery"] = All(v)]
    PROVE  cell' \in [Regions -> [Paths -> States]]
<1>1. All(v) \in [Paths -> States] /\ cell \in [Regions -> [Paths -> States]]
  BY DEF All, States, RegionalInv, Types
<1> QED
  BY <1>1

LEMMA UpdateEndsStep ==
    ASSUME RegionalInv, UpdateEnds
    PROVE  RegionalInv'
<1>1. UNCHANGED <<journal, route, expired, executor>>
  BY DEF UpdateEnds
<1>2. CASE /\ stack' = "active"
           /\ cell' = [cell EXCEPT !["recovery"] = All("on")]
           /\ trespass' = (trespass \/ ~ActivatesRecovery)
  <2>1. Types'
    <3>1. cell' \in [Regions -> [Paths -> States]] /\ trespass' \in BOOLEAN
      BY <1>2, RecoveryTyped
    <3> QED
      BY <1>1, <1>2, <3>1 DEF RegionalInv, Types
  <2>2. ~trespass' => ~trespass /\ ActivatesRecovery
    BY <1>2
  <2>3. ~trespass' => CellsFollow' /\ RouteFollows'
    BY <1>1, <1>2, <2>2, RecoveryChanges
  <2>4. ASSUME NEW f \in Executors
        PROVE  \E y \in Executions :
                  y = executor'[f] /\ Known(y) /\ (~trespass' => Trusted(y)')
    BY <1>1, <1>2, <2>2, RunsStay, RecoveryChanges
  <2> QED
    BY <1>1, <2>1, <2>3, <2>4, WorldStep
<1>3. CASE stack' = "rolled_back" /\ UNCHANGED <<cell, trespass>>
  <2>1. Types'
    BY <1>1, <1>3 DEF RegionalInv, Types
  <2>2. CellsKeep
    BY <1>3, CellsStay
  <2>3. ~trespass' => CellsFollow' /\ RouteFollows'
    BY <1>1, <1>3, <2>2, KeptCells
  <2>4. ASSUME NEW f \in Executors
        PROVE  \E y \in Executions :
                  y = executor'[f] /\ Known(y) /\ (~trespass' => Trusted(y)')
    BY <1>1, <1>3, <2>2, RunsStay, KeptCells
  <2> QED
    BY <1>1, <2>1, <2>3, <2>4, WorldStep
<1> QED
  BY <1>2, <1>3 DEF UpdateEnds

LEMMA RestageStep ==
    ASSUME RegionalInv, Restage
    PROVE  RegionalInv'
<1>1. /\ UNCHANGED <<journal, route, expired, executor>> /\ stack' = "staged"
      /\ trespass' = (trespass \/ (cell' # cell /\ ~ActivatesRecovery))
      /\ cell' = [cell EXCEPT !["recovery"] = IF stack = "active" THEN All("off") ELSE @]
      /\ cell \in [Regions -> [Paths -> States]]
  BY DEF Restage, RegionalInv, Types
<1>2. trespass' \in BOOLEAN /\ (~trespass' => ~trespass)
  BY <1>1 DEF RegionalInv, Types
<1>3. cell' = cell \/ cell' = [cell EXCEPT !["recovery"] = All("off")]
  BY <1>1
<1>4. Types'
  <2>1. cell' \in [Regions -> [Paths -> States]]
    BY <1>1, <1>3, RecoveryTyped
  <2> QED
    BY <1>1, <1>2, <2>1 DEF RegionalInv, Types
<1>5. CASE cell' = cell
  <2>1. CellsKeep
    BY <1>5, CellsStay
  <2>2. ~trespass' => CellsFollow' /\ RouteFollows'
    BY <1>1, <1>2, <2>1, KeptCells
  <2>3. ASSUME NEW f \in Executors
        PROVE  \E y \in Executions :
                  y = executor'[f] /\ Known(y) /\ (~trespass' => Trusted(y)')
    BY <1>1, <1>2, <2>1, RunsStay, KeptCells
  <2> QED
    BY <1>1, <1>4, <2>2, <2>3, WorldStep
<1>6. CASE cell' # cell
  <2>1. ~trespass' => ~trespass /\ ActivatesRecovery
    BY <1>1, <1>6
  <2>2. cell' = [cell EXCEPT !["recovery"] = All("off")]
    BY <1>3, <1>6
  <2>3. ~trespass' => CellsFollow' /\ RouteFollows'
    BY <1>1, <2>1, <2>2, RecoveryChanges
  <2>4. ASSUME NEW f \in Executors
        PROVE  \E y \in Executions :
                  y = executor'[f] /\ Known(y) /\ (~trespass' => Trusted(y)')
    BY <1>1, <2>1, <2>2, RunsStay, RecoveryChanges
  <2> QED
    BY <1>1, <1>4, <2>3, <2>4, WorldStep
<1> QED
  BY <1>5, <1>6

\* What a command in its phase does to a path of its cell.
LEMMA PathChanges ==
    ASSUME RegionalInv, ~trespass, UNCHANGED <<journal, route>>,
           NEW e \in Executors, InPhase(e),
           At(e, "disable") \/ At(e, "enable"),
           NEW p \in Paths, NEW v \in States, cell[CellOf(e)][p] \in {"on", "off"},
           v = Changed(p, cell[CellOf(e)][p], IF At(e, "disable") THEN "off" ELSE "on"),
           cell' = [cell EXCEPT ![CellOf(e)][p] = v], cell' # cell
    PROVE  /\ CellsFollow' /\ RouteFollows'
           /\ \A y \in Executions : Known(y) /\ Trusted(y) => Trusted(y)'
<1> PICK c : c = executor[e].command
  OBVIOUS
<1> PICK s \in Regions : s = Source(journal.transition)
  BY TwoCells
<1> PICK t \in Regions : t = Target(journal.transition)
  BY TwoCells
<1> PICK r \in Regions : r = CellOf(e)
  BY TwoCells DEF CellOf
<1>1. /\ CellsFollow /\ RouteFollows /\ cell \in [Regions -> [Paths -> States]]
      /\ journal.phase = During(c) /\ c \in Commands /\ s # t
      /\ journal.transition = executor[e].transition
  BY AtPlace, TwoCells DEF RegionalInv, InPhase, Types
<1>2. /\ \A q \in Regions, w \in Paths :
            cell'[q][w] = IF q = r /\ w = p THEN v ELSE cell[q][w]
  BY <1>1
<1>3. v # cell[r][p]
  BY <1>1
<1>4. \/ At(e, "disable") /\ c \in Fencing /\ cell[r][p] = "on" /\ v \in {"off", "stopping"}
      \/ At(e, "enable") /\ c \in {"activate_target", "reactivate_source"}
         /\ cell[r][p] = "off" /\ v \in {"on", "starting"}
  <2>1. CASE At(e, "disable")
    <3>1. c \in Fencing
      BY <2>1, AtPlace, Places DEF Fitting
    <3>2. v = Changed(p, cell[r][p], "off")
      BY <2>1
    <3> QED
      BY <1>3, <2>1, <3>1, <3>2 DEF Changed, Paths
  <2>2. CASE ~At(e, "disable") /\ At(e, "enable")
    <3>1. c \in {"activate_target", "reactivate_source"}
      BY <2>2, AtPlace, Places DEF Fitting
    <3>2. v = Changed(p, cell[r][p], "on")
      BY <2>2
    <3> QED
      BY <1>3, <2>2, <3>1, <3>2 DEF Changed, Paths
  <2> QED
    BY <2>1, <2>2
<1>5. /\ c = "fence_source" => Now = 1 /\ r = s
      /\ c = "activate_target" => Now = 3 /\ r = t
      /\ c = "fence_failed_target" => Now = 11 /\ r = t
      /\ c = "reactivate_source" => Now = 13 /\ r = s
  <2>1. r = IF c \in {"fence_source", "reactivate_source"} THEN s ELSE t
    BY <1>1 DEF CellOf
  <2>2. Now = Rank[During(c)]
    BY <1>1 DEF Now
  <2>3. CASE c = "fence_source"
    BY <2>1, <2>2, <2>3, WorksIn, Ranks
  <2>4. CASE c = "activate_target"
    BY <2>1, <2>2, <2>4, WorksIn, Ranks
  <2>5. CASE c = "fence_failed_target"
    BY <2>1, <2>2, <2>5, WorksIn, Ranks
  <2>6. CASE c = "reactivate_source"
    BY <2>1, <2>2, <2>6, WorksIn, Ranks
  <2> QED
    BY <2>3, <2>4, <2>5, <2>6
<1>6. c \in {"fence_source", "activate_target", "fence_failed_target", "reactivate_source"}
  BY <1>4 DEF Fencing
<1>7. \A q \in Regions : q # r => /\ Fenced(q) => Fenced(q)'
                                  /\ Live(q) => Live(q)'
  BY <1>2 DEF Fenced, Live
<1>8. /\ c \in Fencing => (Falling(r) => Falling(r)')
      /\ c \in {"activate_target", "reactivate_source"} => (Rising(r) => Rising(r)')
  BY <1>2, <1>4 DEF Falling, Rising, Fencing
<1>9. Source(journal.transition)' = s /\ Target(journal.transition)' = t /\ Now' = Now
  BY DEF Now
<1>10. CellsFollow'
  <2>1. CASE c = "fence_source"
    <3>1. Falling(s)' /\ Fenced(t)'
      BY <1>1, <1>5, <1>7, <1>8, <2>1 DEF CellsFollow, Fencing
    <3> QED
      BY <1>5, <1>9, <2>1, <3>1 DEF CellsFollow
  <2>2. CASE c = "activate_target"
    <3>1. Fenced(s)' /\ Rising(t)'
      BY <1>1, <1>5, <1>7, <1>8, <2>2 DEF CellsFollow
    <3> QED
      BY <1>5, <1>9, <2>2, <3>1 DEF CellsFollow
  <2>3. CASE c = "fence_failed_target"
    <3>1. Fenced(s)' /\ Falling(t)'
      BY <1>1, <1>5, <1>7, <1>8, <2>3 DEF CellsFollow, Fencing
    <3> QED
      BY <1>5, <1>9, <2>3, <3>1 DEF CellsFollow
  <2>4. CASE c = "reactivate_source"
    <3>1. Rising(s)' /\ Fenced(t)'
      BY <1>1, <1>5, <1>7, <1>8, <2>4 DEF CellsFollow
    <3> QED
      BY <1>5, <1>9, <2>4, <3>1 DEF CellsFollow
  <2> QED
    BY <1>6, <2>1, <2>2, <2>3, <2>4
<1>11. RouteFollows'
  BY <1>1 DEF RouteFollows, HomeRoute, Now
<1>12. ASSUME NEW y \in Executions, Known(y), Trusted(y) PROVE Trusted(y)'
  <2>1. Prepared(y)'
    BY <1>12 DEF Trusted, Prepared, HasRead, HomeRoute, Now
  <2>2. CASE /\ y.left = <<"complete">> /\ journal.transition = y.transition
             /\ journal.phase = During(y.command)
    <3>1. <<"complete">> # <<>>
      OBVIOUS
    <3>2. y.command = c
      BY <1>1, <1>12, <2>2, <3>1, RankedPhases DEF Known, Fitting
    <3>3. /\ c = "fence_source" => Fenced(r)
          /\ c = "fence_failed_target" => Fenced(r)
          /\ c = "reactivate_source" => Live(r)
      BY <1>5, <1>12, <2>2, <3>2 DEF Trusted, StillProved
    <3>4. /\ c \in Fencing => ~Fenced(r)
          /\ c = "reactivate_source" => ~Live(r)
      BY <1>4 DEF Fenced, Live, Fencing
    <3>5. c = "activate_target"
      BY <1>6, <3>3, <3>4 DEF Fencing
    <3> QED
      BY <2>1, <3>2, <3>5 DEF Trusted, StillProved
  <2>3. CASE ~ (/\ y.left = <<"complete">> /\ journal.transition = y.transition
                /\ journal.phase = During(y.command))
    BY <2>1, <2>3 DEF Trusted, StillProved
  <2> QED
    BY <2>2, <2>3
<1> QED
  BY <1>10, <1>11, <1>12

\* A run that has only gone on with its paths is known and trusted as before.
LEMMA PathRun ==
    ASSUME NEW x \in Executions, NEW y \in Executions, y.left = x.left, SameRun(y, x)
    PROVE  (Known(x) => Known(y)) /\ (Trusted(x) => Trusted(y))
BY DEF Known, Trusted, Fitting, Reached, Behind, Prepared, StillProved, HasRead, Begun, SameRun

LEMMA PathsLeft ==
    ASSUME NEW q \in PathQueues, q # <<>>
    PROVE  Head(q) \in Paths /\ Tail(q) \in PathQueues
<1>1. CASE q \in {<<"sources">>, <<"functions">>}
  <2>1. Tail(<<"sources">>) = <<>> /\ Head(<<"sources">>) = "sources"
    OBVIOUS
  <2>2. Tail(<<"functions">>) = <<>> /\ Head(<<"functions">>) = "functions"
    OBVIOUS
  <2> QED
    BY <1>1, <2>1, <2>2 DEF PathQueues, Paths
<1>2. CASE q = <<"sources", "functions">>
  <2>1. Tail(q) = <<"functions">>
    BY <1>2
  <2> QED
    BY <1>2, <2>1 DEF PathQueues, Paths
<1>3. CASE q = <<"functions", "sources">>
  <2>1. Tail(q) = <<"sources">>
    BY <1>3
  <2> QED
    BY <1>3, <2>1 DEF PathQueues, Paths
<1> QED
  BY <1>1, <1>2, <1>3 DEF PathQueues

LEMMA ChangePathStep ==
    ASSUME RegionalInv, NEW e \in Executors, ChangePath(e)
    PROVE  RegionalInv'
<1> PICK x \in Executions : x = executor[e]
  BY RunsTyped
<1> PICK p : p = Head(x.paths)
  OBVIOUS
<1> PICK r \in Regions : r = CellOf(e)
  BY TwoCells DEF CellOf
<1> PICK v : v = Changed(p, cell[r][p], IF At(e, "disable") THEN "off" ELSE "on")
  OBVIOUS
<1>1. /\ At(e, "disable") \/ At(e, "enable")
      /\ x.paths # <<>> /\ x.paths \in PathQueues
      /\ UNCHANGED <<journal, route, stack, expired>>
      /\ cell \in [Regions -> [Paths -> States]] /\ trespass \in BOOLEAN
  BY DEF ChangePath, Executions, RegionalInv, Types
<1>2. p \in Paths /\ Tail(x.paths) \in PathQueues
  BY <1>1, PathsLeft
<1>3. Head(x.left) = "disable" <=> At(e, "disable")
  BY <1>1 DEF At
<1>4. CASE /\ cell[r][p] \in {"on", "off"}
           /\ cell' = [cell EXCEPT ![r][p] = v]
           /\ trespass' = (trespass \/ (cell' # cell /\ ~InPhase(e)))
           /\ executor' = [executor EXCEPT ![e].paths = Tail(@)]
  <2> PICK z : z = [x EXCEPT !.paths = Tail(x.paths)]
    OBVIOUS
  <2>1. z \in Executions /\ z.left = x.left /\ SameRun(z, x)
    BY <1>2 DEF Executions, SameRun
  <2>2. executor' = [executor EXCEPT ![e] = z]
    BY <1>4 DEF RegionalInv, Types
  <2>3. /\ executor' \in [Executors -> Executions] /\ executor'[e] = z
        /\ \A f \in Executors : f # e => executor'[f] = executor[f]
    BY <2>1, <2>2, OneRun DEF RegionalInv
  <2>4. v \in States
    BY <1>1, <1>2, <1>4 DEF Changed, States, Paths
  <2>5. cell' \in [Regions -> [Paths -> States]] /\ trespass' \in BOOLEAN
    BY <1>1, <1>2, <1>4, <2>4
  <2>6. Types'
    BY <1>1, <2>3, <2>5 DEF RegionalInv, Types
  <2>7. ASSUME ~trespass'
        PROVE  /\ ~trespass /\ CellsFollow' /\ RouteFollows'
               /\ \A y \in Executions : Known(y) /\ Trusted(y) => Trusted(y)'
    <3>1. ~trespass /\ (cell' = cell \/ InPhase(e))
      BY <1>4, <2>7
    <3>2. CASE cell' = cell
      BY <1>1, <3>1, <3>2, CellsStay, KeptCells
    <3>3. CASE cell' # cell /\ InPhase(e)
      BY <1>1, <1>2, <1>4, <2>4, <3>1, <3>3, PathChanges
    <3> QED
      BY <3>1, <3>2, <3>3
  <2>8. ASSUME NEW f \in Executors
        PROVE  \E y \in Executions :
                  y = executor'[f] /\ Known(y) /\ (~trespass' => Trusted(y)')
    <3> PICK y \in Executions : /\ y = executor'[f]
                                /\ Known(y) /\ (~trespass => Trusted(y))
      <4>1. CASE f = e
        BY <2>1, <2>3, <4>1, PathRun, RunsTyped DEF RegionalInv
      <4>2. CASE f # e
        BY <2>3, <4>2, RunsTyped DEF RegionalInv
      <4> QED
        BY <4>1, <4>2
    <3> QED
      BY <2>7
  <2> QED
    BY <1>1, <2>6, <2>7, <2>8, WorldStep
<1>5. CASE /\ executor' = [executor EXCEPT ![e].paths = Tail(@), ![e].failed = TRUE]
           /\ UNCHANGED <<cell, trespass>>
  <2> PICK z : z = [x EXCEPT !.paths = Tail(x.paths), !.failed = TRUE]
    OBVIOUS
  <2>1. z \in Executions /\ z.left = x.left /\ SameRun(z, x)
    BY <1>2 DEF Executions, SameRun
  <2>2. executor' = [executor EXCEPT ![e] = z]
    BY <1>5 DEF RegionalInv, Types
  <2>3. Alone(e, z)
    BY <1>1, <1>5, <2>2 DEF Alone
  <2>4. Known(z) /\ (~trespass => Trusted(z))
    <3>1. x \in Executions /\ Known(x) /\ (~trespass => Trusted(x))
      BY RunsTyped DEF RegionalInv
    <3>2. (Known(x) => Known(z)) /\ (Trusted(x) => Trusted(z))
      BY <2>1, <3>1, PathRun
    <3> QED
      BY <3>1, <3>2
  <2> QED
    BY <1>1, <2>1, <2>3, <2>4, QuietStep, RunsTyped
<1> QED
  BY <1>3, <1>4, <1>5 DEF ChangePath

\* The batch is prepared from the journal in its phase, or out of it.
LEMMA ReadRouteStep ==
    ASSUME RegionalInv, NEW e \in Executors, ReadRoute(e)
    PROVE  RegionalInv'
<1> PICK c : c = executor[e].command
  OBVIOUS
<1> PICK t : t = executor[e].transition
  OBVIOUS
<1> PICK m : m = MoveOf(c, t)
  OBVIOUS
<1>1. /\ executor[e].left = <<"read", "change", "prove", "complete">>
      /\ c \in Routing /\ c \in Commands /\ t \in Transitions
      /\ executor[e] \in Executions /\ Known(executor[e]) /\ Begun(executor[e])
      /\ UNCHANGED <<journal, route, cell, stack, expired>>
      /\ trespass' = (trespass \/ ~InPhase(e)) /\ trespass \in BOOLEAN
      /\ journal \in Journals
  BY AtPlace, Places, RunsTyped DEF ReadRoute, Fitting, RegionalInv, Types
<1> PICK l : l = IF route = m.from THEN Tail(executor[e].left)
                 ELSE Tail(Tail(executor[e].left))
  OBVIOUS
<1>2. l \in {<<"change", "prove", "complete">>, <<"prove", "complete">>}
  BY <1>1, Remains
<1>3. GenerationOf[t] \in Nat /\ journal.generation \in Nat
  BY <1>1, HomeTyped DEF Known, Reached, Behind, RegionalInv
<1>4. m.from \in Routes /\ m.to \in Routes /\ m \in [from : Routes, to : Routes]
  <2>1. CASE c = "route_target"
    <3>1. /\ Source(t) \in Regions /\ Target(t) \in Regions
          /\ journal.generation + 1 \in Nat
          /\ journal.last \in Transitions \cup {NoTransition}
          /\ t \in Transitions \cup {NoTransition}
      BY <1>1, <1>3, TwoCells DEF Journals
    <3>2. /\ Marked(Source(t), journal.generation, journal.last) \in Routes
          /\ Marked(Target(t), journal.generation + 1, t) \in Routes
      BY <1>3, <3>1, RouteTyped
    <3>3. m = [from |-> Marked(Source(t), journal.generation, journal.last),
               to |-> Marked(Target(t), journal.generation + 1, t)]
      BY <2>1 DEF MoveOf
    <3> QED
      BY <3>2, <3>3
  <2>2. CASE c # "route_target"
    <3>1. m = [from |-> TargetRoute(t), to |-> RollbackRoute(t)]
      BY <2>2 DEF MoveOf
    <3> QED
      BY <1>1, <1>3, <3>1, ApprovedRoutes
  <2> QED
    BY <2>1, <2>2
<1> PICK x : x = [executor[e] EXCEPT !.move = m, !.left = l]
  OBVIOUS
<1>5. /\ x \in Executions /\ x.left = l /\ x.move = m /\ x.command = c /\ x.transition = t
  <2>1. l \in Lefts
    BY <1>2 DEF Lefts
  <2> QED
    BY <1>1, <1>4, <2>1 DEF Executions
<1>6. executor' = [executor EXCEPT ![e] = x]
  BY <1>1 DEF ReadRoute, RegionalInv, Types
<1>7. /\ executor' \in [Executors -> Executions] /\ executor'[e] = x
      /\ \A f \in Executors : f # e => executor'[f] = executor[f]
  BY <1>5, <1>6, OneRun DEF RegionalInv
<1>8. Types'
  BY <1>1, <1>7 DEF RegionalInv, Types
<1>9. Known(x)
  <2>1. Fitting(x)
    <3>1. CASE l = <<"change", "prove", "complete">>
      BY <1>1, <1>5, <3>1 DEF Fitting
    <3>2. CASE l = <<"prove", "complete">>
      BY <1>1, <1>5, <3>2 DEF Fitting
    <3> QED
      BY <1>2, <3>1, <3>2
  <2>2. Reached(x)
    BY <1>1, <1>5 DEF Known, Reached, Behind
  <2> QED
    BY <2>1, <2>2 DEF Known
<1>10. ASSUME ~trespass' PROVE ~trespass /\ Trusted(x)
  <2>1. ~trespass /\ InPhase(e)
    BY <1>1, <1>10
  <2>2. journal.transition = t /\ Now > 0
    BY <1>1, <2>1, RankedPhases DEF InPhase, Now
  <2>3. journal.generation = GenerationOf[t] /\ journal.active = Source(t)
    BY <2>2 DEF RegionalInv, JournalOK
  <2>4. Prepared(x)
    <3>1. CASE c = "route_target"
      <4>1. m = [from |-> HomeRoute, to |-> TargetRoute(t)]
        BY <2>3, <3>1 DEF MoveOf, HomeRoute, TargetRoute
      <4>2. HomeRoute.generation = GenerationOf[t]
        BY <2>3 DEF HomeRoute, Marked
      <4>3. /\ x.move.to = TargetRoute(t) /\ x.move.from = HomeRoute
        BY <1>5, <4>1
      <4> QED
        BY <1>5, <3>1, <4>2, <4>3 DEF Prepared
    <3>2. CASE c = "route_source_rollback"
      <4>1. m = [from |-> TargetRoute(t), to |-> RollbackRoute(t)]
        BY <3>2 DEF MoveOf
      <4>2. x.move = [from |-> TargetRoute(x.transition), to |-> RollbackRoute(x.transition)]
        BY <1>5, <4>1
      <4>3. x.command # "route_target"
        BY <1>5, <3>2
      <4> QED
        BY <4>2, <4>3 DEF Prepared
    <3> QED
      BY <1>1, <3>1, <3>2 DEF Routing
  <2>5. StillProved(x)
    <3>1. /\ <<"change", "prove", "complete">> # <<"complete">>
          /\ <<"prove", "complete">> # <<"complete">>
      OBVIOUS
    <3>2. x.left # <<"complete">>
      BY <1>2, <1>5, <3>1
    <3> QED
      BY <3>2 DEF StillProved
  <2> QED
    BY <2>1, <2>4, <2>5 DEF Trusted
<1>11. ASSUME ~trespass'
       PROVE  /\ ~trespass /\ CellsFollow' /\ RouteFollows'
              /\ \A y \in Executions : Trusted(y) => Trusted(y)'
  BY <1>1, <1>10, <1>11, CellsStay, KeptCells
<1>12. ASSUME NEW f \in Executors
       PROVE  \E y \in Executions :
                 y = executor'[f] /\ Known(y) /\ (~trespass' => Trusted(y)')
  <2>1. CASE f = e
    BY <1>5, <1>7, <1>9, <1>10, <1>11, <2>1
  <2>2. CASE f # e
    <3>1. /\ executor[f] \in Executions /\ Known(executor[f])
          /\ ~trespass => Trusted(executor[f])
      BY RunsTyped DEF RegionalInv
    <3> PICK y \in Executions : y = executor[f] /\ y = executor'[f]
      BY <1>7, <2>2, <3>1
    <3> QED
      BY <1>11, <3>1
  <2> QED
    BY <2>1, <2>2
<1> QED
  BY <1>1, <1>8, <1>11, <1>12, WorldStep

\* The DNS moves only in the phase whose batch it is, whenever it was prepared.
LEMMA RouteMoves ==
    ASSUME RegionalInv, ~trespass, NEW e \in Executors, ChangeRoute(e)
    PROVE  LET c == executor[e].command  t == executor[e].transition IN
           /\ journal.transition = t
           /\ \/ c = "route_target" /\ Now = 9 /\ route' = TargetRoute(t)
              \/ c = "route_source_rollback" /\ Now = 17 /\ route' = RollbackRoute(t)
<1> PICK x \in Executions : x = executor[e]
  BY RunsTyped
<1> PICK t : t = x.transition
  OBVIOUS
<1> PICK j : j = journal.transition
  OBVIOUS
<1>1. /\ x.left = <<"change", "prove", "complete">>
      /\ x.command \in Routing /\ t \in Transitions /\ Known(x) /\ Begun(x) /\ Trusted(x)
      /\ route = x.move.from /\ route' = x.move.to
      /\ RouteFollows
  BY AtPlace, Places, RunsTyped DEF ChangeRoute, Fitting, RegionalInv
<1>2. /\ HomeRoute.generation = journal.generation
      /\ journal.generation \in Nat /\ Now \in 0 .. 18
  BY HomeTyped DEF RegionalInv
<1>3. Now > 0 => j \in Transitions /\ journal.generation = GenerationOf[j]
  BY DEF RegionalInv, JournalOK
<1>4. Now > 0 => /\ TargetRoute(j).generation = journal.generation + 1
                 /\ RollbackRoute(j).generation = journal.generation + 2
  BY <1>2, <1>3, ApprovedRoutes
<1>5. /\ route.generation >= journal.generation
      /\ Now \in 10 .. 17 => route.generation >= journal.generation + 1
      /\ Now = 18 => route.generation = journal.generation + 2
  <2>1. CASE Now < 9
    BY <1>1, <1>2, <2>1 DEF RouteFollows
  <2>2. CASE Now = 9
    BY <1>1, <1>2, <1>4, <2>2 DEF RouteFollows
  <2>3. CASE Now \in 10 .. 16
    BY <1>1, <1>2, <1>4, <2>3 DEF RouteFollows
  <2>4. CASE Now = 17
    BY <1>1, <1>2, <1>4, <2>4 DEF RouteFollows
  <2>5. CASE Now = 18
    BY <1>1, <1>2, <1>4, <2>5 DEF RouteFollows
  <2> QED
    BY <1>2, <2>1, <2>2, <2>3, <2>4, <2>5
<1>6. HasRead(x)
  BY <1>1 DEF HasRead
<1>7. GenerationOf[t] \in Nat
  BY <1>1 DEF Known, Reached
<1>8. \/ Behind(x)
      \/ j = t /\ Now >= Rank[During(x.command)]
  BY <1>1 DEF Known, Reached
<1>9. CASE x.command = "route_target"
  <2>1. route.generation = GenerationOf[t] /\ route' = TargetRoute(t)
    BY <1>1, <1>6, <1>9 DEF Trusted, Prepared
  <2>2. Rank[During(x.command)] = 9
    BY <1>9, WorksIn, Ranks
  <2>3. j = t /\ Now >= 9
    BY <1>2, <1>5, <1>7, <1>8, <2>1, <2>2 DEF Behind
  <2>4. Now = 9
    BY <1>2, <1>3, <1>5, <1>7, <2>1, <2>3
  <2> QED
    BY <1>9, <2>1, <2>3, <2>4
<1>10. CASE x.command = "route_source_rollback"
  <2>1. route = TargetRoute(t) /\ route' = RollbackRoute(t)
    BY <1>1, <1>6, <1>10 DEF Trusted, Prepared
  <2>2. Rank[During(x.command)] = 17
    BY <1>10, WorksIn, Ranks
  <2>3. route.generation = GenerationOf[t] + 1
    BY <1>1, <1>7, <2>1, ApprovedRoutes
  <2>4. j = t /\ Now >= 17
    BY <1>2, <1>5, <1>7, <1>8, <2>2, <2>3 DEF Behind
  <2>5. Now = 17
    BY <1>2, <1>3, <1>5, <1>7, <2>3, <2>4
  <2> QED
    BY <1>10, <2>1, <2>4, <2>5
<1> QED
  BY <1>1, <1>9, <1>10 DEF Routing

LEMMA ChangeRouteStep ==
    ASSUME RegionalInv, NEW e \in Executors, ChangeRoute(e)
    PROVE  RegionalInv'
<1> PICK t : t = executor[e].transition
  OBVIOUS
<1> PICK l : l = <<"prove", "complete">>
  OBVIOUS
<1>1. /\ executor[e].left = <<"change", "prove", "complete">>
      /\ executor[e].command \in Routing /\ Known(executor[e]) /\ Begun(executor[e])
      /\ executor[e] \in Executions /\ t \in Transitions
      /\ route' = executor[e].move.to /\ GoOn(e)
      /\ UNCHANGED <<journal, cell, stack, expired, trespass>>
  BY AtPlace, Places, RunsTyped DEF ChangeRoute, Fitting
<1>2. Tail(executor[e].left) = l /\ l \in Lefts /\ l # <<"complete">> /\ l # <<>>
  BY <1>1, Remains DEF Lefts
<1> PICK x \in Executions : /\ executor' = [executor EXCEPT ![e] = x]
                            /\ x.left = l /\ SameRun(x, executor[e])
  BY <1>1, <1>2, NextPlace DEF RegionalInv, SameRun
<1>3. /\ executor' \in [Executors -> Executions] /\ executor'[e] = x
      /\ \A f \in Executors : f # e => executor'[f] = executor[f]
  BY OneRun DEF RegionalInv
<1>4. Types'
  <2>1. route' \in Routes
    BY <1>1 DEF Executions
  <2> QED
    BY <1>1, <1>3, <2>1 DEF RegionalInv, Types
<1>5. Known(x)
  <2>1. Fitting(x)
    BY <1>1 DEF Known, Fitting, SameRun
  <2>2. Reached(x)
    BY <1>1 DEF Known, Reached, Behind, SameRun
  <2> QED
    BY <2>1, <2>2 DEF Known
<1>6. ASSUME ~trespass'
      PROVE  /\ ~trespass /\ CellsFollow' /\ RouteFollows'
             /\ \A y \in Executions : Known(y) /\ Trusted(y) => Trusted(y)'
             /\ Trusted(x)'
  <2>1. ~trespass
    BY <1>1, <1>6
  <2>2. /\ journal.transition = t
        /\ \/ Now = 9 /\ route' = TargetRoute(t)
           \/ Now = 17 /\ route' = RollbackRoute(t)
    BY <2>1, RouteMoves
  <2>3. CellsFollow'
    BY <1>1, <2>1 DEF RegionalInv, CellsFollow, Now, Fenced, Live, Falling, Rising
  <2>4. RouteFollows'
    BY <1>1, <2>2 DEF RouteFollows, Now
  <2>5. \A y : Prepared(y) => Prepared(y)'
    BY <1>1 DEF Prepared, HasRead, HomeRoute, Now
  <2>6. ASSUME NEW y \in Executions, Known(y), Trusted(y) PROVE StillProved(y)'
    <3>1. <<"complete">> # <<>>
      OBVIOUS
    <3>2. y.left # <<>> => y.command \in Commands
      BY <2>6 DEF Known, Fitting
    <3>3. ASSUME y.left = <<"complete">>, journal.phase = During(y.command),
                 y.command = "route_target", journal.transition = y.transition
          PROVE  route' = TargetRoute(y.transition)
      <4>1. Now = 9
        BY <3>3, WorksIn, Ranks DEF Now
      <4> QED
        BY <2>2, <3>3, <4>1
    <3>4. ASSUME y.left = <<"complete">>, journal.phase = During(y.command),
                 y.command = "route_source_rollback", journal.transition = y.transition
          PROVE  route' = RollbackRoute(y.transition)
      <4>1. Now = 17
        BY <3>4, WorksIn, Ranks DEF Now
      <4> QED
        BY <2>2, <3>4, <4>1
    <3> QED
      BY <1>1, <2>6, <3>3, <3>4 DEF Trusted, StillProved, Fenced, Live
  <2>7. Prepared(executor[e]) /\ HasRead(executor[e])
    BY <1>1, <2>1 DEF RegionalInv, Trusted, HasRead
  <2>8. Prepared(x)
    BY <2>7 DEF Prepared, SameRun
  <2>9. StillProved(x)'
    BY <1>2 DEF StillProved
  <2> QED
    BY <2>1, <2>3, <2>4, <2>5, <2>6, <2>8, <2>9 DEF Trusted
<1>7. ASSUME NEW f \in Executors
      PROVE  \E y \in Executions :
                y = executor'[f] /\ Known(y) /\ (~trespass' => Trusted(y)')
  <2>1. CASE f = e
    BY <1>3, <1>5, <1>6, <2>1
  <2>2. CASE f # e
    <3>1. /\ executor[f] \in Executions /\ Known(executor[f])
          /\ ~trespass => Trusted(executor[f])
      BY RunsTyped DEF RegionalInv
    <3> PICK y \in Executions : y = executor[f] /\ y = executor'[f]
      BY <1>3, <2>2, <3>1
    <3> QED
      BY <1>6, <3>1
  <2> QED
    BY <2>1, <2>2
<1> QED
  BY <1>1, <1>4, <1>6, <1>7, WorldStep

LEMMA ExpireManifestStep ==
    ASSUME RegionalInv, NEW t \in Transitions, ExpireManifest(t)
    PROVE  RegionalInv'
<1>1. /\ UNCHANGED <<journal, route, cell, stack, executor, trespass>>
      /\ expired' \subseteq Transitions
  BY DEF ExpireManifest, RegionalInv, Types
<1>2. Types'
  BY <1>1 DEF RegionalInv, Types
<1>3. CellsKeep
  BY <1>1, CellsStay
<1>4. ~trespass' => CellsFollow' /\ RouteFollows'
  BY <1>1, <1>3, KeptCells
<1>5. ASSUME NEW f \in Executors
      PROVE  \E y \in Executions :
                y = executor'[f] /\ Known(y) /\ (~trespass' => Trusted(y)')
  BY <1>1, <1>3, RunsStay, KeptCells
<1> QED
  BY <1>1, <1>2, <1>4, <1>5, WorldStep

LEMMA RegionalStutters ==
    ASSUME RegionalInv, UNCHANGED regional
    PROVE  RegionalInv'
<1>1. UNCHANGED <<journal, route, cell, stack, expired, executor, trespass>>
  BY DEF regional
<1>2. Types'
  BY <1>1 DEF RegionalInv, Types
<1>3. CellsKeep
  BY <1>1, CellsStay
<1>4. ~trespass' => CellsFollow' /\ RouteFollows'
  BY <1>1, <1>3, KeptCells
<1>5. ASSUME NEW f \in Executors
      PROVE  \E y \in Executions :
                y = executor'[f] /\ Known(y) /\ (~trespass' => Trusted(y)')
  BY <1>1, <1>3, RunsStay, KeptCells
<1> QED
  BY <1>1, <1>2, <1>4, <1>5, WorldStep

-----------------------------------------------------------------------------
(* The theorems *)

LEMMA RegionalInvInit == RegionalInit => RegionalInv
<1> SUFFICES ASSUME RegionalInit PROVE RegionalInv
  OBVIOUS
<1>1. /\ journal = NewJournal("NONE") /\ route = Marked("primary", 0, NoTransition)
      /\ cell = [r \in Regions |-> All(IF r = "primary" THEN "on" ELSE "off")]
      /\ stack = "staged" /\ expired = {} /\ trespass = FALSE
      /\ executor = [e \in Executors |-> IdleExecutor]
  BY DEF RegionalInit
<1>2. /\ journal.phase = "NONE" /\ journal.active = "primary" /\ journal.generation = 0
      /\ journal.last = NoTransition /\ journal \in Journals
  BY <1>1, PhasesAre DEF NewJournal, Journals, Regions
<1>3. Now = 0
  BY <1>2, Ranks DEF Now
<1>4. Types
  <2>1. route \in Routes
    BY <1>1, RouteTyped DEF Regions
  <2>2. cell \in [Regions -> [Paths -> States]]
    BY <1>1 DEF All, States
  <2> QED
    BY <1>1, <1>2, <2>1, <2>2, IdleTyped DEF Types
<1>5. JournalOK
  BY <1>1, <1>3 DEF JournalOK
<1>6. CellsFollow
  <2>1. \A r \in Regions : IF r = "primary" THEN Live(r) ELSE Fenced(r)
    BY <1>1 DEF Live, Fenced, All
  <2> QED
    BY <1>2, <1>3, <2>1 DEF CellsFollow
<1>7. RouteFollows
  BY <1>1, <1>2, <1>3 DEF RouteFollows, HomeRoute
<1>8. ASSUME NEW e \in Executors PROVE Known(executor[e]) /\ Trusted(executor[e])
  BY <1>1, IdleIsKnown
<1> QED
  BY <1>4, <1>5, <1>6, <1>7, <1>8 DEF RegionalInv

LEMMA RegionalInvNext == RegionalInv /\ [RegionalNext]_regional => RegionalInv'
<1> SUFFICES ASSUME RegionalInv, [RegionalNext]_regional PROVE RegionalInv'
  OBVIOUS
<1>1. ASSUME NEW t \in Transitions, InitializeJournal(t) \/ ExpireManifest(t)
      PROVE  RegionalInv'
  BY <1>1, InitializeJournalStep, ExpireManifestStep
<1>2. ASSUME NEW e \in Executors, Execute(e) PROVE RegionalInv'
  <2>1. ASSUME NEW c \in Commands, NEW t \in Transitions, RunCommand(e, c, t)
        PROVE  RegionalInv'
    BY <2>1, RunCommandStep
  <2>2. StopCommand(e) => RegionalInv'
    BY StopCommandStep
  <2>3. ClaimSourceFence(e) => RegionalInv'
    BY ClaimSourceFenceStep
  <2>4. ClaimPhase(e) => RegionalInv'
    BY ClaimPhaseStep
  <2>5. Precheck(e) => RegionalInv'
    BY PrecheckStep
  <2>6. ChangePath(e) => RegionalInv'
    BY ChangePathStep
  <2>7. AllPathsChanged(e) => RegionalInv'
    BY AllPathsChangedStep
  <2>8. Deploy(e) => RegionalInv'
    BY DeployStep
  <2>9. AwaitStack(e) => RegionalInv'
    BY AwaitStackStep
  <2>10. ReadRoute(e) => RegionalInv'
    BY ReadRouteStep
  <2>11. ChangeRoute(e) => RegionalInv'
    BY ChangeRouteStep
  <2>12. Prove(e) => RegionalInv'
    BY ProveStep
  <2>13. AdvancePhase(e) => RegionalInv'
    BY AdvancePhaseStep
  <2>14. CompleteTransition(e) => RegionalInv'
    BY CompleteTransitionStep
  <2>15. CompleteRollback(e) => RegionalInv'
    BY CompleteRollbackStep
  <2> QED
    BY <1>2, <2>1, <2>2, <2>3, <2>4, <2>5, <2>6, <2>7, <2>8, <2>9, <2>10, <2>11, <2>12,
       <2>13, <2>14, <2>15 DEF Execute
<1>3. ASSUME NEW r \in Regions, SourcesSettle(r) PROVE RegionalInv'
  BY <1>3, SourcesSettleStep
<1>4. UpdateEnds => RegionalInv'
  BY UpdateEndsStep
<1>5. Restage => RegionalInv'
  BY RestageStep
<1>6. UNCHANGED regional => RegionalInv'
  BY RegionalStutters
<1> QED
  BY <1>1, <1>2, <1>3, <1>4, <1>5, <1>6 DEF RegionalNext

\* What every reachable state of a transition satisfies: the cells and the DNS
\* are as the phase of the journal says, and a run that has claimed a phase is
\* in it or has been overtaken (advance_phase, prove_pre_route_runtime).
THEOREM RegionalInvariant == RegionalSpec => []RegionalInv
<1> QED
  BY RegionalInvInit, RegionalInvNext, PTL DEF RegionalSpec

\* The types of the journal, the cells, the DNS and the runs of the scripts.
THEOREM RegionalTypes == RegionalSpec => []RegionalTypeOK
<1>1. RegionalInv => RegionalTypeOK
  <2> SUFFICES ASSUME RegionalInv PROVE RegionalTypeOK
    OBVIOUS
  <2>1. Types
    BY DEF RegionalInv
  <2>2. \A e \in Executors : /\ executor[e].command \in Commands \cup {"none"}
                             /\ executor[e].transition \in Transitions \cup {NoTransition}
                             /\ executor[e].move \in [from : Routes, to : Routes]
    BY RunsTyped DEF Executions
  <2>3. journal \in [phase : {"NONE", "STABLE"} \cup {During(c) : c \in Commands}
                                \cup {After(c) : c \in Commands},
                   generation : Nat, active : Regions,
                   last : Transitions \cup {NoTransition},
                   transition : Transitions \cup {NoTransition}]
    BY <2>1 DEF Types, Journals, JournalPhases
  <2> QED
    BY <2>1, <2>2, <2>3 DEF Types, RegionalTypeOK
<1> QED
  BY <1>1, RegionalInvariant, PTL

\* No two Regions run at the same time, whatever manifests there are and however
\* many runs of the scripts are interleaved, stopped and repeated, until a cell
\* or the DNS is handled out of its phase (fence_source, activate_target_step,
\* reactivate_source_step).
THEOREM OneRegionAtATime == RegionalSpec => []OneRegionRuns
<1>1. RegionalInv => OneRegionRuns
  <2> SUFFICES ASSUME RegionalInv, ~trespass PROVE \E r \in Regions : Fenced(r)
    BY DEF OneRegionRuns, Fenced
  <2> PICK s \in Regions : s = Source(journal.transition)
    BY TwoCells
  <2> PICK t \in Regions : t = Target(journal.transition)
    BY TwoCells
  <2>1. CellsFollow /\ Now \in 0 .. 18
    BY HomeTyped DEF RegionalInv
  <2>2. CASE Now = 0
    <3>1. \E r \in Regions : r # journal.active
      BY DEF Regions
    <3> QED
      BY <2>1, <2>2, <3>1 DEF CellsFollow
  <2>3. CASE Now \in 1 .. 2
    BY <2>1, <2>3 DEF CellsFollow
  <2>4. CASE Now \in 3 .. 12
    BY <2>1, <2>4 DEF CellsFollow
  <2>5. CASE Now > 12
    BY <2>1, <2>5 DEF CellsFollow
  <2> QED
    BY <2>1, <2>2, <2>3, <2>4, <2>5
<1> QED
  BY <1>1, RegionalInvariant, PTL

LEMMA ServedWhenStable == RegionalInv => StableIsServed
<1> SUFFICES ASSUME RegionalInv, journal.phase = "STABLE", ~trespass
             PROVE  /\ route = Marked(journal.active, journal.generation, journal.last)
                    /\ \A r \in Regions : IF r = journal.active THEN Live(r) ELSE Fenced(r)
  BY DEF StableIsServed
<1>1. Now = 0 /\ CellsFollow /\ RouteFollows
  BY Ranks DEF Now, RegionalInv
<1> QED
  BY <1>1 DEF CellsFollow, RouteFollows, HomeRoute

\* Only route_target_step and route_source_rollback_step call the DNS.
LEMMA OnlyOneStepRoutes ==
  RegionalNext /\ route' # route => \E e \in Executors : ChangeRoute(e)
<1> SUFFICES ASSUME RegionalNext, route' # route
             PROVE  \E e \in Executors : ChangeRoute(e)
  OBVIOUS
<1>1. \A t \in Transitions : ~InitializeJournal(t) /\ ~ExpireManifest(t)
  BY DEF InitializeJournal, ExpireManifest
<1>2. (\A r \in Regions : ~SourcesSettle(r)) /\ ~UpdateEnds /\ ~Restage
  BY DEF SourcesSettle, UpdateEnds, Restage
<1>3. ASSUME NEW e \in Executors, Execute(e)
      PROVE  ChangeRoute(e)
  <2>1. ~StopCommand(e) /\ ~ClaimSourceFence(e) /\ ~ClaimPhase(e) /\ ~Precheck(e)
    BY DEF StopCommand, ClaimSourceFence, ClaimPhase, Precheck
  <2>2. \A c \in Commands, t \in Transitions : ~RunCommand(e, c, t)
    BY DEF RunCommand
  <2>3. ~ChangePath(e) /\ ~AllPathsChanged(e) /\ ~Deploy(e) /\ ~AwaitStack(e)
    BY DEF ChangePath, AllPathsChanged, Deploy, AwaitStack
  <2>4. ~ReadRoute(e) /\ ~Prove(e) /\ ~AdvancePhase(e)
    BY DEF ReadRoute, Prove, AdvancePhase
  <2>5. ~CompleteTransition(e) /\ ~CompleteRollback(e)
    BY DEF CompleteTransition, CompleteRollback
  <2> QED
    BY <1>3, <2>1, <2>2, <2>3, <2>4, <2>5 DEF Execute
<1> QED
  BY <1>1, <1>2, <1>3 DEF RegionalNext

\* A stable journal tells the truth about the DNS and the cells, and the DNS
\* moves only from a Region that is fenced to one that runs, also by a batch
\* that was prepared long before (complete_transition, complete_rollback,
\* route_target_step, route_source_rollback_step).
THEOREM RouteServesTheLiveRegion == RegionalSpec => RouteServes
<1>0. RegionalInv' => StableIsServed'
  BY ServedWhenStable, PTL
<1>1. RegionalInv /\ RegionalInv' /\ [RegionalNext]_regional =>
         [/\ StableIsServed'
          /\ route' # route /\ ~trespass => Fenced(route.region) /\ Live(route'.region)]_regional
  <2> SUFFICES ASSUME RegionalInv, RegionalInv', RegionalNext
               PROVE  /\ StableIsServed'
                      /\ route' # route /\ ~trespass =>
                            Fenced(route.region) /\ Live(route'.region)
    OBVIOUS
  <2>1. StableIsServed'
    BY <1>0
  <2>2. ASSUME route' # route, ~trespass
        PROVE  Fenced(route.region) /\ Live(route'.region)
    <3>1. PICK e \in Executors : ChangeRoute(e)
      BY <2>2, OnlyOneStepRoutes
    <3> PICK t : t = executor[e].transition
      OBVIOUS
    <3>2. /\ journal.transition = t
          /\ \/ Now = 9 /\ route' = TargetRoute(t)
             \/ Now = 17 /\ route' = RollbackRoute(t)
      BY <2>2, <3>1, RouteMoves
    <3>3. CellsFollow /\ RouteFollows
      BY <2>2 DEF RegionalInv
    <3>4. /\ t \in Transitions /\ GenerationOf[t] \in Nat /\ journal.active = Source(t)
          /\ HomeRoute.region = Source(t)
      BY <3>2, HomeTyped DEF RegionalInv, JournalOK
    <3>5. TargetRoute(t).region = Target(t) /\ RollbackRoute(t).region = Source(t)
      BY <3>4, ApprovedRoutes
    <3>6. CASE Now = 9 /\ route' = TargetRoute(t)
      <4>1. route = HomeRoute
        BY <2>2, <3>2, <3>3, <3>6 DEF RouteFollows
      <4>2. Fenced(Source(t)) /\ Live(Target(t))
        BY <3>2, <3>3, <3>6 DEF CellsFollow
      <4> QED
        BY <3>4, <3>5, <3>6, <4>1, <4>2
    <3>7. CASE Now = 17 /\ route' = RollbackRoute(t)
      <4>1. route = TargetRoute(t)
        BY <2>2, <3>2, <3>3, <3>7 DEF RouteFollows
      <4>2. Fenced(Target(t)) /\ Live(Source(t))
        BY <3>2, <3>3, <3>7 DEF CellsFollow
      <4> QED
        BY <3>5, <3>7, <4>1, <4>2
    <3> QED
      BY <3>2, <3>6, <3>7
  <2> QED
    BY <2>1, <2>2
<1> QED
  BY <1>1, RegionalInvariant, PTL DEF RegionalSpec, RouteServes
=============================================================================
