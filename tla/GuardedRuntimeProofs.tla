------------------------- MODULE GuardedRuntimeProofs -------------------------
(***************************************************************************)
(* Proofs about GuardedRuntime, for every set of calls, runtimes, keys and *)
(* grants, every choice of tools and all limits: typing, the two accounts, *)
(* the emergency stop, operation keys, answers, approval grants, and that  *)
(* the runtimes implement SideEffectLedger.                                *)
(*                                                                         *)
(* A step of a caller changes its place, and on the way there starts a     *)
(* worker, collects one, or neither.  The lemmas Walks, Dispatches and     *)
(* Collects say once what such a move does to the accounts; the proof of   *)
(* each action then names its moves.                                       *)
(***************************************************************************)
EXTENDS GuardedRuntimeInvariants, FiniteSetTheorems, TLAPS

\* The part of AccountsInv that callers and workers move.
Accounts ==
    /\ AccountTypeOK /\ WorkerTypeOK /\ CallTypeOK
    /\ WorkersPlaced /\ LeasesPlaced /\ TrackerExact /\ BudgetExact

\* The rest of it.
RestTypeOK ==
    /\ StoreTypeOK /\ GrantsTypeOK /\ EvidenceTypeOK
    /\ HandlerTypeOK /\ HostTypeOK /\ HistoryTypeOK

\* A caller at p may go on to q: no wait that lies behind p lies before q.
Forward(p, q) == \A op \in Ops : q \in UpTo(op) => p \in UpTo(op)

-----------------------------------------------------------------------------
(* Counting *)

\* A call belongs to a runtime, and an account has finitely many entries.
LEMMA CallsOfRuntimes ==
    ASSUME NEW r \in Runtimes
    PROVE  /\ IsFiniteSet(CallsOf(r)) /\ CallsOf(r) \subseteq Calls
           /\ IsFiniteSet(CallsOf(r) \X Ops)
<1>1. IsFiniteSet(CallsOf(r)) /\ CallsOf(r) \subseteq Calls
  BY CallsAreFinite, FS_Subset DEF CallsOf
<1>2. IsFiniteSet(Ops)
  <2>1. Ops = {"policy"} \cup {"approval"} \cup {"credential"} \cup {"handler"}
                \cup {"reconcile"} \cup {"failureAudit"} \cup {"audit"}
    BY DEF Ops
  <2> QED BY <2>1, FS_Singleton, FS_Union
<1> QED BY <1>1, <1>2, FS_Product

LEMMA RuntimeOfCall ==
    ASSUME NEW c \in Calls
    PROVE  Rt(c) \in Runtimes /\ c \in CallsOf(Rt(c))
BY ProposalsAreTyped DEF Rt, CallsOf

\* The sets whose sizes the accounts keep are finite.
LEMMA AccountsAreFinite ==
    ASSUME NEW r \in Runtimes
    PROVE  IsFiniteSet(Held(r)) /\ IsFiniteSet(WorkersOf(r)) /\ IsFiniteSet(LateOf(r))
BY CallsOfRuntimes, FS_Subset DEF Held, WorkersOf, LateOf

LEMMA AccountsAreFiniteNext ==
    ASSUME NEW r \in Runtimes
    PROVE  IsFiniteSet(Held(r)') /\ IsFiniteSet(WorkersOf(r)') /\ IsFiniteSet(LateOf(r)')
BY CallsOfRuntimes, FS_Subset DEF Held, WorkersOf, LateOf

\* One element more, one element less.
LEMMA Added ==
    ASSUME NEW S, NEW x, IsFiniteSet(S), x \notin S
    PROVE  Cardinality(S \cup {x}) = Cardinality(S) + 1
BY FS_AddElement

LEMMA Removed ==
    ASSUME NEW S, NEW x, IsFiniteSet(S), x \in S
    PROVE  /\ Cardinality(S \ {x}) = Cardinality(S) - 1
           /\ Cardinality(S) \in Nat \ {0}
           /\ Cardinality(S) - 1 \in Nat
<1>1. Cardinality(S \ {x}) = Cardinality(S) - 1 /\ IsFiniteSet(S \ {x})
  BY FS_RemoveElement
<1>2. Cardinality(S) \in Nat /\ Cardinality(S \ {x}) \in Nat
  BY <1>1, FS_CardinalityType
<1> QED BY <1>1, <1>2

\* A worker that exists, and one that is late, is counted.
LEMMA WorkerCounted ==
    ASSUME Accounts, NEW c \in Calls, NEW op \in Ops, worker[c][op] # "none"
    PROVE  /\ tracker[Rt(c)].bounded \in Nat \ {0}
           /\ tracker[Rt(c)].bounded - 1 \in Nat
<1>1. <<c, op>> \in WorkersOf(Rt(c))
  BY RuntimeOfCall DEF WorkersOf
<1> QED BY <1>1, RuntimeOfCall, AccountsAreFinite, Removed DEF Accounts, TrackerExact

LEMMA LateCounted ==
    ASSUME Accounts, NEW c \in Calls, NEW op \in late[c]
    PROVE  /\ tracker[Rt(c)].timedOut \in Nat \ {0}
           /\ tracker[Rt(c)].timedOut - 1 \in Nat
<1>1. late[c] \subseteq Ops
  BY DEF Accounts, WorkerTypeOK
<1>2. <<c, op>> \in LateOf(Rt(c))
  BY <1>1, RuntimeOfCall DEF LateOf
<1> QED BY <1>2, RuntimeOfCall, AccountsAreFinite, Removed, ZenonT(40) DEF Accounts, TrackerExact

\* A held lease is counted.
LEMMA LeaseCounted ==
    ASSUME Accounts, NEW c \in Calls, Releases(lease[c])
    PROVE  /\ budget[Rt(c)].active \in Nat \ {0} /\ budget[Rt(c)].active - 1 \in Nat
           /\ budget[Rt(c)].fanOut \in Nat \ {0} /\ budget[Rt(c)].fanOut - 1 \in Nat
<1>1. c \in Held(Rt(c))
  BY RuntimeOfCall DEF Held
<1> QED BY <1>1, RuntimeOfCall, AccountsAreFinite, Removed DEF Accounts, BudgetExact

\* How the counted sets change when the worker of one operation, one late mark,
\* or one lease does.
LEMMA WorkerAdded ==
    ASSUME Accounts, NEW c \in Calls, NEW op \in Ops, NEW s, s # "none",
           worker[c][op] = "none", worker' = [worker EXCEPT ![c][op] = s]
    PROVE  /\ <<c, op>> \notin WorkersOf(Rt(c))
           /\ WorkersOf(Rt(c))' = WorkersOf(Rt(c)) \cup {<<c, op>>}
           /\ \A r \in Runtimes \ {Rt(c)} : WorkersOf(r)' = WorkersOf(r)
BY RuntimeOfCall DEF WorkersOf, CallsOf, Rt, Accounts, WorkerTypeOK

LEMMA WorkerRemoved ==
    ASSUME Accounts, NEW c \in Calls, NEW op \in Ops,
           worker[c][op] # "none", worker' = [worker EXCEPT ![c][op] = "none"]
    PROVE  /\ <<c, op>> \in WorkersOf(Rt(c))
           /\ WorkersOf(Rt(c))' = WorkersOf(Rt(c)) \ {<<c, op>>}
           /\ \A r \in Runtimes \ {Rt(c)} : WorkersOf(r)' = WorkersOf(r)
BY RuntimeOfCall DEF WorkersOf, CallsOf, Rt, Accounts, WorkerTypeOK

LEMMA WorkerKept ==
    ASSUME Accounts, NEW c \in Calls, NEW op \in Ops, NEW s, s # "none",
           worker[c][op] # "none", worker' = [worker EXCEPT ![c][op] = s]
    PROVE  \A r \in Runtimes : WorkersOf(r)' = WorkersOf(r)
BY RuntimeOfCall DEF WorkersOf, CallsOf, Rt, Accounts, WorkerTypeOK

LEMMA LateAdded ==
    ASSUME Accounts, NEW c \in Calls, NEW op \in Ops,
           op \notin late[c], late' = [late EXCEPT ![c] = @ \cup {op}]
    PROVE  /\ <<c, op>> \notin LateOf(Rt(c))
           /\ LateOf(Rt(c))' = LateOf(Rt(c)) \cup {<<c, op>>}
           /\ \A r \in Runtimes \ {Rt(c)} : LateOf(r)' = LateOf(r)
BY RuntimeOfCall DEF LateOf, CallsOf, Rt, Accounts, WorkerTypeOK

LEMMA LateRemoved ==
    ASSUME Accounts, NEW c \in Calls, NEW op \in Ops,
           op \in late[c], late' = [late EXCEPT ![c] = @ \ {op}]
    PROVE  /\ <<c, op>> \in LateOf(Rt(c))
           /\ LateOf(Rt(c))' = LateOf(Rt(c)) \ {<<c, op>>}
           /\ \A r \in Runtimes \ {Rt(c)} : LateOf(r)' = LateOf(r)
BY RuntimeOfCall DEF LateOf, CallsOf, Rt, Accounts, WorkerTypeOK

LEMMA LeaseTaken ==
    ASSUME Accounts, NEW c \in Calls, NEW l, lease' = [lease EXCEPT ![c] = l],
           ~Releases(lease[c]), Releases(l)
    PROVE  /\ c \notin Held(Rt(c))
           /\ Held(Rt(c))' = Held(Rt(c)) \cup {c}
           /\ \A r \in Runtimes \ {Rt(c)} : Held(r)' = Held(r)
BY RuntimeOfCall DEF Held, CallsOf, Rt, Accounts, AccountTypeOK, Releases

LEMMA LeaseGivenBack ==
    ASSUME Accounts, NEW c \in Calls, NEW l, lease' = [lease EXCEPT ![c] = l],
           Releases(lease[c]), ~Releases(l)
    PROVE  /\ c \in Held(Rt(c))
           /\ Held(Rt(c))' = Held(Rt(c)) \ {c}
           /\ \A r \in Runtimes \ {Rt(c)} : Held(r)' = Held(r)
BY RuntimeOfCall DEF Held, CallsOf, Rt, Accounts, AccountTypeOK, Releases

LEMMA LeaseKept ==
    ASSUME Accounts, NEW c \in Calls, NEW l, lease' = [lease EXCEPT ![c] = l],
           Releases(lease[c]) <=> Releases(l)
    PROVE  \A r \in Runtimes : Held(r)' = Held(r)
BY RuntimeOfCall DEF Held, CallsOf, Rt, Accounts, AccountTypeOK, Releases

-----------------------------------------------------------------------------
(* The moves of a caller *)

\* Where a caller may go without a worker: to a place that is no wait, forward,
\* and with a lease that suits the place.
MayWalk(c, q) ==
    /\ pc[c] \notin Ops /\ Forward(pc[c], q)
    /\ q \in Places \ (Ops \cup {"idle", "register", "done"})

\* The caller of c goes on to q; its lease is left alone.
LEMMA Walks ==
    ASSUME Accounts, NEW c \in Calls, NEW q, MayWalk(c, q),
           Goto(c, q), outcome' \in [Calls -> Outcomes],
           UNCHANGED <<accountVars, workerVars>>
    PROVE  Accounts'
<1>1. AccountTypeOK' /\ WorkerTypeOK'
  BY DEF Accounts, AccountTypeOK, WorkerTypeOK, accountVars, workerVars
<1>2. CallTypeOK'
  BY DEF Accounts, CallTypeOK, Goto, MayWalk
<1>3. WorkersPlaced'
  BY DEF Accounts, WorkersPlaced, CallTypeOK, Goto, MayWalk, Forward, workerVars, WorkerTypeOK
<1>4. LeasesPlaced'
  BY DEF Accounts, LeasesPlaced, CallTypeOK, Goto, MayWalk, accountVars, workerVars, Releases
<1>5. TrackerExact'
  BY DEF Accounts, TrackerExact, WorkersOf, LateOf, accountVars, workerVars
<1>6. BudgetExact'
  BY DEF Accounts, BudgetExact, Held, Releases, accountVars
<1> QED BY <1>1, <1>2, <1>3, <1>4, <1>5, <1>6 DEF Accounts

\* ... and starts the worker of op, for which it then waits.
LEMMA Dispatches ==
    ASSUME Accounts, NEW c \in Calls, NEW op \in Ops,
           pc[c] \notin Ops, pc[c] \in UpTo(op), Forward(pc[c], op),
           Dispatch(c, op), Goto(c, op), outcome' \in [Calls -> Outcomes],
           UNCHANGED <<budget, lease, late>>
    PROVE  Accounts'
<1>1. worker[c][op] = "none" /\ op \notin late[c]
  BY DEF Accounts, WorkersPlaced
<1>2. PICK s \in {"queued", "running"} : worker' = [worker EXCEPT ![c][op] = s]
  BY DEF Dispatch
<1>3. AccountTypeOK' /\ WorkerTypeOK'
  <2>1. tracker' \in [Runtimes -> Account]
    BY RuntimeOfCall DEF Accounts, AccountTypeOK, Dispatch, Admitted, Account
  <2>2. worker' \in [Calls -> [Ops -> WorkerStates]]
    BY <1>2 DEF Accounts, WorkerTypeOK, WorkerStates
  <2> QED BY <2>1, <2>2 DEF Accounts, AccountTypeOK, WorkerTypeOK
<1>4. CallTypeOK'
  BY DEF Accounts, CallTypeOK, Goto, Ops, Places
<1>5. WorkersPlaced'
  BY <1>1, <1>2 DEF Accounts, WorkersPlaced, CallTypeOK, Goto, Forward, WorkerTypeOK
<1>6. LeasesPlaced'
  BY DEF Accounts, LeasesPlaced, CallTypeOK, Goto, Releases, Ops
<1>7. TrackerExact'
  <2>1. /\ WorkersOf(Rt(c))' = WorkersOf(Rt(c)) \cup {<<c, op>>}
        /\ Cardinality(WorkersOf(Rt(c)) \cup {<<c, op>>}) = Cardinality(WorkersOf(Rt(c))) + 1
        /\ \A r \in Runtimes \ {Rt(c)} : WorkersOf(r)' = WorkersOf(r)
    BY <1>1, <1>2, WorkerAdded, RuntimeOfCall, AccountsAreFinite, Added
  <2>2. \A r \in Runtimes : LateOf(r)' = LateOf(r)
    BY DEF LateOf
  <2>3. /\ tracker'[Rt(c)].bounded = tracker[Rt(c)].bounded + 1
        /\ tracker'[Rt(c)].timedOut = tracker[Rt(c)].timedOut
        /\ \A r \in Runtimes \ {Rt(c)} : tracker'[r] = tracker[r]
    BY RuntimeOfCall DEF Dispatch, Admitted, Accounts, AccountTypeOK, Account
  <2> QED BY <2>1, <2>2, <2>3, RuntimeOfCall DEF Accounts, TrackerExact, AccountTypeOK, Account
<1>8. BudgetExact'
  BY DEF Accounts, BudgetExact, Held, Releases
<1> QED BY <1>3, <1>4, <1>5, <1>6, <1>7, <1>8 DEF Accounts

\* ... or collects the worker it waited for.
LEMMA Collects ==
    ASSUME Accounts, NEW c \in Calls, NEW op \in Ops, NEW q,
           pc[c] = op, Forward(op, q), q \in Places \ (Ops \cup {"idle", "register", "done"}),
           Collect(c, op), Goto(c, q), outcome' \in [Calls -> Outcomes],
           UNCHANGED <<budget, lease, late>>
    PROVE  Accounts'
<1>1. worker[c][op] # "none" /\ op \notin late[c]
  BY DEF Accounts, WorkersPlaced, UpTo, Ops, Places
<1>2. worker' = [worker EXCEPT ![c][op] = "none"]
  BY DEF Collect
<1>3. AccountTypeOK' /\ WorkerTypeOK'
  <2>1. tracker' \in [Runtimes -> Account]
    BY <1>1, WorkerCounted, RuntimeOfCall DEF Accounts, AccountTypeOK, Collect, Completed, Account
  <2>2. worker' \in [Calls -> [Ops -> WorkerStates]]
    BY <1>2 DEF Accounts, WorkerTypeOK, WorkerStates
  <2> QED BY <2>1, <2>2 DEF Accounts, AccountTypeOK, WorkerTypeOK
<1>4. CallTypeOK'
  BY DEF Accounts, CallTypeOK, Goto, Ops, Places
<1>5. WorkersPlaced'
  BY <1>1, <1>2 DEF Accounts, WorkersPlaced, CallTypeOK, Goto, Forward, WorkerTypeOK
<1>6. LeasesPlaced'
  BY DEF Accounts, LeasesPlaced, CallTypeOK, Goto, Releases, Ops
<1>7. TrackerExact'
  <2>1. /\ WorkersOf(Rt(c))' = WorkersOf(Rt(c)) \ {<<c, op>>}
        /\ Cardinality(WorkersOf(Rt(c)) \ {<<c, op>>}) = Cardinality(WorkersOf(Rt(c))) - 1
        /\ \A r \in Runtimes \ {Rt(c)} : WorkersOf(r)' = WorkersOf(r)
    BY <1>1, <1>2, WorkerRemoved, RuntimeOfCall, AccountsAreFinite, Removed
  <2>2. \A r \in Runtimes : LateOf(r)' = LateOf(r)
    BY DEF LateOf
  <2>3. /\ tracker'[Rt(c)].bounded = tracker[Rt(c)].bounded - 1
        /\ tracker'[Rt(c)].timedOut = tracker[Rt(c)].timedOut
        /\ \A r \in Runtimes \ {Rt(c)} : tracker'[r] = tracker[r]
    BY RuntimeOfCall DEF Collect, Completed, Accounts, AccountTypeOK, Account
  <2> QED BY <2>1, <2>2, <2>3, RuntimeOfCall DEF Accounts, TrackerExact, AccountTypeOK, Account
<1>8. BudgetExact'
  BY DEF Accounts, BudgetExact, Held, Releases
<1> QED BY <1>3, <1>4, <1>5, <1>6, <1>7, <1>8 DEF Accounts

-----------------------------------------------------------------------------
(* The actions of a caller *)

\* What a caller says on the way.
LEMMA Says ==
    ASSUME Accounts, NEW c \in Calls, NEW q,
           \/ Continue(c, q)
           \/ Deny(c) /\ q = "record"
           \/ \E status \in Statuses : Answer(c, status, q)
    PROVE  Goto(c, q) /\ outcome' \in [Calls -> Outcomes]
<1>1. CASE Continue(c, q)
  BY <1>1 DEF Continue, Accounts, CallTypeOK
<1>2. ASSUME NEW status \in Statuses, Answer(c, status, q)
      PROVE  Goto(c, q) /\ outcome' \in [Calls -> Outcomes]
  BY <1>2 DEF Answer, Accounts, CallTypeOK, Outcomes
<1>3. CASE Deny(c) /\ q = "record"
  BY <1>2, <1>3 DEF Deny, Statuses
<1> QED BY <1>1, <1>2, <1>3

\* Where no worker comes or goes, the worker accounts stay exact.
LEMMA WorkersStay ==
    ASSUME TrackerExact, UNCHANGED <<tracker, worker, late>>
    PROVE  TrackerExact'
<1>1. \A r \in Runtimes : WorkersOf(r)' = WorkersOf(r)
  BY DEF WorkersOf
<1>2. \A r \in Runtimes : LateOf(r)' = LateOf(r)
  BY DEF LateOf
<1> QED BY <1>1, <1>2 DEF TrackerExact

LEMMA AdmitAccounts ==
    ASSUME Accounts, NEW c \in Calls, Admit(c)
    PROVE  Accounts'
<1> USE DEF evidenceVars, handlerVars, workerVars, serviceVars
<1>1. CASE Deny(c) /\ UNCHANGED <<budget, lease>>
  <2>1. MayWalk(c, "record")
    BY DEF Admit, MayWalk, Forward, UpTo, Ops, Places
  <2>2. Goto(c, "record") /\ outcome' \in [Calls -> Outcomes]
    BY <1>1, Says
  <2> QED BY <1>1, <2>1, <2>2, Walks DEF Admit, accountVars
<1>2. CASE /\ budget' = [budget EXCEPT ![Rt(c)] = Acquired(@, ToolOf[c].cost)]
           /\ lease' = [lease EXCEPT ![c] = TakenLease]
           /\ Continue(c, "register")
  <2>1. Goto(c, "register") /\ CallTypeOK'
    BY <1>2, Says DEF Accounts, CallTypeOK, Goto, Places
  <2>2. lease[c] = FreshLease /\ pc[c] = "idle"
    BY DEF Admit, Accounts, LeasesPlaced
  <2>3. lease' = [lease EXCEPT ![c] = TakenLease] /\ TakenLease \in Leases
        /\ Releases(TakenLease) /\ ~Releases(FreshLease) /\ ~TakenLease.deferred
    BY <1>2 DEF Leases, TakenLease, FreshLease, Releases
  <2>4. AccountTypeOK' /\ WorkerTypeOK'
    <3>1. ToolOf[c].cost \in Nat
      BY ProposalsAreTyped DEF Tools
    <3>2. budget' \in [Runtimes -> Counters]
      BY <1>2, <3>1, RuntimeOfCall DEF Accounts, AccountTypeOK, Acquired, Counters
    <3>3. lease' \in [Calls -> Leases]
      BY <2>3 DEF Accounts, AccountTypeOK, Leases
    <3> QED BY <3>2, <3>3 DEF Admit, Accounts, AccountTypeOK, WorkerTypeOK
  <2>5. WorkersPlaced'
    BY <2>1, <2>2 DEF Accounts, WorkersPlaced, CallTypeOK, Goto, UpTo, Ops, Admit
  <2>6. LeasesPlaced'
    BY <2>1, <2>3 DEF Accounts, LeasesPlaced, CallTypeOK, Goto, Admit, Releases, AccountTypeOK
  <2>7. TrackerExact'
    <3>1. UNCHANGED <<tracker, worker, late>>
      BY DEF Admit, workerVars
    <3> QED BY <3>1, WorkersStay DEF Accounts
  <2>8. BudgetExact'
    <3>1. /\ Held(Rt(c))' = Held(Rt(c)) \cup {c}
          /\ Cardinality(Held(Rt(c)) \cup {c}) = Cardinality(Held(Rt(c))) + 1
          /\ \A r \in Runtimes \ {Rt(c)} : Held(r)' = Held(r)
      BY <2>2, <2>3, LeaseTaken, RuntimeOfCall, AccountsAreFinite, Added
    <3>2. /\ budget'[Rt(c)].active = budget[Rt(c)].active + 1
          /\ budget'[Rt(c)].fanOut = budget[Rt(c)].fanOut + 1
          /\ \A r \in Runtimes \ {Rt(c)} : budget'[r] = budget[r]
      BY <1>2, RuntimeOfCall DEF Accounts, AccountTypeOK, Acquired, Counters
    <3> QED BY <3>1, <3>2, RuntimeOfCall DEF Accounts, BudgetExact
  <2> QED BY <2>1, <2>4, <2>5, <2>6, <2>7, <2>8 DEF Accounts
<1> QED BY <1>1, <1>2 DEF Admit

\* A lease that is given back by a caller or by the worker it was deferred to.
LEMMA GivesBack ==
    ASSUME Accounts, NEW c \in Calls, NEW l \in Leases, Releases(lease[c]), ~Releases(l),
           lease' = [lease EXCEPT ![c] = l],
           budget' = [budget EXCEPT ![Rt(c)] = Released(@)]
    PROVE  /\ BudgetExact'
           /\ budget' \in [Runtimes -> Counters] /\ lease' \in [Calls -> Leases]
<1>1. /\ Held(Rt(c))' = Held(Rt(c)) \ {c}
      /\ Cardinality(Held(Rt(c)) \ {c}) = Cardinality(Held(Rt(c))) - 1
      /\ \A r \in Runtimes \ {Rt(c)} : Held(r)' = Held(r)
  BY LeaseGivenBack, RuntimeOfCall, AccountsAreFinite, Removed
<1>2. /\ budget[Rt(c)].active - 1 \in Nat /\ budget[Rt(c)].active > 0
      /\ budget[Rt(c)].fanOut - 1 \in Nat /\ budget[Rt(c)].fanOut > 0
  BY LeaseCounted
<1>3. /\ budget'[Rt(c)].active = budget[Rt(c)].active - 1
      /\ budget'[Rt(c)].fanOut = budget[Rt(c)].fanOut - 1
      /\ \A r \in Runtimes \ {Rt(c)} : budget'[r] = budget[r]
  BY <1>2, RuntimeOfCall DEF Accounts, AccountTypeOK, Released, Counters
<1>4. BudgetExact'
  BY <1>1, <1>3, RuntimeOfCall DEF Accounts, BudgetExact
<1>5. budget' \in [Runtimes -> Counters]
  BY <1>2, RuntimeOfCall DEF Accounts, AccountTypeOK, Released, Counters
<1>6. lease' \in [Calls -> Leases]
  BY DEF Accounts, AccountTypeOK
<1> QED BY <1>4, <1>5, <1>6

LEMMA RegisterAccounts ==
    ASSUME Accounts, NEW c \in Calls, Register(c)
    PROVE  Accounts'
<1> USE DEF evidenceVars, handlerVars, workerVars, serviceVars
<1>1. pc[c] = "register" /\ Releases(lease[c])
  BY DEF Register, Accounts, LeasesPlaced
<1>2. CASE /\ budget' = [budget EXCEPT ![Rt(c)] = Released(@)]
           /\ lease' = [lease EXCEPT ![c] = FreshLease]
           /\ Deny(c)
  <2>1. FreshLease \in Leases /\ ~Releases(FreshLease)
    BY DEF FreshLease, Leases, Releases
  <2>2. BudgetExact' /\ AccountTypeOK'
    BY <1>1, <1>2, <2>1, GivesBack DEF Register, Accounts, AccountTypeOK
  <2>3. Goto(c, "record") /\ CallTypeOK'
    BY <1>2, Says DEF Accounts, CallTypeOK, Goto, Places
  <2>4. WorkersPlaced' /\ WorkerTypeOK'
    BY <1>1, <2>3 DEF Accounts, WorkersPlaced, WorkerTypeOK, CallTypeOK, Goto, UpTo, Ops, Places, Register
  <2>5. LeasesPlaced'
    BY <1>2, <2>1, <2>3 DEF Accounts, LeasesPlaced, CallTypeOK, Goto, Register, AccountTypeOK
  <2>6. TrackerExact'
    BY DEF Accounts, TrackerExact, WorkersOf, LateOf, Register
  <2> QED BY <2>2, <2>3, <2>4, <2>5, <2>6 DEF Accounts
<1>3. CASE Continue(c, "prepare") /\ UNCHANGED <<budget, lease>>
  <2>1. MayWalk(c, "prepare")
    BY <1>1 DEF MayWalk, Forward, UpTo, Ops, Places
  <2> QED BY <1>3, <2>1, Says, Walks DEF Register, accountVars
<1> QED BY <1>2, <1>3 DEF Register

LEMMA PrepareAccounts ==
    ASSUME Accounts, NEW c \in Calls, Prepare(c)
    PROVE  Accounts'
<1> USE DEF Prepare, accountVars, workerVars
<1>1. CASE Deny(c) /\ UNCHANGED <<tracker, worker>>
  <2>1. MayWalk(c, "record")
    BY DEF MayWalk, Forward, UpTo, Ops, Places
  <2> QED BY <1>1, <2>1, Says, Walks
<1>2. CASE Dispatch(c, "policy") /\ Continue(c, "policy")
  <2>1. "policy" \in Ops /\ pc[c] \notin Ops /\ pc[c] \in UpTo("policy") /\ Forward(pc[c], "policy")
    BY DEF Forward, UpTo, Ops, Places
  <2> QED BY <1>2, <2>1, Says, Dispatches
<1> QED BY <1>1, <1>2 DEF NoDispatch, NoCapacity

LEMMA PolicyReturnsAccounts ==
    ASSUME Accounts, NEW c \in Calls, PolicyReturns(c)
    PROVE  Accounts'
<1>1. PICK q \in {"record", "replay", "claim"} : Goto(c, q) /\ outcome' \in [Calls -> Outcomes]
  BY Says DEF PolicyReturns
<1>2. "policy" \in Ops /\ Forward("policy", q) /\ q \in Places \ (Ops \cup {"idle", "register", "done"})
  BY DEF Forward, UpTo, Ops, Places
<1> QED BY <1>1, <1>2, Collects DEF PolicyReturns

\* A stored result is an answer a call may give.
LEMMA RecordsAreTyped ==
    ASSUME StoreTypeOK, NEW c \in Calls, Keyed(c)
    PROVE  /\ KeyOf[c] \in Keys
           /\ store[KeyOf[c]] \in Records
           /\ store[KeyOf[c]].result \in Statuses
           /\ Found(KeyOf[c]) \in Records
           /\ Found(KeyOf[c]).result \in Statuses
<1>1. KeyOf[c] \in Keys
  BY ProposalsAreTyped DEF Keyed
<1>2. \A rec \in Records : rec.result \in Statuses
  BY DEF Records, Results, Statuses
<1>3. NoRecord \in Records
  BY DEF NoRecord, Records, RecordStates, Results
<1>4. store[KeyOf[c]] \in Records
  BY <1>1 DEF StoreTypeOK
<1> QED BY <1>1, <1>2, <1>3, <1>4 DEF Found

LEMMA ReplayAccounts ==
    ASSUME Accounts, StoreTypeOK, NEW c \in Calls, Replay(c)
    PROVE  Accounts'
<1>1. PICK q \in {"record", "claim", "finish"} :
         Goto(c, q) /\ outcome' \in [Calls -> Outcomes]
  <2>1. Found(KeyOf[c]).result \in Statuses
    BY RecordsAreTyped DEF Replay
  <2> QED BY <2>1, Says DEF Replay, AnswerFrom
<1>2. MayWalk(c, q)
  BY DEF Replay, MayWalk, Forward, UpTo, Ops, Places
<1> QED BY <1>1, <1>2, Walks DEF Replay

LEMMA ClaimAccounts ==
    ASSUME Accounts, StoreTypeOK, NEW c \in Calls, Claim(c)
    PROVE  Accounts'
<1>1. PICK q \in {"record", "approve", "mint", "finish"} :
         Goto(c, q) /\ outcome' \in [Calls -> Outcomes]
  <2>1. Keyed(c) => store[KeyOf[c]].result \in Statuses
    BY RecordsAreTyped
  <2>2. "approval_required" \in Statuses
    BY DEF Statuses
  <2> QED BY <2>1, <2>2, Says DEF Claim, AnswerFrom, AfterClaim
<1>2. MayWalk(c, q)
  BY DEF Claim, MayWalk, Forward, UpTo, Ops, Places
<1> QED BY <1>1, <1>2, Walks DEF Claim

LEMMA ApproveAccounts ==
    ASSUME Accounts, NEW c \in Calls, Approve(c)
    PROVE  Accounts'
<1> USE DEF Approve, accountVars, workerVars
<1>1. CASE Deny(c) /\ UNCHANGED <<tracker, worker>>
  <2>1. MayWalk(c, "record")
    BY DEF MayWalk, Forward, UpTo, Ops, Places
  <2> QED BY <1>1, <2>1, Says, Walks
<1>2. CASE Dispatch(c, "approval") /\ Continue(c, "approval")
  <2>1. /\ "approval" \in Ops /\ pc[c] \notin Ops
        /\ pc[c] \in UpTo("approval") /\ Forward(pc[c], "approval")
    BY DEF Forward, UpTo, Ops, Places
  <2> QED BY <1>2, <2>1, Says, Dispatches
<1> QED BY <1>1, <1>2 DEF NoDispatch, NoCapacity

LEMMA ApprovalReturnsAccounts ==
    ASSUME Accounts, NEW c \in Calls, ApprovalReturns(c)
    PROVE  Accounts'
<1>1. PICK q \in {"record", "mint"} : Goto(c, q) /\ outcome' \in [Calls -> Outcomes]
  BY Says DEF ApprovalReturns
<1>2. /\ "approval" \in Ops /\ Forward("approval", q)
      /\ q \in Places \ (Ops \cup {"idle", "register", "done"})
  BY DEF Forward, UpTo, Ops, Places
<1> QED BY <1>1, <1>2, Collects DEF ApprovalReturns

LEMMA MintAccounts ==
    ASSUME Accounts, NEW c \in Calls, Mint(c)
    PROVE  Accounts'
<1> USE DEF Mint, accountVars, workerVars
<1>1. ASSUME NEW q \in {"record", "invoke"}, Goto(c, q), outcome' \in [Calls -> Outcomes],
             UNCHANGED <<tracker, worker>>
      PROVE  Accounts'
  <2>1. MayWalk(c, q)
    BY DEF MayWalk, Forward, UpTo, Ops, Places
  <2> QED BY <1>1, <2>1, Walks
<1>2. CASE Dispatch(c, "credential") /\ Continue(c, "credential")
  <2>1. /\ "credential" \in Ops /\ pc[c] \notin Ops
        /\ pc[c] \in UpTo("credential") /\ Forward(pc[c], "credential")
    BY DEF Forward, UpTo, Ops, Places
  <2> QED BY <1>2, <2>1, Says, Dispatches
<1> QED BY <1>1, <1>2, Says DEF NoDispatch, NoCapacity

LEMMA CredentialReturnsAccounts ==
    ASSUME Accounts, NEW c \in Calls, CredentialReturns(c)
    PROVE  Accounts'
<1>1. PICK q \in {"record", "invoke"} : Goto(c, q) /\ outcome' \in [Calls -> Outcomes]
  BY Says DEF CredentialReturns
<1>2. /\ "credential" \in Ops /\ Forward("credential", q)
      /\ q \in Places \ (Ops \cup {"idle", "register", "done"})
  BY DEF Forward, UpTo, Ops, Places
<1> QED BY <1>1, <1>2, Collects DEF CredentialReturns

LEMMA InvokeAccounts ==
    ASSUME Accounts, NEW c \in Calls, Invoke(c)
    PROVE  Accounts'
<1> USE DEF Invoke, accountVars, workerVars
<1>1. CASE Deny(c) /\ UNCHANGED <<tracker, worker>>
  <2>1. MayWalk(c, "record")
    BY DEF MayWalk, Forward, UpTo, Ops, Places
  <2> QED BY <1>1, <2>1, Says, Walks
<1>2. CASE Dispatch(c, "handler") /\ Continue(c, "handler")
  <2>1. /\ "handler" \in Ops /\ pc[c] \notin Ops
        /\ pc[c] \in UpTo("handler") /\ Forward(pc[c], "handler")
    BY DEF Forward, UpTo, Ops, Places
  <2> QED BY <1>2, <2>1, Says, Dispatches
<1> QED BY <1>1, <1>2 DEF NoDispatch, NoCapacity

\* A lost audit event is said, too.
LEMMA LosesAudit ==
    ASSUME Accounts, NEW c \in Calls, AuditLost(c)
    PROVE  Goto(c, AfterAudit(c)) /\ outcome' \in [Calls -> Outcomes]
<1>1. PICK status : status = IF outcome[c].status = "executed"
                             THEN "executed_unrecorded" ELSE outcome[c].status
  OBVIOUS
<1>2. outcome \in [Calls -> Outcomes]
  BY DEF Accounts, CallTypeOK
<1>3. outcome[c] \in Outcomes
  BY <1>2
<1>4. status \in Statuses
  BY <1>1, <1>3 DEF Outcomes, Statuses
<1>5. [outcome[c] EXCEPT !.audited = FALSE, !.status = status] \in Outcomes
  BY <1>3, <1>4 DEF Outcomes
<1>6. outcome' = [outcome EXCEPT ![c] = [outcome[c] EXCEPT !.audited = FALSE, !.status = status]]
  BY <1>1, <1>2, <1>3 DEF AuditLost, Outcomes
<1>7. outcome' \in [Calls -> Outcomes]
  BY <1>2, <1>5, <1>6
<1>8. Goto(c, AfterAudit(c))
  BY DEF AuditLost
<1> QED BY <1>7, <1>8

LEMMA RecordAccounts ==
    ASSUME Accounts, NEW c \in Calls, Record(c)
    PROVE  Accounts'
<1> USE DEF Record, accountVars, workerVars
<1>1. CASE NoCapacity(c) /\ AuditLost(c)
  <2>1. MayWalk(c, AfterAudit(c))
    BY DEF AfterAudit, MayWalk, Forward, UpTo, Ops, Places
  <2> QED BY <1>1, <2>1, LosesAudit, Walks DEF NoCapacity
<1>2. CASE Dispatch(c, "audit") /\ Continue(c, "audit")
  <2>1. /\ "audit" \in Ops /\ pc[c] \notin Ops
        /\ pc[c] \in UpTo("audit") /\ Forward(pc[c], "audit")
    BY DEF Forward, UpTo, Ops, Places
  <2> QED BY <1>2, <2>1, Says, Dispatches
<1> QED BY <1>1, <1>2

LEMMA AuditReturnsAccounts ==
    ASSUME Accounts, NEW c \in Calls, AuditReturns(c)
    PROVE  Accounts'
<1>1. Goto(c, AfterAudit(c)) /\ outcome' \in [Calls -> Outcomes]
  BY Says, LosesAudit DEF AuditReturns
<1>2. /\ "audit" \in Ops /\ Forward("audit", AfterAudit(c))
      /\ AfterAudit(c) \in Places \ (Ops \cup {"idle", "register", "done"})
  BY DEF AfterAudit, Forward, UpTo, Ops, Places
<1> QED BY <1>1, <1>2, Collects DEF AuditReturns

LEMMA StoreTerminalAccounts ==
    ASSUME Accounts, NEW c \in Calls, StoreTerminal(c)
    PROVE  Accounts'
<1>1. Unstored(outcome[c]) \in Outcomes
  BY DEF Unstored, Outcomes, Statuses, Accounts, CallTypeOK
<1>2. Goto(c, "finish") /\ outcome' \in [Calls -> Outcomes]
  BY <1>1 DEF StoreTerminal, Accounts, CallTypeOK
<1>3. MayWalk(c, "finish")
  BY DEF StoreTerminal, MayWalk, Forward, UpTo, Ops, Places
<1> QED BY <1>2, <1>3, Walks DEF StoreTerminal

LEMMA HandlerReturnsAccounts ==
    ASSUME Accounts, NEW c \in Calls, HandlerReturns(c)
    PROVE  Accounts'
<1>1. StatusOf(returned[c]) \in Statuses
  BY DEF StatusOf, Statuses
<1>2. Goto(c, "record") /\ outcome' \in [Calls -> Outcomes]
  BY <1>1, Says DEF HandlerReturns
<1>3. /\ "handler" \in Ops /\ Forward("handler", "record")
      /\ "record" \in Places \ (Ops \cup {"idle", "register", "done"})
  BY DEF Forward, UpTo, Ops, Places
<1> QED BY <1>2, <1>3, Collects DEF HandlerReturns

\* The reconciliation state of an outcome is replaced.
LEMMA Reconciled ==
    ASSUME Accounts, NEW c \in Calls, NEW recon \in ReconciliationStates,
           outcome' = [outcome EXCEPT ![c].recon = recon]
    PROVE  outcome' \in [Calls -> Outcomes]
BY DEF Accounts, CallTypeOK, Outcomes

LEMMA ReconcileAccounts ==
    ASSUME Accounts, NEW c \in Calls, Reconcile(c)
    PROVE  Accounts'
<1> USE DEF Reconcile, accountVars, workerVars
<1>1. CASE /\ NoCapacity(c) /\ Goto(c, "reportFailure")
           /\ outcome' = [outcome EXCEPT ![c].recon = "failed"]
  <2>1. MayWalk(c, "reportFailure") /\ "failed" \in ReconciliationStates
    BY DEF MayWalk, Forward, UpTo, Ops, Places, ReconciliationStates
  <2> QED BY <1>1, <2>1, Reconciled, Walks DEF NoCapacity
<1>2. CASE Dispatch(c, "reconcile") /\ Continue(c, "reconcile")
  <2>1. /\ "reconcile" \in Ops /\ pc[c] \notin Ops
        /\ pc[c] \in UpTo("reconcile") /\ Forward(pc[c], "reconcile")
    BY DEF Forward, UpTo, Ops, Places
  <2> QED BY <1>2, <2>1, Says, Dispatches
<1> QED BY <1>1, <1>2

LEMMA ReconciliationReturnsAccounts ==
    ASSUME Accounts, HistoryTypeOK, NEW c \in Calls, ReconciliationReturns(c)
    PROVE  Accounts'
<1>1. PICK q \in {"record", "reportFailure"} : Goto(c, q)
  BY DEF ReconciliationReturns
<1>2. PICK recon \in ReconciliationStates : outcome' = [outcome EXCEPT ![c].recon = recon]
  <2>1. observed[c] \in ReconciliationStates /\ {"still_running", "failed"} \subseteq ReconciliationStates
    BY DEF HistoryTypeOK, ReconciliationStates
  <2> QED BY <2>1 DEF ReconciliationReturns
<1>3. /\ "reconcile" \in Ops /\ Forward("reconcile", q)
      /\ q \in Places \ (Ops \cup {"idle", "register", "done"})
  BY DEF Forward, UpTo, Ops, Places
<1> QED BY <1>1, <1>2, <1>3, Reconciled, Collects DEF ReconciliationReturns

LEMMA ReportFailureAccounts ==
    ASSUME Accounts, NEW c \in Calls, ReportFailure(c)
    PROVE  Accounts'
<1> USE DEF ReportFailure, accountVars, workerVars
<1>1. CASE NoCapacity(c) /\ Continue(c, "record")
  <2>1. MayWalk(c, "record")
    BY DEF MayWalk, Forward, UpTo, Ops, Places
  <2> QED BY <1>1, <2>1, Says, Walks DEF NoCapacity
<1>2. CASE Dispatch(c, "failureAudit") /\ Continue(c, "failureAudit")
  <2>1. /\ "failureAudit" \in Ops /\ pc[c] \notin Ops
        /\ pc[c] \in UpTo("failureAudit") /\ Forward(pc[c], "failureAudit")
    BY DEF Forward, UpTo, Ops, Places
  <2> QED BY <1>2, <2>1, Says, Dispatches
<1> QED BY <1>1, <1>2

LEMMA FailureAuditReturnsAccounts ==
    ASSUME Accounts, NEW c \in Calls, FailureAuditReturns(c)
    PROVE  Accounts'
<1>1. /\ "failureAudit" \in Ops /\ Forward("failureAudit", "record")
      /\ "record" \in Places \ (Ops \cup {"idle", "register", "done"})
  BY DEF Forward, UpTo, Ops, Places
<1> QED BY <1>1, Says, Collects DEF FailureAuditReturns

\* After a wait that expired the caller goes on to a place that is no wait and
\* lies behind it.
LEMMA GoesOn ==
    ASSUME Accounts, NEW c \in Calls, NEW op \in Ops, AfterTimeout(c, op)
    PROVE  \E q \in Places \ (Ops \cup {"idle", "register", "done"}) :
              /\ Goto(c, q) /\ outcome' \in [Calls -> Outcomes]
              /\ Forward(op, q) /\ q \notin UpTo(op)
<1>1. ASSUME NEW q \in {"record", "timedOut"}, op = "handler", Goto(c, q),
             outcome' = [outcome EXCEPT ![c].status = "timed_out", ![c].recon = "still_running"]
      PROVE  \E p \in Places \ (Ops \cup {"idle", "register", "done"}) :
                /\ Goto(c, p) /\ outcome' \in [Calls -> Outcomes]
                /\ Forward(op, p) /\ p \notin UpTo(op)
  <2>1. outcome' \in [Calls -> Outcomes]
    <3>1. outcome \in [Calls -> Outcomes] /\ outcome[c] \in Outcomes
      BY DEF Accounts, CallTypeOK
    <3>2. "timed_out" \in Statuses /\ "still_running" \in ReconciliationStates
      BY DEF Statuses, ReconciliationStates
    <3>3. [outcome[c] EXCEPT !.status = "timed_out", !.recon = "still_running"] \in Outcomes
      BY <3>1, <3>2 DEF Outcomes
    <3>4. outcome' = [outcome EXCEPT ![c] = [outcome[c] EXCEPT !.status = "timed_out",
                                                               !.recon = "still_running"]]
      BY <1>1, <3>1 DEF Outcomes
    <3> QED BY <3>1, <3>3, <3>4
  <2>2. q \in Places \ (Ops \cup {"idle", "register", "done"}) /\ Forward(op, q) /\ q \notin UpTo(op)
    BY <1>1 DEF Forward, UpTo, Ops, Places
  <2> QED BY <1>1, <2>1, <2>2
<1>2. CASE op \in {"policy", "approval", "credential"} /\ Deny(c)
  <2>1. "record" \in Places \ (Ops \cup {"idle", "register", "done"})
        /\ Forward(op, "record") /\ "record" \notin UpTo(op)
    BY <1>2 DEF Forward, UpTo, Ops, Places
  <2> QED BY <1>2, <2>1, Says
<1>3. CASE /\ op = "reconcile" /\ Goto(c, "reportFailure")
           /\ outcome' = [outcome EXCEPT ![c].recon = "failed"]
  <2>1. /\ "failed" \in ReconciliationStates
        /\ "reportFailure" \in Places \ (Ops \cup {"idle", "register", "done"})
        /\ Forward(op, "reportFailure") /\ "reportFailure" \notin UpTo(op)
    BY <1>3 DEF Forward, UpTo, Ops, Places, ReconciliationStates
  <2> QED BY <1>3, <2>1, Reconciled
<1>4. CASE op = "failureAudit" /\ Continue(c, "record")
  <2>1. "record" \in Places \ (Ops \cup {"idle", "register", "done"})
        /\ Forward(op, "record") /\ "record" \notin UpTo(op)
    BY <1>4 DEF Forward, UpTo, Ops, Places
  <2> QED BY <1>4, <2>1, Says
<1>5. CASE op = "audit" /\ AuditLost(c)
  <2>1. AfterAudit(c) \in Places \ (Ops \cup {"idle", "register", "done"})
        /\ Forward(op, AfterAudit(c)) /\ AfterAudit(c) \notin UpTo(op)
    BY <1>5 DEF AfterAudit, Forward, UpTo, Ops, Places
  <2> QED BY <1>5, <2>1, LosesAudit
<1> QED BY <1>1, <1>2, <1>3, <1>4, <1>5 DEF AfterTimeout

\* What the operations of a lease make of it.
LEMMA LeaseOperations ==
    ASSUME NEW l \in Leases
    PROVE  /\ Deferred(l) \in Leases /\ (Releases(Deferred(l)) <=> Releases(l))
           /\ ReleasedOnce(l) \in Leases /\ ~Releases(ReleasedOnce(l))
           /\ ReleasedOnce(Deferred(l)) \in Leases /\ ~Releases(ReleasedOnce(Deferred(l)))
BY DEF Leases, Deferred, ReleasedOnce, Releases

\* The lease of c becomes l, which holds nothing, and the budget is released if
\* the lease held something before.
LEMMA ReleasesOnce ==
    ASSUME Accounts, NEW c \in Calls, NEW l \in Leases, ~Releases(l),
           lease' = [lease EXCEPT ![c] = l],
           budget' = [budget EXCEPT ![Rt(c)] = BudgetAfterRelease(@, lease[c])]
    PROVE  /\ BudgetExact'
           /\ budget' \in [Runtimes -> Counters] /\ lease' \in [Calls -> Leases]
<1>1. CASE Releases(lease[c])
  BY <1>1, GivesBack DEF BudgetAfterRelease
<1>2. CASE ~Releases(lease[c])
  <2>1. budget' = budget
    BY <1>2 DEF BudgetAfterRelease, Accounts, AccountTypeOK
  <2>2. \A r \in Runtimes : Held(r)' = Held(r)
    BY <1>2, LeaseKept
  <2> QED BY <2>1, <2>2 DEF Accounts, AccountTypeOK, BudgetExact
<1> QED BY <1>1, <1>2

LEMMA FinishAccounts ==
    ASSUME Accounts, NEW c \in Calls, Finish(c)
    PROVE  Accounts'
<1>1. pc[c] = "finish" /\ Goto(c, "done") /\ CallTypeOK' /\ UNCHANGED <<tracker, worker, late>>
  BY DEF Finish, Continue, Goto, Accounts, CallTypeOK, Places, workerVars
<1>2. lease[c] \in Leases
  BY DEF Accounts, AccountTypeOK
<1>3. /\ AccountTypeOK' /\ BudgetExact'
      /\ lease' = [lease EXCEPT ![c] = lease'[c]]
      /\ Releases(lease'[c]) => Releases(lease[c]) /\ lease'[c] = lease[c] /\ lease[c].deferred
  <2>1. CASE lease[c].deferred
    BY <1>1, <2>1 DEF Finish, Accounts, AccountTypeOK, BudgetExact, Held, Releases
  <2>2. CASE ~lease[c].deferred
    <3>1. /\ lease' = [lease EXCEPT ![c] = ReleasedOnce(lease[c])]
          /\ budget' = [budget EXCEPT ![Rt(c)] = BudgetAfterRelease(@, lease[c])]
      BY <2>2 DEF Finish
    <3>2. lease'[c] = ReleasedOnce(lease[c])
      BY <3>1 DEF Accounts, AccountTypeOK
    <3> QED BY <1>1, <1>2, <3>1, <3>2, LeaseOperations, ReleasesOnce DEF Accounts, AccountTypeOK
  <2> QED BY <2>1, <2>2
<1>4. WorkersPlaced' /\ WorkerTypeOK'
  BY <1>1 DEF Accounts, WorkersPlaced, WorkerTypeOK, CallTypeOK, Goto, UpTo, Ops, Places
<1>5. LeasesPlaced'
  BY <1>1, <1>3 DEF Accounts, LeasesPlaced, CallTypeOK, Goto, AccountTypeOK
<1>6. TrackerExact'
  BY <1>1 DEF Accounts, TrackerExact, WorkersOf, LateOf
<1> QED BY <1>1, <1>3, <1>4, <1>5, <1>6 DEF Accounts

\* A worker outlives its caller's wait: one late mark more, nobody counted less.
LEMMA OutlivesAccounts ==
    ASSUME Accounts, NEW c \in Calls, NEW op \in Ops, Outlives(c, op)
    PROVE  Accounts'
<1>1. PICK q \in Places \ (Ops \cup {"idle", "register", "done"}) :
         /\ Goto(c, q) /\ outcome' \in [Calls -> Outcomes]
         /\ Forward(op, q) /\ q \notin UpTo(op)
  BY GoesOn DEF Outlives
<1>2. /\ pc[c] = op /\ op \notin late[c] /\ worker[c][op] # "none"
      /\ late' = [late EXCEPT ![c] = @ \cup {op}]
      /\ UNCHANGED <<worker, budget>>
  BY DEF Outlives, workerVars, Accounts, WorkersPlaced, UpTo, Ops, Places
<1>3. /\ lease' = [lease EXCEPT ![c] = Deferred(lease[c])]
      /\ Deferred(lease[c]) \in Leases /\ (Releases(Deferred(lease[c])) <=> Releases(lease[c]))
  BY LeaseOperations DEF Outlives, Accounts, AccountTypeOK
<1>4. CallTypeOK' /\ WorkerTypeOK'
  BY <1>1, <1>2 DEF Accounts, CallTypeOK, WorkerTypeOK, Goto
<1>5. AccountTypeOK'
  <2>1. lease' \in [Calls -> Leases]
    BY <1>3 DEF Accounts, AccountTypeOK
  <2>2. tracker' \in [Runtimes -> Account]
    BY RuntimeOfCall DEF Outlives, Accounts, AccountTypeOK, MarkedTimeout, Account
  <2> QED BY <1>2, <2>1, <2>2 DEF Accounts, AccountTypeOK
<1>6. WorkersPlaced'
  BY <1>1, <1>2 DEF Accounts, WorkersPlaced, CallTypeOK, WorkerTypeOK, Goto, Forward
<1>7. LeasesPlaced'
  <2>1. late'[c] # {} /\ pc'[c] = q /\ \A d \in Calls \ {c} : late'[d] = late[d] /\ pc'[d] = pc[d]
    BY <1>1, <1>2 DEF Accounts, WorkerTypeOK, CallTypeOK, Goto
  <2>2. \A d \in Calls \ {c} : lease'[d] = lease[d]
    BY <1>3 DEF Accounts, AccountTypeOK
  <2> QED BY <1>1, <2>1, <2>2 DEF Accounts, LeasesPlaced
<1>8. TrackerExact'
  <2>1. /\ LateOf(Rt(c))' = LateOf(Rt(c)) \cup {<<c, op>>}
        /\ Cardinality(LateOf(Rt(c)) \cup {<<c, op>>}) = Cardinality(LateOf(Rt(c))) + 1
        /\ \A r \in Runtimes \ {Rt(c)} : LateOf(r)' = LateOf(r)
    BY <1>2, LateAdded, RuntimeOfCall, AccountsAreFinite, Added
  <2>2. \A r \in Runtimes : WorkersOf(r)' = WorkersOf(r)
    BY <1>2 DEF WorkersOf
  <2>3. /\ tracker'[Rt(c)].bounded = tracker[Rt(c)].bounded
        /\ tracker'[Rt(c)].timedOut = tracker[Rt(c)].timedOut + 1
        /\ \A r \in Runtimes \ {Rt(c)} : tracker'[r] = tracker[r]
    BY RuntimeOfCall DEF Outlives, MarkedTimeout, Accounts, AccountTypeOK, Account
  <2> QED BY <2>1, <2>2, <2>3, RuntimeOfCall DEF Accounts, TrackerExact, AccountTypeOK, Account
<1>9. BudgetExact'
  BY <1>2, <1>3, LeaseKept DEF Accounts, BudgetExact
<1> QED BY <1>4, <1>5, <1>6, <1>7, <1>8, <1>9 DEF Accounts

\* The account of a worker that is dropped, marked and unmarked in one step.
LEMMA DroppedWorker ==
    ASSUME NEW t \in Account
    PROVE  /\ Completed(MarkedTimeout(t), TRUE).bounded = t.bounded - 1
           /\ Completed(MarkedTimeout(t), TRUE).timedOut = t.timedOut
           /\ t.bounded - 1 \in Nat => Completed(MarkedTimeout(t), TRUE) \in Account
BY DEF Account, Completed, MarkedTimeout

\* A worker is dropped with its wait: one worker less, and the lease given back.
LEMMA DropsAccounts ==
    ASSUME Accounts, NEW c \in Calls, NEW op \in Ops, Drops(c, op)
    PROVE  Accounts'
<1>1. PICK q \in Places \ (Ops \cup {"idle", "register", "done"}) :
         /\ Goto(c, q) /\ outcome' \in [Calls -> Outcomes]
         /\ Forward(op, q) /\ q \notin UpTo(op)
  BY GoesOn DEF Drops
<1>2. /\ pc[c] = op /\ op \notin late[c] /\ worker[c][op] # "none"
      /\ worker' = [worker EXCEPT ![c][op] = "none"]
      /\ UNCHANGED late
  BY DEF Drops, Accounts, WorkersPlaced, UpTo, Ops, Places
<1>3. /\ ReleasedOnce(Deferred(lease[c])) \in Leases
      /\ ~Releases(ReleasedOnce(Deferred(lease[c])))
      /\ lease' = [lease EXCEPT ![c] = ReleasedOnce(Deferred(lease[c]))]
      /\ budget' = [budget EXCEPT ![Rt(c)] = BudgetAfterRelease(@, lease[c])]
  BY LeaseOperations DEF Drops, ReleaseLease, Accounts, AccountTypeOK
<1>4. BudgetExact' /\ budget' \in [Runtimes -> Counters] /\ lease' \in [Calls -> Leases]
  BY <1>3, ReleasesOnce
<1>5. /\ tracker[Rt(c)].bounded - 1 \in Nat /\ tracker[Rt(c)] \in Account
      /\ tracker' = [tracker EXCEPT ![Rt(c)] = Completed(MarkedTimeout(tracker[Rt(c)]), TRUE)]
  BY <1>2, WorkerCounted, RuntimeOfCall DEF Drops, Accounts, AccountTypeOK
<1>6. CallTypeOK' /\ WorkerTypeOK' /\ AccountTypeOK'
  <2>1. CallTypeOK' /\ WorkerTypeOK'
    BY <1>1, <1>2 DEF Accounts, CallTypeOK, WorkerTypeOK, WorkerStates, Goto
  <2>2. tracker' \in [Runtimes -> Account]
    BY <1>5, DroppedWorker DEF Accounts, AccountTypeOK
  <2> QED BY <1>4, <2>1, <2>2 DEF AccountTypeOK
<1>7. WorkersPlaced'
  BY <1>1, <1>2 DEF Accounts, WorkersPlaced, CallTypeOK, WorkerTypeOK, Goto, Forward
<1>8. LeasesPlaced'
  <2>1. /\ pc'[c] = q /\ ~Releases(lease'[c])
        /\ \A d \in Calls \ {c} : pc'[d] = pc[d] /\ lease'[d] = lease[d]
    BY <1>1, <1>3 DEF Accounts, AccountTypeOK, CallTypeOK, Goto
  <2> QED BY <1>1, <1>2, <2>1 DEF Accounts, LeasesPlaced
<1>9. TrackerExact'
  <2>1. /\ WorkersOf(Rt(c))' = WorkersOf(Rt(c)) \ {<<c, op>>}
        /\ Cardinality(WorkersOf(Rt(c)) \ {<<c, op>>}) = Cardinality(WorkersOf(Rt(c))) - 1
        /\ \A r \in Runtimes \ {Rt(c)} : WorkersOf(r)' = WorkersOf(r)
    BY <1>2, WorkerRemoved, RuntimeOfCall, AccountsAreFinite, Removed
  <2>2. \A r \in Runtimes : LateOf(r)' = LateOf(r)
    BY <1>2 DEF LateOf
  <2>3. /\ tracker'[Rt(c)].bounded = tracker[Rt(c)].bounded - 1
        /\ tracker'[Rt(c)].timedOut = tracker[Rt(c)].timedOut
        /\ \A r \in Runtimes \ {Rt(c)} : tracker'[r] = tracker[r]
    BY <1>5, DroppedWorker, RuntimeOfCall DEF Accounts, AccountTypeOK
  <2> QED BY <2>1, <2>2, <2>3, RuntimeOfCall DEF Accounts, TrackerExact
<1> QED BY <1>4, <1>6, <1>7, <1>8, <1>9 DEF Accounts

-----------------------------------------------------------------------------
(* The actions of workers, host and environment *)

\* A late worker exits: it is counted neither as a worker nor as late any more,
\* and the lease that was deferred to it is given back.
LEMMA LateExitsAccounts ==
    ASSUME Accounts, NEW c \in Calls, NEW op \in Ops, LateExits(c, op)
    PROVE  Accounts'
<1>1. /\ op \in late[c] /\ worker[c][op] # "none" /\ pc[c] \notin UpTo(op)
      /\ worker' = [worker EXCEPT ![c][op] = "none"]
      /\ late' = [late EXCEPT ![c] = @ \ {op}]
      /\ UNCHANGED <<pc, outcome>>
  BY DEF LateExits, Accounts, WorkersPlaced
<1>2. /\ ReleasedOnce(Deferred(lease[c])) \in Leases
      /\ ~Releases(ReleasedOnce(Deferred(lease[c])))
      /\ lease' = [lease EXCEPT ![c] = ReleasedOnce(Deferred(lease[c]))]
      /\ budget' = [budget EXCEPT ![Rt(c)] = BudgetAfterRelease(@, lease[c])]
  BY LeaseOperations DEF LateExits, ReleaseLease, Accounts, AccountTypeOK
<1>3. BudgetExact' /\ budget' \in [Runtimes -> Counters] /\ lease' \in [Calls -> Leases]
  BY <1>2, ReleasesOnce
<1>4. /\ tracker[Rt(c)].bounded - 1 \in Nat /\ tracker[Rt(c)].timedOut - 1 \in Nat
      /\ tracker' = [tracker EXCEPT ![Rt(c)] = Completed(@, TRUE)]
  BY <1>1, WorkerCounted, LateCounted DEF LateExits
<1>5. CallTypeOK' /\ WorkerTypeOK' /\ AccountTypeOK'
  <2>1. CallTypeOK' /\ WorkerTypeOK'
    BY <1>1 DEF Accounts, CallTypeOK, WorkerTypeOK, WorkerStates
  <2>2. tracker' \in [Runtimes -> Account]
    BY <1>4, RuntimeOfCall DEF Accounts, AccountTypeOK, Completed, Account
  <2> QED BY <1>3, <2>1, <2>2 DEF AccountTypeOK
<1>6. WorkersPlaced'
  <2>1. pc[c] # op
    BY <1>1 DEF UpTo, Ops, Places
  <2> QED BY <1>1, <2>1 DEF Accounts, WorkersPlaced, WorkerTypeOK
<1>7. LeasesPlaced'
  <2>1. pc[c] \notin {"idle", "register"}
    BY <1>1 DEF UpTo, Ops, Places
  <2>2. /\ ~Releases(lease'[c])
        /\ \A d \in Calls \ {c} : late'[d] = late[d] /\ lease'[d] = lease[d]
    BY <1>1, <1>2 DEF Accounts, AccountTypeOK, WorkerTypeOK
  <2> QED BY <1>1, <2>1, <2>2 DEF Accounts, LeasesPlaced
<1>8. TrackerExact'
  <2>1. /\ WorkersOf(Rt(c))' = WorkersOf(Rt(c)) \ {<<c, op>>}
        /\ Cardinality(WorkersOf(Rt(c)) \ {<<c, op>>}) = Cardinality(WorkersOf(Rt(c))) - 1
        /\ \A r \in Runtimes \ {Rt(c)} : WorkersOf(r)' = WorkersOf(r)
    BY <1>1, WorkerRemoved, RuntimeOfCall, AccountsAreFinite, Removed
  <2>2. /\ LateOf(Rt(c))' = LateOf(Rt(c)) \ {<<c, op>>}
        /\ Cardinality(LateOf(Rt(c)) \ {<<c, op>>}) = Cardinality(LateOf(Rt(c))) - 1
        /\ \A r \in Runtimes \ {Rt(c)} : LateOf(r)' = LateOf(r)
    BY <1>1, LateRemoved, RuntimeOfCall, AccountsAreFinite, Removed
  <2>3. /\ tracker'[Rt(c)].bounded = tracker[Rt(c)].bounded - 1
        /\ tracker'[Rt(c)].timedOut = tracker[Rt(c)].timedOut - 1
        /\ \A r \in Runtimes \ {Rt(c)} : tracker'[r] = tracker[r]
    BY <1>4, RuntimeOfCall DEF Completed, Accounts, AccountTypeOK, Account
  <2> QED BY <2>1, <2>2, <2>3, RuntimeOfCall DEF Accounts, TrackerExact
<1> QED BY <1>3, <1>5, <1>6, <1>7, <1>8 DEF Accounts

\* The worker of a handler moves on, and is still there.
LEMMA WorkerMoves ==
    ASSUME Accounts, NEW c \in Calls, NEW s \in WorkerStates \ {"none"},
           worker[c]["handler"] # "none", HandlerMoves(c, s),
           UNCHANGED <<pc, outcome, accountVars, late>>
    PROVE  Accounts'
<1> USE DEF accountVars
<1>1. "handler" \in Ops /\ worker' = [worker EXCEPT ![c]["handler"] = s] /\ s # "none"
  BY DEF Ops, HandlerMoves
<1>2. AccountTypeOK' /\ CallTypeOK' /\ WorkerTypeOK'
  BY <1>1 DEF Accounts, AccountTypeOK, CallTypeOK, WorkerTypeOK
<1>3. WorkersPlaced'
  BY <1>1 DEF Accounts, WorkersPlaced, WorkerTypeOK
<1>4. LeasesPlaced'
  BY DEF Accounts, LeasesPlaced
<1>5. TrackerExact'
  <2>1. \A r \in Runtimes : WorkersOf(r)' = WorkersOf(r)
    BY <1>1, WorkerKept
  <2> QED BY <2>1 DEF Accounts, TrackerExact, LateOf
<1>6. BudgetExact'
  BY DEF Accounts, BudgetExact, Held
<1> QED BY <1>2, <1>3, <1>4, <1>5, <1>6 DEF Accounts

\* What the invariant does not mention may change freely.
LEMMA NothingMoves ==
    ASSUME Accounts, UNCHANGED <<pc, outcome, accountVars, workerVars>>
    PROVE  Accounts'
<1> USE DEF accountVars, workerVars
<1>1. AccountTypeOK' /\ CallTypeOK' /\ WorkerTypeOK' /\ WorkersPlaced' /\ LeasesPlaced'
  BY DEF Accounts, AccountTypeOK, CallTypeOK, WorkerTypeOK, WorkersPlaced, LeasesPlaced
<1>2. TrackerExact'
  BY WorkersStay DEF Accounts
<1>3. BudgetExact'
  <2>1. \A r \in Runtimes : Held(r)' = Held(r)
    BY DEF Held
  <2> QED BY <2>1 DEF Accounts, BudgetExact
<1> QED BY <1>1, <1>2, <1>3 DEF Accounts

LEMMA HandlerAccounts ==
    ASSUME Accounts, NEW c \in Calls,
           HandlerChecks(c) \/ HandlerStarts(c) \/ HandlerCommits(c) \/ HandlerExits(c)
    PROVE  Accounts'
<1>1. CASE HandlerCommits(c)
  BY <1>1, NothingMoves DEF HandlerCommits
<1>2. CASE HandlerChecks(c) \/ HandlerStarts(c) \/ HandlerExits(c)
  <2>1. PICK s \in WorkerStates \ {"none"} : HandlerMoves(c, s)
    BY <1>2 DEF HandlerChecks, HandlerStarts, HandlerExits, OperationEnds, WorkerStates
  <2>2. worker[c]["handler"] # "none" /\ UNCHANGED <<pc, outcome, accountVars, late>>
    BY <1>2 DEF HandlerChecks, HandlerStarts, HandlerExits, HandlerAt
  <2> QED BY <2>1, <2>2, WorkerMoves
<1> QED BY <1>1, <1>2

\* After a crash the accounts of the runtime are empty, and the others as before.
LEMMA CrashAccounts ==
    ASSUME Accounts, NEW r \in Runtimes, Crash(r)
    PROVE  Accounts'
<1> DEFINE lost == {c \in CallsOf(r) : pc[c] \notin {"idle", "done"}}
<1>1. /\ pc' = [c \in Calls |-> IF c \in lost THEN "done" ELSE pc[c]]
      /\ outcome' = [c \in Calls |->
                       IF c \in lost THEN [outcome[c] EXCEPT !.status = "lost"] ELSE outcome[c]]
      /\ worker' = [c \in Calls |-> IF Rt(c) = r THEN [op \in Ops |-> "none"] ELSE worker[c]]
      /\ late' = [c \in Calls |-> IF Rt(c) = r THEN {} ELSE late[c]]
      /\ lease' = [c \in Calls |-> IF Rt(c) = r THEN FreshLease ELSE lease[c]]
      /\ budget' = [budget EXCEPT ![r] = FreshBudget]
      /\ tracker' = [tracker EXCEPT ![r] = FreshAccount]
  BY DEF Crash
<1>2. /\ \A c \in CallsOf(r) : /\ pc'[c] \in {"idle", "done"} /\ lease'[c] = FreshLease
                               /\ late'[c] = {} /\ \A op \in Ops : worker'[c][op] = "none"
      /\ \A c \in Calls \ CallsOf(r) : /\ pc'[c] = pc[c] /\ lease'[c] = lease[c]
                                       /\ late'[c] = late[c] /\ worker'[c] = worker[c]
  BY <1>1 DEF CallsOf, Rt
<1>3. ~Releases(FreshLease) /\ FreshLease \in Leases
  BY DEF FreshLease, Leases, Releases
<1>4. CallTypeOK'
  <2>1. "done" \in Places /\ \A o \in Outcomes : [o EXCEPT !.status = "lost"] \in Outcomes
    BY DEF Places, Outcomes, Statuses
  <2> QED BY <1>1, <2>1 DEF Accounts, CallTypeOK
<1>5. WorkerTypeOK'
  BY <1>1 DEF Accounts, WorkerTypeOK, WorkerStates
<1>6. AccountTypeOK'
  BY <1>1, <1>3 DEF Accounts, AccountTypeOK, FreshBudget, FreshAccount, Counters, Account
<1>7. WorkersPlaced'
  BY <1>2 DEF Accounts, WorkersPlaced, Ops
<1>8. LeasesPlaced'
  BY <1>2, <1>3 DEF Accounts, LeasesPlaced
<1>9. /\ WorkersOf(r)' = {} /\ LateOf(r)' = {} /\ Held(r)' = {}
      /\ \A s \in Runtimes \ {r} : /\ WorkersOf(s)' = WorkersOf(s) /\ LateOf(s)' = LateOf(s)
                                   /\ Held(s)' = Held(s)
  <2>1. \A s \in Runtimes \ {r} : CallsOf(s) \subseteq Calls \ CallsOf(r)
    BY DEF CallsOf
  <2> QED BY <1>2, <1>3, <2>1 DEF WorkersOf, LateOf, Held
<1>10. /\ budget'[r] = FreshBudget /\ tracker'[r] = FreshAccount
       /\ \A s \in Runtimes \ {r} : budget'[s] = budget[s] /\ tracker'[s] = tracker[s]
  BY <1>1 DEF Accounts, AccountTypeOK
<1>11. TrackerExact' /\ BudgetExact'
  <2>1. Cardinality({}) = 0
    BY FS_EmptySet
  <2>2. FreshBudget.active = 0 /\ FreshBudget.fanOut = 0
    BY DEF FreshBudget
  <2>3. FreshAccount.bounded = 0 /\ FreshAccount.timedOut = 0
    BY DEF FreshAccount
  <2>4. TrackerExact'
    BY <1>9, <1>10, <2>1, <2>3 DEF Accounts, TrackerExact
  <2>5. BudgetExact'
    BY <1>9, <1>10, <2>1, <2>2 DEF Accounts, BudgetExact
  <2> QED BY <2>4, <2>5
<1> QED BY <1>4, <1>5, <1>6, <1>7, <1>8, <1>11 DEF Accounts

-----------------------------------------------------------------------------
(* The types of what the accounts do not need *)

\* Records and grants keep their types under the operations of their owners.
LEMMA StoreOperations ==
    ASSUME StoreTypeOK, NEW k \in Keys
    PROVE  /\ Found(k) \in Records
           /\ LookedUpStore(k) \in [Keys -> Records]
           /\ \A c \in Calls, f \in Fingerprints : ClaimedStore(k, c, f) \in [Keys -> Records]
           /\ \A state \in RecordStates, result \in Results :
                 UpdatedStore(k, state, result) \in [Keys -> Records]
<1>1. NoRecord \in Records /\ \A c \in Calls, f \in Fingerprints : NewRecord(c, f) \in Records
  BY DEF NoRecord, NewRecord, Records, RecordStates, Results
<1>2. Found(k) \in Records
  BY <1>1 DEF Found, StoreTypeOK
<1>3. LookedUpStore(k) \in [Keys -> Records]
  BY <1>2 DEF LookedUpStore, StoreTypeOK
<1>4. ASSUME NEW c \in Calls, NEW f \in Fingerprints
      PROVE  ClaimedStore(k, c, f) \in [Keys -> Records]
  BY <1>1 DEF ClaimedStore, StoreTypeOK
<1>5. ASSUME NEW state \in RecordStates, NEW result \in Results
      PROVE  UpdatedStore(k, state, result) \in [Keys -> Records]
  BY DEF UpdatedStore, StoreTypeOK, Records
<1> QED BY <1>2, <1>3, <1>4, <1>5

LEMMA GrantOperations ==
    ASSUME GrantsTypeOK, NEW g, NEW f
    PROVE  /\ GrantsAfterConsume(g, f) \in [Grants -> GrantRecords]
           /\ ConsumeOutcome(g, f) \in {"consumed", "not_consumed"}
BY DEF GrantsAfterConsume, ConsumedGrants, ConsumeOutcome, GrantsTypeOK, GrantRecords

\* The parts of RestTypeOK hold on where their variables are left alone.
LEMMA RestKept ==
    ASSUME RestTypeOK
    PROVE  /\ UNCHANGED store => StoreTypeOK'
           /\ UNCHANGED grants => GrantsTypeOK'
           /\ UNCHANGED evidenceVars => EvidenceTypeOK'
           /\ UNCHANGED handlerVars => HandlerTypeOK'
           /\ UNCHANGED hostVars => HostTypeOK'
           /\ UNCHANGED <<settled, logged, observed, crashes>> => HistoryTypeOK'
BY DEF RestTypeOK, StoreTypeOK, GrantsTypeOK, EvidenceTypeOK, HandlerTypeOK, HostTypeOK,
       HistoryTypeOK, evidenceVars, handlerVars, hostVars

\* The result a call stores is one a record can hold: a denied call stores none.
LEMMA CallerRest ==
    ASSUME RestTypeOK, NEW c \in Calls, Caller(c),
           pc[c] = "store" => outcome[c].status \in Results
    PROVE  RestTypeOK'
<1> USE DEF serviceVars
<1>1. ASSUME UNCHANGED <<hostVars, evidenceVars, handlerVars, serviceVars,
                          observed, logged, crashes>>
      PROVE  RestTypeOK'
  BY <1>1, RestKept DEF RestTypeOK
<1>2. Rt(c) \in Runtimes /\ FingerprintOf[c] \in Fingerprints /\ (Keyed(c) => KeyOf[c] \in Keys)
  BY RuntimeOfCall, ProposalsAreTyped DEF Keyed
<1>3. CASE Admit(c)
  <2>1. HostTypeOK'
    BY <1>2, <1>3 DEF Admit, RestTypeOK, HostTypeOK
  <2> QED BY <1>3, <2>1, RestKept DEF Admit, RestTypeOK
<1>4. CASE Register(c)
  <2>1. HostTypeOK'
    BY <1>2, <1>4 DEF Register, RestTypeOK, HostTypeOK
  <2> QED BY <1>4, <2>1, RestKept DEF Register, RestTypeOK
<1>5. CASE PolicyReturns(c)
  <2>1. EvidenceTypeOK'
    <3>1. \A d \in Decisions : Required(c, d) \in {"allow", "deny", "approval_required"}
      BY EnvironmentIsTyped DEF Required
    <3> QED BY <1>5, <3>1 DEF PolicyReturns, RestTypeOK, EvidenceTypeOK
  <2> QED BY <1>5, <2>1, RestKept DEF PolicyReturns, RestTypeOK
<1>6. CASE Replay(c)
  <2>1. StoreTypeOK'
    BY <1>2, <1>6, StoreOperations DEF Replay, RestTypeOK, StoreTypeOK
  <2> QED BY <1>6, <2>1, RestKept DEF Replay, RestTypeOK
<1>7. CASE Claim(c)
  <2>1. StoreTypeOK'
    BY <1>2, <1>7, StoreOperations DEF Claim, RestTypeOK, StoreTypeOK
  <2> QED BY <1>7, <2>1, RestKept DEF Claim, RestTypeOK
<1>8. CASE Approve(c)
  <2>1. EvidenceTypeOK'
    BY <1>8 DEF Approve, RestTypeOK, EvidenceTypeOK
  <2> QED BY <1>8, <2>1, RestKept DEF Approve, RestTypeOK
<1>9. CASE ApprovalReturns(c)
  <2>1. EvidenceTypeOK' /\ GrantsTypeOK'
    BY <1>9, GrantOperations DEF ApprovalReturns, RestTypeOK, EvidenceTypeOK, GrantsTypeOK
  <2> QED BY <1>9, <2>1, RestKept DEF ApprovalReturns, RestTypeOK
<1>10. CASE CredentialReturns(c)
  <2>1. EvidenceTypeOK'
    BY <1>10 DEF CredentialReturns, RestTypeOK, EvidenceTypeOK
  <2> QED BY <1>10, <2>1, RestKept DEF CredentialReturns, RestTypeOK
<1>11. CASE AuditReturns(c)
  <2>1. HistoryTypeOK'
    BY <1>11 DEF AuditReturns, RestTypeOK, HistoryTypeOK
  <2> QED BY <1>11, <2>1, RestKept DEF AuditReturns, RestTypeOK
<1>12. CASE StoreTerminal(c)
  <2>1. TerminalState(outcome[c]) \in RecordStates /\ outcome[c].status \in Results
    BY <1>12 DEF TerminalState, RecordStates, StoreTerminal
  <2>2. Keyed(c) => UpdatedStore(KeyOf[c], TerminalState(outcome[c]), outcome[c].status)
                        \in [Keys -> Records]
    BY <1>2, <2>1, StoreOperations DEF RestTypeOK
  <2>3. StoreTypeOK' /\ HistoryTypeOK'
    BY <1>12, <2>2 DEF StoreTerminal, RestTypeOK, StoreTypeOK, HistoryTypeOK
  <2> QED BY <1>12, <2>3, RestKept DEF StoreTerminal, RestTypeOK
<1>13. CASE Finish(c)
  <2>1. HostTypeOK'
    BY <1>2, <1>13 DEF Finish, RestTypeOK, HostTypeOK
  <2> QED BY <1>13, <2>1, RestKept DEF Finish, RestTypeOK
<1>14. ASSUME NEW op \in Ops, Outlives(c, op)
       PROVE  RestTypeOK'
  <2>1. HostTypeOK'
    BY <1>2, <1>14 DEF Outlives, AfterTimeout, RestTypeOK, HostTypeOK
  <2> QED BY <1>14, <2>1, RestKept DEF Outlives, RestTypeOK
<1>15. ASSUME NEW op \in Ops, Drops(c, op)
       PROVE  RestTypeOK'
  <2>1. HostTypeOK'
    BY <1>2, <1>15 DEF Drops, AfterTimeout, RestTypeOK, HostTypeOK
  <2>2. GrantsTypeOK'
    BY <1>15, GrantOperations DEF Drops, WorkerEffect, RestTypeOK, GrantsTypeOK
  <2>3. HistoryTypeOK'
    BY <1>15 DEF Drops, WorkerEffect, RestTypeOK, HistoryTypeOK
  <2> QED BY <1>15, <2>1, <2>2, <2>3, RestKept DEF Drops, RestTypeOK
<1>16. CASE Prepare(c)
  BY <1>1, <1>16 DEF Prepare
<1>17. CASE Mint(c)
  BY <1>1, <1>17 DEF Mint
<1>18. CASE Invoke(c)
  BY <1>1, <1>18 DEF Invoke
<1>19. CASE HandlerReturns(c)
  BY <1>1, <1>19 DEF HandlerReturns
<1>20. CASE Reconcile(c)
  BY <1>1, <1>20 DEF Reconcile
<1>21. CASE ReconciliationReturns(c)
  BY <1>1, <1>21 DEF ReconciliationReturns
<1>22. CASE ReportFailure(c)
  BY <1>1, <1>22 DEF ReportFailure
<1>23. CASE FailureAuditReturns(c)
  BY <1>1, <1>23 DEF FailureAuditReturns
<1>24. CASE Record(c)
  BY <1>1, <1>24 DEF Record
<1> QED BY <1>3, <1>4, <1>5, <1>6, <1>7, <1>8, <1>9, <1>10, <1>11, <1>12, <1>13, <1>14, <1>15,
           <1>16, <1>17, <1>18, <1>19, <1>20, <1>21, <1>22, <1>23, <1>24 DEF Caller

\* The steps of a call change no other call's place and answer, and store only
\* what a record can hold.
LEMMA CallerAnswers ==
    ASSUME Accounts, StoreTypeOK, AnswersPlaced, NEW c \in Calls, Caller(c)
    PROVE  AnswersPlaced'
<1> USE DEF Goto, Continue, Answer, Deny
<1>1. ASSUME NEW q \in Places \ {"store"}, NEW status \in Statuses \ {"lost"}, pc[c] # "done",
             Continue(c, q) \/ Answer(c, status, q) \/ Deny(c)
      PROVE  AnswersPlaced'
  BY <1>1 DEF AnswersPlaced, Accounts, CallTypeOK, Outcomes
<1>2. ASSUME NEW q \in Places \ {"store"}, NEW recon \in ReconciliationStates, pc[c] # "done",
             Goto(c, q), outcome' = [outcome EXCEPT ![c].recon = recon]
      PROVE  AnswersPlaced'
  BY <1>2 DEF AnswersPlaced, Accounts, CallTypeOK, Outcomes
<1>3. ASSUME pc[c] # "done", AuditLost(c) \/ Continue(c, AfterAudit(c))
      PROVE  AnswersPlaced'
  BY <1>3 DEF AnswersPlaced, Accounts, CallTypeOK, Outcomes, AuditLost, AfterAudit
<1>4. CASE Admit(c)
  BY <1>1, <1>4 DEF Admit, Places, Statuses
<1>5. CASE Register(c)
  BY <1>1, <1>5 DEF Register, Places, Statuses
<1>6. CASE Prepare(c)
  BY <1>1, <1>6 DEF Prepare, Places, Statuses
<1>7. CASE PolicyReturns(c)
  BY <1>1, <1>7 DEF PolicyReturns, Places, Statuses
<1>8. CASE Replay(c)
  <2>1. Found(KeyOf[c]).result \in Statuses \ {"lost"}
    BY <1>8, RecordsAreTyped DEF Replay, Records, Results
  <2> QED BY <1>1, <1>8, <2>1 DEF Replay, AnswerFrom, Places, Statuses
<1>9. CASE Claim(c)
  <2>1. Keyed(c) => store[KeyOf[c]].result \in Statuses \ {"lost"}
    BY RecordsAreTyped DEF Records, Results
  <2> QED BY <1>1, <1>9, <2>1 DEF Claim, AfterClaim, AnswerFrom, Places, Statuses
<1>10. CASE Approve(c)
  BY <1>1, <1>10 DEF Approve, Places, Statuses
<1>11. CASE ApprovalReturns(c)
  BY <1>1, <1>11 DEF ApprovalReturns, Places, Statuses
<1>12. CASE Mint(c)
  BY <1>1, <1>12 DEF Mint, Places, Statuses
<1>13. CASE CredentialReturns(c)
  BY <1>1, <1>13 DEF CredentialReturns, Places, Statuses
<1>14. CASE Invoke(c)
  BY <1>1, <1>14 DEF Invoke, Places, Statuses
<1>15. CASE HandlerReturns(c)
  <2>1. StatusOf(returned[c]) \in Statuses \ {"lost"}
    BY DEF StatusOf, Statuses
  <2> QED BY <1>1, <1>15, <2>1 DEF HandlerReturns, Places
<1>16. CASE Reconcile(c)
  BY <1>1, <1>2, <1>16 DEF Reconcile, Places, Statuses, ReconciliationStates
<1>17. CASE ReconciliationReturns(c)
  <2>1. PICK q \in {"record", "reportFailure"} :
           /\ pc[c] # "done"
           /\ pc' = [pc EXCEPT ![c] = q]
           /\ \E recon : outcome' = [outcome EXCEPT ![c].recon = recon]
    BY <1>17 DEF ReconciliationReturns
  <2> QED BY <2>1 DEF AnswersPlaced, Accounts, CallTypeOK, Outcomes
<1>18. CASE ReportFailure(c)
  BY <1>1, <1>18 DEF ReportFailure, Places, Statuses
<1>19. CASE FailureAuditReturns(c)
  <2>1. "record" \in Places \ {"store"} /\ "denied" \in Statuses \ {"lost"}
    BY DEF Places, Statuses
  <2>2. pc[c] # "done" /\ Continue(c, "record")
    BY <1>19 DEF FailureAuditReturns
  <2> QED BY <1>1, <2>1, <2>2
<1>20. CASE Record(c)
  BY <1>1, <1>3, <1>20 DEF Record, Places, Statuses
<1>21. CASE AuditReturns(c)
  BY <1>3, <1>21 DEF AuditReturns
<1>22. CASE StoreTerminal(c)
  <2>1. Unstored(outcome[c]).status \in {outcome[c].status, "executed_unrecorded"}
    <3>1. \A o \in Outcomes : Unstored(o).status \in {o.status, "executed_unrecorded"}
      BY DEF Unstored, Outcomes
    <3> QED BY <3>1 DEF Accounts, CallTypeOK
  <2>2. /\ pc'[c] = "finish" /\ outcome'[c].status \in {outcome[c].status, "executed_unrecorded"}
        /\ \A d \in Calls \ {c} : pc'[d] = pc[d] /\ outcome'[d] = outcome[d]
    BY <1>22, <2>1 DEF StoreTerminal, Accounts, CallTypeOK
  <2>3. pc[c] = "store"
    BY <1>22 DEF StoreTerminal
  <2> QED BY <2>2, <2>3 DEF AnswersPlaced
<1>23. CASE Finish(c)
  BY <1>23 DEF Finish, AnswersPlaced, Accounts, CallTypeOK
<1>24. ASSUME NEW op \in Ops, Outlives(c, op) \/ Drops(c, op)
       PROVE  AnswersPlaced'
  <2>1. AfterTimeout(c, op) /\ pc[c] # "done"
    BY <1>24 DEF Outlives, Drops, Ops
  <2>2. ASSUME NEW q \in {"record", "timedOut"}, Goto(c, q),
               outcome' = [outcome EXCEPT ![c].status = "timed_out", ![c].recon = "still_running"]
        PROVE  AnswersPlaced'
    BY <2>2 DEF AnswersPlaced, Accounts, CallTypeOK, Outcomes
  <2> QED BY <1>1, <1>2, <1>3, <2>1, <2>2 DEF AfterTimeout, Places, Statuses, ReconciliationStates
<1> QED BY <1>4, <1>5, <1>6, <1>7, <1>8, <1>9, <1>10, <1>11, <1>12, <1>13, <1>14, <1>15, <1>16,
           <1>17, <1>18, <1>19, <1>20, <1>21, <1>22, <1>23, <1>24 DEF Caller

\* However the handler's operation ends, its account keeps its type.
LEMMA EndingTyped ==
    ASSUME HandlerTypeOK, NEW c \in Calls, UNCHANGED <<started, effect>>,
           \/ UNCHANGED <<returned, completion>>
           \/ \E how \in Endings : /\ returned' = [returned EXCEPT ![c] = how]
                                   /\ completion' = [completion EXCEPT ![c] = TRUE]
    PROVE  HandlerTypeOK'
<1>1. returned' \in [Calls -> Endings]
  BY DEF HandlerTypeOK
<1>2. completion' \in [Calls -> BOOLEAN]
  BY DEF HandlerTypeOK
<1>3. {started', effect'} \subseteq [Calls -> BOOLEAN]
  BY DEF HandlerTypeOK
<1> QED BY <1>1, <1>2, <1>3 DEF HandlerTypeOK

\* Workers, host and environment keep the types as well.
LEMMA WorkerRest ==
    ASSUME RestTypeOK, NEW c \in Calls, Worker(c)
    PROVE  RestTypeOK'
<1> USE DEF serviceVars, HandlerMoves, HandlerAt
<1>1. CASE HandlerChecks(c)
  <2>1. HandlerTypeOK
    BY DEF RestTypeOK
  <2>2. UNCHANGED <<started, effect>>
    BY <1>1 DEF HandlerChecks
  <2>3. \/ UNCHANGED <<returned, completion>>
        \/ \E how \in Endings : /\ returned' = [returned EXCEPT ![c] = how]
                                /\ completion' = [completion EXCEPT ![c] = TRUE]
    BY <1>1 DEF HandlerChecks, OperationEnds, Endings
  <2>4. HandlerTypeOK'
    BY <2>1, <2>2, <2>3, EndingTyped
  <2> QED BY <1>1, <2>4, RestKept DEF HandlerChecks, RestTypeOK
<1>2. CASE HandlerStarts(c)
  <2>1. HandlerTypeOK'
    BY <1>2 DEF HandlerStarts, RestTypeOK, HandlerTypeOK
  <2> QED BY <1>2, <2>1, RestKept DEF HandlerStarts, RestTypeOK
<1>3. CASE HandlerCommits(c)
  <2>1. HandlerTypeOK'
    BY <1>3 DEF HandlerCommits, RestTypeOK, HandlerTypeOK
  <2> QED BY <1>3, <2>1, RestKept DEF HandlerCommits, RestTypeOK
<1>4. CASE HandlerExits(c)
  <2>1. HandlerTypeOK
    BY DEF RestTypeOK
  <2>2. UNCHANGED <<started, effect>>
    BY <1>4 DEF HandlerExits
  <2>3. \/ UNCHANGED <<returned, completion>>
        \/ \E how \in Endings : /\ returned' = [returned EXCEPT ![c] = how]
                                /\ completion' = [completion EXCEPT ![c] = TRUE]
    BY <1>4 DEF HandlerExits, OperationEnds, Endings
  <2>4. HandlerTypeOK'
    BY <2>1, <2>2, <2>3, EndingTyped
  <2> QED BY <1>4, <2>4, RestKept DEF HandlerExits, RestTypeOK
<1>5. CASE Observes(c)
  <2>1. HistoryTypeOK'
    BY <1>5 DEF Observes, RestTypeOK, HistoryTypeOK, ReconciliationStates
  <2> QED BY <1>5, <2>1, RestKept DEF Observes, RestTypeOK
<1>6. ASSUME NEW op \in Ops, LateExits(c, op)
      PROVE  RestTypeOK'
  <2>1. GrantsTypeOK'
    BY <1>6, GrantOperations DEF LateExits, WorkerEffect, RestTypeOK, GrantsTypeOK
  <2>2. HistoryTypeOK'
    BY <1>6 DEF LateExits, WorkerEffect, RestTypeOK, HistoryTypeOK
  <2> QED BY <1>6, <2>1, <2>2, RestKept DEF LateExits, RestTypeOK
<1> QED BY <1>1, <1>2, <1>3, <1>4, <1>5, <1>6 DEF Worker

LEMMA HostRest ==
    ASSUME RestTypeOK, NEW r \in Runtimes, Stop(r) \/ Crash(r)
    PROVE  RestTypeOK'
<1> USE DEF serviceVars
<1>1. CASE Stop(r)
  <2>1. HostTypeOK'
    <3>1. cancelled' \in [Calls -> BOOLEAN]
      BY <1>1 DEF Stop, RestTypeOK, HostTypeOK
    <3> QED BY <1>1, <3>1 DEF Stop, RestTypeOK, HostTypeOK
  <2> QED BY <1>1, <2>1, RestKept DEF Stop, RestTypeOK
<1>2. CASE Crash(r)
  <2>1. HostTypeOK'
    BY <1>2 DEF Crash, RestTypeOK, HostTypeOK
  <2>2. HistoryTypeOK'
    BY <1>2, EnvironmentIsTyped DEF Crash, RestTypeOK, HistoryTypeOK
  <2> QED BY <1>2, <2>1, <2>2, RestKept DEF Crash, RestTypeOK
<1> QED BY <1>1, <1>2

LEMMA EnvironmentRest ==
    ASSUME RestTypeOK, Environment
    PROVE  RestTypeOK'
<1>1. CASE StoreEnv /\ UNCHANGED <<hostVars, evidenceVars, handlerVars, grants, settled,
                                    observed, logged, crashes>>
  <2>1. StoreTypeOK'
    <3>1. CASE Gc
      BY <3>1, StoreOperations DEF Gc, RestTypeOK, StoreTypeOK
    <3>2. ASSUME NEW k \in Keys, Expire(k)
          PROVE  StoreTypeOK'
      BY <3>2 DEF Expire, RestTypeOK, StoreTypeOK, Records
    <3> QED BY <1>1, <3>1, <3>2 DEF StoreEnv
  <2> QED BY <1>1, <2>1, RestKept DEF RestTypeOK
<1>2. CASE GrantEnv /\ UNCHANGED <<hostVars, evidenceVars, handlerVars, store, settled,
                                    observed, logged, crashes>>
  <2>1. GrantsTypeOK'
    <3>1. ASSUME NEW g \in Grants, Lapse(g)
          PROVE  GrantsTypeOK'
      BY <3>1 DEF Lapse, RestTypeOK, GrantsTypeOK, GrantRecords
    <3>2. ASSUME NEW g \in Grants, NEW f \in Fingerprints, Issue(g, f)
          PROVE  GrantsTypeOK'
      BY <3>2, IssuesAreBounded DEF Issue, RestTypeOK, GrantsTypeOK, GrantRecords
    <3> QED BY <1>2, <3>1, <3>2 DEF GrantEnv
  <2> QED BY <1>2, <2>1, RestKept DEF RestTypeOK
<1> QED BY <1>1, <1>2 DEF Environment

-----------------------------------------------------------------------------
(* The invariant *)

LEMMA AccountsInvParts ==
    AccountsInv <=> Accounts /\ RestTypeOK /\ AnswersPlaced
BY DEF AccountsInv, Accounts, RestTypeOK, TypeOK

\* Initially nothing is held, and nobody works.
LEMMA AccountsInitially ==
    Init => AccountsInv
<1> SUFFICES ASSUME Init PROVE AccountsInv
  OBVIOUS
<1>1. AccountTypeOK
  BY DEF Init, AccountInit, AccountTypeOK, FreshBudget, FreshLease, FreshAccount,
         Counters, Leases, Account
<1>2. CallTypeOK /\ WorkerTypeOK
  BY DEF Init, CallTypeOK, WorkerTypeOK, FreshOutcome, Outcomes, Statuses,
         ReconciliationStates, Places, WorkerStates
<1>3. StoreTypeOK /\ GrantsTypeOK
  BY IssuesAreBounded DEF Init, StoreInit, GrantsInit, StoreTypeOK, GrantsTypeOK,
         NoRecord, Records, RecordStates, Results, NoGrantYet, GrantRecords
<1>4. EvidenceTypeOK /\ HandlerTypeOK /\ HostTypeOK /\ HistoryTypeOK
  BY EnvironmentIsTyped DEF Init, EvidenceTypeOK, HandlerTypeOK, HostTypeOK, HistoryTypeOK,
         Endings, ReconciliationStates
<1>5. WorkersPlaced
  BY DEF Init, WorkersPlaced, Ops
<1>6. LeasesPlaced
  BY DEF Init, AccountInit, LeasesPlaced, FreshLease, Releases
<1>7. AnswersPlaced
  BY DEF Init, AnswersPlaced, FreshOutcome
<1>8. TrackerExact /\ BudgetExact
  <2>1. ASSUME NEW r \in Runtimes
        PROVE  WorkersOf(r) = {} /\ LateOf(r) = {} /\ Held(r) = {}
    BY DEF Init, AccountInit, WorkersOf, LateOf, Held, CallsOf, FreshLease, Releases
  <2>2. ASSUME NEW r \in Runtimes
        PROVE  /\ budget[r].active = 0 /\ budget[r].fanOut = 0
               /\ tracker[r].bounded = 0 /\ tracker[r].timedOut = 0
    BY DEF Init, AccountInit, FreshBudget, FreshAccount
  <2>3. Cardinality({}) = 0
    BY FS_EmptySet
  <2> QED BY <2>1, <2>2, <2>3 DEF TrackerExact, BudgetExact
<1> QED BY <1>1, <1>2, <1>3, <1>4, <1>5, <1>6, <1>7, <1>8 DEF AccountsInv, TypeOK

LEMMA CallerAccounts ==
    ASSUME Accounts, StoreTypeOK, HistoryTypeOK, NEW c \in Calls, Caller(c)
    PROVE  Accounts'
BY AdmitAccounts, RegisterAccounts, PrepareAccounts, PolicyReturnsAccounts, ReplayAccounts,
   ClaimAccounts, ApproveAccounts, ApprovalReturnsAccounts, MintAccounts,
   CredentialReturnsAccounts, InvokeAccounts, HandlerReturnsAccounts, ReconcileAccounts,
   ReconciliationReturnsAccounts, ReportFailureAccounts, FailureAuditReturnsAccounts,
   RecordAccounts, AuditReturnsAccounts, StoreTerminalAccounts, FinishAccounts,
   OutlivesAccounts, DropsAccounts
   DEF Caller

\* Every step of the system keeps the accounts.
LEMMA AccountsKept ==
    AccountsInv /\ [Next]_vars => AccountsInv'
<1> SUFFICES ASSUME AccountsInv, [Next]_vars PROVE AccountsInv'
  OBVIOUS
<1>0. Accounts /\ RestTypeOK /\ AnswersPlaced /\ StoreTypeOK /\ HistoryTypeOK
  BY AccountsInvParts DEF RestTypeOK
<1>1. ASSUME NEW c \in Calls, Caller(c)
      PROVE  AccountsInv'
  <2>1. pc[c] = "store" => outcome[c].status \in Results
    BY <1>0 DEF AnswersPlaced, Accounts, CallTypeOK, Outcomes, Statuses, Results
  <2>2. Accounts' /\ RestTypeOK' /\ AnswersPlaced'
    BY <1>0, <1>1, <2>1, CallerAccounts, CallerRest, CallerAnswers
  <2> QED BY <2>2 DEF AccountsInv, Accounts, RestTypeOK, TypeOK
<1>2. ASSUME NEW c \in Calls, Worker(c)
      PROVE  AccountsInv'
  <2>1. Accounts'
    <3>1. CASE Observes(c)
      BY <1>0, <3>1, NothingMoves DEF Observes
    <3> QED BY <1>0, <1>2, <3>1, HandlerAccounts, LateExitsAccounts DEF Worker
  <2>2. UNCHANGED <<pc, outcome>>
    BY <1>2 DEF Worker, HandlerChecks, HandlerStarts, HandlerCommits, HandlerExits, Observes,
                LateExits
  <2>3. RestTypeOK' /\ AnswersPlaced'
    BY <1>0, <1>2, <2>2, WorkerRest DEF AnswersPlaced
  <2> QED BY <2>1, <2>3 DEF AccountsInv, Accounts, RestTypeOK, TypeOK
<1>3. ASSUME NEW r \in Runtimes, Stop(r)
      PROVE  AccountsInv'
  <2>1. UNCHANGED <<pc, outcome, accountVars, workerVars>>
    BY <1>3 DEF Stop
  <2>2. Accounts' /\ RestTypeOK' /\ AnswersPlaced'
    BY <1>0, <1>3, <2>1, NothingMoves, HostRest DEF AnswersPlaced
  <2> QED BY <2>2 DEF AccountsInv, Accounts, RestTypeOK, TypeOK
<1>4. ASSUME NEW r \in Runtimes, Crash(r)
      PROVE  AccountsInv'
  <2>1. ASSUME NEW c \in Calls
        PROVE  \/ pc'[c] = "done"
               \/ pc'[c] = pc[c] /\ outcome'[c] = outcome[c]
    BY <1>4 DEF Crash
  <2>2. AnswersPlaced'
    BY <1>0, <2>1 DEF AnswersPlaced
  <2>3. Accounts' /\ RestTypeOK'
    BY <1>0, <1>4, CrashAccounts, HostRest
  <2> QED BY <2>2, <2>3 DEF AccountsInv, Accounts, RestTypeOK, TypeOK
<1>5. CASE Environment
  <2>1. UNCHANGED <<pc, outcome, accountVars, workerVars>>
    BY <1>5 DEF Environment
  <2>2. Accounts' /\ RestTypeOK' /\ AnswersPlaced'
    BY <1>0, <1>5, <2>1, NothingMoves, EnvironmentRest DEF AnswersPlaced
  <2> QED BY <2>2 DEF AccountsInv, Accounts, RestTypeOK, TypeOK
<1>6. CASE UNCHANGED vars
  <2>1. /\ UNCHANGED <<pc, outcome, accountVars, workerVars>>
        /\ UNCHANGED <<store, grants, evidenceVars, handlerVars, hostVars, settled, logged,
                       observed, crashes>>
    BY <1>6 DEF vars, serviceVars
  <2>2. Accounts' /\ RestTypeOK' /\ AnswersPlaced'
    BY <1>0, <2>1, NothingMoves, RestKept DEF AnswersPlaced, RestTypeOK
  <2> QED BY <2>2 DEF AccountsInv, Accounts, RestTypeOK, TypeOK
<1> QED BY <1>1, <1>2, <1>3, <1>4, <1>5, <1>6 DEF Next

\* Every task budget, worker account, record, grant and thread has its type: in
\* particular no count of BudgetState or BoundedOperationTracker goes below zero.
THEOREM TypeCorrect == Spec => []TypeOK
<1>1. AccountsInv => TypeOK
  BY DEF AccountsInv
<1> QED BY AccountsInitially, AccountsKept, <1>1, PTL DEF Spec

\* BudgetState counts exactly the leases that are held, whatever callbacks of
\* late workers race with the finally clause of execute().
THEOREM BudgetIsExact == Spec => []BudgetExact
<1>1. AccountsInv => BudgetExact
  BY DEF AccountsInv
<1> QED BY AccountsInitially, AccountsKept, <1>1, PTL DEF Spec

\* BoundedOperationTracker counts exactly the worker threads, and among them
\* those that outlived their caller's wait.
THEOREM TrackerIsExact == Spec => []TrackerExact
<1>1. AccountsInv => TrackerExact
  BY DEF AccountsInv
<1> QED BY AccountsInitially, AccountsKept, <1>1, PTL DEF Spec

\* A lease that execute() left to a late worker is given back when the last
\* worker of the call is gone.
THEOREM NoSlotIsLost == Spec => []NoSlotLeak
<1>1. AccountsInv => NoSlotLeak
  BY DEF AccountsInv, LeasesPlaced, NoSlotLeak
<1> QED BY AccountsInitially, AccountsKept, <1>1, PTL DEF Spec

-----------------------------------------------------------------------------
(* The emergency stop *)

\* The places at which a call has its token in _active_tokens.
Registered == UpTo("handler") \ {"idle", "register"}

\* A step of one call that touches neither tokens nor late workers.
LEMMA StaysReached ==
    ASSUME StopReaches, CallTypeOK, NEW c \in Calls, NEW q, Goto(c, q),
           q \in Registered => pc[c] \in Registered,
           UNCHANGED <<stopped, registered, cancelled, late>>
    PROVE  StopReaches'
BY DEF StopReaches, CallTypeOK, Goto, Registered, Rt

\* The steps that leave the tokens alone, listed by where they lead.
LEMMA CallerMoves ==
    ASSUME CallTypeOK, NEW c \in Calls, Caller(c), ~Register(c), ~Finish(c),
           \A op \in Ops : ~Outlives(c, op) /\ ~Drops(c, op)
    PROVE  /\ \E q : Goto(c, q) /\ (q \in Registered => pc[c] \in Registered)
           /\ UNCHANGED <<stopped, registered, cancelled, late>>
<1> USE DEF Continue, Answer, Deny, hostVars, workerVars, Registered, UpTo, Ops, Places
<1>1. CASE Admit(c)
  BY <1>1 DEF Admit
<1>2. CASE Prepare(c)
  BY <1>2 DEF Prepare
<1>3. CASE PolicyReturns(c)
  BY <1>3 DEF PolicyReturns
<1>4. CASE Replay(c)
  BY <1>4 DEF Replay, AnswerFrom
<1>5. CASE Claim(c)
  BY <1>5 DEF Claim, AfterClaim, AnswerFrom
<1>6. CASE Approve(c)
  BY <1>6 DEF Approve
<1>7. CASE ApprovalReturns(c)
  BY <1>7 DEF ApprovalReturns
<1>8. CASE Mint(c)
  BY <1>8 DEF Mint
<1>9. CASE CredentialReturns(c)
  BY <1>9 DEF CredentialReturns
<1>10. CASE Invoke(c)
  BY <1>10 DEF Invoke
<1>11. CASE HandlerReturns(c)
  BY <1>11 DEF HandlerReturns
<1>12. CASE Reconcile(c)
  BY <1>12 DEF Reconcile
<1>13. CASE ReconciliationReturns(c)
  BY <1>13 DEF ReconciliationReturns
<1>14. CASE ReportFailure(c)
  BY <1>14 DEF ReportFailure
<1>15. CASE FailureAuditReturns(c)
  BY <1>15 DEF FailureAuditReturns
<1>16. CASE Record(c)
  BY <1>16 DEF Record, AuditLost, AfterAudit
<1>17. CASE AuditReturns(c)
  BY <1>17 DEF AuditReturns, AuditLost, AfterAudit
<1>18. CASE StoreTerminal(c)
  BY <1>18 DEF StoreTerminal
<1> QED BY <1>1, <1>2, <1>3, <1>4, <1>5, <1>6, <1>7, <1>8, <1>9, <1>10, <1>11, <1>12, <1>13,
           <1>14, <1>15, <1>16, <1>17, <1>18 DEF Caller

LEMMA StopReachesInitially ==
    Init => StopReaches
BY DEF Init, StopReaches, UpTo

\* A registered call is found by stop(), and a handler that is left behind has
\* been cancelled: every step keeps it so.
LEMMA StopReachesKept ==
    AccountsInv /\ StopReaches /\ [Next]_vars => StopReaches'
<1> SUFFICES ASSUME AccountsInv, StopReaches, [Next]_vars PROVE StopReaches'
  OBVIOUS
<1>0. CallTypeOK /\ HostTypeOK /\ WorkerTypeOK
  BY DEF AccountsInv, TypeOK
<1>1. ASSUME NEW c \in Calls, Register(c)
      PROVE  StopReaches'
  <2>1. CASE Goto(c, "record") /\ UNCHANGED <<stopped, registered, cancelled, late>>
    <3>1. "record" \notin Registered
      BY DEF Registered, UpTo
    <3> QED BY <1>0, <2>1, <3>1, StaysReached
  <2>2. CASE /\ ~Stopped(c) /\ Goto(c, "prepare") /\ UNCHANGED <<stopped, cancelled, late>>
             /\ registered' = [registered EXCEPT ![Rt(c)] = @ \cup {c}]
    <3>1. \A d \in Calls \ {c} : pc'[d] = pc[d]
      BY <1>0, <2>2 DEF CallTypeOK, Goto
    <3>2. /\ \A d \in Calls : registered[Rt(d)] \subseteq registered'[Rt(d)]
          /\ c \in registered'[Rt(c)]
          /\ \A r \in Runtimes : stopped[r] => registered'[r] = registered[r]
      BY <1>0, <2>2, RuntimeOfCall DEF HostTypeOK, Stopped
    <3> QED BY <2>2, <3>1, <3>2 DEF StopReaches
  <2> QED BY <1>1, <2>1, <2>2 DEF Register, Deny, Answer, Continue, workerVars
<1>2. ASSUME NEW c \in Calls, Finish(c)
      PROVE  StopReaches'
  <2>1. /\ pc'[c] = "done" /\ \A d \in Calls \ {c} : pc'[d] = pc[d]
        /\ UNCHANGED <<stopped, cancelled, late>>
        /\ registered' = [registered EXCEPT ![Rt(c)] = @ \ {c}]
    BY <1>0, <1>2 DEF Finish, Continue, Goto, CallTypeOK, workerVars
  <2>2. /\ \A d \in Calls \ {c} : d \in registered[Rt(d)] => d \in registered'[Rt(d)]
        /\ \A r \in Runtimes : registered'[r] \subseteq registered[r]
    BY <1>0, <2>1, RuntimeOfCall DEF HostTypeOK
  <2>3. "done" \notin UpTo("handler")
    BY DEF UpTo
  <2> QED BY <2>1, <2>2, <2>3 DEF StopReaches
<1>3. ASSUME NEW c \in Calls, NEW op \in Ops, Outlives(c, op) \/ Drops(c, op)
      PROVE  StopReaches'
  <2>0. AfterTimeout(c, op)
    BY <1>3 DEF Outlives, Drops
  <2>1. /\ pc'[c] \notin UpTo("handler") /\ \A d \in Calls \ {c} : pc'[d] = pc[d]
        /\ \A d \in Calls : cancelled[d] => cancelled'[d]
        /\ op = "handler" => cancelled'[c]
    <3>1. \E q \in {"record", "timedOut", "reportFailure", "finish", "store"} : Goto(c, q)
      BY <2>0 DEF AfterTimeout, AuditLost, AfterAudit, Deny, Answer, Continue
    <3>2. {"record", "timedOut", "reportFailure", "finish", "store"} \cap UpTo("handler") = {}
      BY DEF UpTo
    <3>3. pc'[c] \notin UpTo("handler") /\ \A d \in Calls \ {c} : pc'[d] = pc[d]
      BY <1>0, <3>1, <3>2 DEF Goto, CallTypeOK
    <3>4. \/ op # "handler" /\ UNCHANGED cancelled
          \/ cancelled' = [cancelled EXCEPT ![c] = TRUE]
      BY <2>0 DEF AfterTimeout
    <3>5. /\ \A d \in Calls : cancelled[d] => cancelled'[d]
          /\ op = "handler" => cancelled'[c]
      BY <1>0, <3>4 DEF HostTypeOK
    <3> QED BY <3>3, <3>5
  <2>2. /\ UNCHANGED <<stopped, registered>>
        /\ \A d \in Calls : late'[d] \subseteq late[d] \cup (IF d = c THEN {op} ELSE {})
    BY <1>0, <1>3 DEF Outlives, Drops, WorkerTypeOK
  <2>3. ASSUME NEW d \in Calls
        PROVE  /\ pc'[d] \in UpTo("handler") \ {"idle", "register"} => d \in registered'[Rt(d)]
               /\ "handler" \in late'[d] => cancelled'[d]
    BY <2>1, <2>2 DEF StopReaches
  <2>4. ASSUME NEW r \in Runtimes, stopped'[r], NEW d \in registered'[r] \cap CallsOf(r)
        PROVE  cancelled'[d]
    BY <2>1, <2>2, <2>4 DEF StopReaches, CallsOf
  <2> QED BY <2>3, <2>4 DEF StopReaches, CallsOf, Rt
<1>4. ASSUME NEW c \in Calls, Caller(c)
      PROVE  StopReaches'
  BY <1>0, <1>1, <1>2, <1>3, <1>4, CallerMoves, StaysReached
<1>5. ASSUME NEW c \in Calls, Worker(c)
      PROVE  StopReaches'
  <2>1. UNCHANGED <<pc, stopped, registered, cancelled>>
    BY <1>5 DEF Worker, HandlerChecks, HandlerStarts, HandlerCommits, HandlerExits, Observes,
                LateExits, hostVars
  <2>2. \/ UNCHANGED late
        \/ \E op \in Ops : late' = [late EXCEPT ![c] = @ \ {op}]
    BY <1>5 DEF Worker, HandlerChecks, HandlerStarts, HandlerCommits, HandlerExits, Observes,
                LateExits, workerVars
  <2>3. \A d \in Calls : late'[d] \subseteq late[d]
    BY <1>0, <2>2 DEF WorkerTypeOK
  <2> QED BY <2>1, <2>3 DEF StopReaches
<1>6. ASSUME NEW r \in Runtimes, Stop(r)
      PROVE  StopReaches'
  <2>1. /\ UNCHANGED <<pc, registered, late>>
        /\ \A c \in Calls : cancelled'[c] <=> (cancelled[c] \/ c \in registered[r])
        /\ \A s \in Runtimes \ {r} : stopped'[s] = stopped[s]
    BY <1>0, <1>6 DEF Stop, HostTypeOK, workerVars
  <2>2. \A s \in Runtimes : CallsOf(s) \subseteq Calls
    BY DEF CallsOf
  <2> QED BY <2>1, <2>2 DEF StopReaches
<1>7. ASSUME NEW r \in Runtimes, Crash(r)
      PROVE  StopReaches'
  <2>1. /\ ~stopped'[r] /\ UNCHANGED cancelled
        /\ \A s \in Runtimes \ {r} : stopped'[s] = stopped[s] /\ registered'[s] = registered[s]
        /\ \A c \in CallsOf(r) : pc'[c] \in {"idle", "done"} /\ late'[c] = {}
        /\ \A c \in Calls \ CallsOf(r) : pc'[c] = pc[c] /\ late'[c] = late[c]
    <3>1. ~stopped'[r] /\ UNCHANGED cancelled
          /\ \A s \in Runtimes \ {r} : stopped'[s] = stopped[s] /\ registered'[s] = registered[s]
      BY <1>0, <1>7 DEF Crash, HostTypeOK
    <3>2. \A c \in CallsOf(r) : pc'[c] \in {"idle", "done"} /\ late'[c] = {}
      BY <1>7 DEF Crash, CallsOf, Rt
    <3>3. \A c \in Calls \ CallsOf(r) : pc'[c] = pc[c] /\ late'[c] = late[c]
      BY <1>7 DEF Crash, CallsOf, Rt
    <3> QED BY <3>1, <3>2, <3>3
  <2>2. \A c \in Calls \ CallsOf(r) : Rt(c) \in Runtimes \ {r}
    BY RuntimeOfCall DEF CallsOf, Rt
  <2>3. "done" \notin UpTo("handler")
    BY DEF UpTo
  <2> QED BY <2>1, <2>2, <2>3 DEF StopReaches
<1>8. CASE Environment \/ UNCHANGED vars
  <2>1. UNCHANGED <<pc, stopped, registered, cancelled, late>>
    BY <1>8 DEF Environment, vars, hostVars, workerVars
  <2> QED BY <2>1 DEF StopReaches
<1> QED BY <1>4, <1>5, <1>6, <1>7, <1>8 DEF Next

\* Once stop() was called, every handler that runs or is about to be called has
\* a cancelled token, the one that timed out long ago included.
THEOREM StopIsHeard == Spec => []StopCancels
<1>1. AccountsInv /\ StopReaches => StopCancels
  <2> SUFFICES ASSUME AccountsInv, StopReaches, NEW c \in Calls, Stopped(c), Live(c)
               PROVE  cancelled[c]
    BY DEF StopCancels
  <2>1. pc[c] = "handler" \/ "handler" \in late[c]
    BY DEF AccountsInv, WorkersPlaced, Live, HandlerAt, Ops
  <2>2. pc[c] = "handler" => c \in registered[Rt(c)]
    BY DEF StopReaches, UpTo
  <2> QED BY <2>1, <2>2, RuntimeOfCall DEF StopReaches, Stopped
<1> QED BY AccountsInitially, AccountsKept, StopReachesInitially, StopReachesKept, <1>1, PTL
        DEF Spec

-----------------------------------------------------------------------------
(* The slot of a handler *)

\* The waits after the handler's end in time: those of the events of audit and of
\* the reconciliation.
RecordsInTime == {"reconcile", "failureAudit", "audit"} \cap TimeoutOps = {}

\* The steps that leave leases and late workers alone.
LEMMA CallerLeases ==
    ASSUME NEW c \in Calls, Caller(c), ~Admit(c), ~Register(c), ~Finish(c),
           \A op \in Ops : ~Outlives(c, op) /\ ~Drops(c, op)
    PROVE  /\ \E q : /\ Goto(c, q)
                     /\ q \in UpTo("handler") => pc[c] \in UpTo("handler") \ {"idle"}
           /\ UNCHANGED <<lease, late>>
<1> USE DEF Continue, Answer, Deny, accountVars, workerVars, UpTo, Ops, Places
<1>1. CASE Prepare(c)
  BY <1>1 DEF Prepare
<1>2. CASE PolicyReturns(c)
  BY <1>2 DEF PolicyReturns
<1>3. CASE Replay(c)
  BY <1>3 DEF Replay, AnswerFrom
<1>4. CASE Claim(c)
  BY <1>4 DEF Claim, AfterClaim, AnswerFrom
<1>5. CASE Approve(c)
  BY <1>5 DEF Approve
<1>6. CASE ApprovalReturns(c)
  BY <1>6 DEF ApprovalReturns
<1>7. CASE Mint(c)
  BY <1>7 DEF Mint
<1>8. CASE CredentialReturns(c)
  BY <1>8 DEF CredentialReturns
<1>9. CASE Invoke(c)
  BY <1>9 DEF Invoke
<1>10. CASE HandlerReturns(c)
  BY <1>10 DEF HandlerReturns
<1>11. CASE Reconcile(c)
  BY <1>11 DEF Reconcile
<1>12. CASE ReconciliationReturns(c)
  BY <1>12 DEF ReconciliationReturns
<1>13. CASE ReportFailure(c)
  BY <1>13 DEF ReportFailure
<1>14. CASE FailureAuditReturns(c)
  BY <1>14 DEF FailureAuditReturns
<1>15. CASE Record(c)
  BY <1>15 DEF Record, AuditLost, AfterAudit
<1>16. CASE AuditReturns(c)
  BY <1>16 DEF AuditReturns, AuditLost, AfterAudit
<1>17. CASE StoreTerminal(c)
  BY <1>17 DEF StoreTerminal
<1> QED BY <1>1, <1>2, <1>3, <1>4, <1>5, <1>6, <1>7, <1>8, <1>9, <1>10, <1>11, <1>12, <1>13,
           <1>14, <1>15, <1>16, <1>17 DEF Caller

\* A step of one call, from where it leads and what it makes of the lease and of the
\* late workers.
LEMMA SlotMoves ==
    ASSUME AccountsInv, SlotsHeld, NEW c \in Calls, NEW q, Goto(c, q),
           \A d \in Calls \ {c} : lease'[d] = lease[d] /\ late'[d] = late[d],
           q \in UpTo("handler") => late'[c] = {} /\ (q = "idle" \/ Releases(lease'[c])),
           "handler" \in late'[c] =>
              late'[c] = {"handler"} /\ Releases(lease'[c]) /\ lease'[c].deferred
    PROVE  SlotsHeld'
<1>1. pc \in [Calls -> Places]
  BY DEF AccountsInv, TypeOK, CallTypeOK
<1>2. \A d \in Calls : pc'[d] = IF d = c THEN q ELSE pc[d]
  BY <1>1 DEF Goto
<1>3. \A d \in Calls \ {c} : Releases(lease[d])' <=> Releases(lease[d])
  BY DEF Releases
<1>4. Releases(lease[c])' <=> Releases(lease'[c])
  BY DEF Releases
<1> QED BY <1>2, <1>3, <1>4 DEF SlotsHeld

LEMMA SlotsHeldInitially ==
    Init => SlotsHeld
BY DEF Init, SlotsHeld, UpTo

\* Unless it outlived its own wait, no worker but the handler's releases the slot
\* while the handler runs.
LEMMA SlotsHeldKept ==
    ASSUME RecordsInTime, AccountsInv, SlotsHeld, [Next]_vars
    PROVE  SlotsHeld'
<1>0. /\ CallTypeOK /\ WorkerTypeOK /\ lease \in [Calls -> Leases] /\ WorkersPlaced
      /\ "idle" \in UpTo("handler") /\ "register" \in UpTo("handler")
      /\ "record" \notin UpTo("handler") /\ "done" \notin UpTo("handler")
      /\ "prepare" \in UpTo("handler")
  BY DEF AccountsInv, TypeOK, AccountTypeOK, UpTo
<1>1. ASSUME NEW c \in Calls, Admit(c)
      PROVE  SlotsHeld'
  <2>1. UNCHANGED late /\ late[c] = {}
    BY <1>0, <1>1 DEF Admit, workerVars, SlotsHeld
  <2>2. CASE Deny(c) /\ UNCHANGED lease
    BY <1>0, <2>1, <2>2, SlotMoves DEF Deny, Answer
  <2>3. CASE lease' = [lease EXCEPT ![c] = TakenLease] /\ Continue(c, "register")
    <3>1. Releases(lease'[c])
      BY <1>0, <2>3 DEF Releases, TakenLease
    <3> QED BY <1>0, <2>1, <2>3, <3>1, SlotMoves DEF Continue
  <2> QED BY <1>1, <2>2, <2>3 DEF Admit
<1>2. ASSUME NEW c \in Calls, Register(c)
      PROVE  SlotsHeld'
  <2>1. UNCHANGED late /\ late[c] = {} /\ Releases(lease[c])
    BY <1>0, <1>2 DEF Register, workerVars, SlotsHeld
  <2>2. CASE Deny(c) /\ lease' = [lease EXCEPT ![c] = FreshLease]
    BY <1>0, <2>1, <2>2, SlotMoves DEF Deny, Answer
  <2>3. CASE UNCHANGED lease /\ Continue(c, "prepare")
    BY <1>0, <2>1, <2>3, SlotMoves DEF Continue
  <2> QED BY <1>2, <2>2, <2>3 DEF Register
<1>3. ASSUME NEW c \in Calls, Finish(c)
      PROVE  SlotsHeld'
  <2>1. Goto(c, "done") /\ UNCHANGED late
    BY <1>3 DEF Finish, Continue, workerVars
  <2>2. \A d \in Calls \ {c} : lease'[d] = lease[d]
    BY <1>0, <1>3 DEF Finish
  <2>3. lease[c].deferred => lease'[c] = lease[c]
    BY <1>3 DEF Finish
  <2> QED BY <1>0, <2>1, <2>2, <2>3, SlotMoves DEF SlotsHeld
<1>4. ASSUME NEW c \in Calls, NEW op \in Ops, Outlives(c, op)
      PROVE  SlotsHeld'
  <2>1. op \in {"policy", "approval", "credential", "handler"} /\ pc[c] = op
    BY <1>4 DEF Outlives, RecordsInTime, Ops
  <2>2. late[c] = {} /\ Releases(lease[c]) /\ lease[c] \in Leases
    BY <1>0, <2>1 DEF SlotsHeld, UpTo
  <2>3. /\ late'[c] = {op} /\ lease'[c] = Deferred(lease[c])
        /\ \A d \in Calls \ {c} : lease'[d] = lease[d] /\ late'[d] = late[d]
    BY <1>0, <1>4, <2>2 DEF Outlives, WorkerTypeOK
  <2>4. Releases(lease'[c]) /\ lease'[c].deferred
    BY <2>2, <2>3 DEF Deferred, Releases, Leases
  <2>5. PICK q : Goto(c, q) /\ q \notin UpTo("handler")
    BY <1>4, <2>1 DEF Outlives, AfterTimeout, Deny, Answer, UpTo
  <2> QED BY <2>3, <2>4, <2>5, SlotMoves
<1>5. ASSUME NEW c \in Calls, NEW op \in Ops, Drops(c, op)
      PROVE  SlotsHeld'
  <2>1. op \in {"policy", "approval", "credential", "handler"} /\ pc[c] = op
    BY <1>5 DEF Drops, RecordsInTime, Ops
  <2>2. late[c] = {} /\ UNCHANGED late
    BY <1>0, <1>5, <2>1 DEF Drops, SlotsHeld, UpTo
  <2>3. \A d \in Calls \ {c} : lease'[d] = lease[d]
    BY <1>0, <1>5 DEF Drops, ReleaseLease
  <2>4. PICK q : Goto(c, q) /\ q \notin UpTo("handler")
    BY <1>5, <2>1 DEF Drops, AfterTimeout, Deny, Answer, UpTo
  <2> QED BY <2>2, <2>3, <2>4, SlotMoves
<1>6. ASSUME NEW c \in Calls, Caller(c)
      PROVE  SlotsHeld'
  <2>1. CASE \/ Admit(c) \/ Register(c) \/ Finish(c)
             \/ \E op \in Ops : Outlives(c, op) \/ Drops(c, op)
    BY <1>1, <1>2, <1>3, <1>4, <1>5, <2>1
  <2>2. CASE /\ ~Admit(c) /\ ~Register(c) /\ ~Finish(c)
             /\ \A op \in Ops : ~Outlives(c, op) /\ ~Drops(c, op)
    <3>1. PICK q : /\ Goto(c, q) /\ UNCHANGED <<lease, late>>
                   /\ q \in UpTo("handler") => pc[c] \in UpTo("handler") \ {"idle"}
      BY <1>6, <2>2, CallerLeases
    <3> QED BY <3>1, SlotMoves DEF SlotsHeld
  <2> QED BY <2>1, <2>2
<1>7. ASSUME NEW c \in Calls, Worker(c)
      PROVE  SlotsHeld'
  <2>1. CASE UNCHANGED <<pc, lease, late>>
    BY <2>1 DEF SlotsHeld, Releases
  <2>2. ASSUME NEW op \in Ops, LateExits(c, op)
        PROVE  SlotsHeld'
    <3>1. /\ op \in late[c] /\ UNCHANGED pc
          /\ late'[c] = late[c] \ {op}
          /\ \A d \in Calls \ {c} : lease'[d] = lease[d] /\ late'[d] = late[d]
      BY <1>0, <2>2 DEF LateExits, ReleaseLease, WorkerTypeOK
    <3>2. pc[c] \notin UpTo("handler") /\ "handler" \notin late'[c]
      BY <3>1 DEF SlotsHeld
    <3> QED BY <3>1, <3>2 DEF SlotsHeld, Releases
  <2> QED BY <1>7, <2>1, <2>2 DEF Worker, HandlerChecks, HandlerStarts, HandlerCommits,
             HandlerExits, Observes, accountVars, workerVars
<1>8. ASSUME NEW r \in Runtimes, Crash(r)
      PROVE  SlotsHeld'
  <2>1. /\ \A c \in CallsOf(r) : pc'[c] \in {"idle", "done"} /\ late'[c] = {}
        /\ \A c \in Calls \ CallsOf(r) :
              pc'[c] = pc[c] /\ late'[c] = late[c] /\ lease'[c] = lease[c]
    BY <1>8 DEF Crash, CallsOf, Rt
  <2> QED BY <1>0, <2>1 DEF SlotsHeld, Releases
<1>9. CASE (\E r \in Runtimes : Stop(r)) \/ Environment \/ UNCHANGED vars
  <2>1. UNCHANGED <<pc, lease, late>>
    BY <1>9 DEF Stop, Environment, vars, accountVars, workerVars
  <2> QED BY <2>1 DEF SlotsHeld, Releases
<1> QED BY <1>6, <1>7, <1>8, <1>9 DEF Next

\* While the waits for the audit sink and the reconciliation do not expire, a handler
\* that timed out keeps its slot until its worker exits, however many others are late:
\* those waits are the only cause of the early release (_record,
\* _release_action_budget_once).
THEOREM SlotIsKept == RecordsInTime => (Spec => []SlotCoversHandler)
<1> SUFFICES ASSUME RecordsInTime PROVE Spec => []SlotCoversHandler
  OBVIOUS
<1>1. AccountsInv /\ SlotsHeld => SlotCoversHandler
  <2> SUFFICES ASSUME AccountsInv, SlotsHeld, NEW c \in Calls, Live(c)
               PROVE  Releases(lease[c])
    BY DEF SlotCoversHandler
  <2>1. pc[c] = "handler" \/ "handler" \in late[c]
    BY DEF AccountsInv, WorkersPlaced, Live, HandlerAt, Ops
  <2> QED BY <2>1 DEF SlotsHeld, UpTo
<1>2. AccountsInv /\ SlotsHeld /\ [Next]_vars => SlotsHeld'
  BY SlotsHeldKept
<1> QED BY AccountsInitially, AccountsKept, SlotsHeldInitially, <1>1, <1>2, PTL DEF Spec

-----------------------------------------------------------------------------
(***************************************************************************)
(* Keys, answers and grants.  The twenty-two actions of a caller are of    *)
(* nine kinds, and the invariant of a call is proved kind by kind.  What a *)
(* step does to the records is a lemma of its own, and from it follows that *)
(* no call loses its key to the step of another.                           *)
(***************************************************************************)
\* Where a caller that is not refused is between its claim and its submission.
Claimed == {"approve", "approval", "mint", "credential", "invoke", "handler"}

-----------------------------------------------------------------------------
(* The kinds of steps of a caller *)

\* On the way to the handler: nothing is answered yet.
Advances(c) ==
    /\ pc[c] \in Before /\ pc'[c] \in UpTo("handler")
    /\ outcome'[c] = outcome[c]
    /\ \/ pc'[c] # "handler" /\ worker'[c]["handler"] = worker[c]["handler"]
       \/ pc[c] = "invoke" /\ pc'[c] = "handler" /\ worker'[c]["handler"] = "queued"
    /\ Keyed(c) /\ pc'[c] \in Claimed /\ pc[c] \notin Claimed =>
          pc[c] = "claim" /\ store'[KeyOf[c]] = NewRecord(c, FingerprintOf[c])

Refused(c) ==
    /\ pc[c] \in Before /\ pc'[c] = "record"
    /\ outcome'[c].status \in Refusals /\ outcome'[c].recon = outcome[c].recon
    /\ worker'[c]["handler"] = worker[c]["handler"]

\* The answer is that of a completed record of the same action.
Replayed(c) ==
    /\ Keyed(c) /\ pc[c] \in {"replay", "claim"} /\ pc'[c] = "finish"
    /\ store[KeyOf[c]].state = "completed" /\ store[KeyOf[c]].fp = FingerprintOf[c]
    /\ outcome'[c].status = store[KeyOf[c]].result /\ outcome'[c].recon = outcome[c].recon
    /\ worker'[c]["handler"] = worker[c]["handler"]

HandlerAnswers(c) ==
    /\ pc[c] = "handler" /\ pc'[c] = "record"
    /\ HandlerAt(c, "exited") /\ worker'[c]["handler"] = "none"
    /\ outcome'[c].status = StatusOf(returned[c]) /\ outcome'[c].recon = outcome[c].recon

HandlerTimesOut(c) ==
    /\ pc[c] = "handler" /\ pc'[c] \in {"timedOut", "record"}
    /\ worker'[c]["handler"] \in {worker[c]["handler"], "none"}
    /\ outcome'[c].status = "timed_out" /\ outcome'[c].recon = "still_running"

\* A confirmed state is reported only of a handler that has completed.
Reconciles(c) ==
    /\ pc[c] \in Reconciling /\ pc'[c] \in Reconciling \cup {"record"}
    /\ worker'[c]["handler"] = worker[c]["handler"]
    /\ outcome'[c].status = outcome[c].status
    /\ \/ outcome'[c].recon = outcome[c].recon
       \/ outcome'[c].recon \in {"failed", "still_running"}
       \/ completion[c]

Audits(c) ==
    /\ pc[c] \in {"record", "audit"}
    /\ worker'[c]["handler"] = worker[c]["handler"]
    /\ outcome'[c].recon = outcome[c].recon
    /\ \/ pc'[c] = "audit" /\ outcome'[c] = outcome[c]
       \/ pc'[c] = AfterAudit(c) /\ outcome'[c] = outcome[c] /\ logged'[c]
       \/ /\ pc'[c] = AfterAudit(c)
          /\ outcome'[c].status =
                IF outcome[c].status = "executed" THEN "executed_unrecorded" ELSE outcome[c].status

\* The terminal record: written, or not; an execution is then not reported as one.
Stores(c) ==
    /\ pc[c] = "store" /\ pc'[c] = "finish"
    /\ worker'[c]["handler"] = worker[c]["handler"]
    /\ outcome'[c].recon = outcome[c].recon
    /\ \/ outcome'[c].status = outcome[c].status
       \/ outcome[c].status \in Executions /\ outcome'[c].status = "executed_unrecorded"
    /\ \/ /\ Keyed(c)
          /\ settled'[c] <=> TerminalState(outcome[c]) = "completed"
          /\ store'[KeyOf[c]] = [store[KeyOf[c]] EXCEPT !.state = TerminalState(outcome[c]),
                                                        !.result = outcome[c].status]
       \/ /\ settled'[c] = settled[c] /\ UNCHANGED store
          /\ Keyed(c) => outcome'[c].status # "executed"

Returns(c) ==
    /\ pc[c] = "finish" /\ pc'[c] = "done"
    /\ worker'[c]["handler"] = worker[c]["handler"]
    /\ outcome'[c] = outcome[c]

Steps(c) ==
    \/ Advances(c) \/ Refused(c) \/ Replayed(c)
    \/ HandlerAnswers(c) \/ HandlerTimesOut(c) \/ Reconciles(c)
    \/ Audits(c) \/ Stores(c) \/ Returns(c)

\* What every step of a caller leaves alone.
CallerFrame(c) ==
    /\ UNCHANGED handlerVars
    /\ logged[c] => logged'[c]
    /\ "handler" \in late'[c] => "handler" \in late[c] \/ HandlerTimesOut(c)
    /\ pc[c] # "store" => settled'[c] = settled[c]
    /\ pc[c] \notin {"replay", "claim", "store"} => UNCHANGED store

LEMMA CallerKinds ==
    ASSUME TypeOK, WorkersPlaced, NEW c \in Calls, Caller(c)
    PROVE  Steps(c) /\ CallerFrame(c)
<1>0. /\ pc \in [Calls -> Places] /\ outcome \in [Calls -> Outcomes]
      /\ worker \in [Calls -> [Ops -> WorkerStates]] /\ late \in [Calls -> SUBSET Ops]
      /\ logged \in [Calls -> BOOLEAN] /\ settled \in [Calls -> BOOLEAN]
  BY DEF TypeOK, CallTypeOK, WorkerTypeOK, HistoryTypeOK
<1>1. "handler" \in Ops /\ \A op \in Ops \ {"handler"} : "handler" # op
  BY DEF Ops
<1> USE DEF Goto, Continue, Answer, Deny, NoCapacity, NoDispatch, serviceVars, workerVars
<1>2. CASE Admit(c)
  <2>1. Advances(c) \/ Refused(c)
    BY <1>0, <1>2 DEF Admit, Advances, Refused, Before, UpTo, Refusals, Claimed, Outcomes
  <2> QED BY <1>2, <2>1 DEF Admit, Steps, CallerFrame
<1>3. CASE Register(c)
  <2>1. Advances(c) \/ Refused(c)
    BY <1>0, <1>3 DEF Register, Advances, Refused, Before, UpTo, Refusals, Claimed, Outcomes
  <2> QED BY <1>3, <2>1 DEF Register, Steps, CallerFrame
<1>4. CASE Prepare(c)
  <2>1. Advances(c) \/ Refused(c)
    BY <1>0, <1>1, <1>4 DEF Prepare, Dispatch, Advances, Refused, Before, UpTo, Refusals, Claimed,
                            Outcomes
  <2> QED BY <1>4, <2>1 DEF Prepare, Steps, CallerFrame
<1>5. CASE PolicyReturns(c)
  <2>1. Advances(c) \/ Refused(c)
    BY <1>0, <1>1, <1>5 DEF PolicyReturns, Collect, Advances, Refused, Before, UpTo, Refusals,
                            Claimed, Outcomes
  <2> QED BY <1>5, <2>1 DEF PolicyReturns, Steps, CallerFrame
<1>6. CASE Replay(c)
  <2>1. Advances(c) \/ Refused(c) \/ Replayed(c)
    BY <1>0, <1>6 DEF Replay, AnswerFrom, Advances, Refused, Replayed, Before, UpTo, Refusals,
                      Claimed, Outcomes, Found, NoRecord
  <2> QED BY <1>6, <2>1 DEF Replay, Steps, CallerFrame
<1>7. CASE Claim(c)
  <2>1. KeyOf[c] \in Keys /\ ClaimStatus(store[KeyOf[c]], FingerprintOf[c]) = "existing"
           => store[KeyOf[c]].fp = FingerprintOf[c]
    BY DEF ClaimStatus, ExpiredCompleted, TypeOK, StoreTypeOK, Records, RecordStates
  <2>2. Keyed(c) => KeyOf[c] \in Keys
    BY ProposalsAreTyped DEF Keyed
  <2>3. KeyOf[c] \in Keys /\ ClaimStatus(store[KeyOf[c]], FingerprintOf[c]) = "claimed"
           => ClaimedStore(KeyOf[c], c, FingerprintOf[c])[KeyOf[c]] = NewRecord(c, FingerprintOf[c])
    BY DEF ClaimedStore, TypeOK, StoreTypeOK
  <2>4. Advances(c) \/ Refused(c) \/ Replayed(c)
    BY <1>0, <1>7, <2>1, <2>2, <2>3
    DEF Claim, AfterClaim, AnswerFrom, Keyed, Advances, Refused, Replayed, Before, UpTo, Refusals,
        Claimed, Outcomes
  <2> QED BY <1>7, <2>4 DEF Claim, Steps, CallerFrame
<1>8. CASE Approve(c)
  <2>1. Advances(c) \/ Refused(c)
    BY <1>0, <1>1, <1>8 DEF Approve, Dispatch, Advances, Refused, Before, UpTo, Refusals, Claimed,
                            Outcomes
  <2> QED BY <1>8, <2>1 DEF Approve, Steps, CallerFrame
<1>9. CASE ApprovalReturns(c)
  <2>1. Advances(c) \/ Refused(c)
    BY <1>0, <1>1, <1>9 DEF ApprovalReturns, Collect, Advances, Refused, Before, UpTo, Refusals,
                            Claimed, Outcomes
  <2> QED BY <1>9, <2>1 DEF ApprovalReturns, Steps, CallerFrame
<1>10. CASE Mint(c)
  <2>1. Advances(c) \/ Refused(c)
    BY <1>0, <1>1, <1>10 DEF Mint, Dispatch, Advances, Refused, Before, UpTo, Refusals, Claimed,
                             Outcomes
  <2> QED BY <1>10, <2>1 DEF Mint, Steps, CallerFrame
<1>11. CASE CredentialReturns(c)
  <2>1. Advances(c) \/ Refused(c)
    BY <1>0, <1>1, <1>11 DEF CredentialReturns, Collect, Advances, Refused, Before, UpTo, Refusals,
                             Claimed, Outcomes
  <2> QED BY <1>11, <2>1 DEF CredentialReturns, Steps, CallerFrame
<1>12. CASE Invoke(c)
  <2>1. Advances(c) \/ Refused(c)
    BY <1>0, <1>1, <1>12 DEF Invoke, Dispatch, Advances, Refused, Before, UpTo, Refusals, Claimed,
                             Outcomes
  <2> QED BY <1>12, <2>1 DEF Invoke, Steps, CallerFrame
<1>13. CASE HandlerReturns(c)
  <2>1. HandlerAnswers(c)
    BY <1>0, <1>1, <1>13 DEF HandlerReturns, Collect, HandlerAnswers, Outcomes
  <2> QED BY <1>13, <2>1 DEF HandlerReturns, Steps, CallerFrame
<1>14. CASE Reconcile(c)
  <2>1. Reconciles(c)
    BY <1>0, <1>1, <1>14 DEF Reconcile, Dispatch, Reconciles, Reconciling, Outcomes
  <2> QED BY <1>14, <2>1 DEF Reconcile, Steps, CallerFrame
<1>15. CASE ReconciliationReturns(c)
  <2>1. Reconciles(c)
    BY <1>0, <1>1, <1>15 DEF ReconciliationReturns, Collect, Reconciles, Reconciling, Outcomes
  <2> QED BY <1>15, <2>1 DEF ReconciliationReturns, Steps, CallerFrame
<1>16. CASE ReportFailure(c)
  <2>1. Reconciles(c)
    BY <1>0, <1>1, <1>16 DEF ReportFailure, Dispatch, Reconciles, Reconciling, Outcomes
  <2> QED BY <1>16, <2>1 DEF ReportFailure, Steps, CallerFrame
<1>17. CASE FailureAuditReturns(c)
  <2>1. Reconciles(c)
    BY <1>0, <1>1, <1>17 DEF FailureAuditReturns, Collect, Reconciles, Reconciling, Outcomes
  <2> QED BY <1>17, <2>1 DEF FailureAuditReturns, Steps, CallerFrame
<1>18. ASSUME AuditLost(c)
       PROVE  /\ pc'[c] = AfterAudit(c) /\ outcome'[c].recon = outcome[c].recon
              /\ outcome'[c].status =
                    IF outcome[c].status = "executed" THEN "executed_unrecorded" ELSE outcome[c].status
  BY <1>0, <1>18 DEF AuditLost, AfterAudit, Outcomes
<1>19. CASE Record(c)
  <2>1. Audits(c)
    BY <1>0, <1>1, <1>18, <1>19 DEF Record, Dispatch, Audits
  <2> QED BY <1>19, <2>1 DEF Record, Steps, CallerFrame
<1>20. CASE AuditReturns(c)
  <2>1. Audits(c)
    BY <1>0, <1>1, <1>18, <1>20 DEF AuditReturns, Collect, Audits
  <2> QED BY <1>0, <1>20, <2>1 DEF AuditReturns, Steps, CallerFrame
<1>21. CASE StoreTerminal(c)
  <2>1. Keyed(c) => KeyOf[c] \in Keys /\ store \in [Keys -> Records]
    BY ProposalsAreTyped DEF Keyed, TypeOK, StoreTypeOK
  <2>2. /\ outcome[c] \in Outcomes
        /\ Unstored(outcome[c]).recon = outcome[c].recon
        /\ Unstored(outcome[c]).status # "executed"
        /\ \/ Unstored(outcome[c]).status = outcome[c].status
           \/ /\ outcome[c].status \in Executions
              /\ Unstored(outcome[c]).status = "executed_unrecorded"
    BY <1>0 DEF Unstored, Outcomes, Executions
  <2>3. /\ pc[c] = "store" /\ pc'[c] = "finish"
        /\ worker'[c]["handler"] = worker[c]["handler"]
    BY <1>0, <1>21 DEF StoreTerminal
  <2>4. outcome'[c] = outcome[c] \/ outcome'[c] = Unstored(outcome[c])
    BY <1>0, <1>21 DEF StoreTerminal
  <2>5. \/ UNCHANGED <<store, settled>> /\ (Keyed(c) => outcome'[c] = Unstored(outcome[c]))
        \/ /\ Keyed(c)
           /\ settled' = [settled EXCEPT ![c] = TerminalState(outcome[c]) = "completed"]
           /\ store' = UpdatedStore(KeyOf[c], TerminalState(outcome[c]), outcome[c].status)
    BY <1>0, <1>21 DEF StoreTerminal
  <2>6. ASSUME Keyed(c), store' = UpdatedStore(KeyOf[c], TerminalState(outcome[c]), outcome[c].status),
               settled' = [settled EXCEPT ![c] = TerminalState(outcome[c]) = "completed"]
        PROVE  /\ settled'[c] <=> TerminalState(outcome[c]) = "completed"
               /\ store'[KeyOf[c]] = [store[KeyOf[c]] EXCEPT !.state = TerminalState(outcome[c]),
                                                             !.result = outcome[c].status]
    BY <1>0, <2>1, <2>6 DEF UpdatedStore, Records
  <2>7. Stores(c)
    BY <2>2, <2>3, <2>4, <2>5, <2>6 DEF Stores
  <2> QED BY <1>21, <2>7 DEF StoreTerminal, Steps, CallerFrame
<1>22. CASE Finish(c)
  <2>1. Returns(c)
    BY <1>0, <1>22 DEF Finish, Returns
  <2> QED BY <1>22, <2>1 DEF Finish, Steps, CallerFrame
<1>23. ASSUME NEW op \in Ops, Outlives(c, op) \/ Drops(c, op)
       PROVE  Steps(c) /\ CallerFrame(c)
  <2>0. worker'[c]["handler"] = IF op = "handler" /\ Drops(c, op) THEN "none" ELSE worker[c]["handler"]
    <3>1. CASE Drops(c, op)
      BY <1>0, <1>1, <3>1 DEF Drops
    <3>2. CASE ~Drops(c, op)
      BY <1>23, <3>2 DEF Outlives
    <3> QED BY <3>1, <3>2
  <2>1. /\ pc[c] = op /\ AfterTimeout(c, op)
        /\ UNCHANGED <<handlerVars, store, settled>>
        /\ logged[c] => logged'[c]
        /\ "handler" \in late'[c] => "handler" \in late[c] \/ op = "handler"
        /\ \/ worker'[c]["handler"] = worker[c]["handler"]
           \/ op = "handler" /\ worker'[c]["handler"] = "none"
    <3>1. \/ worker'[c]["handler"] = worker[c]["handler"]
          \/ op = "handler" /\ worker'[c]["handler"] = "none"
      BY <2>0
    <3>2. CASE Outlives(c, op)
      BY <1>0, <3>1, <3>2 DEF Outlives
    <3>3. CASE Drops(c, op)
      BY <1>0, <3>1, <3>3 DEF Drops, WorkerEffect
    <3> QED BY <1>23, <3>2, <3>3
  <2>2. CASE op \in {"policy", "approval", "credential"}
    <3>1. Refused(c)
      BY <1>0, <2>1, <2>2 DEF AfterTimeout, Refused, Before, UpTo, Refusals, Outcomes
    <3> QED BY <2>1, <2>2, <3>1 DEF Steps, CallerFrame
  <2>3. CASE op = "handler"
    <3>1. HandlerTimesOut(c)
      BY <1>0, <2>1, <2>3 DEF AfterTimeout, HandlerTimesOut, Outcomes
    <3> QED BY <2>1, <2>3, <3>1 DEF Steps, CallerFrame
  <2>4. CASE op \in {"reconcile", "failureAudit"}
    <3>1. Reconciles(c)
      BY <1>0, <2>1, <2>4 DEF AfterTimeout, Reconciles, Reconciling, Outcomes
    <3> QED BY <2>1, <2>4, <3>1 DEF Steps, CallerFrame
  <2>5. CASE op = "audit"
    <3>1. Audits(c)
      BY <1>0, <1>18, <2>1, <2>5 DEF AfterTimeout, Audits
    <3> QED BY <2>1, <2>5, <3>1 DEF Steps, CallerFrame
  <2> QED BY <2>2, <2>3, <2>4, <2>5 DEF Ops
<1> QED BY <1>2, <1>3, <1>4, <1>5, <1>6, <1>7, <1>8, <1>9, <1>10, <1>11, <1>12, <1>13, <1>14, <1>15,
           <1>16, <1>17, <1>19, <1>20, <1>21, <1>22, <1>23 DEF Caller

-----------------------------------------------------------------------------
(* What a step does to the records, and to the calls that do not take it *)

\* A step claims a record, closes it, drops it, lets it expire, or leaves it.
ClaimedBy(k, c) ==
    /\ Keyed(c) /\ KeyOf[c] = k /\ pc[c] = "claim" /\ pc'[c] # "claim"
    /\ store[k].state = "absent" \/ ExpiredCompleted(store[k])
    /\ store'[k] = NewRecord(c, FingerprintOf[c])

ClosedBy(k, c) ==
    /\ Keyed(c) /\ KeyOf[c] = k /\ pc[c] = "store" /\ pc'[c] # "store"
    /\ store'[k] = [store[k] EXCEPT !.state = TerminalState(outcome[c]),
                                    !.result = outcome[c].status]

RecordMoves(k) ==
    \/ store'[k] = store[k]
    \/ ExpiredCompleted(store[k]) /\ store'[k] = NoRecord
    \/ store[k].state # "absent" /\ store'[k] = [store[k] EXCEPT !.expired = TRUE]
    \/ \E c \in Calls : ClaimedBy(k, c) \/ ClosedBy(k, c)

\* The step does not concern the call d.
Same(d) ==
    /\ pc'[d] = pc[d] /\ outcome'[d] = outcome[d]
    /\ started'[d] = started[d] /\ effect'[d] = effect[d]
    /\ completion'[d] = completion[d] /\ returned'[d] = returned[d]
    /\ settled'[d] = settled[d] /\ logged'[d] = logged[d]
    /\ worker'[d]["handler"] = worker[d]["handler"]
    /\ "handler" \in late'[d] <=> "handler" \in late[d]

\* Nothing undoes a side effect.
EffectsStay == \A d \in Calls : effect[d] => effect'[d]

CallKeys(c) ==
    /\ HandlerPlaced(c) /\ AnswerPlaced(c) /\ KeyHeld(c)
    /\ outcome[c].status \in Executions => EffectKnown(c)

LEMMA CallerStore ==
    ASSUME TypeOK, NEW c \in Calls, Caller(c)
    PROVE  /\ \A k \in Keys : RecordMoves(k)
           /\ \A k \in Keys : KeyOf[c] # k => store'[k] = store[k]
<1>0. store \in [Keys -> Records] /\ pc \in [Calls -> Places]
  BY DEF TypeOK, StoreTypeOK, CallTypeOK
<1>1. Keyed(c) => KeyOf[c] \in Keys
  BY ProposalsAreTyped DEF Keyed
<1>2. CASE Replay(c)
  <2>1. store' = store \/ store' = [store EXCEPT ![KeyOf[c]] = Found(KeyOf[c])]
    BY <1>2 DEF Replay, LookedUpStore
  <2>2. Keyed(c)
    BY <1>2 DEF Replay
  <2> QED BY <1>0, <1>1, <2>1, <2>2 DEF RecordMoves, Found
<1>3. CASE Claim(c)
  <2>1. pc[c] = "claim" /\ pc'[c] # "claim"
    BY <1>0, <1>3 DEF Claim, AfterClaim, AnswerFrom, Answer, Deny, Continue, Goto
  <2>2. \/ store' = store
        \/ Keyed(c) /\ store' = ClaimedStore(KeyOf[c], c, FingerprintOf[c])
    BY <1>3 DEF Claim
  <2>3. CASE store' = store
    BY <2>3 DEF RecordMoves
  <2>4. CASE /\ Keyed(c) /\ ClaimStatus(store[KeyOf[c]], FingerprintOf[c]) = "claimed"
             /\ store' = [store EXCEPT ![KeyOf[c]] = NewRecord(c, FingerprintOf[c])]
    <3>1. store[KeyOf[c]].state = "absent" \/ ExpiredCompleted(store[KeyOf[c]])
      <4>1. store[KeyOf[c]].state \in RecordStates /\ store[KeyOf[c]].expired \in BOOLEAN
        BY <1>0, <1>1, <2>4 DEF Records
      <4> QED BY <2>4, <4>1 DEF ClaimStatus, RecordStates, ExpiredCompleted
    <3>2. ClaimedBy(KeyOf[c], c)
      BY <1>0, <1>1, <2>1, <2>4, <3>1 DEF ClaimedBy
    <3> QED BY <1>0, <1>1, <2>4, <3>2 DEF RecordMoves
  <2> QED BY <2>2, <2>3, <2>4 DEF ClaimedStore
<1>4. CASE StoreTerminal(c)
  <2>1. pc[c] = "store" /\ pc'[c] # "store"
    BY <1>0, <1>4 DEF StoreTerminal, Goto
  <2>2. \/ store' = store
        \/ Keyed(c) /\ store' = UpdatedStore(KeyOf[c], TerminalState(outcome[c]), outcome[c].status)
    BY <1>4 DEF StoreTerminal
  <2>3. CASE store' = store
    BY <2>3 DEF RecordMoves
  <2>4. CASE Keyed(c) /\ store' = UpdatedStore(KeyOf[c], TerminalState(outcome[c]), outcome[c].status)
    <3>1. /\ store'[KeyOf[c]] = [store[KeyOf[c]] EXCEPT !.state = TerminalState(outcome[c]),
                                                        !.result = outcome[c].status]
          /\ \A k \in Keys \ {KeyOf[c]} : store'[k] = store[k]
      BY <1>0, <1>1, <2>4 DEF UpdatedStore, Records
    <3>2. ClosedBy(KeyOf[c], c)
      BY <2>1, <2>4, <3>1 DEF ClosedBy
    <3> QED BY <3>1, <3>2 DEF RecordMoves
  <2> QED BY <2>2, <2>3, <2>4
<1>5. CASE ~(Replay(c) \/ Claim(c) \/ StoreTerminal(c))
  <2>1. store' = store
    BY <1>5 DEF Caller, Admit, Register, Prepare, PolicyReturns, Approve, ApprovalReturns, Mint,
                CredentialReturns, Invoke, HandlerReturns, Reconcile, ReconciliationReturns,
                ReportFailure, FailureAuditReturns, Record, AuditReturns, Finish, Outlives, Drops,
                serviceVars
  <2> QED BY <2>1 DEF RecordMoves
<1> QED BY <1>2, <1>3, <1>4, <1>5

LEMMA EnvironmentStore ==
    ASSUME TypeOK, Environment
    PROVE  \A k \in Keys : RecordMoves(k)
<1>0. store \in [Keys -> Records]
  BY DEF TypeOK, StoreTypeOK
<1>1. CASE Gc
  BY <1>1 DEF Gc, Found, RecordMoves
<1>2. ASSUME NEW k \in Keys, Expire(k)
      PROVE  \A j \in Keys : RecordMoves(j)
  <2>1. /\ store[k].state # "absent" /\ store'[k] = [store[k] EXCEPT !.expired = TRUE]
        /\ \A j \in Keys \ {k} : store'[j] = store[j]
    BY <1>0, <1>2 DEF Expire
  <2> QED BY <2>1 DEF RecordMoves
<1>3. CASE UNCHANGED store
  BY <1>3 DEF RecordMoves
<1> QED BY <1>1, <1>2, <1>3 DEF Environment, StoreEnv

\* A record that is open can only be closed by its owner.
LEMMA OwnedStays ==
    ASSUME KeysInv, NEW d \in Calls, Keyed(d), RecordMoves(KeyOf[d]), pc'[d] = pc[d],
           store[KeyOf[d]] \in Records,
           store[KeyOf[d]].owner = d, store[KeyOf[d]].state \in {"in_progress", "uncertain"}
    PROVE  /\ store'[KeyOf[d]].owner = d
           /\ store'[KeyOf[d]].state = store[KeyOf[d]].state
<1>1. ~ExpiredCompleted(store[KeyOf[d]])
  BY DEF ExpiredCompleted
<1>2. ASSUME NEW c \in Calls, ClaimedBy(KeyOf[d], c) \/ ClosedBy(KeyOf[d], c)
      PROVE  FALSE
  <2>1. ~ClaimedBy(KeyOf[d], c)
    BY <1>1 DEF ClaimedBy
  <2>2. ClosedBy(KeyOf[d], c) => store[KeyOf[d]].owner = c
    BY DEF ClosedBy, KeysInv, KeyHeld
  <2>3. c # d
    BY <1>2 DEF ClaimedBy, ClosedBy
  <2> QED BY <1>2, <2>1, <2>2, <2>3
<1> QED BY <1>1, <1>2 DEF RecordMoves, Records

LEMMA RecordsStayOwned ==
    ASSUME KeysInv, AnswersPlaced, TypeOK, EffectsStay, NEW k \in Keys, RecordMoves(k)
    PROVE  RecordOwned(k)'
<1>0. store[k] \in Records /\ RecordOwned(k) /\ None \notin Calls
  BY NoneIsNothing DEF TypeOK, StoreTypeOK, KeysInv
<1>1. CASE store'[k] = store[k]
  BY <1>0, <1>1 DEF RecordOwned, EffectsStay
<1>2. CASE store'[k] = NoRecord
  BY <1>2 DEF RecordOwned, NoRecord
<1>3. CASE store[k].state # "absent" /\ store'[k] = [store[k] EXCEPT !.expired = TRUE]
  <2>1. /\ store'[k].state = store[k].state /\ store'[k].fp = store[k].fp
        /\ store'[k].owner = store[k].owner /\ store'[k].result = store[k].result
    BY <1>0, <1>3 DEF Records
  <2> QED BY <1>0, <1>3, <2>1 DEF RecordOwned, EffectsStay
<1>4. ASSUME NEW c \in Calls, ClaimedBy(k, c)
      PROVE  RecordOwned(k)'
  BY <1>4 DEF ClaimedBy, NewRecord, RecordOwned
<1>5. ASSUME NEW c \in Calls, ClosedBy(k, c)
      PROVE  RecordOwned(k)'
  <2>1. /\ store'[k].state = TerminalState(outcome[c]) /\ store'[k].result = outcome[c].status
        /\ store'[k].owner = store[k].owner /\ store'[k].fp = store[k].fp
    BY <1>0, <1>5 DEF ClosedBy, Records
  <2>2. store[k].owner = c /\ store[k].state = "in_progress"
    BY <1>5 DEF ClosedBy, KeysInv, KeyHeld
  <2>3. TerminalState(outcome[c]) = "completed" =>
            /\ outcome[c].status \in {"executed", "executed_unrecorded"}
            /\ effect'[c]
    <3>1. outcome[c].status \in Executions => effect[c]
      BY <1>5 DEF ClosedBy, KeysInv, AnswerPlaced
    <3> QED BY <3>1 DEF TerminalState, Executions, EffectsStay
  <2>4. TerminalState(outcome[c]) # "absent"
    BY DEF TerminalState
  <2> QED BY <1>0, <2>1, <2>2, <2>3, <2>4 DEF RecordOwned
<1> QED BY <1>1, <1>2, <1>3, <1>4, <1>5 DEF RecordMoves

\* A call that the step does not concern keeps what it has.
LEMMA OthersKeep ==
    ASSUME KeysInv, TypeOK, EffectsStay, NEW d \in Calls, Same(d),
           Keyed(d) => RecordMoves(KeyOf[d])
    PROVE  CallKeys(d)'
<1>0. HandlerPlaced(d) /\ AnswerPlaced(d) /\ KeyHeld(d)
  BY DEF KeysInv
<1>1. HandlerPlaced(d)' /\ AnswerPlaced(d)'
  BY <1>0 DEF Same, HandlerPlaced, AnswerPlaced
<1>2. (outcome[d].status \in Executions => EffectKnown(d))'
  BY DEF Same, KeysInv, EffectKnown, EffectsStay
<1>3. ASSUME Keyed(d)
      PROVE  KeyHeld(d)'
  <2>0. /\ KeyOf[d] \in Keys /\ store[KeyOf[d]] \in Records
        /\ None \notin Calls
    BY <1>3, ProposalsAreTyped, NoneIsNothing DEF Keyed, TypeOK, StoreTypeOK
  <2>1. store[KeyOf[d]].owner = d /\ store[KeyOf[d]].state \in {"in_progress", "uncertain"}
        => /\ store'[KeyOf[d]].owner = d
           /\ store'[KeyOf[d]].state = store[KeyOf[d]].state
    BY <1>3, <2>0, OwnedStays DEF Same
  <2>2. /\ store'[KeyOf[d]].owner = d /\ pc[d] \in {"finish", "done"}
        => /\ store[KeyOf[d]].owner = d
           /\ store'[KeyOf[d]].state = store[KeyOf[d]].state
    <3>1. ASSUME NEW c \in Calls, ClaimedBy(KeyOf[d], c), pc[d] \in {"finish", "done"}
          PROVE  store'[KeyOf[d]].owner # d
      BY <3>1 DEF ClaimedBy, NewRecord
    <3>2. ASSUME NEW c \in Calls, ClosedBy(KeyOf[d], c), pc[d] \in {"finish", "done"}
          PROVE  store'[KeyOf[d]].owner # d
      <4>1. store[KeyOf[d]].owner = c
        BY <3>2 DEF ClosedBy, KeysInv, KeyHeld
      <4> QED BY <2>0, <3>2, <4>1 DEF ClosedBy, Records
    <3> QED BY <1>3, <2>0, <3>1, <3>2 DEF RecordMoves, NoRecord, Records
  <2> QED BY <1>0, <1>3, <2>1, <2>2 DEF KeyHeld, Same
<1>4. Keyed(d) \/ KeyHeld(d)'
  BY DEF KeyHeld
<1> QED BY <1>1, <1>2, <1>3, <1>4 DEF CallKeys

-----------------------------------------------------------------------------
(* The steps of workers *)

\* The worker of a handler exists while its caller waits or has given up on it.
LEMMA HandlerWorker ==
    ASSUME WorkersPlaced, NEW c \in Calls
    PROVE  /\ worker[c]["handler"] # "none" <=> pc[c] = "handler" \/ "handler" \in late[c]
           /\ "handler" \in late[c] => pc[c] \notin UpTo("handler")
BY DEF WorkersPlaced, Ops

LEMMA WorkersLeaveOthers ==
    ASSUME TypeOK, NEW c \in Calls, Worker(c)
    PROVE  /\ UNCHANGED store /\ EffectsStay
           /\ \A d \in Calls \ {c} : Same(d)
<1>0. /\ worker \in [Calls -> [Ops -> WorkerStates]] /\ late \in [Calls -> SUBSET Ops]
      /\ {started, effect, completion} \subseteq [Calls -> BOOLEAN] /\ returned \in [Calls -> Endings]
      /\ {settled, logged} \subseteq [Calls -> BOOLEAN]
  BY DEF TypeOK, WorkerTypeOK, HandlerTypeOK, HistoryTypeOK
<1>1. UNCHANGED <<store, pc, outcome, settled>>
  BY DEF Worker, HandlerChecks, HandlerStarts, HandlerCommits, HandlerExits, Observes, LateExits,
         serviceVars
<1>2. \A d \in Calls : effect[d] => effect'[d]
  BY <1>0 DEF Worker, HandlerChecks, HandlerStarts, HandlerCommits, HandlerExits, Observes,
              LateExits, handlerVars
<1>3. \A d \in Calls \ {c} :
          /\ started'[d] = started[d] /\ effect'[d] = effect[d]
          /\ completion'[d] = completion[d] /\ returned'[d] = returned[d]
  BY <1>0 DEF Worker, HandlerChecks, HandlerStarts, HandlerCommits, HandlerExits, OperationEnds,
              Observes, LateExits, handlerVars
<1>4. \A d \in Calls \ {c} : worker'[d] = worker[d] /\ late'[d] = late[d] /\ logged'[d] = logged[d]
  BY <1>0, ZenonT(40)
  DEF Worker, HandlerChecks, HandlerStarts, HandlerCommits, HandlerExits, OperationEnds,
      HandlerMoves, Observes, LateExits, WorkerEffect, workerVars
<1> QED BY <1>1, <1>2, <1>3, <1>4 DEF Same, EffectsStay

LEMMA WorkerKeys ==
    ASSUME KeysInv, AccountsInv, NEW c \in Calls, Worker(c)
    PROVE  CallKeys(c)'
<1>0. /\ HandlerPlaced(c) /\ AnswerPlaced(c) /\ KeyHeld(c)
      /\ outcome[c].status \in Executions => EffectKnown(c)
  BY DEF KeysInv
<1>1. /\ worker \in [Calls -> [Ops -> WorkerStates]] /\ late \in [Calls -> SUBSET Ops]
      /\ {started, effect, completion} \subseteq [Calls -> BOOLEAN] /\ returned \in [Calls -> Endings]
      /\ {settled, logged} \subseteq [Calls -> BOOLEAN]
      /\ "handler" \in Ops
  BY DEF AccountsInv, TypeOK, WorkerTypeOK, HandlerTypeOK, HistoryTypeOK, Ops
<1>2. /\ UNCHANGED <<store, pc, outcome, settled>> /\ EffectsStay
  BY WorkersLeaveOthers DEF AccountsInv, Worker, HandlerChecks, HandlerStarts, HandlerCommits,
     HandlerExits, Observes, LateExits, serviceVars
<1>3. /\ worker[c]["handler"] # "none" <=> pc[c] = "handler" \/ "handler" \in late[c]
      /\ "handler" \in late[c] => pc[c] \notin UpTo("handler")
      /\ pc[c] = "handler" => pc[c] \in UpTo("handler")
      /\ pc[c] = "handler" => pc[c] \notin {"finish", "done"}
  BY HandlerWorker DEF AccountsInv, UpTo
\* The answer of a call whose handler's worker exists.
<1>4. ASSUME worker[c]["handler"] # "none"
      PROVE  /\ outcome[c].status \in {"none", "timed_out", "lost"}
             /\ ~settled[c] /\ pc[c] \notin Before
  <2>1. outcome[c].status \in {"none", "timed_out", "lost"}
    BY <1>0, <1>3, <1>4 DEF AnswerPlaced
  <2>2. ~settled[c]
    BY <1>0, <1>3, <1>4 DEF AnswerPlaced
  <2>3. pc[c] \notin Before
    BY <1>3, <1>4 DEF Before
  <2> QED BY <2>1, <2>2, <2>3
<1>5. (outcome[c].status \in Executions => EffectKnown(c))'
  BY <1>0, <1>2 DEF EffectKnown, EffectsStay
<1>6. ASSUME worker[c]["handler"] # "none", late' = late, UNCHANGED logged,
             worker'[c]["handler"] # "none",
             completion[c] => completion'[c], HandlerPlaced(c)'
      PROVE  CallKeys(c)'
  <2>1. AnswerPlaced(c)'
    BY <1>0, <1>2, <1>4, <1>6 DEF AnswerPlaced, Refusals, Executions
  <2>2. KeyHeld(c)'
    BY <1>0, <1>2, <1>4, <1>6 DEF KeyHeld
  <2> QED BY <1>5, <1>6, <2>1, <2>2 DEF CallKeys
<1>7. CASE HandlerChecks(c)
  <2>1. \/ /\ worker'[c]["handler"] = "exited" /\ completion'[c] /\ returned'[c] = "blocked"
        \/ /\ worker'[c]["handler"] = "cleared" /\ completion'[c] = completion[c]
           /\ returned'[c] = returned[c]
    BY <1>1, <1>7 DEF HandlerChecks, OperationEnds, HandlerMoves
  <2>2. /\ worker[c]["handler"] = "queued" /\ UNCHANGED <<late, logged, started, effect>>
    BY <1>7 DEF HandlerChecks, HandlerAt
  <2>3. HandlerPlaced(c)'
    BY <1>0, <1>2, <1>4, <2>1, <2>2 DEF HandlerPlaced
  <2> QED BY <1>6, <2>1, <2>2, <2>3
<1>8. CASE HandlerStarts(c)
  <2>1. /\ worker'[c]["handler"] = "running" /\ started'[c]
        /\ worker[c]["handler"] = "cleared" /\ UNCHANGED <<late, logged, effect, completion, returned>>
    BY <1>1, <1>8 DEF HandlerStarts, HandlerMoves, HandlerAt
  <2>2. HandlerPlaced(c)'
    BY <1>0, <1>2, <1>4, <2>1 DEF HandlerPlaced
  <2> QED BY <1>6, <2>1, <2>2
<1>9. CASE HandlerCommits(c)
  <2>1. /\ worker[c]["handler"] = "running" /\ effect'[c]
        /\ UNCHANGED <<late, logged, worker, started, completion, returned>>
    BY <1>1, <1>9 DEF HandlerCommits, HandlerAt, workerVars
  <2>2. HandlerPlaced(c)'
    BY <1>0, <1>2, <1>4, <2>1 DEF HandlerPlaced
  <2> QED BY <1>6, <2>1, <2>2
<1>10. CASE HandlerExits(c)
  <2>1. /\ worker'[c]["handler"] = "exited" /\ completion'[c]
        /\ returned'[c] \in {"ok", "bad_output"} => effect[c]
        /\ worker[c]["handler"] = "running" /\ UNCHANGED <<late, logged, started, effect>>
    BY <1>1, <1>10 DEF HandlerExits, HandlerAt, OperationEnds, HandlerMoves
  <2>2. HandlerPlaced(c)'
    BY <1>0, <1>2, <1>4, <2>1 DEF HandlerPlaced
  <2> QED BY <1>6, <2>1, <2>2
<1>11. CASE Observes(c)
  <2>1. UNCHANGED <<late, logged, worker, started, effect, completion, returned>>
    BY <1>11 DEF Observes, workerVars, handlerVars
  <2>2. HandlerPlaced(c)' /\ AnswerPlaced(c)' /\ KeyHeld(c)'
    BY <1>0, <1>2, <2>1 DEF HandlerPlaced, AnswerPlaced, KeyHeld
  <2> QED BY <1>5, <2>2 DEF CallKeys
<1>12. ASSUME NEW op \in Ops, LateExits(c, op)
       PROVE  CallKeys(c)'
  <2>1. /\ worker'[c]["handler"] \in {worker[c]["handler"], "none"}
        /\ "handler" \in late'[c] => "handler" \in late[c]
        /\ logged[c] => logged'[c]
        /\ UNCHANGED handlerVars
    BY <1>1, <1>12 DEF LateExits, WorkerEffect
  <2>2. HandlerPlaced(c)' /\ AnswerPlaced(c)' /\ KeyHeld(c)'
    BY <1>0, <1>2, <2>1 DEF HandlerPlaced, AnswerPlaced, KeyHeld, handlerVars
  <2> QED BY <1>5, <2>2 DEF CallKeys
<1> QED BY <1>7, <1>8, <1>9, <1>10, <1>11, <1>12 DEF Worker

-----------------------------------------------------------------------------
(* The steps of callers *)

LEMMA CallersLeaveOthers ==
    ASSUME TypeOK, WorkersPlaced, NEW c \in Calls, Caller(c)
    PROVE  EffectsStay /\ \A d \in Calls \ {c} : Same(d)
<1>0. /\ pc \in [Calls -> Places] /\ outcome \in [Calls -> Outcomes]
      /\ worker \in [Calls -> [Ops -> WorkerStates]] /\ late \in [Calls -> SUBSET Ops]
      /\ {settled, logged} \subseteq [Calls -> BOOLEAN]
  BY DEF TypeOK, CallTypeOK, WorkerTypeOK, HistoryTypeOK
<1>1. \A d \in Calls \ {c} : pc'[d] = pc[d]
  <2>1. \E place : Goto(c, place)
    BY DEF Caller, Admit, Register, Prepare, PolicyReturns, Replay, AnswerFrom, Claim, AfterClaim,
           Approve, ApprovalReturns, Mint, CredentialReturns, Invoke, HandlerReturns, Reconcile,
           ReconciliationReturns, ReportFailure, FailureAuditReturns, Record, AuditReturns,
           AuditLost, StoreTerminal, Finish, Outlives, Drops, AfterTimeout, Continue, Deny, Answer
  <2> QED BY <1>0, <2>1 DEF Goto
<1>2. \A d \in Calls \ {c} : outcome'[d] = outcome[d]
  BY <1>0 DEF Caller, Admit, Register, Prepare, PolicyReturns, Replay, AnswerFrom, Claim, AfterClaim,
           Approve, ApprovalReturns, Mint, CredentialReturns, Invoke, HandlerReturns, Reconcile,
           ReconciliationReturns, ReportFailure, FailureAuditReturns, Record, AuditReturns,
           AuditLost, StoreTerminal, Finish, Outlives, Drops, AfterTimeout, Continue, Deny, Answer
<1>3. \A d \in Calls \ {c} : worker'[d] = worker[d]
  BY <1>0 DEF Caller, Admit, Register, Prepare, PolicyReturns, Replay, Claim,
           Approve, ApprovalReturns, Mint, CredentialReturns, Invoke, HandlerReturns, Reconcile,
           ReconciliationReturns, ReportFailure, FailureAuditReturns, Record, AuditReturns,
           StoreTerminal, Finish, Outlives, Drops, Dispatch, Collect, NoCapacity, NoDispatch,
           workerVars
<1>4. \A d \in Calls \ {c} : late'[d] = late[d]
  BY <1>0 DEF Caller, Admit, Register, Prepare, PolicyReturns, Replay, Claim,
           Approve, ApprovalReturns, Mint, CredentialReturns, Invoke, HandlerReturns, Reconcile,
           ReconciliationReturns, ReportFailure, FailureAuditReturns, Record, AuditReturns,
           StoreTerminal, Finish, Outlives, Drops, workerVars
<1>5. \A d \in Calls \ {c} : settled'[d] = settled[d]
  BY <1>0 DEF Caller, Admit, Register, Prepare, PolicyReturns, Replay, Claim,
           Approve, ApprovalReturns, Mint, CredentialReturns, Invoke, HandlerReturns, Reconcile,
           ReconciliationReturns, ReportFailure, FailureAuditReturns, Record, AuditReturns,
           StoreTerminal, Finish, Outlives, Drops, serviceVars
<1>6. \A d \in Calls \ {c} : logged'[d] = logged[d]
  BY <1>0 DEF Caller, Admit, Register, Prepare, PolicyReturns, Replay, Claim,
           Approve, ApprovalReturns, Mint, CredentialReturns, Invoke, HandlerReturns, Reconcile,
           ReconciliationReturns, ReportFailure, FailureAuditReturns, Record, AuditReturns,
           StoreTerminal, Finish, Outlives, Drops, WorkerEffect
<1>7. UNCHANGED handlerVars
  BY CallerKinds DEF CallerFrame
<1> QED BY <1>1, <1>2, <1>3, <1>4, <1>5, <1>6, <1>7 DEF Same, EffectsStay, handlerVars

LEMMA CallerKeys ==
    ASSUME KeysInv, AccountsInv, NEW c \in Calls, Caller(c)
    PROVE  CallKeys(c)'
<1>0. /\ HandlerPlaced(c) /\ AnswerPlaced(c) /\ KeyHeld(c)
      /\ outcome[c].status \in Executions => EffectKnown(c)
  BY DEF KeysInv
<1>1. Steps(c) /\ CallerFrame(c)
  BY CallerKinds DEF AccountsInv
<1>2. /\ UNCHANGED <<started, effect, completion, returned>>
      /\ logged[c] => logged'[c]
  BY <1>1 DEF CallerFrame, handlerVars
<1>3. /\ worker[c]["handler"] # "none" <=> pc[c] = "handler" \/ "handler" \in late[c]
      /\ "handler" \in late[c] => pc[c] \notin UpTo("handler")
  BY HandlerWorker DEF AccountsInv
<1>4. EffectKnown(c)' <=> EffectKnown(c)
  BY <1>2 DEF EffectKnown
<1>5. Keyed(c) => KeyOf[c] \in Keys /\ store[KeyOf[c]] \in Records
  BY ProposalsAreTyped DEF Keyed, AccountsInv, TypeOK, StoreTypeOK
<1>6. pc[c] \in Before =>
          /\ outcome[c].status = "none" /\ ~started[c] /\ ~completion[c] /\ ~settled[c]
          /\ worker[c]["handler"] = "none" /\ "handler" \notin late[c] /\ "handler" \notin late'[c]
          /\ pc[c] # "store"
  <2> SUFFICES ASSUME pc[c] \in Before
               PROVE  /\ outcome[c].status = "none" /\ ~started[c] /\ ~completion[c] /\ ~settled[c]
                      /\ worker[c]["handler"] = "none"
                      /\ "handler" \notin late[c] /\ "handler" \notin late'[c]
                      /\ pc[c] # "store"
    OBVIOUS
  <2>1. pc[c] \in UpTo("handler") /\ pc[c] # "handler" /\ pc[c] \notin {"store", "finish", "done"}
    BY DEF Before, UpTo
  <2>2. "handler" \notin late[c] /\ worker[c]["handler"] = "none"
    BY <1>3, <2>1
  <2>3. "handler" \notin late'[c]
    BY <1>1, <2>1, <2>2 DEF CallerFrame, HandlerTimesOut
  <2>4. ~settled[c] /\ outcome[c].status = "none"
    BY <1>0, <2>1 DEF AnswerPlaced
  <2> QED BY <1>0, <2>1, <2>2, <2>3, <2>4 DEF HandlerPlaced
<1>7. pc[c] # "store" => settled'[c] = settled[c]
  BY <1>1 DEF CallerFrame
<1>8. pc[c] \notin {"replay", "claim", "store"} => UNCHANGED store
  BY <1>1 DEF CallerFrame
<1>9. pc[c] # "handler" => ("handler" \in late'[c] => "handler" \in late[c])
  BY <1>1 DEF CallerFrame, HandlerTimesOut
<1>10. CASE Advances(c)
  <2>1. pc'[c] \notin Reconciling \cup {"record", "audit", "store", "finish", "done"}
    BY <1>10 DEF Advances, UpTo, Reconciling
  <2>2. HandlerPlaced(c)'
    BY <1>0, <1>2, <1>6, <1>10 DEF HandlerPlaced, Advances
  <2>3. AnswerPlaced(c)'
    BY <1>0, <1>2, <1>6, <1>7, <1>10, <2>1 DEF AnswerPlaced, Advances, Refusals, Executions
  <2>4. ASSUME Keyed(c), pc'[c] \in Claimed
        PROVE  store'[KeyOf[c]].owner = c /\ store'[KeyOf[c]].state = "in_progress"
    <3>1. CASE pc[c] \in Claimed
      BY <1>0, <1>8, <2>4, <3>1 DEF Claimed, KeyHeld
    <3>2. CASE pc[c] \notin Claimed
      BY <1>10, <2>4, <3>2 DEF Advances, NewRecord
    <3> QED BY <3>1, <3>2
  <2>5. worker'[c]["handler"] # "none" => pc'[c] = "handler"
    BY <1>6, <1>10 DEF Advances
  <2>6. KeyHeld(c)'
    BY <1>2, <1>6, <1>10, <2>1, <2>4, <2>5 DEF KeyHeld, Claimed, Advances
  <2>7. outcome'[c].status \notin Executions
    BY <1>6, <1>10 DEF Advances, Executions
  <2> QED BY <2>2, <2>3, <2>6, <2>7 DEF CallKeys
<1>11. CASE Refused(c)
  <2>1. pc'[c] = "record" /\ pc'[c] \notin Before
    BY <1>11 DEF Refused, Before, UpTo
  <2>2. HandlerPlaced(c)'
    BY <1>0, <1>2, <1>6, <1>11, <2>1 DEF HandlerPlaced, Refused
  <2>3. outcome'[c].status \notin Executions \cup {"executed"}
    BY <1>11 DEF Refused, Refusals, Executions
  <2>4. pc'[c] \notin UpTo("handler") \cup Reconciling
    BY <2>1 DEF UpTo, Reconciling
  <2>5. AnswerPlaced(c)'
    BY <1>0, <1>2, <1>6, <1>7, <1>11, <2>1, <2>3, <2>4 DEF AnswerPlaced, Refused
  <2>6. KeyHeld(c)'
    BY <1>2, <1>6, <1>11, <2>1, <2>3, <2>4 DEF KeyHeld, Refused, Reconciling
  <2> QED BY <2>2, <2>3, <2>5, <2>6 DEF CallKeys
<1>12. CASE Replayed(c)
  <2>0. RecordOwned(KeyOf[c]) /\ pc[c] \in Before
    BY <1>5, <1>12 DEF Replayed, KeysInv, Before, UpTo
  <2>1. outcome'[c].status \in {"executed", "executed_unrecorded"} /\ EffectKnown(c)
    BY <1>12, <2>0 DEF Replayed, RecordOwned, EffectKnown
  <2>2. HandlerPlaced(c)'
    BY <1>0, <1>2, <1>6, <1>12, <2>0 DEF HandlerPlaced, Replayed
  <2>3. pc'[c] = "finish" /\ pc'[c] \notin UpTo("handler") \cup Reconciling
    BY <1>12 DEF Replayed, UpTo, Reconciling
  <2>4. AnswerPlaced(c)'
    BY <1>0, <1>2, <1>6, <1>7, <1>12, <2>0, <2>1, <2>3 DEF AnswerPlaced, Replayed, Refusals
  <2>5. KeyHeld(c)'
    BY <1>2, <1>6, <1>12, <2>0, <2>3 DEF KeyHeld, Replayed
  <2> QED BY <1>4, <2>1, <2>2, <2>4, <2>5 DEF CallKeys
<1>13. CASE HandlerAnswers(c)
  <2>0. pc[c] = "handler" /\ pc[c] \in UpTo("handler") /\ ~HandlerTimesOut(c)
    BY <1>13 DEF HandlerAnswers, HandlerTimesOut, StatusOf, UpTo
  <2>1. "handler" \notin late[c] /\ "handler" \notin late'[c] /\ ~settled[c]
    BY <1>0, <1>1, <1>3, <2>0 DEF CallerFrame, AnswerPlaced
  <2>2. /\ outcome'[c].status \notin Refusals
        /\ outcome'[c].status \in Executions => effect[c]
    BY <1>0, <1>13 DEF HandlerAnswers, StatusOf, Refusals, Executions, HandlerPlaced
  <2>3. pc'[c] = "record" /\ pc'[c] \notin UpTo("handler") \cup Reconciling \cup Before
    BY <1>13 DEF HandlerAnswers, UpTo, Reconciling, Before
  <2>4. HandlerPlaced(c)'
    BY <1>0, <1>2, <1>13, <2>3 DEF HandlerPlaced, HandlerAnswers
  <2>5. AnswerPlaced(c)'
    BY <1>0, <1>2, <1>7, <1>13, <2>1, <2>2, <2>3 DEF AnswerPlaced, HandlerAnswers, Executions
  <2>6. Keyed(c) => store'[KeyOf[c]].owner = c /\ store'[KeyOf[c]].state = "in_progress"
    BY <1>0, <1>8, <1>13 DEF HandlerAnswers, KeyHeld
  <2>7. KeyHeld(c)'
    BY <2>3, <2>6 DEF KeyHeld
  <2>8. outcome'[c].status \in Executions => EffectKnown(c)
    BY <2>2 DEF EffectKnown
  <2> QED BY <1>4, <2>4, <2>5, <2>7, <2>8 DEF CallKeys
<1>14. CASE HandlerTimesOut(c)
  <2>1. ~settled[c]
    BY <1>0, <1>14 DEF HandlerTimesOut, AnswerPlaced
  <2>2. /\ pc'[c] \in {"timedOut", "record"}
        /\ pc'[c] \notin UpTo("handler") \cup Before
    BY <1>14 DEF HandlerTimesOut, UpTo, Before
  <2>3. HandlerPlaced(c)'
    BY <1>0, <1>2, <1>14, <2>2 DEF HandlerPlaced, HandlerTimesOut
  <2>4. AnswerPlaced(c)'
    BY <1>0, <1>2, <1>7, <1>14, <2>1, <2>2 DEF AnswerPlaced, HandlerTimesOut, Refusals, Executions
  <2>5. Keyed(c) => store'[KeyOf[c]].owner = c /\ store'[KeyOf[c]].state = "in_progress"
    BY <1>0, <1>8, <1>14 DEF HandlerTimesOut, KeyHeld
  <2>6. KeyHeld(c)'
    BY <2>2, <2>5 DEF KeyHeld
  <2>7. outcome'[c].status \notin Executions
    BY <1>14 DEF HandlerTimesOut, Executions
  <2> QED BY <2>3, <2>4, <2>6, <2>7 DEF CallKeys
<1>15. CASE Reconciles(c)
  <2>1. /\ outcome[c].status \in {"timed_out", "lost"} /\ outcome'[c].status = outcome[c].status
        /\ ~settled[c] /\ pc[c] \notin {"handler", "store", "replay", "claim"}
    BY <1>0, <1>15 DEF Reconciles, Reconciling, AnswerPlaced
  <2>2. /\ pc'[c] \in Reconciling \cup {"record"}
        /\ pc'[c] \notin UpTo("handler") \cup Before \cup {"finish", "done", "store"}
    BY <1>15 DEF Reconciles, Reconciling, UpTo, Before
  <2>3. HandlerPlaced(c)'
    BY <1>0, <1>2, <1>15, <2>2 DEF HandlerPlaced, Reconciles
  <2>4. AnswerPlaced(c)'
    BY <1>0, <1>2, <1>7, <1>9, <1>15, <2>1, <2>2 DEF AnswerPlaced, Reconciles, Refusals, Executions
  <2>5. Keyed(c) => store'[KeyOf[c]].owner = c /\ store'[KeyOf[c]].state = "in_progress"
    BY <1>0, <1>8, <1>15, <2>1 DEF Reconciles, KeyHeld
  <2>6. KeyHeld(c)'
    BY <2>2, <2>5 DEF KeyHeld
  <2>7. outcome'[c].status \notin Executions
    BY <2>1 DEF Executions
  <2> QED BY <2>3, <2>4, <2>6, <2>7 DEF CallKeys
<1>16. CASE Audits(c)
  <2>1. /\ pc'[c] \in {"audit", "store", "finish"} /\ pc'[c] \notin UpTo("handler") \cup Before \cup Reconciling
        /\ pc'[c] = "store" => outcome[c].status \notin Refusals
        /\ pc'[c] = "finish" => outcome[c].status \in Refusals
    BY <1>16 DEF Audits, AfterAudit, Refusals, UpTo, Before, Reconciling
  <2>2. /\ outcome'[c].status \in Executions <=> outcome[c].status \in Executions
        /\ outcome'[c].status \in Refusals <=> outcome[c].status \in Refusals
        /\ outcome'[c].status = "executed" => outcome[c].status = "executed"
        /\ outcome[c].status \in {"timed_out", "lost"} => outcome'[c].status = outcome[c].status
        /\ outcome'[c].status = "executed" /\ pc'[c] # "audit" => logged'[c]
        /\ outcome'[c].recon = outcome[c].recon
    BY <1>16 DEF Audits, Executions, Refusals
  <2>3. /\ worker'[c]["handler"] = worker[c]["handler"] /\ pc[c] \in {"record", "audit"} /\ ~settled[c]
    BY <1>0, <1>16 DEF Audits, AnswerPlaced
  <2>4. HandlerPlaced(c)'
    BY <1>0, <1>2, <2>1, <2>3 DEF HandlerPlaced
  <2>5. "handler" \in late'[c] => outcome'[c].status \in {"timed_out", "lost"}
    BY <1>0, <1>9, <2>2, <2>3 DEF AnswerPlaced
  <2>6. AnswerPlaced(c)'
    BY <1>0, <1>2, <1>7, <2>1, <2>2, <2>3, <2>5 DEF AnswerPlaced
  <2>7. Keyed(c) /\ outcome[c].status \notin Refusals
           => store'[KeyOf[c]].owner = c /\ store'[KeyOf[c]].state = "in_progress"
    BY <1>0, <1>8, <2>3 DEF KeyHeld
  <2>8. outcome[c].status \in Refusals => ~started[c] /\ worker[c]["handler"] = "none"
                                          /\ outcome'[c].status # "executed"
    BY <1>0, <2>2 DEF AnswerPlaced, Refusals
  <2>9. KeyHeld(c)'
    <3>1. CASE outcome[c].status \in Refusals
      BY <1>2, <2>1, <2>2, <2>3, <2>8, <3>1 DEF KeyHeld
    <3>2. CASE outcome[c].status \notin Refusals
      BY <2>1, <2>7, <3>2 DEF KeyHeld
    <3> QED BY <3>1, <3>2
  <2> QED BY <1>0, <1>4, <2>2, <2>4, <2>6, <2>9 DEF CallKeys
<1>17. CASE Stores(c)
  <2>1. /\ pc[c] = "store" /\ pc'[c] = "finish" /\ pc'[c] \notin UpTo("handler") \cup Before \cup Reconciling
        /\ worker'[c]["handler"] = worker[c]["handler"]
        /\ outcome'[c].recon = outcome[c].recon
        /\ ~settled[c] /\ outcome[c].status \notin Refusals
    BY <1>0, <1>17 DEF Stores, UpTo, Before, Reconciling, AnswerPlaced, AccountsInv, AnswersPlaced,
                       Refusals
  <2>2. /\ outcome'[c].status \in Executions <=> outcome[c].status \in Executions
        /\ outcome'[c].status \notin Refusals
        /\ outcome'[c].status = "executed" => outcome[c].status = "executed"
        /\ outcome[c].status \in {"timed_out", "lost"} => outcome'[c].status = outcome[c].status
    BY <1>17, <2>1 DEF Stores, Executions, Refusals
  <2>3. "handler" \in late'[c] => outcome[c].status \in {"timed_out", "lost"}
    BY <1>0, <1>9, <2>1 DEF AnswerPlaced
  <2>4. settled'[c] => outcome[c].status \in {"executed", "executed_unrecorded"}
    BY <1>17, <2>1 DEF Stores, TerminalState
  <2>5. HandlerPlaced(c)'
    BY <1>0, <1>2, <2>1 DEF HandlerPlaced
  <2>6. AnswerPlaced(c)'
    BY <1>0, <1>2, <2>1, <2>2, <2>3, <2>4 DEF AnswerPlaced
  <2>7. ASSUME Keyed(c)
        PROVE  KeyHeld(c)'
    <3>1. store[KeyOf[c]].owner = c /\ store[KeyOf[c]].state = "in_progress"
      BY <1>0, <2>1, <2>7 DEF KeyHeld
    <3>2. CASE /\ settled'[c] <=> TerminalState(outcome[c]) = "completed"
               /\ store'[KeyOf[c]] = [store[KeyOf[c]] EXCEPT !.state = TerminalState(outcome[c]),
                                                             !.result = outcome[c].status]
      <4>1. store'[KeyOf[c]].owner = c /\ store'[KeyOf[c]].state = TerminalState(outcome[c])
        BY <1>5, <2>7, <3>1, <3>2 DEF Records
      <4>2. /\ TerminalState(outcome[c]) \in {"completed", "uncertain"}
            /\ outcome[c].status = "executed" => TerminalState(outcome[c]) = "completed"
        BY DEF TerminalState
      <4> QED BY <2>1, <2>2, <3>2, <4>1, <4>2 DEF KeyHeld
    <3>3. CASE UNCHANGED store /\ outcome'[c].status # "executed"
      BY <2>1, <3>1, <3>3 DEF KeyHeld
    <3> QED BY <1>17, <2>7, <3>2, <3>3 DEF Stores
  <2>8. Keyed(c) \/ KeyHeld(c)'
    BY DEF KeyHeld
  <2> QED BY <1>0, <1>4, <2>2, <2>5, <2>6, <2>7, <2>8 DEF CallKeys
<1>18. CASE Returns(c)
  <2>1. /\ pc[c] = "finish" /\ pc'[c] = "done" /\ outcome'[c] = outcome[c]
        /\ worker'[c]["handler"] = worker[c]["handler"]
        /\ pc'[c] \notin UpTo("handler") \cup Before \cup Reconciling
    BY <1>18 DEF Returns, UpTo, Before, Reconciling
  <2>2. HandlerPlaced(c)'
    BY <1>0, <1>2, <2>1 DEF HandlerPlaced
  <2>3. AnswerPlaced(c)'
    BY <1>0, <1>2, <1>7, <1>9, <2>1 DEF AnswerPlaced
  <2>4. KeyHeld(c)'
    BY <1>0, <1>2, <1>7, <1>8, <2>1 DEF KeyHeld
  <2> QED BY <1>0, <1>4, <2>1, <2>2, <2>3, <2>4 DEF CallKeys
<1> QED BY <1>1, <1>10, <1>11, <1>12, <1>13, <1>14, <1>15, <1>16, <1>17, <1>18 DEF Steps

-----------------------------------------------------------------------------
(* The host, the environment, and the invariant *)

\* What the host and the environment leave of a call they do not concern.
LEMMA HostKeys ==
    ASSUME KeysInv, TypeOK, NEW d \in Calls,
           UNCHANGED <<pc, outcome, handlerVars, settled, logged, workerVars>>,
           \A k \in Keys : RecordMoves(k)
    PROVE  CallKeys(d)'
<1>1. Keyed(d) => KeyOf[d] \in Keys
  BY ProposalsAreTyped DEF Keyed
<1>2. Same(d) /\ EffectsStay
  BY DEF Same, EffectsStay, handlerVars, workerVars
<1> QED BY <1>1, <1>2, OthersKeep

\* The calls of a process that dies do not return; their keys stay with them.
LEMMA CrashKeys ==
    ASSUME KeysInv, AccountsInv, NEW r \in Runtimes, Crash(r), NEW d \in Calls
    PROVE  CallKeys(d)'
<1>0. /\ HandlerPlaced(d) /\ AnswerPlaced(d) /\ KeyHeld(d)
      /\ outcome[d].status \in Executions => EffectKnown(d)
      /\ outcome[d] \in Outcomes
  BY DEF KeysInv, AccountsInv, TypeOK, CallTypeOK
<1>1. UNCHANGED <<store, settled, logged, started, effect, completion, returned>>
  BY DEF Crash, serviceVars, handlerVars
<1>2. CASE Rt(d) # r
  <2>1. /\ pc'[d] = pc[d] /\ outcome'[d] = outcome[d]
        /\ worker'[d] = worker[d] /\ late'[d] = late[d]
    BY <1>2 DEF Crash, CallsOf, Rt
  <2>2. Same(d) /\ EffectsStay /\ (Keyed(d) => RecordMoves(KeyOf[d]))
    BY <1>1, <2>1 DEF Same, EffectsStay, RecordMoves
  <2> QED BY <2>2, OthersKeep DEF AccountsInv
<1>3. CASE Rt(d) = r
  <2>1. /\ worker'[d]["handler"] = "none" /\ late'[d] = {} /\ "handler" \in Ops
        /\ IF pc[d] \in {"idle", "done"}
           THEN pc'[d] = pc[d] /\ outcome'[d] = outcome[d]
           ELSE pc'[d] = "done" /\ outcome'[d] = [outcome[d] EXCEPT !.status = "lost"]
    BY <1>3 DEF Crash, CallsOf, Rt, Ops
  <2>2. /\ "done" \notin UpTo("handler") \cup Before \cup Reconciling
        /\ pc[d] = "idle" => pc[d] \in UpTo("handler")
    BY DEF UpTo, Before, Reconciling
  <2>3. HandlerPlaced(d)'
    BY <1>0, <1>1, <2>1, <2>2 DEF HandlerPlaced
  <2>4. CASE pc[d] \in {"idle", "done"}
    <3>1. AnswerPlaced(d)'
      BY <1>0, <1>1, <2>1, <2>4 DEF AnswerPlaced
    <3>2. KeyHeld(d)'
      BY <1>0, <1>1, <2>1, <2>4 DEF KeyHeld
    <3>3. (outcome[d].status \in Executions => EffectKnown(d))'
      BY <1>0, <1>1, <2>1, <2>4 DEF EffectKnown
    <3> QED BY <2>3, <3>1, <3>2, <3>3 DEF CallKeys
  <2>5. CASE pc[d] \notin {"idle", "done"}
    <3>1. pc'[d] = "done" /\ outcome'[d].status = "lost" /\ outcome'[d].recon = outcome[d].recon
      BY <1>0, <2>1, <2>5 DEF Outcomes
    <3>2. AnswerPlaced(d)'
      BY <1>0, <1>1, <2>1, <2>2, <3>1 DEF AnswerPlaced, Refusals, Executions
    <3>3. KeyHeld(d)'
      BY <1>0, <1>1, <2>1, <2>2, <3>1 DEF KeyHeld
    <3>4. outcome'[d].status \notin Executions
      BY <3>1 DEF Executions
    <3> QED BY <2>3, <3>2, <3>3, <3>4 DEF CallKeys
  <2> QED BY <2>4, <2>5
<1> QED BY <1>2, <1>3

LEMMA KeysInitially ==
    Init => KeysInv
<1> SUFFICES ASSUME Init PROVE KeysInv
  OBVIOUS
<1>1. "handler" \in Ops
  BY DEF Ops
<1>2. ASSUME NEW c \in Calls
      PROVE  CallKeys(c)
  <2>1. /\ pc[c] = "idle" /\ outcome[c].status = "none" /\ outcome[c].recon = "none"
        /\ worker[c]["handler"] = "none" /\ late[c] = {} /\ returned[c] = "none"
        /\ ~started[c] /\ ~effect[c] /\ ~completion[c] /\ ~settled[c]
    BY <1>1 DEF Init, FreshOutcome
  <2>2. "idle" \notin Reconciling \cup {"record", "audit", "store"}
    BY DEF Reconciling
  <2> QED BY <2>1, <2>2 DEF CallKeys, HandlerPlaced, AnswerPlaced, KeyHeld, Refusals, Executions
<1>3. \A k \in Keys : RecordOwned(k)
  BY DEF Init, StoreInit, RecordOwned, NoRecord
<1> QED BY <1>2, <1>3 DEF KeysInv, CallKeys

LEMMA KeysKept ==
    KeysInv /\ AccountsInv /\ [Next]_vars => KeysInv'
<1> SUFFICES ASSUME KeysInv, AccountsInv, [Next]_vars PROVE KeysInv'
  OBVIOUS
<1>0. TypeOK /\ WorkersPlaced /\ AnswersPlaced
  BY DEF AccountsInv
<1>1. ASSUME EffectsStay, \A k \in Keys : RecordMoves(k), \A c \in Calls : CallKeys(c)'
      PROVE  KeysInv'
  BY <1>0, <1>1, RecordsStayOwned DEF KeysInv, CallKeys
<1>2. ASSUME NEW c \in Calls, Caller(c)
      PROVE  KeysInv'
  <2>1. \A k \in Keys : RecordMoves(k)
    BY <1>0, <1>2, CallerStore
  <2>2. EffectsStay /\ \A d \in Calls \ {c} : Same(d)
    BY <1>0, <1>2, CallersLeaveOthers
  <2>3. \A d \in Calls : Keyed(d) => KeyOf[d] \in Keys
    BY ProposalsAreTyped DEF Keyed
  <2>4. \A d \in Calls \ {c} : CallKeys(d)'
    BY <1>0, <2>1, <2>2, <2>3, OthersKeep
  <2>5. CallKeys(c)'
    BY <1>2, CallerKeys
  <2> QED BY <1>1, <2>1, <2>2, <2>4, <2>5
<1>3. ASSUME NEW c \in Calls, Worker(c)
      PROVE  KeysInv'
  <2>1. UNCHANGED store /\ EffectsStay /\ \A d \in Calls \ {c} : Same(d)
    BY <1>0, <1>3, WorkersLeaveOthers
  <2>2. \A k : RecordMoves(k)
    BY <2>1 DEF RecordMoves
  <2>3. \A d \in Calls \ {c} : CallKeys(d)'
    BY <1>0, <2>1, <2>2, OthersKeep
  <2>4. CallKeys(c)'
    BY <1>3, WorkerKeys
  <2> QED BY <1>1, <2>1, <2>2, <2>3, <2>4
<1>4. ASSUME UNCHANGED <<pc, outcome, handlerVars, settled, logged, workerVars>>,
             \A k \in Keys : RecordMoves(k)
      PROVE  KeysInv'
  <2>1. EffectsStay
    BY <1>4 DEF EffectsStay, handlerVars
  <2>2. \A d \in Calls : CallKeys(d)'
    BY <1>0, <1>4, HostKeys
  <2> QED BY <1>1, <1>4, <2>1, <2>2
<1>5. ASSUME NEW r \in Runtimes, Stop(r)
      PROVE  KeysInv'
  <2>1. UNCHANGED <<pc, outcome, handlerVars, settled, logged, workerVars, store>>
    BY <1>5 DEF Stop, serviceVars
  <2>2. \A k \in Keys : RecordMoves(k)
    BY <2>1 DEF RecordMoves
  <2> QED BY <1>4, <2>1, <2>2
<1>6. ASSUME NEW r \in Runtimes, Crash(r)
      PROVE  KeysInv'
  <2>1. UNCHANGED store /\ EffectsStay
    BY <1>6 DEF Crash, serviceVars, handlerVars, EffectsStay
  <2>2. \A k \in Keys : RecordMoves(k)
    BY <2>1 DEF RecordMoves
  <2>3. \A d \in Calls : CallKeys(d)'
    BY <1>6, CrashKeys
  <2> QED BY <1>1, <2>1, <2>2, <2>3
<1>7. CASE Environment
  <2>1. UNCHANGED <<pc, outcome, handlerVars, settled, logged, workerVars>>
    BY <1>7 DEF Environment
  <2>2. \A k \in Keys : RecordMoves(k)
    BY <1>0, <1>7, EnvironmentStore
  <2> QED BY <1>4, <2>1, <2>2
<1>8. CASE UNCHANGED vars
  <2>1. UNCHANGED <<pc, outcome, handlerVars, settled, logged, workerVars, store>>
    BY <1>8 DEF vars, serviceVars
  <2>2. \A k \in Keys : RecordMoves(k)
    BY <2>1 DEF RecordMoves
  <2> QED BY <1>4, <2>1, <2>2
<1> QED BY <1>2, <1>3, <1>5, <1>6, <1>7, <1>8 DEF Next

\* Handlers, answers, records and keys are in step in every reachable state.
THEOREM KeysInvariant == Spec => []KeysInv
BY AccountsInitially, AccountsKept, KeysInitially, KeysKept, PTL DEF Spec

\* No other call of any runtime, no expiry and no garbage collection takes the
\* record of its key from a call between its claim and its terminal record.
THEOREM ClaimsAreHeld == Spec => []ClaimHeld
<1>1. KeysInv => ClaimHeld
  BY DEF KeysInv, KeyHeld, ClaimHeld, Reconciling
<1> QED BY KeysInvariant, <1>1, PTL

\* A key whose handler was called is not claimed again while the outcome is
\* open, across timeouts, failures and crashes.
THEOREM UnsettledKeysAreKept == Spec => []UnsettledKeepsKey
<1>1. KeysInv => UnsettledKeepsKey
  BY DEF KeysInv, KeyHeld, UnsettledKeepsKey
<1> QED BY KeysInvariant, <1>1, PTL

\* A replayed EXECUTED is the answer of a call of the same key and action that
\* had its effect.
THEOREM ReplaysAreTrue == Spec => []ReplayIsTrue
<1>1. KeysInv => ReplayIsTrue
  BY DEF KeysInv, EffectKnown, Executions, ReplayIsTrue
<1> QED BY KeysInvariant, <1>1, PTL

\* EXECUTED is returned only with the effect done, the event logged, and the
\* record, while it is the call's own, completed.
THEOREM ExecutionsAreDurable == Spec => []ExecutedIsDurable
<1>1. KeysInv => ExecutedIsDurable
  BY DEF KeysInv, AnswerPlaced, KeyHeld, ExecutedIsDurable
<1> QED BY KeysInvariant, <1>1, PTL

\* After DENIED or APPROVAL_REQUIRED no handler was or will be called.
THEOREM DenialsHold == Spec => []DeniedNeverStarts
<1>1. KeysInv => DeniedNeverStarts
  BY DEF KeysInv, AnswerPlaced, Refusals, Live, HandlerAt, DeniedNeverStarts
<1> QED BY KeysInvariant, <1>1, PTL

\* A confirmed reconciliation state comes after the last step of the handler.
THEOREM ConfirmationsAreFinal == Spec => []ConfirmedIsFinal
<1>1. KeysInv => ConfirmedIsFinal
  BY DEF KeysInv, AnswerPlaced, HandlerPlaced, Live, HandlerAt, ConfirmedIsFinal
<1> QED BY KeysInvariant, <1>1, PTL

-----------------------------------------------------------------------------
(* The runtimes implement the ledger *)

Entry(k) == LedgerEntry(store[k])

LEMMA EntryParts ==
    ASSUME NEW k
    PROVE  /\ Entry(k).phase = LedgerPhase(store[k]) /\ Entry(k).holder = store[k].owner
           /\ Entry(k).begun = (store[k].owner # None /\ started[store[k].owner])
BY DEF Entry, LedgerEntry

LEMMA EntryPartsNext ==
    ASSUME NEW k
    PROVE  Entry(k)' = [phase |-> LedgerPhase(store'[k]), holder |-> store'[k].owner,
                        begun |-> store'[k].owner # None /\ started'[store'[k].owner]]
BY DEF Entry, LedgerEntry, LedgerPhase

\* A step that changes one entry changes the ledger there.
LEMMA LedgerAt ==
    ASSUME NEW k \in Keys, \A j \in Keys : j # k => Entry(j)' = Entry(j)
    PROVE  /\ LedgerOfStore[k] = Entry(k)
           /\ \A e : Entry(k)' = e => LedgerOfStore' = [LedgerOfStore EXCEPT ![k] = e]
           /\ Entry(k)' = Entry(k) => UNCHANGED LedgerOfStore
BY DEF LedgerOfStore, Entry

LEMMA EntryKept ==
    ASSUME NEW k, UNCHANGED started, store'[k] = store[k]
    PROVE  Entry(k)' = Entry(k)
BY DEF Entry, LedgerEntry, LedgerPhase

\* One record moves, and no handler is called.
LEMMA RecordStep ==
    ASSUME KeysInv, AccountsInv, UNCHANGED started, NEW k \in Keys, RecordMoves(k),
           \A j \in Keys : j # k => store'[j] = store[j]
    PROVE  [Ledger!Next]_LedgerOfStore
<1>0. /\ store[k] \in Records /\ RecordOwned(k) /\ None \notin Calls
      /\ started \in [Calls -> BOOLEAN]
  BY NoneIsNothing DEF AccountsInv, TypeOK, StoreTypeOK, HandlerTypeOK, KeysInv
<1>1. /\ LedgerOfStore[k] = Entry(k)
      /\ \A e : Entry(k)' = e => LedgerOfStore' = [LedgerOfStore EXCEPT ![k] = e]
      /\ Entry(k)' = Entry(k) => UNCHANGED LedgerOfStore
  <2>1. \A j \in Keys : j # k => Entry(j)' = Entry(j)
    BY EntryKept
  <2> QED BY <2>1, LedgerAt
<1>2. CASE store'[k] = store[k]
  BY <1>1, <1>2, EntryKept
<1>3. CASE ExpiredCompleted(store[k]) /\ store'[k] = NoRecord
  <2>1. Entry(k)' = Ledger!FreeEntry
    <3>1. /\ LedgerPhase(store'[k]) = "free" /\ store'[k].owner = None
      BY <1>3 DEF NoRecord, LedgerPhase
    <3>2. Entry(k)' = [phase |-> LedgerPhase(store'[k]), holder |-> store'[k].owner,
                       begun |-> store'[k].owner # None /\ started'[store'[k].owner]]
      BY EntryPartsNext
    <3>3. (store'[k].owner # None /\ started'[store'[k].owner]) = FALSE
      BY <3>1
    <3> QED BY <3>1, <3>2, <3>3 DEF Ledger!FreeEntry
  <2>2. LedgerOfStore[k].phase = "lapsed"
    BY <1>1, <1>3, EntryParts DEF ExpiredCompleted, LedgerPhase
  <2>3. LedgerOfStore' = [j \in Keys |-> IF j \in {k} THEN Ledger!FreeEntry ELSE LedgerOfStore[j]]
    BY <1>1, <2>1 DEF LedgerOfStore
  <2>4. {k} \in SUBSET {j \in Keys : LedgerOfStore[j].phase = "lapsed"}
    BY <2>2
  <2> QED BY <2>3, <2>4 DEF Ledger!Next, Ledger!Forget
<1>4. CASE store[k].state # "absent" /\ store'[k] = [store[k] EXCEPT !.expired = TRUE]
  <2>1. /\ store'[k].state = store[k].state /\ store'[k].owner = store[k].owner
        /\ store'[k].expired = TRUE
    BY <1>0, <1>4 DEF Records
  <2>2. Entry(k)' = [phase |-> LedgerPhase(store'[k]), holder |-> store[k].owner,
                     begun |-> store[k].owner # None /\ started[store[k].owner]]
    BY <2>1, EntryPartsNext
  <2>3. CASE store[k].state = "completed" /\ ~store[k].expired
    <3>1. Entry(k).phase = "settled" /\ LedgerPhase(store'[k]) = "lapsed"
      BY <2>1, <2>3, EntryParts DEF LedgerPhase
    <3>2. Entry(k)' = [Entry(k) EXCEPT !.phase = "lapsed"]
      BY <2>2, <3>1 DEF Entry, LedgerEntry
    <3>3. LedgerOfStore' = [LedgerOfStore EXCEPT ![k].phase = "lapsed"]
      BY <1>1, <3>2
    <3> QED BY <1>1, <3>1, <3>3 DEF Ledger!Next, Ledger!Lapse
  <2>4. CASE ~(store[k].state = "completed" /\ ~store[k].expired)
    <3>1. LedgerPhase(store'[k]) = LedgerPhase(store[k])
      BY <1>0, <2>1, <2>4 DEF LedgerPhase, Records, RecordStates
    <3>2. Entry(k)' = Entry(k)
      BY <2>2, <3>1 DEF Entry, LedgerEntry
    <3> QED BY <1>1, <3>2
  <2> QED BY <2>3, <2>4
<1>5. ASSUME NEW c \in Calls, ClaimedBy(k, c)
      PROVE  [Ledger!Next]_LedgerOfStore
  <2>1. ~started[c]
    BY <1>5 DEF ClaimedBy, KeysInv, HandlerPlaced, Before, UpTo
  <2>2. /\ store'[k].owner = c /\ LedgerPhase(store'[k]) = "open"
    BY <1>5 DEF ClaimedBy, NewRecord, LedgerPhase
  <2>3. (store'[k].owner # None /\ started'[store'[k].owner]) = FALSE
    BY <1>0, <2>1, <2>2
  <2>4. Entry(k)' = [phase |-> "open", holder |-> c, begun |-> FALSE]
    BY <2>2, <2>3, EntryPartsNext
  <2>5. LedgerOfStore[k].phase \in {"free", "lapsed"}
    BY <1>1, <1>5, EntryParts DEF ClaimedBy, ExpiredCompleted, LedgerPhase
  <2>6. LedgerOfStore' = [LedgerOfStore EXCEPT ![k] = [phase |-> "open", holder |-> c, begun |-> FALSE]]
    BY <1>1, <2>4
  <2> QED BY <2>5, <2>6 DEF Ledger!Next, Ledger!Take
<1>6. ASSUME NEW c \in Calls, ClosedBy(k, c)
      PROVE  [Ledger!Next]_LedgerOfStore
  <2>1. /\ store'[k].state = TerminalState(outcome[c]) /\ store'[k].owner = store[k].owner
        /\ store'[k].expired = store[k].expired
    BY <1>0, <1>6 DEF ClosedBy, Records
  <2>2. store[k].owner = c /\ store[k].state = "in_progress" /\ c # None
    BY <1>0, <1>6 DEF ClosedBy, KeysInv, KeyHeld
  <2>3. Entry(k)' = [phase |-> LedgerPhase(store'[k]), holder |-> store[k].owner,
                     begun |-> store[k].owner # None /\ started[store[k].owner]]
    BY <2>1, EntryPartsNext
  <2>4. Entry(k).phase = "open"
    BY <2>2, EntryParts DEF LedgerPhase
  <2>5. CASE TerminalState(outcome[c]) = "uncertain"
    <3>1. LedgerPhase(store'[k]) = LedgerPhase(store[k])
      BY <2>1, <2>2, <2>5 DEF LedgerPhase
    <3>2. Entry(k)' = Entry(k)
      BY <2>3, <3>1 DEF Entry, LedgerEntry
    <3> QED BY <1>1, <3>2
  <2>6. CASE TerminalState(outcome[c]) = "completed"
    <3>1. outcome[c].status \in Executions
      BY <2>6 DEF TerminalState, Executions
    <3>2. started[c]
      BY <1>6, <3>1 DEF ClosedBy, KeysInv, AnswerPlaced, HandlerPlaced
    <3>3. Entry(k).begun
      BY <2>2, <3>2, EntryParts
    <3>4. LedgerPhase(store'[k]) \in {"settled", "lapsed"}
      BY <1>0, <2>1, <2>6 DEF LedgerPhase, Records
    <3>5. Entry(k)' = [Entry(k) EXCEPT !.phase = LedgerPhase(store'[k])]
      BY <2>3 DEF Entry, LedgerEntry
    <3>6. LedgerOfStore' = [LedgerOfStore EXCEPT ![k].phase = LedgerPhase(store'[k])]
      BY <1>1, <3>5
    <3>7. Ledger!Settle(k)
      BY <1>1, <2>4, <3>3, <3>4, <3>6 DEF Ledger!Settle
    <3> QED BY <3>7 DEF Ledger!Next
  <2> QED BY <2>5, <2>6 DEF TerminalState
<1> QED BY <1>2, <1>3, <1>4, <1>5, <1>6 DEF RecordMoves

\* The handler of a keyed call is called on behalf of the holder of its key.
LEMMA StartStep ==
    ASSUME KeysInv, AccountsInv, NEW c \in Calls, HandlerStarts(c)
    PROVE  [Ledger!Next]_LedgerOfStore
<1>0. /\ started \in [Calls -> BOOLEAN] /\ None \notin Calls
      /\ HandlerPlaced(c) /\ AnswerPlaced(c) /\ KeyHeld(c)
      /\ \A k \in Keys : RecordOwned(k)
      /\ store \in [Keys -> Records]
  BY NoneIsNothing DEF AccountsInv, TypeOK, StoreTypeOK, HandlerTypeOK, KeysInv
<1>1. /\ UNCHANGED store /\ started' = [started EXCEPT ![c] = TRUE]
      /\ worker[c]["handler"] = "cleared" /\ ~started[c]
  BY <1>0 DEF HandlerStarts, HandlerAt, HandlerPlaced, serviceVars
<1>2. ~settled[c]
  <2>1. pc[c] = "handler" \/ "handler" \in late[c]
    BY <1>1, HandlerWorker DEF AccountsInv
  <2> QED BY <1>0, <2>1 DEF AnswerPlaced
<1>3. ASSUME NEW k \in Keys, store[k].owner # c
      PROVE  Entry(k)' = Entry(k)
  <2>1. store[k].owner \in Calls \cup {None}
    BY <1>0 DEF Records
  <2>2. started'[store[k].owner] = started[store[k].owner] \/ store[k].owner = None
    BY <1>0, <1>1, <1>3, <2>1
  <2> QED BY <1>1, <2>2 DEF Entry, LedgerEntry, LedgerPhase
<1>4. \A k \in Keys : store[k].owner = c => Keyed(c) /\ k = KeyOf[c]
  BY <1>0, NoneIsNothing DEF RecordOwned, NoRecord
<1>5. CASE ~Keyed(c)
  <2>1. \A k \in Keys : Entry(k)' = Entry(k)
    BY <1>3, <1>4, <1>5
  <2> QED BY <2>1 DEF LedgerOfStore, Entry
<1>6. CASE Keyed(c)
  <2>1. PICK k \in Keys : k = KeyOf[c]
    BY <1>6, ProposalsAreTyped DEF Keyed
  <2>2. store[k].owner = c /\ store[k].state \in {"in_progress", "uncertain"}
    BY <1>0, <1>1, <1>2, <1>6, <2>1 DEF KeyHeld
  <2>3. \A j \in Keys : j # k => Entry(j)' = Entry(j)
    BY <1>3, <1>4, <2>1
  <2>4. Entry(k).phase = "open" /\ ~Entry(k).begun
    BY <1>1, <2>2, EntryParts DEF LedgerPhase
  <2>5. (store'[k].owner # None /\ started'[store'[k].owner]) = TRUE
    BY <1>0, <1>1, <2>2
  <2>6. LedgerPhase(store'[k]) = LedgerPhase(store[k]) /\ store'[k].owner = store[k].owner
    BY <1>1
  <2>7. Entry(k)' = [phase |-> LedgerPhase(store[k]), holder |-> store[k].owner, begun |-> TRUE]
    BY <2>5, <2>6, EntryPartsNext
  <2>8. Entry(k)' = [Entry(k) EXCEPT !.begun = TRUE]
    <3>1. ASSUME NEW x
          PROVE  [Entry(k) EXCEPT !.begun = x] =
                     [phase |-> LedgerPhase(store[k]), holder |-> store[k].owner, begun |-> x]
      BY DEF Entry, LedgerEntry
    <3> QED BY <2>7, <3>1, Zenon
  <2>9. /\ LedgerOfStore[k] = Entry(k)
        /\ LedgerOfStore' = [LedgerOfStore EXCEPT ![k].begun = TRUE]
    BY <2>3, <2>8, LedgerAt
  <2> QED BY <2>4, <2>9 DEF Ledger!Next, Ledger!Begin
<1> QED BY <1>5, <1>6

\* The collector forgets lapsed results together.
LEMMA GcStep ==
    ASSUME Gc, UNCHANGED started
    PROVE  [Ledger!Next]_LedgerOfStore
<1> DEFINE lapsed == {k \in Keys : LedgerOfStore[k].phase = "lapsed"}
           gone == {k \in Keys : ExpiredCompleted(store[k])}
<1>1. \A k \in Keys : LedgerOfStore[k] = Entry(k)
  BY DEF LedgerOfStore, Entry
<1>2. gone \in SUBSET lapsed
  BY <1>1, EntryParts DEF ExpiredCompleted, LedgerPhase
<1>3. ASSUME NEW k \in Keys
      PROVE  Entry(k)' = IF k \in gone THEN Ledger!FreeEntry ELSE LedgerOfStore[k]
  <2>1. CASE k \in gone
    <3>1. store'[k] = NoRecord
      BY <2>1 DEF Gc, Found
    <3>2. LedgerPhase(store'[k]) = "free" /\ store'[k].owner = None
      BY <3>1 DEF NoRecord, LedgerPhase
    <3>3. (store'[k].owner # None /\ started'[store'[k].owner]) = FALSE
      BY <3>2
    <3> QED BY <2>1, <3>2, <3>3, EntryPartsNext DEF Ledger!FreeEntry
  <2>2. CASE k \notin gone
    BY <1>1, <2>2, EntryKept DEF Gc, Found
  <2> QED BY <2>1, <2>2
<1>4. LedgerOfStore' = [k \in Keys |-> IF k \in gone THEN Ledger!FreeEntry ELSE LedgerOfStore[k]]
  <2>1. LedgerOfStore' = [k \in Keys |-> Entry(k)']
    BY DEF LedgerOfStore, Entry
  <2> QED BY <1>3, <2>1
<1> QED BY <1>2, <1>4 DEF Ledger!Next, Ledger!Forget

LEMMA LedgerStep ==
    ASSUME KeysInv, AccountsInv, [Next]_vars
    PROVE  [Ledger!Next]_LedgerOfStore
<1>0. TypeOK /\ WorkersPlaced /\ store \in [Keys -> Records]
  BY DEF AccountsInv, TypeOK, StoreTypeOK
<1>1. ASSUME UNCHANGED <<store, started>>
      PROVE  UNCHANGED LedgerOfStore
  BY <1>1 DEF LedgerOfStore, LedgerEntry, LedgerPhase
<1>2. ASSUME NEW c \in Calls, Caller(c)
      PROVE  [Ledger!Next]_LedgerOfStore
  <2>1. UNCHANGED started
    BY <1>0, <1>2, CallerKinds DEF CallerFrame, handlerVars
  <2>2. /\ \A k \in Keys : RecordMoves(k)
        /\ \A k \in Keys : KeyOf[c] # k => store'[k] = store[k]
    BY <1>0, <1>2, CallerStore
  <2>3. CASE KeyOf[c] \in Keys
    <3>1. PICK k \in Keys : k = KeyOf[c]
      BY <2>3
    <3>2. RecordMoves(k) /\ \A j \in Keys : j # k => store'[j] = store[j]
      BY <2>2, <3>1
    <3> QED BY <2>1, <3>2, RecordStep
  <2>4. CASE KeyOf[c] \notin Keys
    <3>1. \A k \in Keys : Entry(k)' = Entry(k)
      BY <2>1, <2>2, <2>4, EntryKept
    <3> QED BY <3>1 DEF LedgerOfStore, Entry
  <2> QED BY <2>3, <2>4
<1>3. ASSUME NEW c \in Calls, Worker(c)
      PROVE  [Ledger!Next]_LedgerOfStore
  <2>1. CASE HandlerStarts(c)
    BY <2>1, StartStep
  <2>2. CASE ~HandlerStarts(c)
    <3>1. UNCHANGED <<store, started>>
      BY <1>3, <2>2 DEF Worker, HandlerChecks, HandlerCommits, HandlerExits, Observes, LateExits,
                        serviceVars, handlerVars
    <3> QED BY <1>1, <3>1
  <2> QED BY <2>1, <2>2
<1>4. ASSUME NEW r \in Runtimes, Stop(r) \/ Crash(r)
      PROVE  [Ledger!Next]_LedgerOfStore
  BY <1>1, <1>4 DEF Stop, Crash, serviceVars, handlerVars
<1>5. CASE Environment
  <2>1. UNCHANGED started
    BY <1>5 DEF Environment, handlerVars
  <2>2. CASE Gc
    BY <2>1, <2>2, GcStep
  <2>3. ASSUME NEW k \in Keys, Expire(k)
        PROVE  [Ledger!Next]_LedgerOfStore
    <3>1. store' = [store EXCEPT ![k].expired = TRUE] /\ store[k].state # "absent"
      BY <2>3 DEF Expire
    <3>2. RecordMoves(k) /\ \A j \in Keys : j # k => store'[j] = store[j]
      BY <1>0, <3>1 DEF RecordMoves
    <3> QED BY <2>1, <3>2, RecordStep
  <2>4. CASE UNCHANGED store
    BY <1>1, <2>1, <2>4
  <2> QED BY <1>5, <2>2, <2>3, <2>4 DEF Environment, StoreEnv
<1>6. CASE UNCHANGED vars
  BY <1>1, <1>6 DEF vars, serviceVars, handlerVars
<1> QED BY <1>2, <1>3, <1>4, <1>5, <1>6 DEF Next

\* Whatever calls, workers, processes and time do, in one life of an operation
\* key one call holds it, its handler is called at most once, and a new life
\* begins only after the holder's result was settled and has lapsed.
THEOREM RuntimesImplementLedger == Spec => LedgerSpec
<1>1. Init => Ledger!Init
  <2> SUFFICES ASSUME Init PROVE Ledger!Init
    OBVIOUS
  <2>1. ASSUME NEW k \in Keys
        PROVE  LedgerEntry(store[k]) = Ledger!FreeEntry
    <3>1. store[k] = NoRecord
      BY DEF Init, StoreInit
    <3>2. LedgerPhase(store[k]) = "free" /\ store[k].owner = None
      BY <3>1 DEF NoRecord, LedgerPhase
    <3>3. (store[k].owner # None /\ started[store[k].owner]) = FALSE
      BY <3>2
    <3> QED BY <3>2, <3>3 DEF LedgerEntry, Ledger!FreeEntry
  <2> QED BY <2>1 DEF Ledger!Init, LedgerOfStore
<1>2. KeysInv /\ AccountsInv /\ [Next]_vars => [Ledger!Next]_LedgerOfStore
  BY LedgerStep
<1> QED BY <1>1, <1>2, AccountsInitially, AccountsKept, KeysInitially, KeysKept, PTL
        DEF Spec, LedgerSpec, Ledger!Spec

-----------------------------------------------------------------------------
(* Approval grants *)

\* A step spends an issue of a grant, uses it up for nobody, issues it again,
\* or leaves its count.
GrantMoves(g) ==
    \/ /\ grants'[g].issues = grants[g].issues
       /\ grants'[g].used \/ (grants'[g].used <=> grants[g].used)
       /\ Spenders(g)' \subseteq Spenders(g)
    \/ /\ grants[g].issues > 0 /\ ~grants[g].used
       /\ grants'[g].issues = grants[g].issues /\ grants'[g].used
       /\ \E c \in Calls : Spenders(g)' \subseteq Spenders(g) \cup {c}
    \/ /\ grants'[g].issues = grants[g].issues + 1
       /\ Spenders(g)' \subseteq Spenders(g)

LEMMA SpendersAreFinite ==
    ASSUME NEW g
    PROVE  IsFiniteSet(Spenders(g)) /\ Cardinality(Spenders(g)) \in Nat
<1>1. Spenders(g) \subseteq Calls
  BY DEF Spenders
<1> QED BY <1>1, CallsAreFinite, FS_Subset, FS_CardinalityType

LEMMA GrantsStayCounted ==
    ASSUME GrantsCounted, GrantsTypeOK, \A g \in Grants : GrantMoves(g)
    PROVE  GrantsCounted'
<1> SUFFICES ASSUME NEW g \in Grants
             PROVE  /\ grants'[g].issues > 0 /\ ~grants'[g].used
                          => Cardinality(Spenders(g)') < grants'[g].issues
                    /\ Cardinality(Spenders(g)') <= grants'[g].issues
  BY DEF GrantsCounted
<1>1. /\ grants[g].issues \in Nat
      /\ grants[g].issues > 0 /\ ~grants[g].used => Cardinality(Spenders(g)) < grants[g].issues
      /\ Cardinality(Spenders(g)) <= grants[g].issues
  BY IssuesAreBounded DEF GrantsCounted, GrantsTypeOK, GrantRecords
<1>2. IsFiniteSet(Spenders(g)) /\ Cardinality(Spenders(g)) \in Nat
  BY SpendersAreFinite
<1>3. \A S : S \subseteq Spenders(g) =>
          Cardinality(S) \in Nat /\ Cardinality(S) <= Cardinality(Spenders(g))
  BY <1>2, FS_Subset, FS_CardinalityType
<1>4. \A c, S : S \subseteq Spenders(g) \cup {c} =>
          Cardinality(S) \in Nat /\ Cardinality(S) <= Cardinality(Spenders(g)) + 1
  <2> SUFFICES ASSUME NEW c, NEW S, S \subseteq Spenders(g) \cup {c}
               PROVE  Cardinality(S) \in Nat /\ Cardinality(S) <= Cardinality(Spenders(g)) + 1
    OBVIOUS
  <2>1. /\ IsFiniteSet(Spenders(g) \cup {c})
        /\ Cardinality(Spenders(g) \cup {c}) \in Nat
        /\ Cardinality(Spenders(g) \cup {c}) <= Cardinality(Spenders(g)) + 1
    <3>1. IsFiniteSet(Spenders(g) \cup {c}) /\ Cardinality(Spenders(g) \cup {c})
              = IF c \in Spenders(g) THEN Cardinality(Spenders(g)) ELSE Cardinality(Spenders(g)) + 1
      BY <1>2, FS_AddElement
    <3> QED BY <1>2, <3>1
  <2>2. Cardinality(S) \in Nat /\ Cardinality(S) <= Cardinality(Spenders(g) \cup {c})
    BY <2>1, FS_Subset, FS_CardinalityType
  <2> QED BY <1>2, <2>1, <2>2
<1>5. PICK S : S = Spenders(g)'
  OBVIOUS
<1>6. SUFFICES /\ grants'[g].issues > 0 /\ ~grants'[g].used => Cardinality(S) < grants'[g].issues
               /\ Cardinality(S) <= grants'[g].issues
  BY <1>5
<1>7. CASE /\ grants'[g].issues = grants[g].issues
           /\ grants'[g].used \/ (grants'[g].used <=> grants[g].used)
           /\ S \subseteq Spenders(g)
  BY <1>1, <1>2, <1>3, <1>7
<1>8. CASE /\ grants[g].issues > 0 /\ ~grants[g].used
           /\ grants'[g].issues = grants[g].issues /\ grants'[g].used
           /\ \E c \in Calls : S \subseteq Spenders(g) \cup {c}
  BY <1>1, <1>2, <1>4, <1>8
<1>9. CASE grants'[g].issues = grants[g].issues + 1 /\ S \subseteq Spenders(g)
  BY <1>1, <1>2, <1>3, <1>9
<1>10. GrantMoves(g)
  OBVIOUS
<1> QED BY <1>5, <1>7, <1>8, <1>9, <1>10 DEF GrantMoves

\* What consuming does to every grant, the absent one of a call without an
\* approval id included.
LEMMA Consumes ==
    ASSUME GrantsTypeOK, NEW h, NEW f, NEW g \in Grants
    PROVE  /\ g # h => GrantsAfterConsume(h, f)[g] = grants[g]
           /\ GrantsAfterConsume(h, f)[g].issues = grants[g].issues
           /\ GrantsAfterConsume(h, f)[g].used <=>
                 grants[g].used \/ (g = h /\ Consumable(h, f))
           /\ Consumable(g, f) => grants[g].issues > 0 /\ ~grants[g].used
<1>1. \A r \in GrantRecords : [r EXCEPT !.used = TRUE].issues = r.issues
                               /\ [r EXCEPT !.used = TRUE].used = TRUE
  BY DEF GrantRecords
<1>2. \A j \in Grants : grants[j] \in GrantRecords
  BY DEF GrantsTypeOK
<1>3. DOMAIN grants = Grants
  BY DEF GrantsTypeOK
<1>4. CASE Consumable(h, f)
  <2>1. GrantsAfterConsume(h, f)[g] = IF g = h THEN [grants[g] EXCEPT !.used = TRUE] ELSE grants[g]
    BY <1>3, <1>4 DEF GrantsAfterConsume, ConsumedGrants
  <2> QED BY <1>1, <1>2, <1>4, <2>1 DEF Consumable
<1>5. CASE ~Consumable(h, f)
  BY <1>5 DEF GrantsAfterConsume, Consumable
<1> QED BY <1>4, <1>5

\* Grants that lose nothing but their use, and no new spender.
LEMMA GrantUnspent ==
    ASSUME GrantsTypeOK, NEW h, NEW f, grants' = grants \/ grants' = GrantsAfterConsume(h, f),
           \A c \in Calls : approval'[c] = "consumed" => approval[c] = "consumed"
    PROVE  \A g \in Grants : GrantMoves(g)
<1> SUFFICES ASSUME NEW g \in Grants PROVE GrantMoves(g)
  OBVIOUS
<1>1. Spenders(g)' \subseteq Spenders(g)
  BY DEF Spenders
<1>2. /\ grants'[g].issues = grants[g].issues
      /\ grants'[g].used \/ (grants'[g].used <=> grants[g].used)
  BY Consumes
<1> QED BY <1>1, <1>2 DEF GrantMoves

LEMMA WorkerGrants ==
    ASSUME GrantsTypeOK, NEW c \in Calls, NEW op, WorkerEffect(c, op), UNCHANGED approval
    PROVE  \A g \in Grants : GrantMoves(g)
BY GrantUnspent DEF WorkerEffect

LEMMA CallerGrants ==
    ASSUME TypeOK, NEW c \in Calls, Caller(c)
    PROVE  /\ \A g \in Grants : GrantMoves(g)
           /\ \A d \in Calls \ {c} : decision'[d] = decision[d] /\ approval'[d] = approval[d]
           /\ pc[c] \notin {"policy", "approve", "approval"} => UNCHANGED <<decision, approval>>
           /\ pc[c] = "invoke" /\ pc'[c] = "handler" => Permitted(c)
<1>0. /\ GrantsTypeOK /\ pc \in [Calls -> Places]
      /\ DOMAIN decision = Calls /\ DOMAIN approval = Calls
      /\ \A d \in Calls : approval[d] \in {"none", "consumed", "not_consumed", "unknown"}
  BY DEF TypeOK, CallTypeOK, EvidenceTypeOK
<1> DEFINE Here == /\ \A g \in Grants : GrantMoves(g)
                   /\ \A d \in Calls \ {c} : decision'[d] = decision[d] /\ approval'[d] = approval[d]
                   /\ pc[c] \notin {"policy", "approve", "approval"} => UNCHANGED <<decision, approval>>
                   /\ pc[c] = "invoke" /\ pc'[c] = "handler" => Permitted(c)
<1>1. ASSUME UNCHANGED <<grants, decision, approval>>, pc[c] # "invoke"
      PROVE  Here
  BY <1>0, <1>1, GrantUnspent
<1>2. CASE Admit(c) \/ Register(c) \/ Prepare(c) \/ Replay(c) \/ Claim(c) \/ Mint(c)
  BY <1>1, <1>2 DEF Admit, Register, Prepare, Replay, Claim, Mint, evidenceVars, serviceVars
<1>3. CASE CredentialReturns(c) \/ HandlerReturns(c) \/ Reconcile(c) \/ ReconciliationReturns(c)
  BY <1>1, <1>3 DEF CredentialReturns, HandlerReturns, Reconcile, ReconciliationReturns,
                    evidenceVars, serviceVars
<1>4. CASE ReportFailure(c) \/ FailureAuditReturns(c) \/ Record(c) \/ AuditReturns(c)
  BY <1>1, <1>4 DEF ReportFailure, FailureAuditReturns, Record, AuditReturns, evidenceVars,
                    serviceVars
<1>5. CASE StoreTerminal(c) \/ Finish(c)
  BY <1>1, <1>5 DEF StoreTerminal, Finish, evidenceVars, serviceVars
<1>6. ASSUME NEW op \in Ops, Outlives(c, op)
      PROVE  Here
  BY <1>1, <1>6 DEF Outlives, Ops, evidenceVars, serviceVars
<1>7. ASSUME NEW op \in Ops, Drops(c, op)
      PROVE  Here
  <2>1. UNCHANGED <<decision, approval>> /\ pc[c] # "invoke" /\ WorkerEffect(c, op)
    BY <1>7 DEF Drops, Ops, evidenceVars
  <2> QED BY <1>0, <2>1, WorkerGrants
<1>8. CASE PolicyReturns(c)
  <2>1. /\ pc[c] = "policy" /\ UNCHANGED <<grants, approval>>
        /\ \A d \in Calls \ {c} : decision'[d] = decision[d]
    BY <1>0, <1>8 DEF PolicyReturns, serviceVars
  <2> QED BY <1>0, <2>1, GrantUnspent
<1>9. CASE Approve(c)
  <2>1. pc[c] = "approve" /\ UNCHANGED <<grants, decision>>
    BY <1>9 DEF Approve, serviceVars
  <2>2. \/ UNCHANGED approval
        \/ \E a \in {"not_consumed", "unknown"} : approval' = [approval EXCEPT ![c] = a]
    BY <1>9 DEF Approve
  <2>3. /\ \A d \in Calls \ {c} : approval'[d] = approval[d]
        /\ \A d \in Calls : approval'[d] = "consumed" => approval[d] = "consumed"
    BY <1>0, <2>2
  <2> QED BY <1>0, <2>1, <2>3, GrantUnspent
<1>10. CASE ApprovalReturns(c)
  <2>1. pc[c] = "approval" /\ UNCHANGED decision
    BY <1>10 DEF ApprovalReturns
  <2>2. \/ /\ grants' = GrantsAfterConsume(GrantOf[c], FingerprintOf[c])
           /\ approval' = [approval EXCEPT ![c] = ConsumeOutcome(GrantOf[c], FingerprintOf[c])]
        \/ /\ grants' = grants \/ grants' = GrantsAfterConsume(GrantOf[c], FingerprintOf[c])
           /\ approval' = [approval EXCEPT ![c] = "unknown"]
    BY <1>10 DEF ApprovalReturns
  <2>3. \A d \in Calls \ {c} : approval'[d] = approval[d]
    BY <1>0, <2>2
  <2>4. CASE approval'[c] # "consumed"
    <3>1. \A d \in Calls : approval'[d] = "consumed" => approval[d] = "consumed"
      BY <2>3, <2>4
    <3> QED BY <1>0, <2>1, <2>2, <2>3, <3>1, GrantUnspent
  <2>5. CASE approval'[c] = "consumed"
    <3>1. /\ Consumable(GrantOf[c], FingerprintOf[c])
          /\ grants' = GrantsAfterConsume(GrantOf[c], FingerprintOf[c])
      BY <1>0, <2>2, <2>5 DEF ConsumeOutcome
    <3>2. ASSUME NEW g \in Grants, g = GrantOf[c]
          PROVE  GrantMoves(g)
      <4>1. Spenders(g)' \subseteq Spenders(g) \cup {c}
        BY <2>3 DEF Spenders
      <4>2. /\ grants[g].issues > 0 /\ ~grants[g].used
            /\ grants'[g].issues = grants[g].issues /\ grants'[g].used
        BY <1>0, <3>1, <3>2, Consumes
      <4> QED BY <4>1, <4>2 DEF GrantMoves
    <3>3. ASSUME NEW g \in Grants, g # GrantOf[c]
          PROVE  GrantMoves(g)
      <4>1. Spenders(g)' \subseteq Spenders(g)
        BY <2>3, <3>3 DEF Spenders
      <4>2. grants'[g] = grants[g]
        BY <1>0, <3>1, <3>3, Consumes
      <4> QED BY <4>1, <4>2 DEF GrantMoves
    <3> QED BY <2>1, <2>3, <3>2, <3>3
  <2> QED BY <2>4, <2>5
<1>11. CASE Invoke(c)
  <2>1. UNCHANGED <<grants, decision, approval>>
    BY <1>11 DEF Invoke, evidenceVars, serviceVars
  <2>2. pc'[c] = "handler" => Permitted(c)
    BY <1>0, <1>11 DEF Invoke, Deny, Answer, Goto
  <2> QED BY <1>0, <2>1, <2>2, GrantUnspent
<1> QED BY <1>2, <1>3, <1>4, <1>5, <1>6, <1>7, <1>8, <1>9, <1>10, <1>11 DEF Caller

LEMMA GrantsInitially ==
    Init => GrantsInv
<1> SUFFICES ASSUME Init PROVE GrantsInv
  OBVIOUS
<1>1. \A g \in Grants : Spenders(g) = {} /\ grants[g].issues = 0
  BY DEF Init, Spenders, GrantsInit, NoGrantYet
<1>2. GrantsCounted
  BY <1>1, FS_EmptySet DEF GrantsCounted
<1>3. \A c \in Calls : ~started[c] /\ worker[c]["handler"] = "none"
  BY DEF Init, Ops
<1> QED BY <1>2, <1>3 DEF GrantsInv, GrantBehind

LEMMA GrantsKept ==
    GrantsInv /\ KeysInv /\ AccountsInv /\ [Next]_vars => GrantsInv'
<1> SUFFICES ASSUME GrantsInv, KeysInv, AccountsInv, [Next]_vars PROVE GrantsInv'
  OBVIOUS
<1>0. TypeOK /\ WorkersPlaced /\ GrantsTypeOK /\ GrantsCounted
  BY DEF AccountsInv, TypeOK, GrantsInv
<1>1. ASSUME \A g \in Grants : GrantMoves(g), \A c \in Calls : GrantBehind(c)'
      PROVE  GrantsInv'
  BY <1>0, <1>1, GrantsStayCounted DEF GrantsInv
<1>2. ASSUME NEW d \in Calls, decision'[d] = decision[d], approval'[d] = approval[d],
             started'[d] = started[d] \/ worker[d]["handler"] # "none",
             worker'[d]["handler"] # "none" => worker[d]["handler"] # "none"
      PROVE  GrantBehind(d)'
  BY <1>2 DEF GrantsInv, GrantBehind, NeedsGrant
<1>3. ASSUME NEW c \in Calls, Caller(c)
      PROVE  GrantsInv'
  <2>1. /\ \A g \in Grants : GrantMoves(g)
        /\ \A d \in Calls \ {c} : decision'[d] = decision[d] /\ approval'[d] = approval[d]
        /\ pc[c] \notin {"policy", "approve", "approval"} => UNCHANGED <<decision, approval>>
        /\ pc[c] = "invoke" /\ pc'[c] = "handler" => Permitted(c)
    BY <1>0, <1>3, CallerGrants
  <2>2. \A d \in Calls \ {c} : Same(d)
    BY <1>0, <1>3, CallersLeaveOthers
  <2>3. \A d \in Calls \ {c} : GrantBehind(d)'
    BY <1>2, <2>1, <2>2 DEF Same
  <2>4. Steps(c) /\ UNCHANGED started
    BY <1>0, <1>3, CallerKinds DEF CallerFrame, handlerVars
  <2>5. \/ worker'[c]["handler"] \in {worker[c]["handler"], "none"}
        \/ pc[c] = "invoke" /\ pc'[c] = "handler"
    BY <2>4 DEF Steps, Advances, Refused, Replayed, HandlerAnswers, HandlerTimesOut, Reconciles,
                Audits, Stores, Returns
  <2>6. ASSUME pc[c] \in {"policy", "approve", "approval"}
        PROVE  GrantBehind(c)'
    <3>1. pc[c] \in Before /\ pc[c] \in UpTo("handler") /\ pc[c] # "handler" /\ pc[c] # "invoke"
      BY <2>6 DEF Before, UpTo
    <3>2. ~started[c] /\ worker[c]["handler"] = "none"
      BY <1>0, <3>1, HandlerWorker DEF KeysInv, HandlerPlaced
    <3> QED BY <2>4, <2>5, <3>1, <3>2 DEF GrantBehind
  <2>7. ASSUME pc[c] \notin {"policy", "approve", "approval"}
        PROVE  GrantBehind(c)'
    <3>1. CASE pc[c] = "invoke" /\ pc'[c] = "handler"
      BY <2>1, <2>7, <3>1 DEF Permitted, GrantBehind, NeedsGrant
    <3>2. CASE worker'[c]["handler"] \in {worker[c]["handler"], "none"}
      BY <1>2, <2>1, <2>4, <2>7, <3>2
    <3> QED BY <2>5, <3>1, <3>2
  <2> QED BY <1>1, <2>1, <2>3, <2>6, <2>7
<1>4. ASSUME NEW c \in Calls, Worker(c)
      PROVE  GrantsInv'
  <2>1. UNCHANGED <<decision, approval>>
    BY <1>4 DEF Worker, HandlerChecks, HandlerStarts, HandlerCommits, HandlerExits, Observes,
                LateExits, evidenceVars
  <2>2. \A g \in Grants : GrantMoves(g)
    <3>1. CASE \E op \in Ops : LateExits(c, op)
      BY <1>0, <2>1, <3>1, WorkerGrants DEF LateExits
    <3>2. CASE ~\E op \in Ops : LateExits(c, op)
      <4>1. UNCHANGED grants
        BY <1>4, <3>2 DEF Worker, HandlerChecks, HandlerStarts, HandlerCommits, HandlerExits,
                          Observes, serviceVars
      <4> QED BY <1>0, <2>1, <4>1, GrantUnspent
    <3> QED BY <3>1, <3>2
  <2>3. \A d \in Calls \ {c} : Same(d)
    BY <1>0, <1>4, WorkersLeaveOthers
  <2>4. \A d \in Calls \ {c} : GrantBehind(d)'
    BY <1>2, <2>1, <2>3 DEF Same
  <2>5. /\ worker'[c]["handler"] # "none" => worker[c]["handler"] # "none"
        /\ started'[c] = started[c] \/ worker[c]["handler"] # "none"
    <3>1. worker \in [Calls -> [Ops -> WorkerStates]] /\ "handler" \in Ops
      BY <1>0 DEF TypeOK, WorkerTypeOK, Ops
    <3>2. CASE HandlerChecks(c) \/ HandlerExits(c)
      <4>1. worker[c]["handler"] # "none"
        BY <3>2 DEF HandlerChecks, HandlerExits, HandlerAt
      <4> QED BY <4>1
    <3>3. CASE HandlerStarts(c) \/ HandlerCommits(c)
      <4>1. worker[c]["handler"] # "none"
        BY <3>3 DEF HandlerStarts, HandlerCommits, HandlerAt
      <4> QED BY <4>1
    <3>4. CASE Observes(c)
      BY <3>4 DEF Observes, workerVars, handlerVars
    <3>5. ASSUME NEW op \in Ops, LateExits(c, op)
          PROVE  /\ worker'[c]["handler"] \in {worker[c]["handler"], "none"}
                 /\ started'[c] = started[c]
      BY <3>1, <3>5 DEF LateExits, handlerVars
    <3> QED BY <1>4, <3>2, <3>3, <3>4, <3>5 DEF Worker
  <2>6. GrantBehind(c)'
    BY <1>2, <2>1, <2>5
  <2> QED BY <1>1, <2>2, <2>4, <2>6
<1>5. ASSUME UNCHANGED <<decision, approval, started>>,
             \A d \in Calls : worker'[d]["handler"] # "none" => worker[d]["handler"] # "none",
             \A g \in Grants : GrantMoves(g)
      PROVE  GrantsInv'
  BY <1>1, <1>2, <1>5
<1>6. ASSUME NEW r \in Runtimes, Stop(r)
      PROVE  GrantsInv'
  <2>1. UNCHANGED <<grants, decision, approval, started, worker>>
    BY <1>6 DEF Stop, evidenceVars, handlerVars, workerVars, serviceVars
  <2> QED BY <1>0, <1>5, <2>1, GrantUnspent
<1>7. ASSUME NEW r \in Runtimes, Crash(r)
      PROVE  GrantsInv'
  <2>1. UNCHANGED <<grants, decision, approval, started>>
    BY <1>7 DEF Crash, evidenceVars, handlerVars, serviceVars
  <2>2. \A d \in Calls : worker'[d]["handler"] # "none" => worker[d]["handler"] # "none"
    BY <1>7 DEF Crash, Ops
  <2> QED BY <1>0, <1>5, <2>1, <2>2, GrantUnspent
<1>8. CASE Environment
  <2>1. UNCHANGED <<decision, approval, started, worker>>
    BY <1>8 DEF Environment, evidenceVars, handlerVars, workerVars
  <2>2. \A g \in Grants : Spenders(g)' \subseteq Spenders(g)
    BY <2>1 DEF Spenders
  <2>3. ASSUME NEW h \in Grants, NEW g \in Grants, Lapse(h)
        PROVE  GrantMoves(g)
    <3>1. grants'[g].issues = grants[g].issues /\ grants'[g].used = grants[g].used
      BY <1>0, <2>3 DEF Lapse, GrantsTypeOK, GrantRecords
    <3> QED BY <2>2, <3>1 DEF GrantMoves
  <2>4. ASSUME NEW h \in Grants, NEW g \in Grants, NEW f \in Fingerprints, Issue(h, f)
        PROVE  GrantMoves(g)
    <3>1. /\ g # h => grants'[g] = grants[g]
          /\ g = h => grants'[g].issues = grants[g].issues + 1
      BY <1>0, <2>4 DEF Issue, GrantsTypeOK, GrantRecords
    <3> QED BY <2>2, <3>1 DEF GrantMoves
  <2>5. UNCHANGED grants => \A g \in Grants : GrantMoves(g)
    BY <1>0, <2>1, GrantUnspent
  <2>6. \A g \in Grants : GrantMoves(g)
    BY <1>8, <2>3, <2>4, <2>5 DEF Environment, GrantEnv
  <2> QED BY <1>5, <2>1, <2>6
<1>9. CASE UNCHANGED vars
  <2>1. UNCHANGED <<grants, decision, approval, started, worker>>
    BY <1>9 DEF vars, evidenceVars, handlerVars, workerVars, serviceVars
  <2> QED BY <1>0, <1>5, <2>1, GrantUnspent
<1> QED BY <1>3, <1>4, <1>6, <1>7, <1>8, <1>9 DEF Next

\* However calls race for an approval id, and whatever late consumers spend,
\* an id authorizes no more handler calls than it had issues.
THEOREM GrantsAreSpentOnce == Spec => []GrantSpentOnce
<1>1. GrantsInv /\ AccountsInv => GrantSpentOnce
  <2> SUFFICES ASSUME GrantsInv, AccountsInv, NEW g \in Grants
               PROVE  Cardinality({c \in Calls : GrantOf[c] = g /\ NeedsGrant(c) /\ started[c]})
                         <= grants[g].issues
    BY DEF GrantSpentOnce
  <2> DEFINE authorized == {c \in Calls : GrantOf[c] = g /\ NeedsGrant(c) /\ started[c]}
  <2>1. authorized \subseteq Spenders(g)
    BY DEF GrantsInv, GrantBehind, Spenders
  <2>2. /\ IsFiniteSet(Spenders(g)) /\ Cardinality(Spenders(g)) \in Nat
        /\ Cardinality(Spenders(g)) <= grants[g].issues
        /\ grants[g].issues \in Nat
    BY SpendersAreFinite, IssuesAreBounded
    DEF GrantsInv, GrantsCounted, AccountsInv, TypeOK, GrantsTypeOK, GrantRecords
  <2>3. Cardinality(authorized) \in Nat /\ Cardinality(authorized) <= Cardinality(Spenders(g))
    BY <2>1, <2>2, FS_Subset, FS_CardinalityType
  <2> HIDE DEF authorized
  <2> QED BY <2>2, <2>3 DEF authorized
<1> QED BY AccountsInitially, AccountsKept, KeysInitially, KeysKept, GrantsInitially, GrantsKept,
           <1>1, PTL DEF Spec
=============================================================================
