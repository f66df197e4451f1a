------------------------------ MODULE Proposals ------------------------------
(***************************************************************************)
(* What the host and the agent hand to execute(): the calls, the tool each *)
(* names, and the identifiers an ActionProposal carries (types.py,         *)
(* tools.py).  Everything here is fixed before a call starts.              *)
(***************************************************************************)
EXTENDS Naturals, FiniteSets

CONSTANTS
    Runtimes,       \* GuardedRuntime objects, each in a process of its own
    Calls,          \* invocations of execute()
    Keys,           \* operation keys
    Fingerprints,   \* action_hash of context, tool, arguments and resources
    Grants,         \* approval ids
    None,           \* no key, no approval id, no owner
    RuntimeOf,      \* [Calls -> Runtimes]
    ToolOf,         \* [Calls -> Tools], the tool the proposal names
    KeyOf,          \* [Calls -> Keys or None], proposal.operation_key
    FingerprintOf,  \* [Calls -> Fingerprints]
    GrantOf         \* [Calls -> Grants or None], proposal.approval_id

\* The fields of ToolDefinition that execute() branches on; "known" is false
\* for a name the registry does not hold.
Tools ==
    [known: BOOLEAN, approval: BOOLEAN, idem: BOOLEAN, credential: BOOLEAN,
     reconciles: BOOLEAN, cost: Nat \ {0}]

ASSUME ProposalsAreTyped ==
    /\ RuntimeOf \in [Calls -> Runtimes]
    /\ ToolOf \in [Calls -> Tools]
    /\ KeyOf \in [Calls -> Keys \cup {None}]
    /\ FingerprintOf \in [Calls -> Fingerprints]
    /\ GrantOf \in [Calls -> Grants \cup {None}]

\* A host makes finitely many calls.
ASSUME CallsAreFinite == IsFiniteSet(Calls)

ASSUME NoneIsNothing == None \notin Calls \cup Keys \cup Fingerprints \cup Grants

CallsOf(r) == {c \in Calls : RuntimeOf[c] = r}

\* execute() holds the runtime's idempotency lock only for a registered tool
\* that requires idempotency.
Serialised(c) == ToolOf[c].known /\ ToolOf[c].idem

\* The call works under an operation key.
Keyed(c) == ToolOf[c].idem /\ KeyOf[c] # None
=============================================================================
