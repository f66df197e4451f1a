--------------------------- MODULE SideEffectLedger ---------------------------
(***************************************************************************)
(* What idempotency promises to the owner of an operation key, stated      *)
(* without stores, leases, workers or timeouts: in one life of a key, one  *)
(* call holds it, the handler is called at most once, and by the holder,   *)
(* and a new life begins only after the holder's result was settled and    *)
(* that result has lapsed.  A key whose holder never settles is never      *)
(* taken again: nothing is executed twice behind an uncertain outcome.     *)
(***************************************************************************)
CONSTANTS Keys, Calls, None

VARIABLE ledger   \* [Keys -> Entries]

Entries ==
    [phase: {"free", "open", "settled", "lapsed"}, holder: Calls \cup {None}, begun: BOOLEAN]

FreeEntry == [phase |-> "free", holder |-> None, begun |-> FALSE]

Init == ledger = [k \in Keys |-> FreeEntry]

\* A call that has not begun takes a free or lapsed key.
Take(k, c) ==
    /\ ledger[k].phase \in {"free", "lapsed"}
    /\ ledger' = [ledger EXCEPT ![k] = [phase |-> "open", holder |-> c, begun |-> FALSE]]

\* The handler is called, once, on behalf of the holder.
Begin(k) ==
    /\ ledger[k].phase = "open"
    /\ ~ledger[k].begun
    /\ ledger' = [ledger EXCEPT ![k].begun = TRUE]

\* The result of what was begun is known for good.
Settle(k) ==
    /\ ledger[k].phase = "open"
    /\ ledger[k].begun
    /\ \E phase \in {"settled", "lapsed"} : ledger' = [ledger EXCEPT ![k].phase = phase]

\* The settled result passes its time to live.
Lapse(k) ==
    /\ ledger[k].phase = "settled"
    /\ ledger' = [ledger EXCEPT ![k].phase = "lapsed"]

\* Lapsed results are forgotten, alone or together.
Forget ==
    \E ks \in SUBSET {k \in Keys : ledger[k].phase = "lapsed"} :
        ledger' = [k \in Keys |-> IF k \in ks THEN FreeEntry ELSE ledger[k]]

Next ==
    \/ \E k \in Keys : Begin(k) \/ Settle(k) \/ Lapse(k) \/ \E c \in Calls : Take(k, c)
    \/ Forget

Spec == Init /\ [][Next]_ledger
=============================================================================
