---------------------------- MODULE PolicyAuthority ----------------------------
(***************************************************************************)
(* What the governance of one policy promises: at most one version is in   *)
(* force, and another replaces it only when somebody other than its author *)
(* approved that version as the successor of the one in force.             *)
(***************************************************************************)
EXTENDS Naturals

CONSTANTS Versions   \* numbered from 1; 0 stands for no version

VARIABLES
    inForce,    \* the versions in force
    approved    \* pairs <<version, the version it was written against>>

authority == <<inForce, approved>>

Base(n) == IF n = 0 THEN {} ELSE {n}

Init ==
    /\ \E n \in Versions \cup {0} : inForce = Base(n)
    /\ approved \subseteq Versions \X (Versions \cup {0})

Approve(v, n) ==
    /\ v \notin inForce
    /\ approved' = approved \cup {<<v, n>>}
    /\ UNCHANGED inForce

Enforce(v, n) ==
    /\ <<v, n>> \in approved
    /\ inForce = Base(n)
    /\ inForce' = {v}
    /\ approved' = approved \ {<<v, n>>}

Next == \E v \in Versions, n \in Versions \cup {0} : Approve(v, n) \/ Enforce(v, n)

Spec == Init /\ [][Next]_authority
=============================================================================
