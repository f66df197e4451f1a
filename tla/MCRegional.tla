------------------------------ MODULE MCRegional ------------------------------
(***************************************************************************)
(* The first failover and its rollback, carried out by two runs of the     *)
(* scripts of which one may be overtaken by the other.                     *)
(***************************************************************************)
EXTENDS RegionalTransition, TLC

CONSTANTS e1, e2, failover

OneFailover == [t \in Transitions |-> "failover"]
FirstGeneration == [t \in Transitions |-> 0]

\* The manifest stays valid.
Next == RegionalNext /\ UNCHANGED expired

Spec == RegionalInit /\ [][Next]_regional

Symmetry == Permutations(Executors)
=============================================================================
