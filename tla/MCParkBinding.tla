---------------------------- MODULE MCParkBinding ----------------------------
(* Instances of ParkBinding: calls, domains and parks may be exchanged. *)
EXTENDS ParkBinding, TLC

Symmetry == Permutations(Calls) \cup Permutations(Domains) \cup Permutations(Parks)
=============================================================================
