----------------------------- MODULE MCNodeStore -----------------------------
(***************************************************************************)
(* NodeStore for a few interchangeable JNodes, C++ nodes and references.   *)
(***************************************************************************)
EXTENDS NodeStore, TLC

Symmetry == Permutations(JNodes) \cup Permutations(Nodes) \cup Permutations(Refs)
=============================================================================
