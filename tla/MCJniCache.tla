------------------------------ MODULE MCJniCache ------------------------------
(***************************************************************************)
(* JniCache for a few interchangeable threads and classes, but for         *)
(* RuntimeException.                                                       *)
(***************************************************************************)
EXTENDS JniCache, TLC

Symmetry == Permutations(Threads) \cup Permutations(Classes \ {CLS_RE})
=============================================================================
