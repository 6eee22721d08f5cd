------------------------------ MODULE MCUastIter ------------------------------
(***************************************************************************)
(* UastIter over every script of at most MaxLen items.                     *)
(***************************************************************************)
EXTENDS UastIter

CONSTANT MaxLen

MCScripts == UNION {[1..n -> Nodes \cup {NULL, Raise}] : n \in 0..MaxLen}
=============================================================================
