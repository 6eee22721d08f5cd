------------------------------ MODULE IterHandle ------------------------------
(***************************************************************************)
(* The C++ iterator behind one Scala iterator, as whoever looks at both    *)
(* sees it: close() and the finalizer give it back in the same step that   *)
(* sets closed or ends the finalization, once and for all.  UastIter,      *)
(* which makes nativeDispose one step, and NativeLifetime, which takes it  *)
(* apart, agree on this.                                                   *)
(***************************************************************************)
VARIABLES
  made,      \* the Scala iterator is there
  cxx,       \* its C++ iterator: "none", "live" or "deleted"
  closed,    \* the field closed
  finalized, \* finalize() has run
  crashed,   \* a call went through a C++ object that is not there
  shared,    \* two threads were in the iterator at once
  bare       \* the application disposed of the context it walks

fields == <<made, cxx, closed, finalized, crashed>>
vars   == <<fields, shared, bare>>

Init ==
  /\ made \in BOOLEAN
  /\ cxx \in IF made THEN {"none", "live"} ELSE {"none"}
  /\ ~closed /\ ~finalized /\ ~crashed /\ ~shared /\ ~bare

\* delete (iter), where there is one.
Released == IF cxx = "live" THEN "deleted" ELSE cxx

Construct ==
  /\ ~made /\ made'
  /\ cxx' \in {"none", "live"}
  /\ UNCHANGED <<closed, finalized, crashed>>

Close ==
  /\ made /\ ~closed /\ ~finalized
  /\ closed' /\ cxx' = Released
  /\ UNCHANGED <<made, finalized, crashed>>

Finalize ==
  /\ made /\ ~finalized
  /\ finalized' /\ cxx' = Released
  /\ UNCHANGED <<made, closed, crashed>>

\* A lookahead of an iterator nativeInit left empty, or whose tree is gone.
Crash ==
  /\ made /\ ~closed /\ ~finalized
  /\ cxx = "none" \/ bare
  /\ crashed'
  /\ UNCHANGED <<made, cxx, closed, finalized>>

\* Of two threads one can close it while the other deletes, or deletes too.
Overlap ==
  /\ made /\ ~finalized /\ shared'
  /\ cxx' \in {cxx, Released}
  /\ closed => closed'
  /\ UNCHANGED <<made, finalized>>

Next ==
  /\ ~crashed
  /\ shared => shared'
  /\ bare => bare'
  /\ Construct \/ Close \/ Finalize \/ Crash \/ Overlap \/ UNCHANGED fields

Spec == Init /\ [][Next]_vars
===============================================================================
