---------------------------- MODULE ScalaIterator -----------------------------
(***************************************************************************)
(* What an iterator over a tree promises its caller, whatever it is made   *)
(* of: hasNext() tells whether there is an element to come and changes     *)
(* nothing, next() hands out each element once and in order, an error of   *)
(* the tree is thrown by one call and the iteration goes on behind it,     *)
(* null is the end, and close() is an end too.                             *)
(***************************************************************************)
EXTENDS Naturals, Sequences

CONSTANTS
  Nodes,   \* the elements
  NULL,    \* the answer at the end, and a hole in the tree
  Raise,   \* an error libuast reports on the way
  Scripts  \* what the iterators may have to walk

Items == Nodes \cup {NULL, Raise}

VARIABLES
  script,  \* what this iterator walks
  at,      \* how many of its items the caller has had
  open,    \* neither closed nor at the end
  answer   \* what the last call answered

vars == <<script, at, open, answer>>

Answer(call, gives) == [call |-> call, gives |-> gives]

\* The item behind the first n; behind the last one there is no node.
ItemAfter(n) == IF n < Len(script) THEN script[n + 1] ELSE NULL

Init ==
  /\ script \in Scripts
  /\ at = 0
  /\ open = TRUE
  /\ answer = Answer("new", NULL)

\* A call that finds an element: next() also takes it.
Found(call) ==
  /\ open
  /\ ItemAfter(at) \in Nodes
  /\ IF call = "next"
     THEN at' = at + 1 /\ answer' = Answer("next", ItemAfter(at))
     ELSE at' = at /\ answer' = Answer("hasNext", "true")
  /\ UNCHANGED <<script, open>>

Throws(call) ==
  /\ open
  /\ ItemAfter(at) = Raise
  /\ at' = at + 1
  /\ answer' = Answer(call, Raise)
  /\ UNCHANGED <<script, open>>

AtEnd(call) ==
  /\ open => ItemAfter(at) = NULL
  /\ open' = FALSE
  /\ answer' = Answer(call, IF call = "next" THEN NULL ELSE "false")
  /\ UNCHANGED <<script, at>>

Close ==
  /\ open' = FALSE
  /\ answer' = Answer("close", NULL)
  /\ UNCHANGED <<script, at>>

Next == (\E call \in {"hasNext", "next"} : Found(call) \/ Throws(call) \/ AtEnd(call)) \/ Close

Spec == Init /\ [][Next]_vars
=============================================================================
