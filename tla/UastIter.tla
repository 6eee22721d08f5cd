------------------------------- MODULE UastIter -------------------------------
(***************************************************************************)
(* UastAbstractIter, the Scala iterator over a libuast iterator, with the  *)
(* native methods nativeNext and nativeDispose of UastIter and UastIterExt *)
(* (they agree in everything but the kind of node they return).            *)
(*                                                                         *)
(* libuast only offers "advance and tell": the Scala side keeps one        *)
(* element in hand, nextNode, closes itself at the first null, and is      *)
(* closed again by its finalizer.                                          *)
(***************************************************************************)
EXTENDS Naturals, Sequences

CONSTANTS Nodes, NULL, Raise, Scripts

VARIABLES
  script,    \* what the C++ iterator yields (libuast)
  pos,       \* how much of it the C++ iterator has yielded
  cxx,       \* the C++ iterator: "none" if nativeInit returned early
  iter,      \* the field iter is not 0
  closed,
  nextNode,  \* the element in hand, or NULL
  answer,    \* what the last call answered
  finalized, \* finalize() has run: no call can follow
  crashed    \* nativeNext dereferenced a null or a deleted C++ iterator

native == <<script, pos, cxx, iter>>
vars   == <<native, closed, nextNode, answer, finalized, crashed>>

\* The iterator the caller sees: it has not had the element in hand.
Promise == INSTANCE ScalaIterator WITH
  at   <- IF nextNode = NULL THEN pos ELSE pos - 1,
  open <- ~closed

Items     == Promise!Items
Answer(call, gives) == Promise!Answer(call, gives)

ASSUME ScriptsAreItems ==
  /\ NULL \notin Nodes \cup {Raise}
  /\ Raise \notin Nodes \cup {"true", "false"}
  /\ Scripts \subseteq Seq(Items)

TypeOK ==
  /\ script \in Scripts
  /\ pos \in 0..Len(script)
  /\ cxx \in {"none", "live", "deleted"}
  /\ iter \in BOOLEAN
  /\ closed \in BOOLEAN
  /\ nextNode \in Nodes \cup {NULL}
  /\ answer \in [call : {"new", "hasNext", "next", "close"},
                 gives : Items \cup {"true", "false"}]
  /\ finalized \in BOOLEAN
  /\ crashed \in BOOLEAN

Init ==
  /\ script \in Scripts
  /\ pos = 0
  /\ iter \in BOOLEAN
  /\ cxx = IF iter THEN "live" ELSE "none"
  /\ closed = FALSE
  /\ nextNode = NULL
  /\ answer = Answer("new", NULL)
  /\ finalized = FALSE
  /\ crashed = FALSE

-----------------------------------------------------------------------------
\* What nativeNext finds: libuast's error comes before the node.
NativeItem == IF pos < Len(script) THEN script[pos + 1] ELSE NULL

\* "delete (iter)" on the pointer read before the field was cleared.
NativeDispose ==
  /\ iter' = FALSE
  /\ cxx' = IF iter THEN "deleted" ELSE cxx
  /\ UNCHANGED <<script, pos>>

\* A call of the application: the object is reachable and the process alive.
Call == ~finalized /\ ~crashed

\* A closed iterator has nothing more, whatever it has in hand.
CallClosed(call) ==
  /\ Call
  /\ closed
  /\ answer' = Answer(call, IF call = "next" THEN NULL ELSE "false")
  /\ UNCHANGED <<native, closed, nextNode, finalized, crashed>>

\* The element in hand: hasNext() keeps it, next() hands it out.
CallInHand(call) ==
  /\ Call
  /\ ~closed
  /\ nextNode # NULL
  /\ IF call = "next"
     THEN nextNode' = NULL /\ answer' = Answer("next", nextNode)
     ELSE nextNode' = nextNode /\ answer' = Answer("hasNext", "true")
  /\ UNCHANGED <<native, closed, finalized, crashed>>

\* lookahead() that keeps the element next() hands out.
LookaheadKeeps(call) ==
  /\ Call
  /\ ~closed /\ nextNode = NULL
  /\ cxx = "live" /\ iter
  /\ NativeItem \in Nodes
  /\ pos' = pos + 1
  /\ nextNode' = NativeItem
  /\ answer' = IF call = "next" THEN Answer("next", NativeItem) ELSE Answer("hasNext", "true")
  /\ UNCHANGED <<script, cxx, iter, closed, finalized, crashed>>

\* lookahead() finds a node: next() hands it out at once.
Lookahead(call) ==
  /\ Call
  /\ ~closed /\ nextNode = NULL
  /\ cxx = "live" /\ iter
  /\ NativeItem \in Nodes
  /\ pos' = pos + 1
  /\ IF call = "next"
     THEN nextNode' = NULL /\ answer' = Answer("next", NativeItem)
     ELSE nextNode' = NativeItem /\ answer' = Answer("hasNext", "true")
  /\ UNCHANGED <<script, cxx, iter, closed, finalized, crashed>>

\* A lookahead() that takes what it threw for an element in hand.
LookaheadThrowsInHand(call) ==
  /\ Call
  /\ ~closed /\ nextNode = NULL
  /\ cxx = "live" /\ iter
  /\ NativeItem = Raise
  /\ pos' = pos + 1
  /\ nextNode' = NativeItem
  /\ answer' = Answer(call, Raise)
  /\ UNCHANGED <<script, cxx, iter, closed, finalized, crashed>>

\* ... or throws what libuast threw, with nothing in hand and nothing closed.
LookaheadThrows(call) ==
  /\ Call
  /\ ~closed /\ nextNode = NULL
  /\ cxx = "live" /\ iter
  /\ NativeItem = Raise
  /\ pos' = pos + 1
  /\ answer' = Answer(call, Raise)
  /\ UNCHANGED <<script, cxx, iter, closed, nextNode, finalized, crashed>>

\* lookahead() that reports the end without close().
LookaheadEndsOpen(call) ==
  /\ Call
  /\ ~closed /\ nextNode = NULL
  /\ cxx = "live" /\ iter
  /\ NativeItem = NULL
  /\ answer' = Answer(call, IF call = "next" THEN NULL ELSE "false")
  /\ UNCHANGED <<native, closed, nextNode, finalized, crashed>>

\* ... or closes the iterator: libuast is at its end, or has a null node.
LookaheadEnds(call) ==
  /\ Call
  /\ ~closed /\ nextNode = NULL
  /\ cxx = "live" /\ iter
  /\ NativeItem = NULL
  /\ NativeDispose
  /\ closed' = TRUE
  /\ answer' = Answer(call, IF call = "next" THEN NULL ELSE "false")
  /\ UNCHANGED <<nextNode, finalized, crashed>>

\* nativeNext(0), or nativeNext of a deleted iterator.
LookaheadCrashes ==
  /\ Call
  /\ ~closed /\ nextNode = NULL
  /\ ~iter \/ cxx # "live"
  /\ crashed' = TRUE
  /\ UNCHANGED <<native, closed, nextNode, answer, finalized>>

\* close() with "closed = true" left out.
CloseAgain ==
  /\ Call
  /\ answer' = Answer("close", NULL)
  /\ NativeDispose
  /\ UNCHANGED <<closed, nextNode, finalized, crashed>>

Close ==
  /\ Call
  /\ answer' = Answer("close", NULL)
  /\ IF closed
     THEN UNCHANGED <<native, closed>>
     ELSE NativeDispose /\ closed' = TRUE
  /\ UNCHANGED <<nextNode, finalized, crashed>>

\* The finalizer disposes without looking at closed.
Finalize ==
  /\ Call
  /\ NativeDispose
  /\ finalized' = TRUE
  /\ UNCHANGED <<closed, nextNode, answer, crashed>>

Calls == {"hasNext", "next"}

NextCall(call) ==
  \/ CallClosed(call) \/ CallInHand(call)
  \/ Lookahead(call) \/ LookaheadThrows(call) \/ LookaheadEnds(call)
  \/ LookaheadCrashes

Next == (\E call \in Calls : NextCall(call)) \/ Close \/ Finalize

Spec == Init /\ [][Next]_vars

\* A caller that drains the iterator, as foreach, toList and size do: it calls
\* next() as long as it can.
FairSpec == Spec /\ WF_vars(NextCall("next"))

-----------------------------------------------------------------------------
(***************************************************************************)
(* Properties.                                                             *)
(***************************************************************************)

\* Any mix of hasNext(), next(), close() and the finalizer is a run of the
\* promised iterator: no element is lost, repeated or handed out after close().
KeepsPromise == Promise!Spec

\* An iterator that said it is at its end, or that was closed or finalized, has
\* given its C++ iterator back: draining one leaks nothing until the next GC.
ReleasedAtEnd ==
  \/ closed \/ finalized
  \/ answer \in {Answer("hasNext", "false"), Answer("next", NULL)}
  => ~iter /\ cxx # "live"

\* nativeNext is never called on a C++ iterator that is gone: it crashes on the
\* iterators nativeInit left without one, and on no other.
CrashesOnlyHollow == crashed => cxx = "none"

\* Its C++ iterator goes as it closes or is finalized, and at no other time.
Handle == INSTANCE IterHandle WITH
  made <- TRUE, shared <- FALSE, bare <- FALSE
DisposesAtOnce == Handle!Spec

\* The caller's loop ends: the iterator is closed behind the last node.
Drains == <>(closed \/ finalized \/ crashed)
=============================================================================
