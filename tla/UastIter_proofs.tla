---------------------------- MODULE UastIter_proofs ---------------------------
(***************************************************************************)
(* UastIter implements ScalaIterator for every set of nodes and scripts,   *)
(* and gives its C++ iterator back at the end.                             *)
(***************************************************************************)
EXTENDS UastIter, TLAPS

\* The answers that say the iteration is over.
EndAnswers == {Answer("hasNext", "false"), Answer("next", NULL)}

\* The inductive invariant.  What is in hand is the last item the C++ iterator
\* yielded; the C++ iterator lives exactly until close() or the finalizer; and
\* only a closed iterator says it is over.
Inv ==
  /\ TypeOK
  /\ nextNode # NULL => pos > 0 /\ script[pos] = nextNode
  /\ iter <=> cxx = "live"
  /\ closed \/ finalized => ~iter
  /\ ~closed /\ ~finalized => cxx # "deleted"
  /\ answer \in EndAnswers => closed
  /\ crashed => cxx = "none"

LEMMA InitInv == Init => Inv
<1> SUFFICES ASSUME Init PROVE Inv
  OBVIOUS
<1> USE ScriptsAreItems DEF Init, Answer, Promise!Answer, Items, Promise!Items
<1>1. TypeOK
  <2>1. script \in Seq(Items) /\ pos \in 0..Len(script)
    OBVIOUS
  <2>2. answer \in [call : {"new", "hasNext", "next", "close"},
                   gives : Items \cup {"true", "false"}]
    OBVIOUS
  <2> QED
    BY <2>1, <2>2 DEF TypeOK
<1>2. answer \notin EndAnswers
  BY DEF EndAnswers
<1> QED
  BY <1>1, <1>2 DEF Inv

\* Every call, close() and the finalizer keep the invariant.
LEMMA NextInv == Inv /\ [Next]_vars => Inv'
<1> SUFFICES ASSUME Inv, [Next]_vars PROVE Inv'
  OBVIOUS
<1> USE ScriptsAreItems DEF Inv, TypeOK, EndAnswers, Answer, Promise!Answer, Items,
      Promise!Items, native, Calls, Call, NativeItem, NativeDispose
<1>0. script \in Seq(Items)
  OBVIOUS
<1>1. CASE UNCHANGED vars
  BY <1>1 DEF vars
<1>2. ASSUME NEW call \in Calls, CallClosed(call) PROVE Inv'
  BY <1>2 DEF CallClosed
<1>3. ASSUME NEW call \in Calls, CallInHand(call) PROVE Inv'
  <2>1. TypeOK'
    <3>1. answer' \in [call : {"new", "hasNext", "next", "close"},
                      gives : Items \cup {"true", "false"}]
      BY <1>0, <1>3 DEF CallInHand
    <3>2. pos' \in 0..Len(script) /\ nextNode' \in Nodes \cup {NULL}
      BY <1>0, <1>3 DEF CallInHand
    <3> QED
      BY <1>3, <3>1, <3>2 DEF CallInHand
  <2>2. nextNode' # NULL => pos' > 0 /\ script'[pos'] = nextNode'
    BY <1>0, <1>3 DEF CallInHand
  <2>3. (answer \in EndAnswers => closed)'
    <3>1. CASE call = "next"
      BY <1>3, <3>1 DEF CallInHand
    <3>2. CASE call = "hasNext"
      BY <1>3, <3>2 DEF CallInHand
    <3> QED
      BY <3>1, <3>2
  <2> QED
    BY <1>3, <2>1, <2>2, <2>3 DEF CallInHand
<1>4. ASSUME NEW call \in Calls, Lookahead(call) PROVE Inv'
  <2>1. TypeOK'
    <3>1. answer' \in [call : {"new", "hasNext", "next", "close"},
                      gives : Items \cup {"true", "false"}]
      BY <1>0, <1>4 DEF Lookahead
    <3>2. pos' \in 0..Len(script) /\ nextNode' \in Nodes \cup {NULL}
      BY <1>0, <1>4 DEF Lookahead
    <3> QED
      BY <1>4, <3>1, <3>2 DEF Lookahead
  <2>2. nextNode' # NULL => pos' > 0 /\ script'[pos'] = nextNode'
    BY <1>0, <1>4 DEF Lookahead
  <2>3. (answer \in EndAnswers => closed)'
    BY <1>0, <1>4 DEF Lookahead
  <2> QED
    BY <1>4, <2>1, <2>2, <2>3 DEF Lookahead
<1>5. ASSUME NEW call \in Calls, LookaheadThrows(call) PROVE Inv'
  <2>1. TypeOK'
    BY <1>0, <1>5 DEF LookaheadThrows
  <2>2. nextNode' # NULL => pos' > 0 /\ script'[pos'] = nextNode'
    BY <1>0, <1>5 DEF LookaheadThrows
  <2>3. (answer \in EndAnswers => closed)'
    BY <1>0, <1>5 DEF LookaheadThrows
  <2> QED
    BY <1>5, <2>1, <2>2, <2>3 DEF LookaheadThrows
<1>6. ASSUME NEW call \in Calls, LookaheadEnds(call) PROVE Inv'
  BY <1>6 DEF LookaheadEnds
<1>7. CASE LookaheadCrashes
  BY <1>7 DEF LookaheadCrashes
<1>8. CASE Close
  BY <1>8 DEF Close
<1>9. CASE Finalize
  BY <1>9 DEF Finalize
<1> QED
  BY <1>1, <1>2, <1>3, <1>4, <1>5, <1>6, <1>7, <1>8, <1>9 DEF Next, NextCall

\* The invariant holds of every run, over every script.
THEOREM Invariance == Spec => []Inv
  BY InitInv, NextInv, PTL DEF Spec

\* Iterator, script and answer keep their types.
THEOREM TypeCorrect == Spec => []TypeOK
<1>1. Inv => TypeOK
  BY DEF Inv
<1> QED
  BY <1>1, Invariance, PTL

\* The C++ iterator of an iterator that is over has been deleted.
THEOREM ReleasedAtTheEnd == Spec => []ReleasedAtEnd
<1>1. Inv => ReleasedAtEnd
  BY DEF Inv, ReleasedAtEnd, EndAnswers
<1> QED
  BY <1>1, Invariance, PTL

\* nativeNext crashes on iterators nativeInit left hollow, and on no other.
THEOREM OnlyHollowCrash == Spec => []CrashesOnlyHollow
<1>1. Inv => CrashesOnlyHollow
  BY DEF Inv, CrashesOnlyHollow
<1> QED
  BY <1>1, Invariance, PTL

-----------------------------------------------------------------------------
(***************************************************************************)
(* The refinement: one step of UastIter is one step of ScalaIterator, or   *)
(* none.                                                                   *)
(***************************************************************************)
LEMMA InitRefines == Init => Promise!Init
  BY DEF Init, Promise!Init, Answer

\* A call with an element in hand, or that looks one up, is Found; an error is
\* Throws; a closed iterator and the end of the tree are AtEnd.
LEMMA NextRefines == Inv /\ [Next]_vars => [Promise!Next]_(Promise!vars)
<1> SUFFICES ASSUME Inv, [Next]_vars PROVE [Promise!Next]_(Promise!vars)
  OBVIOUS
<1> USE ScriptsAreItems DEF Inv, TypeOK, Answer, Promise!Answer, native, Calls,
      NativeItem, Promise!ItemAfter
<1>0. script \in Seq(Items)
  OBVIOUS
<1>1. CASE UNCHANGED vars
  BY <1>1 DEF vars, Promise!vars
<1>2. ASSUME NEW call \in Calls, CallClosed(call) PROVE Promise!AtEnd(call)
  BY <1>2 DEF CallClosed, Promise!AtEnd
<1>3. ASSUME NEW call \in Calls, CallInHand(call) PROVE Promise!Found(call)
  BY <1>0, <1>3 DEF CallInHand, Promise!Found
<1>4. ASSUME NEW call \in Calls, Lookahead(call) PROVE Promise!Found(call)
  BY <1>0, <1>4 DEF Lookahead, Promise!Found
<1>5. ASSUME NEW call \in Calls, LookaheadThrows(call) PROVE Promise!Throws(call)
  BY <1>0, <1>5 DEF LookaheadThrows, Promise!Throws
<1>6. ASSUME NEW call \in Calls, LookaheadEnds(call) PROVE Promise!AtEnd(call)
  BY <1>0, <1>6 DEF LookaheadEnds, NativeDispose, Promise!AtEnd
<1>7. CASE LookaheadCrashes
  BY <1>7 DEF LookaheadCrashes, Promise!vars
<1>8. ASSUME Close PROVE Promise!Close
  BY <1>8 DEF Close, NativeDispose, Promise!Close
<1>9. CASE Finalize
  BY <1>9 DEF Finalize, NativeDispose, Promise!vars
<1> QED
  BY <1>1, <1>2, <1>3, <1>4, <1>5, <1>6, <1>7, <1>8, <1>9
     DEF Next, NextCall, Promise!Next

\* UastAbstractIter is the iterator ScalaIterator promises.
THEOREM Refinement == Spec => KeepsPromise
  BY InitRefines, NextRefines, Invariance, PTL DEF Spec, KeepsPromise, Promise!Spec

-----------------------------------------------------------------------------
\* close(), the end of a lookahead and the finalizer each give the C++ iterator
\* back in one step; only an iterator without one crashes.
LEMMA NextDisposes == Inv /\ [Next]_vars => [Handle!Next]_(Handle!vars)
<1> SUFFICES ASSUME Inv, [Next]_vars PROVE Handle!Next \/ UNCHANGED Handle!vars
  OBVIOUS
<1> USE DEF Inv, TypeOK, native, Call, Handle!fields, Handle!Released
<1>1. ASSUME UNCHANGED <<cxx, closed, finalized, crashed>> PROVE UNCHANGED Handle!vars
  BY <1>1 DEF Handle!vars
<1>2. CASE UNCHANGED vars
  BY <1>1, <1>2 DEF vars
<1>3. ASSUME NEW call \in Calls,
             CallClosed(call) \/ CallInHand(call) \/ Lookahead(call) \/ LookaheadThrows(call)
      PROVE  UNCHANGED Handle!vars
  BY <1>1, <1>3 DEF CallClosed, CallInHand, Lookahead, LookaheadThrows
<1>4. ASSUME NEW call \in Calls, LookaheadEnds(call) PROVE Handle!Next
  BY <1>4 DEF LookaheadEnds, NativeDispose, Handle!Close, Handle!Next
<1>5. CASE LookaheadCrashes
  BY <1>5 DEF LookaheadCrashes, Handle!Crash, Handle!Next
<1>6. CASE Close
  <2>1. CASE closed
    BY <1>1, <1>6, <2>1 DEF Close
  <2>2. CASE ~closed
    BY <1>6, <2>2 DEF Close, NativeDispose, Handle!Close, Handle!Next
  <2> QED
    BY <2>1, <2>2
<1>7. CASE Finalize
  BY <1>7 DEF Finalize, NativeDispose, Handle!Finalize, Handle!Next
<1> QED
  BY <1>2, <1>3, <1>4, <1>5, <1>6, <1>7 DEF Next, NextCall

\* The C++ iterator goes with the step that closes or finalizes its owner.
THEOREM DisposesOnce == Spec => DisposesAtOnce
<1>1. Init => Handle!Init
  BY DEF Init, Handle!Init
<1> QED
  BY <1>1, NextDisposes, Invariance, PTL DEF Spec, DisposesAtOnce, Handle!Spec
=============================================================================
