---------------------------- MODULE NativeLifetime ----------------------------
(***************************************************************************)
(* Who owns the native memory behind the Scala objects, and when it goes.  *)
(*                                                                         *)
(* A ContextExt or a Context owns one C++ context through its field        *)
(* nativeContext; a UastIterExt or a UastIter owns one C++ iterator        *)
(* through its field iter and borrows the context its own field ctx names. *)
(* The C++ objects are deleted by dispose(), by close(), and by the        *)
(* finalizers, which the JVM runs on a thread of its own for any object    *)
(* the application can no longer reach.  Nothing here takes a lock.        *)
(*                                                                         *)
(* A JNI method is split where another thread can get in: the read of the  *)
(* handle, the use of the C++ object, its deletion, the clearing of the    *)
(* handle.  Whatever touches a null or a deleted C++ object is undefined   *)
(* behaviour: the model records the fault and stops.                       *)
(***************************************************************************)
EXTENDS Naturals

CONSTANTS
  Threads,    \* the threads of the application
  Finalizer,  \* the JVM's finalizer thread
  ExtCtxs,    \* the ContextExt objects (trees decoded by libuast)
  JvmCtxs,    \* the Context objects (trees of JNodes)
  Iters,      \* the iterators, over trees of either kind
  NULL        \* no object

Ctxs  == ExtCtxs \cup JvmCtxs
Objs  == Ctxs \cup Iters
Procs == Threads \cup {Finalizer}

ASSUME IdentitiesDiffer ==
  /\ Finalizer \notin Threads
  /\ ExtCtxs \cap JvmCtxs = {}
  /\ Ctxs \cap Iters = {}
  /\ NULL \notin Objs \cup Procs

VARIABLES
  made,          \* the Scala objects constructed so far
  held,          \* those a variable of the application refers to
  heldNode,      \* the ContextExt whose NodeExt the application holds
  nativeContext, \* the field nativeContext of a context is not 0
  cxx,           \* the C++ context or iterator of each object
  iter,          \* the field iter of an iterator is not 0
  ctx,           \* the field ctx of an iterator
  node,          \* the field node of an iterator, by the context it is of
  over,          \* the context whose tree the C++ iterator walks
  closed,        \* the field closed of an iterator
  final,         \* how far the finalization of an object is
  frame,         \* the JNI method each thread is in, and its receiver
  fault,         \* the first access to a null or deleted C++ object
  disposed,      \* contexts the application called dispose() on
  redisposed,    \* ... by two threads at once
  shared         \* iterators two threads were in at once

heap    == <<made, held, heldNode, node, over>>
history == <<disposed, redisposed, shared>>
vars    == <<heap, nativeContext, cxx, iter, ctx, closed, final, frame, fault,
             history>>

Idle    == [at |-> "idle", obj |-> NULL]
NoFault == [kind |-> "none", by |-> NULL, ctx |-> NULL, iter |-> NULL]

\* The operations that borrow the C++ context, and the stages of the others.
Borrowing == {"root", "load", "encode", "filter", "iterate"}
Stages    == {"idle", "deleteCtx", "clearCtx", "advance", "lookup", "ended",
              "zeroIter", "deleteIter"} \cup Borrowing

TypeOK ==
  /\ made \subseteq Objs
  /\ held \subseteq made
  /\ heldNode \subseteq made \cap ExtCtxs
  /\ nativeContext \in [Ctxs -> BOOLEAN]
  /\ cxx \in [Objs -> {"none", "live", "deleted"}]
  /\ iter \in [Iters -> BOOLEAN]
  /\ ctx \in [Iters -> Ctxs \cup {NULL}]
  /\ node \in [Iters -> ExtCtxs \cup {NULL}]
  /\ over \in [Iters -> Ctxs \cup {NULL}]
  /\ closed \in [Iters -> BOOLEAN]
  /\ final \in [Objs -> {"no", "queued", "done"}]
  /\ frame \in [Procs -> [at : Stages, obj : Objs \cup {NULL}]]
  /\ fault \in [kind : {"none", "null", "deleted", "doubleDelete"},
                by : Procs \cup {NULL}, ctx : Ctxs \cup {NULL},
                iter : Iters \cup {NULL}]
  /\ disposed \subseteq Ctxs
  /\ redisposed \subseteq disposed
  /\ shared \subseteq Iters

Init ==
  /\ made = {} /\ held = {} /\ heldNode = {}
  /\ nativeContext = [c \in Ctxs |-> FALSE]
  /\ cxx = [o \in Objs |-> "none"]
  /\ iter = [i \in Iters |-> FALSE]
  /\ ctx = [i \in Iters |-> NULL]
  /\ node = [i \in Iters |-> NULL]
  /\ over = [i \in Iters |-> NULL]
  /\ closed = [i \in Iters |-> FALSE]
  /\ final = [o \in Objs |-> "no"]
  /\ frame = [p \in Procs |-> Idle]
  /\ fault = NoFault
  /\ disposed = {} /\ redisposed = {} /\ shared = {}

-----------------------------------------------------------------------------
(***************************************************************************)
(* Reachability, as the garbage collector sees it.  The receiver of a JNI  *)
(* method is reachable while the method runs.                              *)
(***************************************************************************)
Busy(o) == \E t \in Threads : frame[t].obj = o

IterReachable(i) == i \in held \/ Busy(i)

CtxReachable(c) ==
  \/ c \in held \cup heldNode
  \/ Busy(c)
  \/ \E i \in Iters : IterReachable(i) /\ c \in {ctx[i], node[i]}

Reachable(o) == IF o \in Iters THEN IterReachable(o) ELSE CtxReachable(o)

-----------------------------------------------------------------------------
Goto(p, at, o) == frame' = [frame EXCEPT ![p] = [at |-> at, obj |-> o]]
Return(p)      == frame' = [frame EXCEPT ![p] = Idle]

Crash(kind, p, c, i) ==
  /\ fault' = [kind |-> kind, by |-> p, ctx |-> c, iter |-> i]
  /\ UNCHANGED <<heap, nativeContext, cxx, iter, ctx, closed, final, frame, history>>

(***************************************************************************)
(* Objects the application creates.                                        *)
(***************************************************************************)

\* Libuast.decode and Context.create: a C++ context and its Scala owner.
NewContext(c) ==
  /\ c \notin made
  /\ made' = made \cup {c}
  /\ held' = held \cup {c}
  /\ nativeContext' = [nativeContext EXCEPT ![c] = TRUE]
  /\ cxx' = [cxx EXCEPT ![c] = "live"]
  /\ UNCHANGED <<heldNode, iter, ctx, node, over, closed, final, frame, fault, history>>

\* Attach without "this.ctx = jCtx": nothing keeps the context reachable.
AttachUnowned(i, c, n) ==
  /\ i \in Iters \ made
  /\ iter' = [iter EXCEPT ![i] = TRUE]
  /\ node' = [node EXCEPT ![i] = n]
  /\ over' = [over EXCEPT ![i] = c]
  /\ UNCHANGED ctx

\* Attach with the arguments of the new iterator in the wrong order.
AttachSwapped(i, c, n) ==
  /\ i \in Iters \ made
  /\ iter' = [iter EXCEPT ![i] = TRUE]
  /\ ctx'  = [ctx EXCEPT ![i] = n]
  /\ node' = [node EXCEPT ![i] = c]
  /\ over' = [over EXCEPT ![i] = c]

\* A constructed iterator i over the tree of context c.
Attach(i, c, n) ==
  /\ i \in Iters \ made
  /\ iter' = [iter EXCEPT ![i] = TRUE]
  /\ ctx'  = [ctx EXCEPT ![i] = c]
  /\ node' = [node EXCEPT ![i] = n]
  /\ over' = [over EXCEPT ![i] = c]

\* JvmIterate with the early return between the C++ context and its owner.
JvmIterateUnowned(c, i) ==
  /\ c \in JvmCtxs \ made
  /\ made' = made \cup {c, i}
  /\ held' = held \cup {i}
  /\ \/ /\ Attach(i, c, NULL)
        /\ nativeContext' = [nativeContext EXCEPT ![c] = TRUE]
        /\ cxx' = [cxx EXCEPT ![c] = "live", ![i] = "live"]
     \/ /\ i \in Iters \ made
        /\ cxx' = [cxx EXCEPT ![c] = "live"]
        /\ UNCHANGED <<nativeContext, iter, ctx, node, over>>
  /\ UNCHANGED <<heldNode, closed, final, fault, frame, history>>

\* UastIter.nativeInit: the C++ context and its owner are created first; a
\* negative order then returns early, leaving both to the finalizer.
JvmIterate(c, i) ==
  /\ c \in JvmCtxs \ made
  /\ nativeContext' = [nativeContext EXCEPT ![c] = TRUE]
  /\ made' = made \cup {c, i}
  /\ held' = held \cup {i}
  /\ \/ /\ Attach(i, c, NULL)
        /\ cxx' = [cxx EXCEPT ![c] = "live", ![i] = "live"]
     \/ /\ i \in Iters \ made
        /\ cxx' = [cxx EXCEPT ![c] = "live"]
        /\ UNCHANGED <<iter, ctx, node, over>>
  /\ UNCHANGED <<heldNode, closed, final, frame, fault, history>>

\* nativeInit returns early for a null node, and for a negative order over a
\* NodeExt: the iterator exists and its field iter stays 0.  Its field ctx
\* stays the placeholder Libuast.scala gave it, a context with handle 0 and
\* nothing behind: NULL here.
HollowIterator(i, n) ==
  /\ i \in Iters \ made
  /\ n \in heldNode \cup {NULL}
  /\ made' = made \cup {i}
  /\ held' = held \cup {i}
  /\ node' = [node EXCEPT ![i] = n]
  /\ UNCHANGED <<heldNode, nativeContext, cxx, iter, ctx, over, closed, final,
                 frame, fault, history>>

(***************************************************************************)
(* JNI methods that borrow a C++ context.                                  *)
(***************************************************************************)

\* Which of them the application can call, by what it holds.
CanCall(op, c) ==
  \/ op = "root"    /\ c \in held \cap ExtCtxs
  \/ op = "encode"  /\ c \in held
  \/ op = "filter"  /\ c \in held \cup heldNode
  \/ op = "load"    /\ c \in heldNode
  \/ op = "iterate" /\ c \in heldNode

\* The method reads the handle.  Only NodeExt.load checks it: there a null
\* handle returns null to the caller, and nothing changes.
Borrow(t, op, c) ==
  /\ frame[t] = Idle
  /\ CanCall(op, c)
  /\ \/ /\ nativeContext[c]
        /\ Goto(t, op, c)
        /\ UNCHANGED <<heap, nativeContext, cxx, iter, ctx, closed, final, fault, history>>
     \/ /\ ~nativeContext[c]
        /\ op # "load"
        /\ Crash("null", t, c, NULL)

\* ... and uses what the handle pointed to.
UseDeleted(t) ==
  /\ frame[t].at \in Borrowing
  /\ cxx[frame[t].obj] = "deleted"
  /\ Crash("deleted", t, frame[t].obj, NULL)

\* load and encode return data; filter may throw on a bad query.
UseContext(t) ==
  /\ frame[t].at \in {"load", "encode", "filter"}
  /\ cxx[frame[t].obj] = "live"
  /\ Return(t)
  /\ UNCHANGED <<heap, nativeContext, cxx, iter, ctx, closed, final, fault, history>>

\* ContextExt.root returns a NodeExt.
UseRoot(t) ==
  /\ frame[t].at = "root"
  /\ cxx[frame[t].obj] = "live"
  /\ heldNode' = heldNode \cup {frame[t].obj}
  /\ Return(t)
  /\ UNCHANGED <<made, held, node, over, nativeContext, cxx, iter, ctx, closed,
                 final, fault, history>>

\* filter and UastIterExt.nativeInit return a new iterator; the one made by
\* nativeInit also keeps the node it was given.
UseForIterator(t, i) ==
  /\ frame[t].at \in {"filter", "iterate"}
  /\ cxx[frame[t].obj] = "live"
  /\ Attach(i, frame[t].obj,
            IF frame[t].at = "iterate" THEN frame[t].obj ELSE NULL)
  /\ cxx' = [cxx EXCEPT ![i] = "live"]
  /\ made' = made \cup {i}
  /\ held' = held \cup {i}
  /\ Return(t)
  /\ UNCHANGED <<heldNode, nativeContext, closed, final, fault, history>>

(***************************************************************************)
(* dispose() of a context, by a thread of the application or, as its       *)
(* finalizer, by the finalizer thread: read the handle, delete, clear.     *)
(***************************************************************************)
Dispose(t, c) ==
  /\ frame[t] = Idle
  /\ c \in held
  /\ nativeContext[c]
  /\ Goto(t, "deleteCtx", c)
  /\ disposed' = disposed \cup {c}
  /\ redisposed' = IF \E u \in Threads : frame[u].obj = c /\ frame[u].at \in {"deleteCtx", "clearCtx"}
                   THEN redisposed \cup {c} ELSE redisposed
  /\ UNCHANGED <<heap, nativeContext, cxx, iter, ctx, closed, final, fault, shared>>

FinalizeContext(c) ==
  /\ frame[Finalizer] = Idle
  /\ final[c] = "queued"
  /\ IF nativeContext[c]
     THEN Goto(Finalizer, "deleteCtx", c) /\ UNCHANGED final
     ELSE final' = [final EXCEPT ![c] = "done"] /\ UNCHANGED frame
  /\ UNCHANGED <<heap, nativeContext, cxx, iter, ctx, closed, fault, history>>

DeleteContext(p) ==
  /\ frame[p].at = "deleteCtx"
  /\ \/ /\ cxx[frame[p].obj] = "live"
        /\ cxx' = [cxx EXCEPT ![frame[p].obj] = "deleted"]
        /\ Goto(p, "clearCtx", frame[p].obj)
        /\ UNCHANGED <<heap, nativeContext, iter, ctx, closed, final, fault, history>>
     \/ /\ cxx[frame[p].obj] = "deleted"
        /\ Crash("doubleDelete", p, frame[p].obj, NULL)

\* The finalizer has run once p has left finalize().
Finalized(p, o) == IF p = Finalizer THEN [final EXCEPT ![o] = "done"] ELSE final

\* ClearContext without setHandle(0).
ClearContextForgotten(p) ==
  /\ frame[p].at = "clearCtx"
  /\ final' = Finalized(p, frame[p].obj)
  /\ Return(p)
  /\ UNCHANGED <<heap, nativeContext, cxx, iter, ctx, closed, fault, history>>

ClearContext(p) ==
  /\ frame[p].at = "clearCtx"
  /\ nativeContext' = [nativeContext EXCEPT ![frame[p].obj] = FALSE]
  /\ final' = Finalized(p, frame[p].obj)
  /\ Return(p)
  /\ UNCHANGED <<heap, cxx, iter, ctx, closed, fault, history>>

(***************************************************************************)
(* Iterators: hasNext() and next() advance the C++ iterator when they have *)
(* no element in hand, and close themselves at its end.                    *)
(***************************************************************************)
EnterIter(t, i) ==
  /\ frame[t] = Idle
  /\ i \in held
  /\ ~closed[i]
  /\ shared' = IF Busy(i) THEN shared \cup {i} ELSE shared

Lookahead(t, i) ==
  /\ EnterIter(t, i)
  /\ IF iter[i]
     THEN Goto(t, "advance", i) /\ UNCHANGED fault
     ELSE /\ fault' = [kind |-> "null", by |-> t, ctx |-> NULL, iter |-> i]
          /\ UNCHANGED frame
  /\ UNCHANGED <<heap, nativeContext, cxx, iter, ctx, closed, final, disposed, redisposed>>

AdvanceDeleted(t) ==
  /\ frame[t].at = "advance"
  /\ "deleted" \in {cxx[frame[t].obj], cxx[over[frame[t].obj]]}
  /\ Crash("deleted", t, over[frame[t].obj], frame[t].obj)

\* nativeNext finds a node, throws what libuast threw, or is at the end.
Advance(t) ==
  LET i == frame[t].obj IN
  /\ frame[t].at = "advance"
  /\ cxx[i] = "live" /\ cxx[over[i]] = "live"
  /\ \/ over[i] \in ExtCtxs /\ Goto(t, "lookup", i)
     \/ Return(t)
     \/ Goto(t, "ended", i)
  /\ UNCHANGED <<heap, nativeContext, cxx, iter, ctx, closed, final, fault, history>>

\* UastIterExt.nativeNext asks the context its field ctx names for the NodeExt.
LookupNull(t) ==
  LET i == frame[t].obj IN
  /\ frame[t].at = "lookup"
  /\ IF ctx[i] = NULL THEN TRUE ELSE ~nativeContext[ctx[i]]
  /\ Crash("null", t, ctx[i], i)

LookupDeleted(t) ==
  LET i == frame[t].obj IN
  /\ frame[t].at = "lookup"
  /\ ctx[i] # NULL
  /\ nativeContext[ctx[i]]
  /\ cxx[ctx[i]] = "deleted"
  /\ Crash("deleted", t, ctx[i], i)

Lookup(t) ==
  LET i == frame[t].obj IN
  /\ frame[t].at = "lookup"
  /\ ctx[i] # NULL
  /\ nativeContext[ctx[i]]
  /\ cxx[ctx[i]] = "live"
  /\ heldNode' = heldNode \cup {ctx[i]}
  /\ Return(t)
  /\ UNCHANGED <<made, held, node, over, nativeContext, cxx, iter, ctx, closed,
                 final, fault, history>>

(***************************************************************************)
(* nativeDispose of an iterator: drop ctx, read the handle, clear it,      *)
(* delete.  close() calls it once and then sets closed; the finalizer      *)
(* calls it whatever happened before.                                      *)
(***************************************************************************)
Finish(p, i) ==
  \/ p # Finalizer /\ closed' = [closed EXCEPT ![i] = TRUE] /\ UNCHANGED final
  \/ p = Finalizer /\ final' = [final EXCEPT ![i] = "done"] /\ UNCHANGED closed

NativeDispose(p, i) ==
  /\ ctx' = [ctx EXCEPT ![i] = NULL]
  /\ IF iter[i]
     THEN Goto(p, "zeroIter", i) /\ UNCHANGED <<closed, final>>
     ELSE Finish(p, i) /\ Return(p)

Close(t, i) ==
  /\ EnterIter(t, i)
  /\ NativeDispose(t, i)
  /\ UNCHANGED <<heap, nativeContext, cxx, iter, fault, disposed, redisposed>>

CloseAtEnd(t) ==
  LET i == frame[t].obj IN
  /\ frame[t].at = "ended"
  /\ IF closed[i]
     THEN Return(t) /\ UNCHANGED <<ctx, closed, final>>
     ELSE NativeDispose(t, i)
  /\ UNCHANGED <<heap, nativeContext, cxx, iter, fault, history>>

FinalizeIter(i) ==
  /\ frame[Finalizer] = Idle
  /\ final[i] = "queued"
  /\ NativeDispose(Finalizer, i)
  /\ UNCHANGED <<heap, nativeContext, cxx, iter, fault, history>>

\* ZeroIter without setHandle(0).
ZeroIterForgotten(p) ==
  /\ frame[p].at = "zeroIter"
  /\ Goto(p, "deleteIter", frame[p].obj)
  /\ UNCHANGED <<heap, nativeContext, cxx, iter, ctx, closed, final, fault, history>>

ZeroIter(p) ==
  /\ frame[p].at = "zeroIter"
  /\ iter' = [iter EXCEPT ![frame[p].obj] = FALSE]
  /\ Goto(p, "deleteIter", frame[p].obj)
  /\ UNCHANGED <<heap, nativeContext, cxx, ctx, closed, final, fault, history>>

DeleteIter(p) ==
  LET i == frame[p].obj IN
  /\ frame[p].at = "deleteIter"
  /\ \/ /\ cxx[i] = "live"
        /\ cxx' = [cxx EXCEPT ![i] = "deleted"]
        /\ Finish(p, i)
        /\ Return(p)
        /\ UNCHANGED <<heap, nativeContext, iter, ctx, fault, history>>
     \/ /\ cxx[i] = "deleted"
        /\ Crash("doubleDelete", p, over[i], i)

(***************************************************************************)
(* The application's references, and the collector.                        *)
(***************************************************************************)

\* The fields ctx of a NodeExt and of an iterator are public.
ReadCtxField(c) ==
  /\ \/ c \in heldNode
     \/ \E i \in held \cap Iters : ctx[i] = c
  /\ held' = held \cup {c}
  /\ UNCHANGED <<made, heldNode, node, over, nativeContext, cxx, iter, ctx, closed,
                 final, frame, fault, history>>

Drop(o) ==
  /\ \/ held' = held \ {o} /\ o \in held /\ UNCHANGED heldNode
     \/ heldNode' = heldNode \ {o} /\ o \in heldNode /\ UNCHANGED held
  /\ UNCHANGED <<made, node, over, nativeContext, cxx, iter, ctx, closed, final,
                 frame, fault, history>>

\* The collector finds an object it has to finalize.
Collect(o) ==
  /\ o \in made
  /\ final[o] = "no"
  /\ ~Reachable(o)
  /\ final' = [final EXCEPT ![o] = "queued"]
  /\ UNCHANGED <<heap, nativeContext, cxx, iter, ctx, closed, frame, fault, history>>

-----------------------------------------------------------------------------
Application(t) ==
  \/ \E c \in Ctxs : NewContext(c) \/ Dispose(t, c)
  \/ \E c \in Ctxs, op \in Borrowing : Borrow(t, op, c)
  \/ \E c \in JvmCtxs, i \in Iters : JvmIterate(c, i)
  \/ \E i \in Iters, n \in ExtCtxs \cup {NULL} : HollowIterator(i, n)
  \/ \E i \in Iters : Lookahead(t, i) \/ Close(t, i)

Running(t) ==
  \/ UseDeleted(t) \/ UseContext(t) \/ UseRoot(t)
  \/ \E i \in Iters : UseForIterator(t, i)
  \/ AdvanceDeleted(t) \/ Advance(t)
  \/ LookupNull(t) \/ LookupDeleted(t) \/ Lookup(t)
  \/ CloseAtEnd(t)

Disposing(p) == DeleteContext(p) \/ ClearContext(p) \/ ZeroIter(p) \/ DeleteIter(p)

Finalization ==
  \/ \E c \in Ctxs : FinalizeContext(c)
  \/ \E i \in Iters : FinalizeIter(i)
  \/ Disposing(Finalizer)

Next ==
  /\ fault = NoFault          \* a faulting process is gone
  /\ \/ \E t \in Threads : Application(t) \/ Running(t) \/ Disposing(t)
     \/ Finalization
     \/ \E c \in Ctxs : ReadCtxField(c)
     \/ \E o \in Objs : Drop(o) \/ Collect(o)

Spec == Init /\ [][Next]_vars

(***************************************************************************)
(* The JVM's side of the bargain: what is unreachable is sooner or later   *)
(* found, and the finalizer thread keeps running finalizers.  Nothing is   *)
(* asked of the application: its threads may stop anywhere.                *)
(***************************************************************************)
Fairness ==
  /\ WF_vars(fault = NoFault /\ \E o \in Objs : Collect(o))
  /\ WF_vars(fault = NoFault /\ Finalization)

FairSpec == Spec /\ Fairness

-----------------------------------------------------------------------------
(***************************************************************************)
(* Properties.                                                             *)
(***************************************************************************)

\* An access to a null or deleted C++ object is always the doing of the
\* application: it disposed of the context, was in one iterator with two
\* threads, or read an iterator built over a null node or a negative order.
\* The collector, the finalizers and their order never cause one.
FaultsAreMisuse ==
  fault # NoFault =>
    \/ fault.ctx \in disposed
    \/ fault.iter \in shared
    \/ fault.iter # NULL /\ over[fault.iter] = NULL

\* dispose() may be called again and again, and a finalizer follows it in the
\* end: a C++ context is deleted twice only if two threads are inside
\* dispose() of it at once, an iterator only if two threads are in it.
DoubleDeleteNeedsOverlap ==
  fault.kind = "doubleDelete" =>
    IF fault.iter = NULL THEN fault.ctx \in redisposed ELSE fault.iter \in shared

\* The finalizer thread never faults, whatever the application did before it
\* let go of the object: a dispose() it raced with itself, an iterator it
\* left half closed, a context deleted before the iterators over it.
FinalizerNeverFaults == fault.by # Finalizer

\* An iterator the application can still use, and that it neither closed nor
\* shared nor disposed the context of, has both its C++ objects: the tree
\* outlives the last Scala reference to its context.
OpenIteratorUsable ==
  \A i \in Iters :
    /\ IterReachable(i)
    /\ over[i] # NULL
    /\ over[i] \notin disposed
    /\ i \notin shared
    /\ ~closed[i]
    /\ ~\E t \in Threads : frame[t].obj = i /\ frame[t].at \in {"zeroIter", "deleteIter"}
    => /\ cxx[i] = "live" /\ iter[i]
       /\ cxx[over[i]] = "live" /\ nativeContext[over[i]]

\* An object whose finalizer has run has left nothing behind, whoever was first
\* to dispose of it: its handle was cleared only where its C++ object went.
FinalizedIsFreed == \A o \in Objs : final[o] = "done" => cxx[o] # "live"

\* The thread t is in a native method that goes through the C++ object of o.
Uses(t, o) ==
  \/ frame[t].at \in Borrowing /\ frame[t].obj = o
  \/ frame[t].at = "advance" /\ o \in {frame[t].obj, over[frame[t].obj]}
  \/ frame[t].at = "lookup" /\ o \in {frame[t].obj, ctx[frame[t].obj]}

\* A step that deletes a C++ object finds no thread inside a method that uses
\* it, but for a context the application disposed of and an iterator two
\* threads were in: finalizers never take a tree from under its users.
DeletesUnused ==
  [][\A o \in Objs : cxx[o] = "live" /\ cxx'[o] = "deleted" =>
       \/ o \in disposed \cup shared
       \/ \A t \in Threads : Uses(t, o) => frame[t].obj \in shared]_vars

\* To whoever sees an iterator and its C++ iterator nativeDispose is one step,
\* although it clears the handle, deletes and sets closed one after the other:
\* UastIter may take it for one, unless two threads are in it.
Handle(i) == INSTANCE IterHandle WITH
  made      <- i \in made,
  cxx       <- cxx[i],
  closed    <- closed[i],
  finalized <- final[i] = "done",
  crashed   <- fault.iter = i,
  shared    <- i \in shared,
  bare      <- over[i] \in disposed
DisposesAtOnce ==
  /\ \A i \in Iters : Handle(i)!Init
  /\ [][\A i \in Iters : [Handle(i)!Next]_(Handle(i)!vars)]_vars

\* Every C++ context and iterator whose Scala owner the application has let
\* go of is deleted in the end: no early return or close() leaks one.
NoNativeLeak ==
  \A o \in Objs :
    o \in made /\ ~Reachable(o) ~> cxx[o] # "live" \/ fault # NoFault

-----------------------------------------------------------------------------
(***************************************************************************)
(* Why they hold: the inductive invariant.                                 *)
(***************************************************************************)
CtxStages  == Borrowing \cup {"deleteCtx", "clearCtx"}
IterStages == {"advance", "lookup", "ended", "zeroIter", "deleteIter"}
In(p, o, stages) == frame[p].obj = o /\ frame[p].at \in stages

\* A frame is of a made object of the right kind; the finalizer thread is only
\* ever in the finalizer of the object it took from the queue.
FramesOK ==
  /\ \A p \in Procs :
       \/ frame[p] = Idle
       \/ frame[p].at \in CtxStages /\ frame[p].obj \in Ctxs \cap made
       \/ frame[p].at \in IterStages /\ frame[p].obj \in Iters \cap made
  /\ \A t \in Threads : frame[t].at \in {"root", "load", "iterate"} =>
       frame[t].obj \in ExtCtxs
  /\ frame[Finalizer] = Idle \/
       /\ frame[Finalizer].at \in {"deleteCtx", "clearCtx", "zeroIter", "deleteIter"}
       /\ final[frame[Finalizer].obj] = "queued"

\* What was collected stays out of the application's reach.
GarbageOK == \A o \in Objs : final[o] # "no" => o \in made /\ ~Reachable(o)

\* How the fields of an object and its C++ objects begin.
MadeOK ==
  /\ \A c \in Ctxs : cxx[c] = "none" <=> c \notin made
  /\ \A i \in Iters :
       /\ i \notin made => over[i] = NULL /\ ctx[i] = NULL /\ node[i] = NULL
       /\ cxx[i] = "none" <=> over[i] = NULL
       /\ over[i] # NULL => over[i] \in made
       /\ node[i] # NULL => node[i] \in made
       /\ ctx[i] \in {NULL, over[i]}

\* A context loses its C++ object only to dispose() or to its finalizer; one
\* thread at a time is about to delete it, unless two called dispose() at once.
ContextsOK ==
  /\ \A c \in made \cap Ctxs :
       cxx[c] = "deleted" \/ ~nativeContext[c] => c \in disposed \/ final[c] # "no"
  /\ \A c \in Ctxs : cxx[c] = "deleted" /\ nativeContext[c] =>
       \E p \in Procs : In(p, c, {"clearCtx"})
  /\ \A t \in Threads : frame[t].at \in {"deleteCtx", "clearCtx"} => frame[t].obj \in disposed
  /\ \A c \in Ctxs \ redisposed, t, u \in Threads :
       In(t, c, {"deleteCtx", "clearCtx"}) /\ In(u, c, {"deleteCtx", "clearCtx"}) => t = u
  /\ \A p \in Procs : frame[p].at = "deleteCtx" =>
       \/ p # Finalizer /\ frame[p].obj \in redisposed
       \/ cxx[frame[p].obj] = "live"

\* The field iter of an iterator is cleared before its C++ iterator goes.
HandlesOK ==
  /\ \A i \in Iters : iter[i] => cxx[i] = "live"
  /\ \A p \in Procs : frame[p].at = "deleteIter" => ~iter[frame[p].obj]
  /\ \A p \in Procs : frame[p].at \in {"zeroIter", "deleteIter"} =>
       \/ p # Finalizer /\ frame[p].obj \in shared
       \/ cxx[frame[p].obj] = "live"

LoneUserOK ==
  \A i \in Iters \ shared, t, u \in Threads :
    frame[t].obj = i /\ frame[u].obj = i => t = u

\* An unshared iterator that nobody has begun to close has its C++ iterator,
\* and refers to the context it walks.
OpenOK ==
  \A i \in Iters \ shared :
    /\ final[i] = "no" /\ ~closed[i] /\ over[i] # NULL
    /\ \A t \in Threads : ~In(t, i, {"zeroIter", "deleteIter"})
    => iter[i] /\ ctx[i] = over[i]

AdvancingOK ==
  \A t \in Threads : frame[t].at \in {"advance", "lookup", "ended"} =>
    /\ over[frame[t].obj] # NULL
    /\ frame[t].at = "lookup" => over[frame[t].obj] \in ExtCtxs
    /\ frame[t].obj \in shared \/ ~closed[frame[t].obj]

IteratorsOK == HandlesOK /\ LoneUserOK /\ OpenOK /\ AdvancingOK

FaultsOK == FaultsAreMisuse /\ DoubleDeleteNeedsOverlap /\ FinalizerNeverFaults

\* The inductive invariant: each part needs the others.
Inv == TypeOK /\ FramesOK /\ GarbageOK /\ MadeOK /\ ContextsOK /\ IteratorsOK /\ FaultsOK
=============================================================================
