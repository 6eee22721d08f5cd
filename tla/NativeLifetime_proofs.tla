------------------------ MODULE NativeLifetime_proofs -------------------------
(***************************************************************************)
(* NativeLifetime is safe for every set of threads, contexts and           *)
(* iterators: Inv, the conjunction of named parts that module defines, is  *)
(* inductive, and the safety properties follow from it.                    *)
(***************************************************************************)
EXTENDS NativeLifetime, TLAPS

\* The end of NativeDispose keeps the types of the two functions it updates.
LEMMA FinishType ==
  ASSUME TypeOK, NEW p \in Procs, NEW i \in Iters, Finish(p, i)
  PROVE  /\ closed' \in [Iters -> BOOLEAN]
         /\ final' \in [Objs -> {"no", "queued", "done"}]
<1>1. CASE p # Finalizer
  BY <1>1 DEF Finish, TypeOK
<1>2. CASE p = Finalizer
  BY <1>2 DEF Finish, TypeOK, Objs
<1> QED
  BY <1>1, <1>2

\* A fault of the application's own making keeps the invariant: it changes
\* nothing else.
LEMMA CrashSafe ==
  ASSUME Inv, fault = NoFault,
         NEW kind \in {"null", "deleted", "doubleDelete"}, NEW t \in Threads,
         NEW c \in Ctxs \cup {NULL}, NEW i \in Iters \cup {NULL},
         Crash(kind, t, c, i),
         c \in disposed \/ i \in shared \/ (i # NULL /\ over[i] = NULL),
         kind = "doubleDelete" => IF i = NULL THEN c \in redisposed ELSE i \in shared
  PROVE  Inv'
<1> USE IdentitiesDiffer DEF Crash, Inv, heap, history
<1>1. TypeOK'
  BY DEF TypeOK, Procs
<1>2. FramesOK' /\ GarbageOK' /\ MadeOK' /\ ContextsOK'
  BY DEF FramesOK, GarbageOK, MadeOK, ContextsOK, In, Reachable, CtxReachable,
     IterReachable, Busy
<1>3. IteratorsOK'
  BY DEF IteratorsOK, HandlesOK, LoneUserOK, OpenOK, AdvancingOK, In
<1>4. FaultsOK'
  BY DEF FaultsOK, FaultsAreMisuse, DoubleDeleteNeedsOverlap,
     FinalizerNeverFaults, NoFault
<1> QED
  BY <1>1, <1>2, <1>3, <1>4

\* What keeps ContextsOK: the contexts stay as they are, and no thread enters
\* or leaves a dispose().
LEMMA ContextsKept ==
  ASSUME TypeOK, FramesOK, ContextsOK,
         UNCHANGED <<made, nativeContext, disposed, redisposed>>,
         \A c \in Ctxs : cxx'[c] = cxx[c],
         \A c \in Ctxs : final[c] # "no" => final'[c] # "no",
         \A p \in Procs :
           \/ frame'[p] = frame[p]
           \/ /\ frame[p].at \notin {"deleteCtx", "clearCtx"}
              /\ frame'[p].at \notin {"deleteCtx", "clearCtx"}
  PROVE  ContextsOK'
<1>1. \A p \in Procs, c \in Ctxs :
        /\ In(p, c, {"clearCtx"})' <=> In(p, c, {"clearCtx"})
        /\ In(p, c, {"deleteCtx", "clearCtx"})' <=> In(p, c, {"deleteCtx", "clearCtx"})
  BY DEF In
<1>2. \A c \in made' \cap Ctxs :
        cxx'[c] = "deleted" \/ ~nativeContext'[c] => c \in disposed' \/ final'[c] # "no"
  BY DEF ContextsOK
<1>3. \A c \in Ctxs : cxx'[c] = "deleted" /\ nativeContext'[c] =>
        \E p \in Procs : In(p, c, {"clearCtx"})'
  BY <1>1 DEF ContextsOK
<1>4. \A t \in Threads : frame'[t].at \in {"deleteCtx", "clearCtx"} => frame'[t].obj \in disposed'
  BY DEF ContextsOK, Procs
<1>5. \A c \in Ctxs \ redisposed', t, u \in Threads :
        In(t, c, {"deleteCtx", "clearCtx"})' /\ In(u, c, {"deleteCtx", "clearCtx"})' => t = u
  BY <1>1 DEF ContextsOK, Procs
<1>6. \A p \in Procs : frame'[p].at = "deleteCtx" =>
        \/ p # Finalizer /\ frame'[p].obj \in redisposed'
        \/ cxx'[frame'[p].obj] = "live"
  <2> SUFFICES ASSUME NEW p \in Procs, frame'[p].at = "deleteCtx"
               PROVE  \/ p # Finalizer /\ frame'[p].obj \in redisposed'
                      \/ cxx'[frame'[p].obj] = "live"
    OBVIOUS
  <2>1. frame'[p] = frame[p]
    OBVIOUS
  <2>2. frame[p].obj \in Ctxs
    BY <2>1 DEF FramesOK, Idle, IterStages
  <2> QED
    BY <2>1, <2>2 DEF ContextsOK
<1> QED
  BY <1>2, <1>3, <1>4, <1>5, <1>6 DEF ContextsOK

\* What keeps GarbageOK: nothing becomes reachable, and nothing is collected.
LEMMA GarbageKept ==
  ASSUME GarbageOK, UNCHANGED <<made, held, heldNode, node>>,
         \A t \in Threads : frame'[t].obj \in {frame[t].obj, NULL},
         \A i \in Iters : ctx'[i] \in {ctx[i], NULL},
         \A o \in Objs : final'[o] # "no" => final[o] # "no"
  PROVE  GarbageOK'
<1>1. \A o \in Objs : Busy(o)' => Busy(o)
  BY IdentitiesDiffer DEF Busy
<1>2. \A i \in Iters : IterReachable(i)' => IterReachable(i)
  BY <1>1 DEF IterReachable, Objs
<1>3. \A c \in Ctxs : CtxReachable(c)' => CtxReachable(c)
  BY <1>1, <1>2, IdentitiesDiffer DEF CtxReachable, Objs
<1>4. \A o \in Objs : Reachable(o)' => Reachable(o)
  BY <1>2, <1>3 DEF Reachable, Objs
<1> QED
  BY <1>4 DEF GarbageOK

\* The invariant holds at the start.
LEMMA InitSafe == Init => Inv
<1> SUFFICES ASSUME Init PROVE Inv
  OBVIOUS
<1> USE IdentitiesDiffer DEF Init, Idle, NoFault
<1>1. TypeOK
  BY DEF TypeOK, Stages
<1>2. FramesOK /\ GarbageOK /\ MadeOK
  BY DEF FramesOK, GarbageOK, MadeOK, Procs, Objs, Ctxs
<1>3. ContextsOK /\ IteratorsOK
  BY DEF ContextsOK, IteratorsOK, HandlesOK, LoneUserOK, OpenOK, AdvancingOK, In,
     Procs, Objs, Ctxs
<1>4. FaultsOK
  BY DEF FaultsOK, FaultsAreMisuse, DoubleDeleteNeedsOverlap,
     FinalizerNeverFaults, Procs
<1> QED
  BY <1>1, <1>2, <1>3, <1>4 DEF Inv

\* Every step of the application, the collector and the finalizer thread keeps
\* the invariant.
LEMMA NextSafe == Inv /\ [Next]_vars => Inv'
<1>1. ASSUME Inv, UNCHANGED vars PROVE Inv'
  BY <1>1 DEF Inv, vars, heap, history, TypeOK, FramesOK, GarbageOK, MadeOK,
     ContextsOK, IteratorsOK, HandlesOK, LoneUserOK, OpenOK, AdvancingOK, In,
     Reachable, CtxReachable, IterReachable, Busy, FaultsOK, FaultsAreMisuse,
     DoubleDeleteNeedsOverlap, FinalizerNeverFaults
<1>2. ASSUME Inv, Next PROVE Inv'
  <2> USE IdentitiesDiffer DEF Inv, IteratorsOK, Procs, Objs, Ctxs, Stages,
        Borrowing, CtxStages, IterStages, Idle, NoFault, heap, history
  <2>1. fault = NoFault /\ Inv
    BY <1>2 DEF Next
  <2>2. ASSUME NEW c \in Ctxs, NewContext(c) PROVE Inv'
      <3>1. TypeOK'
        BY <2>1, <2>2 DEF NewContext, TypeOK, FramesOK
      <3>2. FramesOK'
        BY <2>1, <2>2 DEF NewContext, TypeOK, FramesOK
      <3>3. GarbageOK'
        BY <2>1, <2>2 DEF NewContext, TypeOK, FramesOK, GarbageOK, Reachable,
           CtxReachable, IterReachable, Busy
      <3>4. MadeOK'
        BY <2>1, <2>2 DEF NewContext, TypeOK, FramesOK, MadeOK
      <3>5. ContextsOK'
        BY <2>1, <2>2 DEF NewContext, TypeOK, FramesOK, ContextsOK, In
      <3>6. HandlesOK'
        BY <2>1, <2>2 DEF NewContext, TypeOK, FramesOK, HandlesOK
      <3>7. LoneUserOK'
        BY <2>1, <2>2 DEF NewContext, TypeOK, FramesOK, LoneUserOK
      <3>8. OpenOK'
        BY <2>1, <2>2 DEF NewContext, TypeOK, FramesOK, OpenOK, In
      <3>9. AdvancingOK'
        BY <2>1, <2>2 DEF NewContext, TypeOK, FramesOK, AdvancingOK
      <3>10. FaultsOK'
        BY <2>1, <2>2 DEF NewContext, FaultsOK, FaultsAreMisuse,
           DoubleDeleteNeedsOverlap, FinalizerNeverFaults
      <3> QED
        BY <3>1, <3>2, <3>3, <3>4, <3>5, <3>6, <3>7, <3>8, <3>9, <3>10
  <2>3. ASSUME NEW c \in JvmCtxs, NEW i \in Iters, JvmIterate(c, i) PROVE Inv'
      <3>1. TypeOK'
        <4>1. CASE Attach(i, c, NULL)
          BY <2>1, <2>3, <4>1 DEF JvmIterate, Attach, TypeOK, FramesOK
        <4>2. CASE i \in Iters \ made /\ UNCHANGED <<iter, ctx, node, over>>
          BY <2>1, <2>3, <4>2 DEF JvmIterate, Attach, TypeOK, FramesOK
        <4> QED
          BY <2>1, <2>3, <4>1, <4>2 DEF JvmIterate, Attach
      <3>2. FramesOK'
        BY <2>1, <2>3 DEF JvmIterate, Attach, TypeOK, FramesOK
      <3>3. GarbageOK'
        BY <2>1, <2>3 DEF JvmIterate, Attach, TypeOK, FramesOK, GarbageOK,
           MadeOK, Reachable, CtxReachable, IterReachable, Busy
      <3>4. MadeOK'
        BY <2>1, <2>3 DEF JvmIterate, Attach, TypeOK, FramesOK, MadeOK
      <3>5. ContextsOK'
        BY <2>1, <2>3 DEF JvmIterate, Attach, TypeOK, FramesOK, ContextsOK, In
      <3>6. HandlesOK'
        <4>1. UNCHANGED <<frame, shared>>
          BY <2>3 DEF JvmIterate
        <4>2. \A j \in Iters \ {i} : iter'[j] = iter[j] /\ cxx'[j] = cxx[j]
          BY <2>1, <2>3 DEF JvmIterate, Attach, TypeOK
        <4>3. \A q \in Procs : frame[q].at \in IterStages =>
                frame[q].obj \in Iters \ {i}
          BY <2>1, <2>3 DEF JvmIterate, Attach, FramesOK
        <4>4. iter'[i] => cxx'[i] = "live"
          BY <2>1, <2>3 DEF JvmIterate, Attach, TypeOK, HandlesOK
        <4> QED
          BY <2>1, <4>1, <4>2, <4>3, <4>4 DEF HandlesOK
      <3>7. LoneUserOK'
        BY <2>1, <2>3 DEF JvmIterate, Attach, TypeOK, FramesOK, LoneUserOK
      <3>8. OpenOK'
        BY <2>1, <2>3 DEF JvmIterate, Attach, TypeOK, FramesOK, OpenOK, In
      <3>9. AdvancingOK'
        BY <2>1, <2>3 DEF JvmIterate, Attach, TypeOK, FramesOK, AdvancingOK
      <3>10. FaultsOK'
        BY <2>1, <2>3 DEF JvmIterate, Attach, FaultsOK, FaultsAreMisuse,
           DoubleDeleteNeedsOverlap, FinalizerNeverFaults
      <3> QED
        BY <3>1, <3>2, <3>3, <3>4, <3>5, <3>6, <3>7, <3>8, <3>9, <3>10
  <2>4. ASSUME NEW i \in Iters, NEW n \in ExtCtxs \cup {NULL}, HollowIterator(i,
     n) PROVE Inv'
      <3>1. TypeOK'
        BY <2>1, <2>4 DEF HollowIterator, TypeOK, FramesOK
      <3>2. FramesOK'
        BY <2>1, <2>4 DEF HollowIterator, TypeOK, FramesOK
      <3>3. GarbageOK'
        BY <2>1, <2>4 DEF HollowIterator, TypeOK, FramesOK, GarbageOK, MadeOK,
           Reachable, CtxReachable, IterReachable, Busy
      <3>4. MadeOK'
        BY <2>1, <2>4 DEF HollowIterator, TypeOK, FramesOK, MadeOK
      <3>5. ContextsOK'
        BY <2>1, <2>4 DEF HollowIterator, TypeOK, FramesOK, ContextsOK, In
      <3>6. HandlesOK'
        BY <2>1, <2>4 DEF HollowIterator, TypeOK, FramesOK, HandlesOK
      <3>7. LoneUserOK'
        BY <2>1, <2>4 DEF HollowIterator, TypeOK, FramesOK, LoneUserOK
      <3>8. OpenOK'
        BY <2>1, <2>4 DEF HollowIterator, TypeOK, FramesOK, OpenOK, In
      <3>9. AdvancingOK'
        BY <2>1, <2>4 DEF HollowIterator, TypeOK, FramesOK, AdvancingOK
      <3>10. FaultsOK'
        BY <2>1, <2>4 DEF HollowIterator, FaultsOK, FaultsAreMisuse,
           DoubleDeleteNeedsOverlap, FinalizerNeverFaults
      <3> QED
        BY <3>1, <3>2, <3>3, <3>4, <3>5, <3>6, <3>7, <3>8, <3>9, <3>10
  <2>5. ASSUME NEW t \in Threads, NEW op \in Borrowing, NEW c \in Ctxs,
     Borrow(t, op, c) PROVE Inv'
    <3>1. CASE nativeContext[c] /\ Goto(t, op, c)
        <4>1. TypeOK'
          BY <2>1, <2>5, <3>1 DEF Borrow, Goto, CanCall, TypeOK, FramesOK
        <4>2. FramesOK'
          BY <2>1, <2>5, <3>1 DEF Borrow, Goto, CanCall, TypeOK, FramesOK
        <4>3. GarbageOK'
          BY <2>1, <2>5, <3>1 DEF Borrow, Goto, CanCall, TypeOK, FramesOK,
             GarbageOK, Reachable, CtxReachable, IterReachable, Busy
        <4>4. MadeOK'
          BY <2>1, <2>5, <3>1 DEF Borrow, Goto, CanCall, TypeOK, FramesOK,
             MadeOK
        <4>5. ContextsOK'
          BY <2>1, <2>5, <3>1 DEF Borrow, Goto, CanCall, TypeOK, FramesOK,
             ContextsOK, In
        <4>6. HandlesOK'
          BY <2>1, <2>5, <3>1 DEF Borrow, Goto, CanCall, TypeOK, FramesOK,
             HandlesOK
        <4>7. LoneUserOK'
          BY <2>1, <2>5, <3>1 DEF Borrow, Goto, CanCall, TypeOK, FramesOK,
             LoneUserOK
        <4>8. OpenOK'
          BY <2>1, <2>5, <3>1 DEF Borrow, Goto, CanCall, TypeOK, FramesOK,
             OpenOK, In
        <4>9. AdvancingOK'
          BY <2>1, <2>5, <3>1 DEF Borrow, Goto, CanCall, TypeOK, FramesOK,
             AdvancingOK
        <4>10. FaultsOK'
          BY <2>1, <2>5, <3>1 DEF Borrow, Goto, CanCall, FaultsOK,
             FaultsAreMisuse, DoubleDeleteNeedsOverlap, FinalizerNeverFaults
        <4> QED
          BY <4>1, <4>2, <4>3, <4>4, <4>5, <4>6, <4>7, <4>8, <4>9, <4>10
    <3>2. CASE ~nativeContext[c] /\ Crash("null", t, c, NULL)
      <4>1. c \in disposed
        BY <2>5, <2>1, <3>2 DEF Borrow, CanCall, TypeOK, ContextsOK, GarbageOK,
           Reachable, CtxReachable
      <4> QED
        BY <2>1, <3>2, <4>1, CrashSafe
    <3> QED
      BY <2>5, <3>1, <3>2 DEF Borrow
  <2>6. ASSUME NEW t \in Threads, UseDeleted(t) PROVE Inv'
    <3>1. frame[t].obj \in Ctxs \cap disposed
      BY <2>6, <2>1 DEF UseDeleted, TypeOK, FramesOK, ContextsOK, GarbageOK,
         Reachable, CtxReachable, Busy
    <3> QED
      BY <2>6, <2>1, <3>1, CrashSafe DEF UseDeleted
  <2>7. ASSUME NEW t \in Threads, UseContext(t) PROVE Inv'
      <3>1. TypeOK'
        BY <2>1, <2>7 DEF UseContext, Return, TypeOK, FramesOK
      <3>2. FramesOK'
        BY <2>1, <2>7 DEF UseContext, Return, TypeOK, FramesOK
      <3>3. GarbageOK'
        BY <2>1, <2>7 DEF UseContext, Return, TypeOK, FramesOK, GarbageOK,
           Reachable, CtxReachable, IterReachable, Busy
      <3>4. MadeOK'
        BY <2>1, <2>7 DEF UseContext, Return, TypeOK, FramesOK, MadeOK
      <3>5. ContextsOK'
        BY <2>1, <2>7 DEF UseContext, Return, TypeOK, FramesOK, ContextsOK, In
      <3>6. HandlesOK'
        BY <2>1, <2>7 DEF UseContext, Return, TypeOK, FramesOK, HandlesOK
      <3>7. LoneUserOK'
        BY <2>1, <2>7 DEF UseContext, Return, TypeOK, FramesOK, LoneUserOK
      <3>8. OpenOK'
        BY <2>1, <2>7 DEF UseContext, Return, TypeOK, FramesOK, OpenOK, In
      <3>9. AdvancingOK'
        BY <2>1, <2>7 DEF UseContext, Return, TypeOK, FramesOK, AdvancingOK
      <3>10. FaultsOK'
        BY <2>1, <2>7 DEF UseContext, Return, FaultsOK, FaultsAreMisuse,
           DoubleDeleteNeedsOverlap, FinalizerNeverFaults
      <3> QED
        BY <3>1, <3>2, <3>3, <3>4, <3>5, <3>6, <3>7, <3>8, <3>9, <3>10
  <2>8. ASSUME NEW t \in Threads, UseRoot(t) PROVE Inv'
      <3>1. TypeOK'
        BY <2>1, <2>8 DEF UseRoot, Return, TypeOK, FramesOK
      <3>2. FramesOK'
        BY <2>1, <2>8 DEF UseRoot, Return, TypeOK, FramesOK
      <3>3. GarbageOK'
        BY <2>1, <2>8 DEF UseRoot, Return, TypeOK, FramesOK, GarbageOK,
           Reachable, CtxReachable, IterReachable, Busy
      <3>4. MadeOK'
        BY <2>1, <2>8 DEF UseRoot, Return, TypeOK, FramesOK, MadeOK
      <3>5. ContextsOK'
        BY <2>1, <2>8 DEF UseRoot, Return, TypeOK, FramesOK, ContextsOK, In
      <3>6. HandlesOK'
        BY <2>1, <2>8 DEF UseRoot, Return, TypeOK, FramesOK, HandlesOK
      <3>7. LoneUserOK'
        BY <2>1, <2>8 DEF UseRoot, Return, TypeOK, FramesOK, LoneUserOK
      <3>8. OpenOK'
        BY <2>1, <2>8 DEF UseRoot, Return, TypeOK, FramesOK, OpenOK, In
      <3>9. AdvancingOK'
        BY <2>1, <2>8 DEF UseRoot, Return, TypeOK, FramesOK, AdvancingOK
      <3>10. FaultsOK'
        BY <2>1, <2>8 DEF UseRoot, Return, FaultsOK, FaultsAreMisuse,
           DoubleDeleteNeedsOverlap, FinalizerNeverFaults
      <3> QED
        BY <3>1, <3>2, <3>3, <3>4, <3>5, <3>6, <3>7, <3>8, <3>9, <3>10
  <2>9. ASSUME NEW t \in Threads, NEW i \in Iters, UseForIterator(t, i) PROVE
     Inv'
      <3>1. TypeOK'
        BY <2>1, <2>9 DEF UseForIterator, Attach, Return, TypeOK, FramesOK
      <3>2. FramesOK'
        BY <2>1, <2>9 DEF UseForIterator, Attach, Return, TypeOK, FramesOK
      <3>3. GarbageOK'
        BY <2>1, <2>9 DEF UseForIterator, Attach, Return, TypeOK, FramesOK,
           GarbageOK, Reachable, CtxReachable, IterReachable, Busy
      <3>4. MadeOK'
        BY <2>1, <2>9 DEF UseForIterator, Attach, Return, TypeOK, FramesOK,
           MadeOK
      <3>5. ContextsOK'
        BY <2>1, <2>9 DEF UseForIterator, Attach, Return, TypeOK, FramesOK,
           ContextsOK, In
      <3>6. HandlesOK'
        BY <2>1, <2>9 DEF UseForIterator, Attach, Return, TypeOK, FramesOK,
           HandlesOK
      <3>7. LoneUserOK'
        BY <2>1, <2>9 DEF UseForIterator, Attach, Return, TypeOK, FramesOK,
           LoneUserOK
      <3>8. OpenOK'
        BY <2>1, <2>9 DEF UseForIterator, Attach, Return, TypeOK, FramesOK,
           OpenOK, In
      <3>9. AdvancingOK'
        BY <2>1, <2>9 DEF UseForIterator, Attach, Return, TypeOK, FramesOK,
           AdvancingOK
      <3>10. FaultsOK'
        BY <2>1, <2>9 DEF UseForIterator, Attach, Return, FaultsOK,
           FaultsAreMisuse, DoubleDeleteNeedsOverlap, FinalizerNeverFaults
      <3> QED
        BY <3>1, <3>2, <3>3, <3>4, <3>5, <3>6, <3>7, <3>8, <3>9, <3>10
  <2>10. ASSUME NEW t \in Threads, NEW c \in Ctxs, Dispose(t, c) PROVE Inv'
      <3>1. TypeOK'
        BY <2>1, <2>10 DEF Dispose, Goto, TypeOK, FramesOK
      <3>2. FramesOK'
        BY <2>1, <2>10 DEF Dispose, Goto, TypeOK, FramesOK
      <3>3. GarbageOK'
        BY <2>1, <2>10 DEF Dispose, Goto, TypeOK, FramesOK, GarbageOK,
           Reachable, CtxReachable, IterReachable, Busy
      <3>4. MadeOK'
        BY <2>1, <2>10 DEF Dispose, Goto, TypeOK, FramesOK, MadeOK
      <3>5. ContextsOK'
        BY <2>1, <2>10 DEF Dispose, Goto, TypeOK, FramesOK, ContextsOK, In,
           MadeOK, GarbageOK, Reachable, CtxReachable, IterReachable, Busy
      <3>6. HandlesOK'
        BY <2>1, <2>10 DEF Dispose, Goto, TypeOK, FramesOK, HandlesOK
      <3>7. LoneUserOK'
        BY <2>1, <2>10 DEF Dispose, Goto, TypeOK, FramesOK, LoneUserOK
      <3>8. OpenOK'
        BY <2>1, <2>10 DEF Dispose, Goto, TypeOK, FramesOK, OpenOK, In
      <3>9. AdvancingOK'
        BY <2>1, <2>10 DEF Dispose, Goto, TypeOK, FramesOK, AdvancingOK
      <3>10. FaultsOK'
        BY <2>1, <2>10 DEF Dispose, Goto, FaultsOK, FaultsAreMisuse,
           DoubleDeleteNeedsOverlap, FinalizerNeverFaults
      <3> QED
        BY <3>1, <3>2, <3>3, <3>4, <3>5, <3>6, <3>7, <3>8, <3>9, <3>10
  <2>11. ASSUME NEW c \in Ctxs, FinalizeContext(c) PROVE Inv'
      <3>1. TypeOK'
        BY <2>1, <2>11 DEF FinalizeContext, Goto, TypeOK, FramesOK
      <3>2. FramesOK'
        BY <2>1, <2>11 DEF FinalizeContext, Goto, TypeOK, FramesOK, GarbageOK,
           Reachable, CtxReachable, IterReachable, Busy, MadeOK, ContextsOK, In,
           HandlesOK, LoneUserOK, OpenOK, AdvancingOK
      <3>3. GarbageOK'
        BY <2>1, <2>11 DEF FinalizeContext, Goto, TypeOK, FramesOK, GarbageOK,
           Reachable, CtxReachable, IterReachable, Busy
      <3>4. MadeOK'
        BY <2>1, <2>11 DEF FinalizeContext, Goto, TypeOK, FramesOK, MadeOK
      <3>5. ContextsOK'
        BY <2>1, <2>11 DEF FinalizeContext, Goto, TypeOK, FramesOK, GarbageOK,
           Reachable, CtxReachable, IterReachable, Busy, MadeOK, ContextsOK, In,
           HandlesOK, LoneUserOK, OpenOK, AdvancingOK
      <3>6. HandlesOK'
        BY <2>1, <2>11 DEF FinalizeContext, Goto, TypeOK, FramesOK, HandlesOK
      <3>7. LoneUserOK'
        BY <2>1, <2>11 DEF FinalizeContext, Goto, TypeOK, FramesOK, LoneUserOK
      <3>8. OpenOK'
        BY <2>1, <2>11 DEF FinalizeContext, Goto, TypeOK, FramesOK, OpenOK, In
      <3>9. AdvancingOK'
        BY <2>1, <2>11 DEF FinalizeContext, Goto, TypeOK, FramesOK, AdvancingOK
      <3>10. FaultsOK'
        BY <2>1, <2>11 DEF FinalizeContext, Goto, FaultsOK, FaultsAreMisuse,
           DoubleDeleteNeedsOverlap, FinalizerNeverFaults
      <3> QED
        BY <3>1, <3>2, <3>3, <3>4, <3>5, <3>6, <3>7, <3>8, <3>9, <3>10
  <2>12. ASSUME NEW p \in Procs, DeleteContext(p) PROVE Inv'
    <3>1. CASE cxx[frame[p].obj] = "live"
        <4>1. TypeOK'
          BY <2>1, <2>12, <3>1 DEF DeleteContext, Goto, TypeOK, FramesOK
        <4>2. FramesOK'
          BY <2>1, <2>12, <3>1 DEF DeleteContext, Goto, TypeOK, FramesOK
        <4>3. GarbageOK'
          BY <2>1, <2>12, <3>1 DEF DeleteContext, Goto, TypeOK, FramesOK,
             GarbageOK, Reachable, CtxReachable, IterReachable, Busy
        <4>4. MadeOK'
          BY <2>1, <2>12, <3>1 DEF DeleteContext, Goto, TypeOK, FramesOK, MadeOK
        <4>5. ContextsOK'
          <5> DEFINE d == frame[p].obj
          <5>1. d \in Ctxs \cap made /\ frame[p].at = "deleteCtx"
            BY <2>1, <2>12 DEF DeleteContext, FramesOK
          <5>2. /\ UNCHANGED <<made, nativeContext, final, disposed, redisposed>>
                /\ \A q \in Procs \ {p} : frame'[q] = frame[q]
                /\ frame'[p] = [at |-> "clearCtx", obj |-> d]
                /\ \A c \in Ctxs \ {d} : cxx'[c] = cxx[c]
                /\ cxx'[d] = "deleted"
            BY <2>1, <2>12, <3>1, <5>1 DEF DeleteContext, Goto, TypeOK
          <5>3. \A c \in made' \cap Ctxs :
                  cxx'[c] = "deleted" \/ ~nativeContext'[c] =>
                    c \in disposed' \/ final'[c] # "no"
            BY <2>1, <5>1, <5>2 DEF ContextsOK, FramesOK
          <5>4. \A c \in Ctxs : cxx'[c] = "deleted" /\ nativeContext'[c] =>
                  \E q \in Procs : In(q, c, {"clearCtx"})'
            BY <2>1, <5>1, <5>2 DEF ContextsOK, In
          <5>5. \A t \in Threads : frame'[t].at \in {"deleteCtx", "clearCtx"} =>
                  frame'[t].obj \in disposed'
            BY <2>1, <5>1, <5>2 DEF ContextsOK
          <5>6. \A q \in Procs, c \in Ctxs :
                  In(q, c, {"deleteCtx", "clearCtx"})' => In(q, c, {"deleteCtx", "clearCtx"})
            BY <5>1, <5>2 DEF In
          <5>7. \A q \in Procs \ {p} :
                  frame[q].at = "deleteCtx" /\ frame[q].obj = d =>
                    q # Finalizer /\ d \in redisposed
            BY <2>1, <5>1 DEF ContextsOK, In, FramesOK, GarbageOK, Reachable,
               CtxReachable, Busy
          <5>8. \A q \in Procs : frame'[q].at = "deleteCtx" =>
                  \/ q # Finalizer /\ frame'[q].obj \in redisposed'
                  \/ cxx'[frame'[q].obj] = "live"
            BY <2>1, <5>1, <5>2, <5>7 DEF ContextsOK, FramesOK
          <5>9. \A c \in Ctxs \ redisposed', t, u \in Threads :
                  In(t, c, {"deleteCtx", "clearCtx"})' /\ In(u, c, {"deleteCtx", "clearCtx"})'
                    => t = u
            BY <2>1, <5>2, <5>6 DEF ContextsOK
          <5> QED
            BY <5>3, <5>4, <5>5, <5>8, <5>9 DEF ContextsOK
        <4>6. HandlesOK'
          BY <2>1, <2>12, <3>1 DEF DeleteContext, Goto, TypeOK, FramesOK,
             HandlesOK
        <4>7. LoneUserOK'
          BY <2>1, <2>12, <3>1 DEF DeleteContext, Goto, TypeOK, FramesOK,
             LoneUserOK
        <4>8. OpenOK'
          BY <2>1, <2>12, <3>1 DEF DeleteContext, Goto, TypeOK, FramesOK,
             OpenOK, In
        <4>9. AdvancingOK'
          BY <2>1, <2>12, <3>1 DEF DeleteContext, Goto, TypeOK, FramesOK,
             AdvancingOK
        <4>10. FaultsOK'
          BY <2>1, <2>12, <3>1 DEF DeleteContext, Goto, FaultsOK,
             FaultsAreMisuse, DoubleDeleteNeedsOverlap, FinalizerNeverFaults
        <4> QED
          BY <4>1, <4>2, <4>3, <4>4, <4>5, <4>6, <4>7, <4>8, <4>9, <4>10
    <3>2. CASE cxx[frame[p].obj] = "deleted"
      <4>1. p \in Threads /\ frame[p].obj \in Ctxs \cap redisposed \cap disposed
        BY <2>12, <2>1, <3>2 DEF DeleteContext, TypeOK, FramesOK, ContextsOK
      <4> QED
        BY <2>12, <2>1, <3>2, <4>1, CrashSafe DEF DeleteContext
    <3> QED
      BY <2>12, <3>1, <3>2 DEF DeleteContext
  <2>13. ASSUME NEW p \in Procs, ClearContext(p) PROVE Inv'
      <3>1. TypeOK'
        BY <2>1, <2>13 DEF ClearContext, Return, Finalized, TypeOK, FramesOK
      <3>2. FramesOK'
        BY <2>1, <2>13 DEF ClearContext, Return, Finalized, TypeOK, FramesOK
      <3>3. GarbageOK'
        BY <2>1, <2>13 DEF ClearContext, Return, Finalized, TypeOK, FramesOK,
           GarbageOK, Reachable, CtxReachable, IterReachable, Busy
      <3>4. MadeOK'
        BY <2>1, <2>13 DEF ClearContext, Return, Finalized, TypeOK, FramesOK,
           MadeOK
      <3>5. ContextsOK'
        BY <2>1, <2>13 DEF ClearContext, Return, Finalized, TypeOK, FramesOK,
           ContextsOK, In
      <3>6. HandlesOK'
        BY <2>1, <2>13 DEF ClearContext, Return, Finalized, TypeOK, FramesOK,
           HandlesOK
      <3>7. LoneUserOK'
        BY <2>1, <2>13 DEF ClearContext, Return, Finalized, TypeOK, FramesOK,
           LoneUserOK
      <3>8. OpenOK'
        BY <2>1, <2>13 DEF ClearContext, Return, Finalized, TypeOK, FramesOK,
           OpenOK, In
      <3>9. AdvancingOK'
        BY <2>1, <2>13 DEF ClearContext, Return, Finalized, TypeOK, FramesOK,
           AdvancingOK
      <3>10. FaultsOK'
        BY <2>1, <2>13 DEF ClearContext, Return, Finalized, FaultsOK,
           FaultsAreMisuse, DoubleDeleteNeedsOverlap, FinalizerNeverFaults
      <3> QED
        BY <3>1, <3>2, <3>3, <3>4, <3>5, <3>6, <3>7, <3>8, <3>9, <3>10
  <2>14. ASSUME NEW t \in Threads, NEW i \in Iters, Lookahead(t, i) PROVE Inv'
      <3>1. TypeOK'
        BY <2>1, <2>14 DEF Lookahead, EnterIter, Goto, TypeOK, FramesOK
      <3>2. FramesOK'
        BY <2>1, <2>14 DEF Lookahead, EnterIter, Goto, TypeOK, FramesOK
      <3>3. GarbageOK'
        BY <2>1, <2>14 DEF Lookahead, EnterIter, Goto, TypeOK, FramesOK,
           GarbageOK, Reachable, CtxReachable, IterReachable, Busy
      <3>4. MadeOK'
        BY <2>1, <2>14 DEF Lookahead, EnterIter, Goto, TypeOK, FramesOK, MadeOK
      <3>5. ContextsOK'
        BY <2>1, <2>14 DEF Lookahead, EnterIter, Goto, TypeOK, FramesOK,
           ContextsOK, In
      <3>6. HandlesOK'
        BY <2>1, <2>14 DEF Lookahead, EnterIter, Goto, TypeOK, FramesOK,
           HandlesOK
      <3>7. LoneUserOK'
        BY <2>1, <2>14 DEF Lookahead, EnterIter, Goto, TypeOK, FramesOK,
           LoneUserOK, Busy
      <3>8. OpenOK'
        BY <2>1, <2>14 DEF Lookahead, EnterIter, Goto, TypeOK, FramesOK, OpenOK,
           In
      <3>9. AdvancingOK'
        BY <2>1, <2>14 DEF Lookahead, EnterIter, Goto, TypeOK, FramesOK,
           AdvancingOK, LoneUserOK, MadeOK, HandlesOK, OpenOK, In, Busy
      <3>10. FaultsOK'
        <4>1. CASE iter[i]
          BY <2>1, <2>14, <4>1 DEF Lookahead, EnterIter, Goto, FaultsOK,
             FaultsAreMisuse, DoubleDeleteNeedsOverlap, FinalizerNeverFaults
        <4>2. CASE ~iter[i]
          <5>1. i \in made /\ final[i] = "no" /\ ~closed[i]
            BY <2>1, <2>14 DEF Lookahead, EnterIter, TypeOK, GarbageOK, Reachable,
               IterReachable
          <5>2. i \in shared' \/ over[i] = NULL
            BY <2>1, <2>14, <4>2, <5>1 DEF Lookahead, EnterIter, TypeOK, OpenOK, In,
               Busy
          <5> QED
            BY <2>1, <2>14, <4>2, <5>2 DEF Lookahead, EnterIter, FaultsOK, TypeOK,
               FaultsAreMisuse, DoubleDeleteNeedsOverlap, FinalizerNeverFaults
        <4> QED
          BY <2>1, <2>14, <4>1, <4>2 DEF Lookahead, EnterIter, Goto
      <3> QED
        BY <3>1, <3>2, <3>3, <3>4, <3>5, <3>6, <3>7, <3>8, <3>9, <3>10
  <2>15. ASSUME NEW t \in Threads, AdvanceDeleted(t) PROVE Inv'
    <3>1. frame[t].obj \in Iters /\ over[frame[t].obj] \in Ctxs
      BY <2>15, <2>1 DEF AdvanceDeleted, TypeOK, FramesOK, AdvancingOK
    <3>2. frame[t].obj \notin shared => over[frame[t].obj] \in disposed
      BY <2>15, <2>1, <3>1 DEF AdvanceDeleted, TypeOK, FramesOK, ContextsOK, MadeOK,
         HandlesOK, OpenOK, LoneUserOK, AdvancingOK, In, GarbageOK, Reachable,
         CtxReachable, IterReachable, Busy
    <3> QED
      BY <2>15, <2>1, <3>1, <3>2, CrashSafe DEF AdvanceDeleted
  <2>16. ASSUME NEW t \in Threads, Advance(t) PROVE Inv'
      <3>1. TypeOK'
        BY <2>1, <2>16 DEF Advance, Goto, Return, TypeOK, FramesOK
      <3>2. FramesOK'
        BY <2>1, <2>16 DEF Advance, Goto, Return, TypeOK, FramesOK
      <3>3. GarbageOK'
        BY <2>1, <2>16 DEF Advance, Goto, Return, TypeOK, FramesOK, GarbageOK,
           Reachable, CtxReachable, IterReachable, Busy
      <3>4. MadeOK'
        BY <2>1, <2>16 DEF Advance, Goto, Return, TypeOK, FramesOK, MadeOK
      <3>5. ContextsOK'
        BY <2>1, <2>16, ContextsKept DEF Advance, Goto, Return, TypeOK
      <3>6. HandlesOK'
        BY <2>1, <2>16 DEF Advance, Goto, Return, TypeOK, FramesOK, HandlesOK
      <3>7. LoneUserOK'
        BY <2>1, <2>16 DEF Advance, Goto, Return, TypeOK, FramesOK, LoneUserOK
      <3>8. OpenOK'
        BY <2>1, <2>16 DEF Advance, Goto, Return, TypeOK, FramesOK, OpenOK, In
      <3>9. AdvancingOK'
        BY <2>1, <2>16 DEF Advance, Goto, Return, TypeOK, FramesOK, AdvancingOK
      <3>10. FaultsOK'
        BY <2>1, <2>16 DEF Advance, Goto, Return, FaultsOK, FaultsAreMisuse,
           DoubleDeleteNeedsOverlap, FinalizerNeverFaults
      <3> QED
        BY <3>1, <3>2, <3>3, <3>4, <3>5, <3>6, <3>7, <3>8, <3>9, <3>10
  <2>17. ASSUME NEW t \in Threads, LookupNull(t) PROVE Inv'
    <3>1. frame[t].obj \in Iters /\ ctx[frame[t].obj] \in Ctxs \cup {NULL}
      BY <2>17, <2>1 DEF LookupNull, TypeOK, FramesOK
    <3>2. frame[t].obj \notin shared => ctx[frame[t].obj] \in disposed
      BY <2>17, <2>1, <3>1 DEF LookupNull, TypeOK, FramesOK, ContextsOK, MadeOK,
         OpenOK, LoneUserOK, AdvancingOK, In, GarbageOK, Reachable,
         CtxReachable, IterReachable, Busy
    <3> QED
      BY <2>17, <2>1, <3>1, <3>2, CrashSafe DEF LookupNull
  <2>18. ASSUME NEW t \in Threads, LookupDeleted(t) PROVE Inv'
    <3>1. frame[t].obj \in Iters /\ ctx[frame[t].obj] \in Ctxs \cup {NULL}
      BY <2>18, <2>1 DEF LookupDeleted, TypeOK, FramesOK
    <3>2. frame[t].obj \notin shared => ctx[frame[t].obj] \in disposed
      BY <2>18, <2>1, <3>1 DEF LookupDeleted, TypeOK, FramesOK, ContextsOK, MadeOK,
         OpenOK, LoneUserOK, AdvancingOK, In, GarbageOK, Reachable,
         CtxReachable, IterReachable, Busy
    <3> QED
      BY <2>18, <2>1, <3>1, <3>2, CrashSafe DEF LookupDeleted
  <2>19. ASSUME NEW t \in Threads, Lookup(t) PROVE Inv'
      <3>1. TypeOK'
        BY <2>1, <2>19 DEF Lookup, Return, TypeOK, FramesOK, MadeOK, AdvancingOK
      <3>2. FramesOK'
        BY <2>1, <2>19 DEF Lookup, Return, TypeOK, FramesOK
      <3>3. GarbageOK'
        BY <2>1, <2>19 DEF Lookup, Return, TypeOK, FramesOK, GarbageOK,
           Reachable, CtxReachable, IterReachable, Busy
      <3>4. MadeOK'
        BY <2>1, <2>19 DEF Lookup, Return, TypeOK, FramesOK, MadeOK
      <3>5. ContextsOK'
        BY <2>1, <2>19 DEF Lookup, Return, TypeOK, FramesOK, ContextsOK, In
      <3>6. HandlesOK'
        BY <2>1, <2>19 DEF Lookup, Return, TypeOK, FramesOK, HandlesOK
      <3>7. LoneUserOK'
        BY <2>1, <2>19 DEF Lookup, Return, TypeOK, FramesOK, LoneUserOK
      <3>8. OpenOK'
        BY <2>1, <2>19 DEF Lookup, Return, TypeOK, FramesOK, OpenOK, In
      <3>9. AdvancingOK'
        BY <2>1, <2>19 DEF Lookup, Return, TypeOK, FramesOK, AdvancingOK
      <3>10. FaultsOK'
        BY <2>1, <2>19 DEF Lookup, Return, FaultsOK, FaultsAreMisuse,
           DoubleDeleteNeedsOverlap, FinalizerNeverFaults
      <3> QED
        BY <3>1, <3>2, <3>3, <3>4, <3>5, <3>6, <3>7, <3>8, <3>9, <3>10
  <2>20. ASSUME NEW t \in Threads, NEW i \in Iters, Close(t, i) PROVE Inv'
      <3>1. TypeOK'
        BY <2>1, <2>20, FinishType DEF Close, EnterIter, NativeDispose, Goto,
           Return, TypeOK, FramesOK, MadeOK, AdvancingOK
      <3>2. FramesOK'
        BY <2>1, <2>20 DEF Close, EnterIter, NativeDispose, Finish, Goto,
           Return, TypeOK, FramesOK
      <3>3. GarbageOK'
        BY <2>1, <2>20 DEF Close, EnterIter, NativeDispose, Finish, Goto,
           Return, TypeOK, FramesOK, GarbageOK, Reachable, CtxReachable,
           IterReachable, Busy
      <3>4. MadeOK'
        BY <2>1, <2>20 DEF Close, EnterIter, NativeDispose, Finish, Goto,
           Return, TypeOK, FramesOK, MadeOK
      <3>5. ContextsOK'
        BY <2>1, <2>20 DEF Close, EnterIter, NativeDispose, Finish, Goto,
           Return, TypeOK, FramesOK, ContextsOK, In
      <3>6. HandlesOK'
        BY <2>1, <2>20 DEF Close, EnterIter, NativeDispose, Finish, Goto,
           Return, TypeOK, FramesOK, HandlesOK
      <3>7. LoneUserOK'
        BY <2>1, <2>20 DEF Close, EnterIter, NativeDispose, Finish, Goto,
           Return, TypeOK, FramesOK, LoneUserOK, Busy
      <3>8. OpenOK'
        BY <2>1, <2>20 DEF Close, EnterIter, NativeDispose, Finish, Goto,
           Return, TypeOK, FramesOK, OpenOK, In
      <3>9. AdvancingOK'
        BY <2>1, <2>20 DEF Close, EnterIter, NativeDispose, Finish, Goto,
           Return, TypeOK, FramesOK, AdvancingOK, MadeOK, Busy
      <3>10. FaultsOK'
        BY <2>1, <2>20 DEF Close, EnterIter, NativeDispose, Finish, Goto,
           Return, FaultsOK, FaultsAreMisuse, DoubleDeleteNeedsOverlap,
           FinalizerNeverFaults
      <3> QED
        BY <3>1, <3>2, <3>3, <3>4, <3>5, <3>6, <3>7, <3>8, <3>9, <3>10
  <2>21. ASSUME NEW t \in Threads, CloseAtEnd(t) PROVE Inv'
      <3>1. TypeOK'
        BY <2>1, <2>21, FinishType DEF CloseAtEnd, NativeDispose, Goto, Return,
           TypeOK, FramesOK, MadeOK, AdvancingOK
      <3>2. FramesOK'
        BY <2>1, <2>21 DEF CloseAtEnd, NativeDispose, Finish, Goto, Return,
           TypeOK, FramesOK
      <3>3. GarbageOK'
        BY <2>1, <2>21, GarbageKept DEF CloseAtEnd, NativeDispose, Finish, Goto,
           Return, TypeOK
      <3>4. MadeOK'
        BY <2>1, <2>21 DEF CloseAtEnd, NativeDispose, Finish, Goto, Return,
           TypeOK, FramesOK, MadeOK
      <3>5. ContextsOK'
        BY <2>1, <2>21, ContextsKept DEF CloseAtEnd, NativeDispose, Finish, Goto,
           Return, TypeOK
      <3>6. HandlesOK'
        BY <2>1, <2>21 DEF CloseAtEnd, NativeDispose, Finish, Goto, Return,
           TypeOK, FramesOK, HandlesOK
      <3>7. LoneUserOK'
        BY <2>1, <2>21 DEF CloseAtEnd, NativeDispose, Finish, Goto, Return,
           TypeOK, FramesOK, LoneUserOK
      <3>8. OpenOK'
        BY <2>1, <2>21 DEF CloseAtEnd, NativeDispose, Finish, Goto, Return,
           TypeOK, FramesOK, OpenOK, In
      <3>9. AdvancingOK'
        BY <2>1, <2>21 DEF CloseAtEnd, NativeDispose, Finish, Goto, Return,
           TypeOK, FramesOK, AdvancingOK, LoneUserOK, MadeOK, HandlesOK, OpenOK,
           In, Busy
      <3>10. FaultsOK'
        BY <2>1, <2>21 DEF CloseAtEnd, NativeDispose, Finish, Goto, Return,
           FaultsOK, FaultsAreMisuse, DoubleDeleteNeedsOverlap,
           FinalizerNeverFaults
      <3> QED
        BY <3>1, <3>2, <3>3, <3>4, <3>5, <3>6, <3>7, <3>8, <3>9, <3>10
  <2>22. ASSUME NEW i \in Iters, FinalizeIter(i) PROVE Inv'
      <3>1. TypeOK'
        BY <2>1, <2>22, FinishType DEF FinalizeIter, NativeDispose, Goto,
           Return, TypeOK, FramesOK
      <3>2. FramesOK'
        BY <2>1, <2>22 DEF FinalizeIter, NativeDispose, Finish, Goto, Return,
           TypeOK, FramesOK, GarbageOK, Reachable, CtxReachable, IterReachable,
           Busy, MadeOK, ContextsOK, In, HandlesOK, LoneUserOK, OpenOK,
           AdvancingOK
      <3>3. GarbageOK'
        BY <2>1, <2>22 DEF FinalizeIter, NativeDispose, Finish, Goto, Return,
           TypeOK, FramesOK, GarbageOK, Reachable, CtxReachable, IterReachable,
           Busy
      <3>4. MadeOK'
        BY <2>1, <2>22 DEF FinalizeIter, NativeDispose, Finish, Goto, Return,
           TypeOK, FramesOK, MadeOK
      <3>5. ContextsOK'
        BY <2>1, <2>22 DEF FinalizeIter, NativeDispose, Finish, Goto, Return,
           TypeOK, FramesOK, ContextsOK, In
      <3>6. HandlesOK'
        BY <2>1, <2>22 DEF FinalizeIter, NativeDispose, Finish, Goto, Return,
           TypeOK, FramesOK, HandlesOK
      <3>7. LoneUserOK'
        BY <2>1, <2>22 DEF FinalizeIter, NativeDispose, Finish, Goto, Return,
           TypeOK, FramesOK, LoneUserOK
      <3>8. OpenOK'
        BY <2>1, <2>22 DEF FinalizeIter, NativeDispose, Finish, Goto, Return,
           TypeOK, FramesOK, OpenOK, In
      <3>9. AdvancingOK'
        BY <2>1, <2>22 DEF FinalizeIter, NativeDispose, Finish, Goto, Return,
           TypeOK, FramesOK, AdvancingOK
      <3>10. FaultsOK'
        BY <2>1, <2>22 DEF FinalizeIter, NativeDispose, Finish, Goto, Return,
           FaultsOK, FaultsAreMisuse, DoubleDeleteNeedsOverlap,
           FinalizerNeverFaults
      <3> QED
        BY <3>1, <3>2, <3>3, <3>4, <3>5, <3>6, <3>7, <3>8, <3>9, <3>10
  <2>23. ASSUME NEW p \in Procs, ZeroIter(p) PROVE Inv'
      <3>1. TypeOK'
        BY <2>1, <2>23 DEF ZeroIter, Goto, TypeOK, FramesOK
      <3>2. FramesOK'
        BY <2>1, <2>23 DEF ZeroIter, Goto, TypeOK, FramesOK
      <3>3. GarbageOK'
        BY <2>1, <2>23 DEF ZeroIter, Goto, TypeOK, FramesOK, GarbageOK,
           Reachable, CtxReachable, IterReachable, Busy
      <3>4. MadeOK'
        BY <2>1, <2>23 DEF ZeroIter, Goto, TypeOK, FramesOK, MadeOK
      <3>5. ContextsOK'
        BY <2>1, <2>23 DEF ZeroIter, Goto, TypeOK, FramesOK, ContextsOK, In
      <3>6. HandlesOK'
        BY <2>1, <2>23 DEF ZeroIter, Goto, TypeOK, FramesOK, HandlesOK
      <3>7. LoneUserOK'
        BY <2>1, <2>23 DEF ZeroIter, Goto, TypeOK, FramesOK, LoneUserOK
      <3>8. OpenOK'
        BY <2>1, <2>23 DEF ZeroIter, Goto, TypeOK, FramesOK, OpenOK, In
      <3>9. AdvancingOK'
        BY <2>1, <2>23 DEF ZeroIter, Goto, TypeOK, FramesOK, AdvancingOK
      <3>10. FaultsOK'
        BY <2>1, <2>23 DEF ZeroIter, Goto, FaultsOK, FaultsAreMisuse,
           DoubleDeleteNeedsOverlap, FinalizerNeverFaults
      <3> QED
        BY <3>1, <3>2, <3>3, <3>4, <3>5, <3>6, <3>7, <3>8, <3>9, <3>10
  <2>24. ASSUME NEW p \in Procs, DeleteIter(p) PROVE Inv'
    <3>1. CASE cxx[frame[p].obj] = "live"
        <4>1. TypeOK'
          BY <2>1, <2>24, <3>1, FinishType DEF DeleteIter, Return, TypeOK,
             FramesOK, MadeOK, AdvancingOK
        <4>2. FramesOK'
          BY <2>1, <2>24, <3>1 DEF DeleteIter, Finish, Return, TypeOK, FramesOK
        <4>3. GarbageOK'
          BY <2>1, <2>24, <3>1 DEF DeleteIter, Finish, Return, TypeOK, FramesOK,
             GarbageOK, Reachable, CtxReachable, IterReachable, Busy, MadeOK,
             ContextsOK, In, HandlesOK, LoneUserOK, OpenOK, AdvancingOK
        <4>4. MadeOK'
          BY <2>1, <2>24, <3>1 DEF DeleteIter, Finish, Return, TypeOK, FramesOK,
             MadeOK
        <4>5. ContextsOK'
          BY <2>1, <2>24, <3>1, ContextsKept DEF DeleteIter, Finish, Return,
             TypeOK, FramesOK
        <4>6. HandlesOK'
          BY <2>1, <2>24, <3>1, SMTT(30) DEF DeleteIter, Finish, Return, TypeOK,
             FramesOK, GarbageOK, Reachable, CtxReachable, IterReachable, Busy,
             MadeOK, ContextsOK, In, HandlesOK, LoneUserOK, OpenOK, AdvancingOK
        <4>7. LoneUserOK'
          BY <2>1, <2>24, <3>1 DEF DeleteIter, Finish, Return, TypeOK, FramesOK,
             LoneUserOK
        <4>8. OpenOK'
          <5> DEFINE j == frame[p].obj
          <5>1. j \in Iters /\ (closed'[j] \/ final'[j] = "done")
            BY <2>1, <2>24, <3>1 DEF DeleteIter, Finish, TypeOK, FramesOK
          <5>2. \A i \in Iters \ {j} : closed'[i] = closed[i] /\ final'[i] = final[i]
            BY <2>1, <2>24, <3>1 DEF DeleteIter, Finish, TypeOK
          <5>3. \A i \in Iters \ {j}, t \in Threads :
                  In(t, i, {"zeroIter", "deleteIter"}) => In(t, i, {"zeroIter", "deleteIter"})'
            BY <2>1, <2>24, <3>1 DEF DeleteIter, Return, TypeOK, In
          <5>4. UNCHANGED <<shared, over, iter, ctx>>
            BY <2>24, <3>1 DEF DeleteIter
          <5> QED
            BY <2>1, <5>1, <5>2, <5>3, <5>4 DEF OpenOK
        <4>9. AdvancingOK'
          BY <2>1, <2>24, <3>1 DEF DeleteIter, Finish, Return, TypeOK, FramesOK,
             AdvancingOK, LoneUserOK, MadeOK, HandlesOK, OpenOK, In, Busy
        <4>10. FaultsOK'
          BY <2>1, <2>24, <3>1 DEF DeleteIter, Finish, Return, FaultsOK,
             FaultsAreMisuse, DoubleDeleteNeedsOverlap, FinalizerNeverFaults
        <4> QED
          BY <4>1, <4>2, <4>3, <4>4, <4>5, <4>6, <4>7, <4>8, <4>9, <4>10
    <3>2. CASE cxx[frame[p].obj] = "deleted"
      <4>1. p \in Threads /\ frame[p].obj \in Iters \cap shared
        BY <2>24, <2>1, <3>2 DEF DeleteIter, TypeOK, FramesOK, HandlesOK
      <4>2. over[frame[p].obj] \in Ctxs \cup {NULL}
        BY <2>1, <4>1 DEF TypeOK
      <4> QED
        BY <2>24, <2>1, <3>2, <4>1, <4>2, CrashSafe DEF DeleteIter
    <3> QED
      BY <2>24, <3>1, <3>2 DEF DeleteIter
  <2>25. ASSUME NEW c \in Ctxs, ReadCtxField(c) PROVE Inv'
      <3>1. TypeOK'
        BY <2>1, <2>25 DEF ReadCtxField, TypeOK, FramesOK, MadeOK, AdvancingOK
      <3>2. FramesOK'
        BY <2>1, <2>25 DEF ReadCtxField, TypeOK, FramesOK
      <3>3. GarbageOK'
        BY <2>1, <2>25 DEF ReadCtxField, TypeOK, FramesOK, GarbageOK, Reachable,
           CtxReachable, IterReachable, Busy
      <3>4. MadeOK'
        BY <2>1, <2>25 DEF ReadCtxField, TypeOK, FramesOK, MadeOK
      <3>5. ContextsOK'
        BY <2>1, <2>25 DEF ReadCtxField, TypeOK, FramesOK, ContextsOK, In
      <3>6. HandlesOK'
        BY <2>1, <2>25 DEF ReadCtxField, TypeOK, FramesOK, HandlesOK
      <3>7. LoneUserOK'
        BY <2>1, <2>25 DEF ReadCtxField, TypeOK, FramesOK, LoneUserOK
      <3>8. OpenOK'
        BY <2>1, <2>25 DEF ReadCtxField, TypeOK, FramesOK, OpenOK, In
      <3>9. AdvancingOK'
        BY <2>1, <2>25 DEF ReadCtxField, TypeOK, FramesOK, AdvancingOK
      <3>10. FaultsOK'
        BY <2>1, <2>25 DEF ReadCtxField, FaultsOK, FaultsAreMisuse,
           DoubleDeleteNeedsOverlap, FinalizerNeverFaults
      <3> QED
        BY <3>1, <3>2, <3>3, <3>4, <3>5, <3>6, <3>7, <3>8, <3>9, <3>10
  <2>26. ASSUME NEW o \in Objs, Drop(o) PROVE Inv'
      <3>1. TypeOK'
        BY <2>1, <2>26 DEF Drop, TypeOK, FramesOK
      <3>2. FramesOK'
        BY <2>1, <2>26 DEF Drop, TypeOK, FramesOK
      <3>3. GarbageOK'
        BY <2>1, <2>26 DEF Drop, TypeOK, FramesOK, GarbageOK, Reachable,
           CtxReachable, IterReachable, Busy
      <3>4. MadeOK'
        BY <2>1, <2>26 DEF Drop, TypeOK, FramesOK, MadeOK
      <3>5. ContextsOK'
        BY <2>1, <2>26 DEF Drop, TypeOK, FramesOK, ContextsOK, In
      <3>6. HandlesOK'
        BY <2>1, <2>26 DEF Drop, TypeOK, FramesOK, HandlesOK
      <3>7. LoneUserOK'
        BY <2>1, <2>26 DEF Drop, TypeOK, FramesOK, LoneUserOK
      <3>8. OpenOK'
        BY <2>1, <2>26 DEF Drop, TypeOK, FramesOK, OpenOK, In
      <3>9. AdvancingOK'
        BY <2>1, <2>26 DEF Drop, TypeOK, FramesOK, AdvancingOK
      <3>10. FaultsOK'
        BY <2>1, <2>26 DEF Drop, FaultsOK, FaultsAreMisuse,
           DoubleDeleteNeedsOverlap, FinalizerNeverFaults
      <3> QED
        BY <3>1, <3>2, <3>3, <3>4, <3>5, <3>6, <3>7, <3>8, <3>9, <3>10
  <2>27. ASSUME NEW o \in Objs, Collect(o) PROVE Inv'
      <3>1. TypeOK'
        BY <2>1, <2>27 DEF Collect, TypeOK, FramesOK
      <3>2. FramesOK'
        BY <2>1, <2>27 DEF Collect, TypeOK, FramesOK
      <3>3. GarbageOK'
        BY <2>1, <2>27 DEF Collect, TypeOK, FramesOK, GarbageOK, Reachable,
           CtxReachable, IterReachable, Busy
      <3>4. MadeOK'
        BY <2>1, <2>27 DEF Collect, TypeOK, FramesOK, MadeOK
      <3>5. ContextsOK'
        BY <2>1, <2>27 DEF Collect, TypeOK, FramesOK, ContextsOK, In
      <3>6. HandlesOK'
        BY <2>1, <2>27 DEF Collect, TypeOK, FramesOK, HandlesOK
      <3>7. LoneUserOK'
        BY <2>1, <2>27 DEF Collect, TypeOK, FramesOK, LoneUserOK
      <3>8. OpenOK'
        BY <2>1, <2>27 DEF Collect, TypeOK, FramesOK, OpenOK, In
      <3>9. AdvancingOK'
        BY <2>1, <2>27 DEF Collect, TypeOK, FramesOK, AdvancingOK
      <3>10. FaultsOK'
        BY <2>1, <2>27 DEF Collect, FaultsOK, FaultsAreMisuse,
           DoubleDeleteNeedsOverlap, FinalizerNeverFaults
      <3> QED
        BY <3>1, <3>2, <3>3, <3>4, <3>5, <3>6, <3>7, <3>8, <3>9, <3>10
  <2> QED
    BY <1>2, <2>2, <2>3, <2>4, <2>5, <2>6, <2>7, <2>8, <2>9, <2>10, <2>11, <2>12,
       <2>13, <2>14, <2>15, <2>16, <2>17, <2>18, <2>19, <2>20, <2>21, <2>22,
       <2>23, <2>24, <2>25, <2>26, <2>27
       DEF Next, Application, Running, Disposing, Finalization
<1> QED
  BY <1>1, <1>2

\* The inductive invariant holds in every reachable state.
THEOREM Invariance == Spec => []Inv
<1> QED
  BY InitSafe, NextSafe, PTL DEF Spec

\* Every variable keeps its type.
THEOREM TypeCorrect == Spec => []TypeOK
<1>1. Inv => TypeOK
  BY DEF Inv
<1> QED
  BY <1>1, Invariance, PTL

\* However many threads use the trees, a null or deleted C++ object is touched
\* only by an application that misused it.
THEOREM MisuseOnly == Spec => []FaultsAreMisuse
<1>1. Inv => FaultsAreMisuse
  BY DEF Inv, FaultsOK
<1> QED
  BY <1>1, Invariance, PTL

\* No sequence of dispose() and close() calls deletes a C++ object twice
\* unless two of them overlap.
THEOREM NoSequentialDoubleDelete == Spec => []DoubleDeleteNeedsOverlap
<1>1. Inv => DoubleDeleteNeedsOverlap
  BY DEF Inv, FaultsOK
<1> QED
  BY <1>1, Invariance, PTL

\* The finalizers are safe in any order and at any time.
THEOREM FinalizersAreSafe == Spec => []FinalizerNeverFaults
<1>1. Inv => FinalizerNeverFaults
  BY DEF Inv, FaultsOK
<1> QED
  BY <1>1, Invariance, PTL

\* An open iterator keeps its tree alive.
THEOREM OpenIteratorsStayUsable == Spec => []OpenIteratorUsable
<1>1. Inv => OpenIteratorUsable
  <2> SUFFICES ASSUME Inv, NEW i \in Iters, IterReachable(i), over[i] # NULL,
                      over[i] \notin disposed, i \notin shared, ~closed[i],
                      \A t \in Threads : ~In(t, i, {"zeroIter", "deleteIter"})
               PROVE  /\ cxx[i] = "live" /\ iter[i]
                      /\ cxx[over[i]] = "live" /\ nativeContext[over[i]]
    BY DEF OpenIteratorUsable, In
  <2>1. iter[i] /\ ctx[i] = over[i] /\ cxx[i] = "live"
    BY IdentitiesDiffer DEF Inv, TypeOK, GarbageOK, Reachable, Objs, IteratorsOK,
       OpenOK, HandlesOK
  <2>2. over[i] \in Ctxs \cap made /\ final[over[i]] = "no"
    BY <2>1, IdentitiesDiffer DEF Inv, TypeOK, MadeOK, GarbageOK, Reachable,
       CtxReachable, Objs, Ctxs
  <2> QED
    BY <2>1, <2>2 DEF Inv, TypeOK, MadeOK, ContextsOK, Objs
<1> QED
  BY <1>1, Invariance, PTL

-----------------------------------------------------------------------------
(***************************************************************************)
(* What deletion leaves: nothing, and only where nobody looks.             *)
(***************************************************************************)

\* A handle is cleared only after, or just before, the C++ object goes; what is
\* about to go after its handle is in the hands of somebody.
ReleaseOK ==
  /\ \A c \in made \cap Ctxs : nativeContext[c] \/ cxx[c] = "deleted"
  /\ \A p \in Procs : frame[p].at = "clearCtx" => cxx[frame[p].obj] = "deleted"
  /\ \A i \in Iters : cxx[i] = "live" =>
       iter[i] \/ \E p \in Procs : In(p, i, {"deleteIter"})

Released == ReleaseOK /\ FinalizedIsFreed

\* Nothing is released by a step that neither makes nor deletes nor clears.
LEMMA ReleasedKept ==
  ASSUME Inv, Released, UNCHANGED <<made, nativeContext, cxx, iter>>,
         \A o \in Objs : final'[o] = "done" => final[o] = "done",
         \A p \in Procs :
           \/ frame'[p] = frame[p]
           \/ frame[p].at # "deleteIter" /\ frame'[p].at # "clearCtx"
  PROVE  Released'
<1>1. \A p \in Procs : frame'[p].at = "clearCtx" => frame'[p] = frame[p]
  OBVIOUS
<1>2. \A p \in Procs, i \in Iters : In(p, i, {"deleteIter"}) => In(p, i, {"deleteIter"})'
  BY DEF In
<1>3. ReleaseOK'
  BY <1>1, <1>2 DEF Released, ReleaseOK
<1>4. FinalizedIsFreed'
  BY DEF Released, FinalizedIsFreed
<1> QED
  BY <1>3, <1>4 DEF Released

\* New objects are not finalized, and come with their handles.
LEMMA ReleasedMade ==
  ASSUME Inv, Inv', Released, UNCHANGED final,
         \A p \in Procs :
           \/ frame'[p] = frame[p]
           \/ frame[p].at # "deleteIter" /\ frame'[p].at # "clearCtx",
         \A c \in Ctxs : \/ c \notin made' \/ (c \notin made /\ nativeContext'[c])
                         \/ c \in made /\ nativeContext'[c] = nativeContext[c] /\ cxx'[c] = cxx[c],
         \A i \in Iters : \/ i \notin made /\ (cxx'[i] = "live" => iter'[i])
                          \/ iter'[i] = iter[i] /\ cxx'[i] = cxx[i]
  PROVE  Released'
<1> USE DEF Released
<1>1. \A o \in Objs : final[o] # "no" => o \in made
  BY DEF Inv, GarbageOK
<1>2. \A p \in Procs : frame[p].at = "clearCtx" => frame[p].obj \in made \cap Ctxs
  BY DEF Inv, FramesOK, Idle, IterStages
<1>3. \A p \in Procs, i \in Iters : In(p, i, {"deleteIter"}) => In(p, i, {"deleteIter"})'
  BY DEF In
<1>4. \A c \in made' \cap Ctxs : nativeContext'[c] \/ cxx'[c] = "deleted"
  BY DEF ReleaseOK
<1>5. \A c \in made \cap Ctxs : cxx[c] = "deleted" => cxx'[c] = "deleted" \/ c \notin made'
  OBVIOUS
<1>6. \A p \in Procs : frame'[p].at = "clearCtx" => cxx'[frame'[p].obj] = "deleted"
  <2> SUFFICES ASSUME NEW p \in Procs, frame'[p].at = "clearCtx"
               PROVE  cxx'[frame'[p].obj] = "deleted"
    OBVIOUS
  <2>1. frame'[p] = frame[p] /\ frame[p].obj \in made \cap Ctxs
    BY <1>2
  <2>2. frame'[p].obj \in made'
    BY DEF Inv, FramesOK, Idle, IterStages
  <2> QED
    BY <1>5, <2>1, <2>2 DEF ReleaseOK
<1>7. \A i \in Iters : cxx'[i] = "live" =>
        iter'[i] \/ \E p \in Procs : In(p, i, {"deleteIter"})'
  BY <1>3 DEF ReleaseOK
<1>8. \A o \in Objs : final'[o] = "done" => cxx'[o] # "live"
  <2> SUFFICES ASSUME NEW o \in Objs, final[o] = "done" PROVE cxx'[o] # "live"
    OBVIOUS
  <2>1. o \in made /\ cxx[o] # "live"
    BY <1>1 DEF FinalizedIsFreed
  <2>2. o \in made'
    BY DEF Inv, GarbageOK
  <2> QED
    BY <2>1, <2>2 DEF Objs
<1> QED
  BY <1>4, <1>6, <1>7, <1>8 DEF ReleaseOK, FinalizedIsFreed

LEMMA ReleasedInit == Init => Released
BY DEF Init, Released, ReleaseOK, FinalizedIsFreed, Idle, Objs

\* The deletion of a context, and the clearing of its handle behind it.
LEMMA ReleasedDelete ==
  ASSUME Inv, Released, NEW p \in Procs, DeleteContext(p) \/ ClearContext(p)
  PROVE  Released'
<1> DEFINE d == frame[p].obj
<1> USE DEF Released
<1>1. d \in made \cap Ctxs
  BY DEF DeleteContext, ClearContext, Inv, FramesOK, Idle, IterStages
<1>2. \A q \in Procs : frame[q].at = "deleteIter" => frame[q].obj \in Iters
  BY DEF Inv, FramesOK, Idle, CtxStages, Borrowing
<1>3. frame[p].at # "deleteIter"
  BY DEF DeleteContext, ClearContext
<1>4. CASE UNCHANGED cxx /\ frame' = frame /\ UNCHANGED <<made, nativeContext, iter, final>>
  BY <1>4, ReleasedKept
<1>5. CASE /\ cxx' = [cxx EXCEPT ![d] = "deleted"] /\ Goto(p, "clearCtx", d)
           /\ UNCHANGED <<made, nativeContext, iter, final>>
  <2>1. cxx'[d] = "deleted" /\ \A o \in Objs \ {d} : cxx'[o] = cxx[o]
    BY <1>1, <1>5 DEF Inv, TypeOK, Objs
  <2>2. frame'[p] = [at |-> "clearCtx", obj |-> d] /\ \A q \in Procs \ {p} : frame'[q] = frame[q]
    BY <1>5 DEF Goto, Inv, TypeOK
  <2>3. d \notin Iters
    BY <1>1, IdentitiesDiffer
  <2>4. \A c \in made' \cap Ctxs : nativeContext'[c] \/ cxx'[c] = "deleted"
    BY <1>5, <2>1 DEF ReleaseOK, Objs
  <2>5. \A q \in Procs : frame'[q].at = "clearCtx" => cxx'[frame'[q].obj] = "deleted"
    BY <1>1, <2>1, <2>2 DEF ReleaseOK, Inv, FramesOK, Idle, IterStages, Objs
  <2>6. \A q \in Procs, i \in Iters : In(q, i, {"deleteIter"}) => In(q, i, {"deleteIter"})'
    BY <1>3, <2>2 DEF In
  <2>7. \A i \in Iters : cxx'[i] = "live" =>
          iter'[i] \/ \E q \in Procs : In(q, i, {"deleteIter"})'
    BY <1>5, <2>1, <2>3, <2>6 DEF ReleaseOK, Objs
  <2>8. \A o \in Objs : final'[o] = "done" => cxx'[o] # "live"
    BY <1>5, <2>1 DEF FinalizedIsFreed
  <2> QED
    BY <2>4, <2>5, <2>7, <2>8 DEF ReleaseOK, FinalizedIsFreed
<1>6. CASE ClearContext(p)
  <2>1. /\ nativeContext' = [nativeContext EXCEPT ![d] = FALSE]
        /\ final' = Finalized(p, d) /\ frame' = [frame EXCEPT ![p] = Idle]
        /\ cxx[d] = "deleted" /\ UNCHANGED <<made, cxx, iter>>
    BY <1>6 DEF ClearContext, Return, ReleaseOK, heap
  <2>2. frame'[p] = Idle /\ \A q \in Procs \ {p} : frame'[q] = frame[q]
    BY <2>1 DEF Inv, TypeOK
  <2>3. \A c \in made' \cap Ctxs : nativeContext'[c] \/ cxx'[c] = "deleted"
    BY <2>1 DEF ReleaseOK, Inv, TypeOK
  <2>4. \A q \in Procs : frame'[q].at = "clearCtx" => cxx'[frame'[q].obj] = "deleted"
    BY <2>1, <2>2 DEF ReleaseOK, Idle
  <2>5. \A i \in Iters : cxx'[i] = "live" =>
          iter'[i] \/ \E q \in Procs : In(q, i, {"deleteIter"})'
    BY <1>3, <2>1, <2>2 DEF ReleaseOK, In
  <2>6. \A o \in Objs : final'[o] = "done" => cxx'[o] # "live"
    BY <2>1 DEF FinalizedIsFreed, Finalized, Inv, TypeOK
  <2> QED
    BY <2>3, <2>4, <2>5, <2>6 DEF ReleaseOK, FinalizedIsFreed
<1> QED
  BY <1>4, <1>5, <1>6 DEF DeleteContext, Crash, heap

\* A finalizer that finds no handle finds no C++ object either: nobody else can
\* be about to delete it.
LEMMA ReleasedFinalize ==
  ASSUME Inv, Released, NEW o \in Objs,
         (o \in Ctxs /\ FinalizeContext(o)) \/ (o \in Iters /\ FinalizeIter(o))
  PROVE  Released'
<1> USE DEF Released
<1>1. /\ UNCHANGED <<made, nativeContext, cxx, iter>>
      /\ frame[Finalizer] = Idle /\ final[o] = "queued"
  BY DEF FinalizeContext, FinalizeIter, heap
<1>2. /\ \A p \in Procs \ {Finalizer} : frame'[p] = frame[p]
      /\ frame'[Finalizer].at \notin {"clearCtx", "deleteIter"}
  BY <1>1 DEF FinalizeContext, FinalizeIter, NativeDispose, Goto, Return, Idle, Inv, TypeOK, Procs
<1>3. o \in made /\ \A t \in Threads : frame[t].obj # o
  BY <1>1 DEF Inv, GarbageOK, Reachable, CtxReachable, IterReachable, Busy
<1>4. \A p \in Procs, i \in Iters : In(p, i, {"deleteIter"}) => In(p, i, {"deleteIter"})'
  BY <1>1, <1>2 DEF In, Idle
<1>5. ReleaseOK'
  <2>1. \A p \in Procs : frame'[p].at = "clearCtx" => frame'[p] = frame[p]
    BY <1>2
  <2> QED
    BY <1>1, <1>4, <2>1 DEF ReleaseOK
<1>6. ASSUME NEW x \in Objs, final'[x] = "done" PROVE cxx'[x] # "live"
  <2>1. CASE final[x] = "done"
    BY <1>1, <2>1 DEF FinalizedIsFreed
  <2>2. CASE final[x] # "done"
    <3>1. /\ x = o
          /\ o \in Ctxs => ~nativeContext[o]
          /\ o \in Iters => ~iter[o]
      <4>1. final \in [Objs -> {"no", "queued", "done"}] /\ o \notin Ctxs \cap Iters
        BY IdentitiesDiffer DEF Inv, TypeOK
      <4>2. CASE o \in Ctxs /\ FinalizeContext(o)
        BY <1>6, <2>2, <4>1, <4>2 DEF FinalizeContext
      <4>3. CASE o \in Iters /\ FinalizeIter(o)
        BY <1>6, <2>2, <4>1, <4>3 DEF FinalizeIter, NativeDispose, Finish
      <4> QED
        BY <4>2, <4>3
    <3>2. \A p \in Procs : ~In(p, o, {"deleteIter"})
      BY <1>1, <1>3 DEF In, Idle, Procs
    <3> QED
      BY <1>1, <1>3, <3>1, <3>2 DEF ReleaseOK, Objs
  <2> QED
    BY <2>1, <2>2
<1> QED
  BY <1>5, <1>6 DEF FinalizedIsFreed

\* An iterator's handle goes first, and its C++ object with the next step.
LEMMA ReleasedIterator ==
  ASSUME Inv, Released, NEW p \in Procs, ZeroIter(p) \/ DeleteIter(p)
  PROVE  Released'
<1> DEFINE j == frame[p].obj
<1> USE DEF Released
<1>1. j \in Iters /\ j \notin Ctxs
  BY IdentitiesDiffer
     DEF ZeroIter, DeleteIter, Inv, FramesOK, Idle, CtxStages, Borrowing
<1>2. \A q \in Procs : frame[q].at = "clearCtx" => frame[q].obj \in Ctxs
  BY DEF Inv, FramesOK, Idle, IterStages
<1>3. CASE UNCHANGED <<made, nativeContext, cxx, iter, final>> /\ frame' = frame
  BY <1>3, ReleasedKept
<1>4. CASE ZeroIter(p)
  <2>1. /\ iter' = [iter EXCEPT ![j] = FALSE] /\ UNCHANGED <<made, nativeContext, cxx, final>>
        /\ frame' = [frame EXCEPT ![p] = [at |-> "deleteIter", obj |-> j]]
        /\ frame[p].at = "zeroIter"
    BY <1>4 DEF ZeroIter, Goto, heap
  <2>2. /\ frame'[p] = [at |-> "deleteIter", obj |-> j]
        /\ \A q \in Procs \ {p} : frame'[q] = frame[q]
    BY <2>1 DEF Inv, TypeOK
  <2>3. \A i \in Iters : cxx'[i] = "live" =>
          iter'[i] \/ \E q \in Procs : In(q, i, {"deleteIter"})'
    <3> SUFFICES ASSUME NEW i \in Iters, cxx[i] = "live"
                 PROVE  iter'[i] \/ \E q \in Procs : In(q, i, {"deleteIter"})'
      BY <2>1
    <3>1. CASE i = j
      BY <2>2, <3>1 DEF In
    <3>2. CASE i # j
      BY <2>1, <2>2, <3>2 DEF ReleaseOK, In, Inv, TypeOK
    <3> QED
      BY <3>1, <3>2
  <2>4. \A q \in Procs : frame'[q].at = "clearCtx" => cxx'[frame'[q].obj] = "deleted"
    BY <2>1, <2>2 DEF ReleaseOK
  <2> QED
    BY <2>1, <2>3, <2>4 DEF ReleaseOK, FinalizedIsFreed
<1>5. CASE /\ cxx' = [cxx EXCEPT ![j] = "deleted"] /\ Finish(p, j) /\ Return(p)
           /\ UNCHANGED <<made, nativeContext, iter>>
  <2>1. cxx'[j] = "deleted" /\ \A o \in Objs \ {j} : cxx'[o] = cxx[o]
    BY <1>1, <1>5 DEF Inv, TypeOK, Objs
  <2>2. frame'[p] = Idle /\ \A q \in Procs \ {p} : frame'[q] = frame[q]
    BY <1>5 DEF Return, Inv, TypeOK
  <2>3. \A c \in made' \cap Ctxs : nativeContext'[c] \/ cxx'[c] = "deleted"
    BY <1>1, <1>5, <2>1 DEF ReleaseOK, Objs
  <2>4. \A q \in Procs : frame'[q].at = "clearCtx" => cxx'[frame'[q].obj] = "deleted"
    BY <1>1, <1>2, <2>1, <2>2 DEF ReleaseOK, Idle, Objs
  <2>5. \A i \in Iters : cxx'[i] = "live" =>
          iter'[i] \/ \E q \in Procs : In(q, i, {"deleteIter"})'
    BY <1>1, <1>5, <2>1, <2>2 DEF ReleaseOK, In, Objs
  <2>6. \A o \in Objs : final'[o] = "done" => cxx'[o] # "live"
    BY <1>1, <1>5, <2>1 DEF FinalizedIsFreed, Finish, Inv, TypeOK
  <2> QED
    BY <2>3, <2>4, <2>5, <2>6 DEF ReleaseOK, FinalizedIsFreed
<1> QED
  BY <1>3, <1>4, <1>5 DEF DeleteIter, Crash, heap

LEMMA ReleasedNext == Inv /\ Inv' /\ Released /\ [Next]_vars => Released'
<1> SUFFICES ASSUME Inv, Inv', Released, [Next]_vars PROVE Released'
  OBVIOUS
<1>1. CASE UNCHANGED vars
  BY <1>1, ReleasedKept DEF vars, heap
<1>2. CASE Next
  <2> USE IdentitiesDiffer DEF Objs, Ctxs, heap
  <2>1. frame \in [Procs -> [at : Stages, obj : Objs \cup {NULL}]]
    BY DEF Inv, TypeOK
  <2>2. ASSUME NEW c \in Ctxs, NewContext(c) PROVE Released'
    <3>1. UNCHANGED <<final, frame, iter>> /\ c \notin made /\ nativeContext'[c]
      BY <2>2 DEF NewContext, Inv, TypeOK
    <3>2. /\ \A d \in Ctxs \ {c} : nativeContext'[d] = nativeContext[d] /\ cxx'[d] = cxx[d]
          /\ \A d \in Ctxs \ {c} : d \in made' <=> d \in made
          /\ \A i \in Iters : cxx'[i] = cxx[i]
      BY <2>2 DEF NewContext, Inv, TypeOK
    <3> QED
      BY <3>1, <3>2, ReleasedMade
  <2>3. ASSUME NEW c \in JvmCtxs, NEW i \in Iters, JvmIterate(c, i) PROVE Released'
    <3>1. /\ UNCHANGED <<final, frame>> /\ c \notin made /\ nativeContext'[c]
          /\ \A d \in Ctxs \ {c} : nativeContext'[d] = nativeContext[d] /\ cxx'[d] = cxx[d]
          /\ \A d \in Ctxs \ {c} : d \in made' <=> d \in made
      BY <2>3 DEF JvmIterate, Attach, Inv, TypeOK
    <3>2. /\ i \notin made /\ (cxx'[i] = "live" => iter'[i])
          /\ \A k \in Iters \ {i} : iter'[k] = iter[k] /\ cxx'[k] = cxx[k]
      BY <2>3 DEF JvmIterate, Attach, Inv, TypeOK, MadeOK
    <3> QED
      BY <3>1, <3>2, ReleasedMade
  <2>4. ASSUME NEW i \in Iters, NEW n \in ExtCtxs \cup {NULL}, HollowIterator(i, n)
        PROVE  Released'
    BY <2>4, ReleasedMade DEF HollowIterator, Inv, TypeOK
  <2>5. ASSUME NEW t \in Threads, NEW i \in Iters, UseForIterator(t, i) PROVE Released'
    <3>1. UNCHANGED <<final, nativeContext>> /\ \A c \in Ctxs : (c \in made' <=> c \in made) /\ cxx'[c] = cxx[c]
      BY <2>5 DEF UseForIterator, Inv, TypeOK
    <3>2. /\ i \notin made /\ iter'[i]
          /\ \A k \in Iters \ {i} : iter'[k] = iter[k] /\ cxx'[k] = cxx[k]
      BY <2>5 DEF UseForIterator, Attach, Inv, TypeOK
    <3>3. /\ frame'[t] = Idle /\ frame[t].at # "deleteIter"
          /\ \A p \in Procs \ {t} : frame'[p] = frame[p]
      BY <2>1, <2>5 DEF UseForIterator, Return, Procs
    <3> QED
      BY <3>1, <3>2, <3>3, ReleasedMade DEF Idle
  <2>6. ASSUME NEW t \in Threads,
               \/ \E op \in Borrowing, c \in Ctxs : Borrow(t, op, c)
               \/ \E c \in Ctxs : Dispose(t, c)
               \/ \E i \in Iters : Lookahead(t, i)
        PROVE  Released'
    <3>1. /\ UNCHANGED <<made, nativeContext, cxx, iter, final>>
          /\ \A p \in Procs : frame'[p] = frame[p] \/ (frame[p] = Idle /\ frame'[p].at # "clearCtx")
      BY <2>1, <2>6 DEF Borrow, Dispose, Lookahead, EnterIter, Goto, Crash, Borrowing, Procs
    <3> QED
      BY <3>1, ReleasedKept DEF Idle
  <2>7. ASSUME NEW t \in Threads,
               UseDeleted(t) \/ UseContext(t) \/ UseRoot(t) \/ AdvanceDeleted(t) \/ Advance(t)
                 \/ LookupNull(t) \/ LookupDeleted(t) \/ Lookup(t)
        PROVE  Released'
    <3>1. /\ UNCHANGED <<made, nativeContext, cxx, iter, final>>
          /\ \A p \in Procs \ {t} : frame'[p] = frame[p]
          /\ frame'[t] = frame[t] \/ frame'[t].at # "clearCtx"
          /\ frame[t].at # "deleteIter"
      BY <2>1, <2>7 DEF UseDeleted, UseContext, UseRoot, AdvanceDeleted, Advance, LookupNull,
         LookupDeleted, Lookup, Goto, Return, Crash, Idle, Borrowing, Procs
    <3> QED
      BY <3>1, ReleasedKept
  <2>8. ASSUME NEW t \in Threads, (\E i \in Iters : Close(t, i)) \/ CloseAtEnd(t)
        PROVE  Released'
    <3>1. /\ UNCHANGED <<made, nativeContext, cxx, iter, final>>
          /\ \A p \in Procs \ {t} : frame'[p] = frame[p]
          /\ frame'[t].at # "clearCtx" /\ frame[t].at # "deleteIter"
      BY <2>1, <2>8 DEF Close, CloseAtEnd, EnterIter, NativeDispose, Finish, Goto, Return, Idle, Procs
    <3> QED
      BY <3>1, ReleasedKept
  <2>9. ASSUME \/ \E c \in Ctxs : ReadCtxField(c)
               \/ \E o \in Objs : Drop(o) \/ Collect(o)
        PROVE  Released'
    <3>1. /\ UNCHANGED <<made, nativeContext, cxx, iter, frame>>
          /\ \A o \in Objs : final'[o] = "done" => final[o] = "done"
      BY <2>9 DEF ReadCtxField, Drop, Collect, Inv, TypeOK
    <3> QED
      BY <3>1, ReleasedKept
  <2> QED
    BY <1>2, <2>2, <2>3, <2>4, <2>5, <2>6, <2>7, <2>8, <2>9,
       ReleasedDelete, ReleasedFinalize, ReleasedIterator
       DEF Next, Application, Running, Disposing, Finalization, Procs
<1> QED
  BY <1>1, <1>2

\* What has been finalized holds no native memory: neither an early return of a
\* native method nor a dispose() that another one overtook leaves any behind.
THEOREM FinalizersFree == Spec => []FinalizedIsFreed
<1>1. Released => FinalizedIsFreed
  BY DEF Released
<1> QED
  BY <1>1, ReleasedInit, ReleasedNext, Invariance, PTL DEF Spec

\* Only two steps delete.
LEMMA WhoDeletes ==
  ASSUME Inv, [Next]_vars, NEW o \in Objs, cxx[o] = "live", cxx'[o] = "deleted"
  PROVE  \E p \in Procs : frame[p].obj = o /\ (DeleteContext(p) \/ DeleteIter(p))
<1>1. cxx \in [Objs -> {"none", "live", "deleted"}]
  BY DEF Inv, TypeOK
<1>2. Next
  BY DEF vars
<1>3. ASSUME UNCHANGED cxx PROVE FALSE
  BY <1>3
<1>4. ASSUME NEW a, NEW b, \/ cxx' = [cxx EXCEPT ![a] = "live"]
                           \/ cxx' = [cxx EXCEPT ![a] = "live", ![b] = "live"]
      PROVE  FALSE
  BY <1>1, <1>4
<1>5. ASSUME NEW t \in Threads, Application(t) PROVE FALSE
  BY <1>3, <1>4, <1>5 DEF Application, NewContext, Dispose, Borrow, JvmIterate, HollowIterator,
     Lookahead, Close, Crash
<1>6. ASSUME NEW t \in Threads, Running(t) PROVE FALSE
  BY <1>3, <1>4, <1>6 DEF Running, UseDeleted, UseContext, UseRoot, UseForIterator,
     AdvanceDeleted, Advance, LookupNull, LookupDeleted, Lookup, CloseAtEnd, Crash
<1>7. ASSUME NEW p \in Procs, Disposing(p)
      PROVE  frame[p].obj = o /\ (DeleteContext(p) \/ DeleteIter(p))
  <2>1. DeleteContext(p) \/ DeleteIter(p)
    BY <1>3, <1>7 DEF Disposing, ClearContext, ZeroIter
  <2>2. cxx' = [cxx EXCEPT ![frame[p].obj] = "deleted"]
    BY <1>3, <2>1 DEF DeleteContext, DeleteIter, Crash
  <2> QED
    BY <1>1, <2>1, <2>2
<1>8. ASSUME Finalization PROVE Disposing(Finalizer)
  BY <1>3, <1>8 DEF Finalization, FinalizeContext, FinalizeIter
<1>9. ASSUME \/ \E c \in Ctxs : ReadCtxField(c)
             \/ \E x \in Objs : Drop(x) \/ Collect(x)
      PROVE  FALSE
  BY <1>3, <1>9 DEF ReadCtxField, Drop, Collect
<1> QED
  BY <1>2, <1>5, <1>6, <1>7, <1>8, <1>9 DEF Next, Procs

\* Whoever is in an unshared iterator keeps the context it walks reachable.
LEMMA WalkersHold ==
  ASSUME Inv, NEW t \in Threads, frame[t].at \in {"advance", "lookup"},
         frame[t].obj \notin shared
  PROVE  LET i == frame[t].obj IN
           /\ i \in Iters /\ ctx[i] = over[i] /\ over[i] \in Ctxs /\ CtxReachable(over[i])
<1> DEFINE i == frame[t].obj
<1>1. i \in Iters /\ t \in Procs
  BY DEF Inv, FramesOK, Idle, CtxStages, Borrowing, Procs
<1>2. Busy(i) /\ IterReachable(i) /\ final[i] = "no"
  BY <1>1 DEF Busy, IterReachable, Inv, GarbageOK, Reachable, Objs
<1>3. over[i] # NULL /\ ~closed[i]
  BY DEF Inv, IteratorsOK, AdvancingOK
<1>4. \A u \in Threads : ~In(u, i, {"zeroIter", "deleteIter"})
  BY <1>1 DEF Inv, IteratorsOK, LoneUserOK, In
<1>5. ctx[i] = over[i]
  BY <1>1, <1>2, <1>3, <1>4 DEF Inv, IteratorsOK, OpenOK
<1>6. over[i] \in Ctxs
  BY <1>1, <1>3 DEF Inv, TypeOK
<1> QED
  BY <1>1, <1>2, <1>5, <1>6 DEF CtxReachable

\* A deletion takes a C++ object from nobody who is using it.
THEOREM NoDeletionInUse == Spec => DeletesUnused
<1>1. ASSUME Inv, [Next]_vars, NEW o \in Objs, cxx[o] = "live", cxx'[o] = "deleted",
             o \notin disposed \cup shared, NEW t \in Threads, Uses(t, o),
             frame[t].obj \notin shared
      PROVE  FALSE
  <2>1. PICK p \in Procs : frame[p].obj = o /\ (DeleteContext(p) \/ DeleteIter(p))
    BY <1>1, WhoDeletes
  <2>2. CASE DeleteContext(p)
    <3>1. frame[p].at = "deleteCtx" /\ o \in Ctxs /\ o \notin Iters
      BY <1>1, <2>1, <2>2, IdentitiesDiffer DEF DeleteContext, Inv, FramesOK, Idle, IterStages
    <3>2. p = Finalizer
      BY <1>1, <2>1, <3>1 DEF Procs, Inv, ContextsOK
    <3>3. ~CtxReachable(o)
      BY <1>1, <2>1, <3>1, <3>2 DEF Inv, FramesOK, Idle, GarbageOK, Reachable
    <3>4. frame[t].obj # o
      BY <3>3 DEF CtxReachable, Busy
    <3>5. frame[t].at \in {"advance", "lookup"}
      BY <1>1, <3>4 DEF Uses
    <3> QED
      BY <1>1, <3>3, <3>4, <3>5, WalkersHold DEF Uses
  <2>3. CASE DeleteIter(p)
    <3>1. frame[p].at = "deleteIter" /\ o \in Iters /\ o \notin Ctxs
      BY <1>1, <2>1, <2>3, IdentitiesDiffer
         DEF DeleteIter, Inv, FramesOK, Idle, CtxStages, Borrowing
    <3>2. frame[t].obj = o
      BY <1>1, <3>1, WalkersHold DEF Uses
    <3>3. t # p
      BY <1>1, <3>1 DEF Uses, Borrowing
    <3>4. p = Finalizer
      BY <1>1, <2>1, <3>1, <3>2, <3>3 DEF Procs, Inv, IteratorsOK, LoneUserOK
    <3> QED
      BY <1>1, <2>1, <3>1, <3>2, <3>4
         DEF Inv, FramesOK, Idle, GarbageOK, Reachable, IterReachable, Busy
  <2> QED
    BY <2>1, <2>2, <2>3
<1>2. Inv /\ [Next]_vars =>
        \A o \in Objs : cxx[o] = "live" /\ cxx'[o] = "deleted" =>
          \/ o \in disposed \cup shared
          \/ \A t \in Threads : Uses(t, o) => frame[t].obj \in shared
  BY <1>1
<1> QED
  BY <1>2, Invariance, PTL DEF Spec, DeletesUnused

-----------------------------------------------------------------------------
(***************************************************************************)
(* Each step is one of IterHandle's for each iterator, or none.            *)
(***************************************************************************)
\* A closed iterator has no C++ iterator any more, unless two threads were in
\* it.  IterHandle's steps keep this, so it comes with the refinement.
ClosedIsFreed == \A i \in Iters : closed[i] => i \in made /\ (i \in shared \/ cxx[i] # "live")

\* What IterHandle sees of i.
Same(i) ==
  /\ i \in made' <=> i \in made
  /\ cxx'[i] = cxx[i] /\ closed'[i] = closed[i]
  /\ final'[i] = "done" <=> final[i] = "done"
  /\ fault'.iter = i <=> fault.iter = i

LEMMA SameIsStutter ==
  ASSUME NEW i \in Iters, Same(i)
  PROVE  UNCHANGED Handle(i)!fields
BY DEF Same, Handle!fields

\* No thread unshares an iterator or undoes a dispose(), and an iterator walks
\* one tree.
LEMMA FlagsStay ==
  ASSUME Inv, Next, NEW i \in Iters
  PROVE  /\ i \in shared => i \in shared'
         /\ over[i] \in disposed => over'[i] \in disposed'
<1> DEFINE Stay == /\ shared \subseteq shared' /\ disposed \subseteq disposed'
                   /\ over[i] = NULL \/ over'[i] = over[i]
<1>1. ASSUME NEW j, NEW c, NEW n, Attach(j, c, n) PROVE over[i] = NULL \/ over'[i] = over[i]
  BY <1>1 DEF Attach, Inv, TypeOK, MadeOK
<1>2. ASSUME NEW t \in Threads, Application(t) PROVE Stay
  BY <1>1, <1>2 DEF Application, NewContext, Dispose, Borrow, JvmIterate, HollowIterator, Lookahead,
     Close, EnterIter, Crash, heap, history
<1>3. ASSUME NEW t \in Threads, Running(t) PROVE Stay
  BY <1>1, <1>3 DEF Running, UseDeleted, UseContext, UseRoot, UseForIterator, AdvanceDeleted,
     Advance, LookupNull, LookupDeleted, Lookup, CloseAtEnd, Crash, heap, history
<1>4. ASSUME NEW p \in Procs, Disposing(p) PROVE Stay
  BY <1>4 DEF Disposing, DeleteContext, ClearContext, ZeroIter, DeleteIter, Crash, heap, history
<1>5. ASSUME Finalization PROVE Stay
  BY <1>4, <1>5 DEF Finalization, FinalizeContext, FinalizeIter, Procs, heap, history
<1>6. ASSUME \/ \E c \in Ctxs : ReadCtxField(c)
             \/ \E x \in Objs : Drop(x) \/ Collect(x)
      PROVE  Stay
  BY <1>6 DEF ReadCtxField, Drop, Collect, heap, history
<1>7. Stay
  BY <1>2, <1>3, <1>4, <1>5, <1>6 DEF Next, Procs
<1>8. NULL \notin disposed
  BY IdentitiesDiffer DEF Inv, TypeOK, Objs
<1> QED
  BY <1>7, <1>8

\* A step of IterHandle: one of its actions, and what was misused stays so.
LEMMA HandleMoves ==
  ASSUME Inv, Next, NEW i \in Iters,
         \/ Same(i) \/ Handle(i)!Construct \/ Handle(i)!Close \/ Handle(i)!Finalize
         \/ Handle(i)!Crash \/ Handle(i)!Overlap
  PROVE  Handle(i)!Next
<1>1. fault.iter # i
  BY IdentitiesDiffer DEF Next, NoFault, Objs
<1> QED
  BY <1>1, FlagsStay, SameIsStutter DEF Handle!Next

\* A new iterator is constructed; the others do not notice.
LEMMA HandleMade ==
  ASSUME Inv, Next, NEW i \in Iters, NEW j \in Iters,
         \/ \E c \in JvmCtxs : JvmIterate(c, j)
         \/ \E n \in ExtCtxs \cup {NULL} : HollowIterator(j, n)
         \/ \E t \in Threads : UseForIterator(t, j)
  PROVE  Handle(i)!Next
<1>1. /\ j \notin made /\ j \in made' /\ UNCHANGED <<closed, final, fault>>
      /\ \A k \in Iters \ {j} : cxx'[k] = cxx[k] /\ (k \in made' <=> k \in made)
      /\ cxx'[j] \in {"live", "none"}
  BY IdentitiesDiffer
     DEF JvmIterate, HollowIterator, UseForIterator, Attach, Inv, TypeOK, MadeOK, Objs, Ctxs, history
<1>2. CASE i = j
  BY <1>1, <1>2, HandleMoves DEF Handle!Construct
<1>3. CASE i # j
  BY <1>1, <1>3, HandleMoves DEF Same
<1> QED
  BY <1>2, <1>3

\* nativeDispose that finds no handle finds no C++ iterator either, unless a
\* second thread is about to delete it.
LEMMA NoHandle ==
  ASSUME Inv, Released, NEW i \in Iters, ~iter[i], cxx[i] = "live"
  PROVE  \E p \in Procs : In(p, i, {"deleteIter"})
BY DEF Released, ReleaseOK

\* A lookahead crashes on an empty iterator, on one that is shared, or where the
\* context was disposed of.
LEMMA HandleCrash ==
  ASSUME Inv, Inv', Next, NEW i \in Iters, NEW t \in Threads, NEW kind, NEW c,
         i \in made, final[i] # "done", i \in shared' \/ ~closed[i],
         Crash(kind, t, c, i) \/ (Lookahead(t, i) /\ fault'.iter = i),
         i \in shared' \/ cxx[i] = "none" \/ over[i] \in disposed
  PROVE  Handle(i)!Next
<1>1. /\ UNCHANGED <<made, cxx, closed, final>> /\ fault'.iter = i
  BY DEF Crash, Lookahead, heap
<1>2. CASE i \in shared'
  BY <1>1, <1>2, HandleMoves DEF Handle!Overlap
<1>3. CASE i \notin shared'
  BY <1>1, <1>3, HandleMoves DEF Handle!Crash
<1> QED
  BY <1>2, <1>3

LEMMA HandleLookahead ==
  ASSUME Inv, Inv', Next, NEW i \in Iters, NEW j \in Iters, NEW t \in Threads, Lookahead(t, j)
  PROVE  Handle(i)!Next
<1>1. fault.iter # i /\ UNCHANGED <<made, cxx, closed, final>>
  BY IdentitiesDiffer DEF Next, NoFault, Objs, Lookahead, heap
<1>2. CASE fault'.iter # i
  BY <1>1, <1>2, HandleMoves DEF Same
<1>3. CASE fault'.iter = i
  <2>1. j = i /\ ~iter[i] /\ ~closed[i] /\ i \in held
    BY <1>1, <1>3 DEF Lookahead, EnterIter
  <2>2. i \in made /\ final[i] = "no"
    BY <2>1 DEF Inv, TypeOK, GarbageOK, Reachable, IterReachable, Objs
  <2>3. CASE Busy(i)
    BY <1>3, <2>1, <2>2, <2>3, HandleCrash DEF Lookahead, EnterIter
  <2>4. CASE ~Busy(i)
    <3>1. \A u \in Threads : ~In(u, i, {"zeroIter", "deleteIter"})
      BY <2>4 DEF Busy, In
    <3>2. i \in shared \/ over[i] = NULL
      BY <2>1, <2>2, <3>1 DEF Inv, IteratorsOK, OpenOK
    <3>3. i \in shared' \/ cxx[i] = "none"
      BY <3>2, FlagsStay DEF Inv, MadeOK
    <3> QED
      BY <1>3, <2>1, <2>2, <3>3, HandleCrash
  <2> QED
    BY <2>3, <2>4
<1> QED
  BY <1>2, <1>3

LEMMA HandleWalk ==
  ASSUME Inv, Inv', Next, NEW i \in Iters, NEW t \in Threads,
         AdvanceDeleted(t) \/ LookupNull(t) \/ LookupDeleted(t)
  PROVE  Handle(i)!Next
<1> DEFINE j == frame[t].obj
<1>1. /\ UNCHANGED <<made, cxx, closed, final, over, shared, disposed>>
      /\ fault'.iter = j /\ frame[t].at \in {"advance", "lookup"}
      /\ fault'.ctx \in {over[j], ctx[j]}
  BY DEF AdvanceDeleted, LookupNull, LookupDeleted, Crash, heap, history
<1>2. j \in Iters \cap made /\ final[j] = "no" /\ over[j] # NULL
  BY <1>1 DEF Inv, FramesOK, Idle, CtxStages, Borrowing, Procs, GarbageOK, Reachable,
     IterReachable, Busy, Objs, IteratorsOK, AdvancingOK
<1>3. j \in shared \/ ~closed[j]
  BY <1>1 DEF Inv, IteratorsOK, AdvancingOK
<1>4. j \in shared \/ over[j] \in disposed
  <2>1. fault' # NoFault
    BY <1>1, <1>2, IdentitiesDiffer DEF NoFault, Objs
  <2>2. fault'.ctx \in disposed \/ j \in shared
    BY <1>1, <1>2, <2>1 DEF Inv, FaultsOK, FaultsAreMisuse
  <2>3. ctx[j] \in disposed => ctx[j] = over[j]
    BY <1>2, IdentitiesDiffer DEF Inv, TypeOK, MadeOK, Objs
  <2> QED
    BY <1>1, <2>2, <2>3
<1>5. \E kind, c : Crash(kind, t, c, j)
  BY DEF AdvanceDeleted, LookupNull, LookupDeleted
<1>6. CASE i = j
  BY <1>1, <1>2, <1>3, <1>4, <1>5, <1>6, HandleCrash
<1>7. CASE i # j
  BY <1>1, <1>7, IdentitiesDiffer, HandleMoves DEF Same, Next, NoFault, Objs
<1> QED
  BY <1>6, <1>7

\* nativeDispose: with a handle it goes on, without one it is done.
LEMMA HandleDispose ==
  ASSUME Inv, Released, Next, NEW i \in Iters, NEW j \in Iters, NEW t \in Threads,
         Close(t, j) \/ (CloseAtEnd(t) /\ frame[t].obj = j)
  PROVE  Handle(i)!Next
<1>1. UNCHANGED <<made, cxx, fault>>
  BY DEF Close, CloseAtEnd, heap
<1>2. CASE UNCHANGED <<closed, final>>
  BY <1>1, <1>2, HandleMoves DEF Same
<1>3. CASE ~UNCHANGED <<closed, final>>
  <2>1. ~iter[j] /\ ~closed[j] /\ closed' = [closed EXCEPT ![j] = TRUE] /\ UNCHANGED final
    BY <1>3, IdentitiesDiffer DEF Close, CloseAtEnd, EnterIter, NativeDispose, Finish
  <2>2. CASE i # j
    BY <1>1, <2>1, <2>2, HandleMoves DEF Same, Inv, TypeOK
  <2>3. CASE i = j
    <3>1. closed'[i] /\ ~closed[i]
      BY <2>1, <2>3 DEF Inv, TypeOK
    <3>2. i \in made /\ final[i] = "no"
      BY <2>3 DEF Close, CloseAtEnd, EnterIter, Inv, TypeOK, FramesOK, Idle, CtxStages, Borrowing,
         Procs, GarbageOK, Reachable, IterReachable, Busy, Objs
    <3>3. CASE cxx[i] # "live"
      BY <1>1, <2>1, <3>1, <3>2, <3>3, HandleMoves DEF Handle!Close, Handle!Released
    <3>4. CASE cxx[i] = "live"
      <4>1. PICK p \in Procs : frame[p].obj = i /\ frame[p].at = "deleteIter"
        BY <2>1, <2>3, <3>4, NoHandle DEF In
      <4>2. p \in Threads
        BY <3>2, <4>1 DEF Procs, Inv, FramesOK, Idle
      <4>3. i \in shared'
        <5>1. CASE Close(t, j)
          BY <2>3, <4>1, <4>2, <5>1 DEF Close, EnterIter, Busy
        <5>2. CASE CloseAtEnd(t) /\ frame[t].obj = j
          <6>1. p # t
            BY <4>1, <5>2 DEF CloseAtEnd
          <6>2. i \in shared
            BY <2>3, <4>1, <4>2, <5>2, <6>1 DEF Inv, IteratorsOK, LoneUserOK
          <6> QED
            BY <6>2, FlagsStay
        <5> QED
          BY <5>1, <5>2
      <4> QED
        BY <1>1, <2>1, <3>1, <3>2, <4>3, HandleMoves DEF Handle!Overlap
    <3> QED
      BY <3>3, <3>4
  <2> QED
    BY <2>2, <2>3
<1> QED
  BY <1>2, <1>3

LEMMA HandleFinalize ==
  ASSUME Inv, Released', Next, NEW i \in Iters, NEW j \in Iters, FinalizeIter(j)
  PROVE  Handle(i)!Next
<1>1. /\ UNCHANGED <<made, cxx, fault, closed>> /\ final[j] = "queued"
      /\ final' = final \/ final' = [final EXCEPT ![j] = "done"]
  BY DEF FinalizeIter, NativeDispose, Finish, heap
<1>2. CASE final' = final \/ i # j
  <2>1. final'[i] = final[i]
    BY <1>1, <1>2 DEF Inv, TypeOK, Objs
  <2> QED
    BY <1>1, <2>1, HandleMoves DEF Same
<1>3. CASE final' # final /\ i = j
  <2>1. final'[i] = "done" /\ final[i] = "queued" /\ i \in Objs
    BY <1>1, <1>3 DEF Inv, TypeOK, Objs
  <2>2. i \in made /\ cxx'[i] # "live"
    BY <2>1 DEF Released, FinalizedIsFreed, Inv, GarbageOK
  <2> QED
    BY <1>1, <2>1, <2>2, HandleMoves DEF Handle!Finalize, Handle!Released
<1> QED
  BY <1>2, <1>3

\* The deletion sets closed, or ends the finalization, with the same step.
LEMMA HandleDelete ==
  ASSUME Inv, ClosedIsFreed, Next, NEW i \in Iters, NEW p \in Procs, DeleteIter(p)
  PROVE  Handle(i)!Next
<1> DEFINE j == frame[p].obj
<1>1. /\ j \in Iters \cap made /\ j \in Objs /\ j # NULL
      /\ frame[p].at = "deleteIter" /\ UNCHANGED <<made, shared>>
  BY IdentitiesDiffer
     DEF DeleteIter, Crash, heap, history, Inv, FramesOK, Idle, CtxStages, Borrowing, Objs
<1>2. p # Finalizer => final[j] = "no"
  BY <1>1 DEF Procs, Inv, GarbageOK, Reachable, IterReachable, Busy
<1>3. p = Finalizer => final[j] = "queued"
  BY <1>1 DEF Inv, FramesOK, Idle
<1>4. cxx[j] = "live" \/ (p # Finalizer /\ j \in shared)
  BY <1>1 DEF Inv, IteratorsOK, HandlesOK
<1>5. CASE cxx[j] = "deleted"
  <2>1. UNCHANGED <<cxx, closed, final>> /\ fault'.iter = j
    BY <1>5 DEF DeleteIter, Crash
  <2>2. CASE i = j
    BY <1>1, <1>2, <1>4, <1>5, <2>1, <2>2, HandleMoves DEF Handle!Overlap
  <2>3. CASE i # j
    BY <1>1, <2>1, <2>3, IdentitiesDiffer, HandleMoves DEF Same, Next, NoFault, Objs
  <2> QED
    BY <2>2, <2>3
<1>6. CASE cxx[j] = "live"
  <2>1. cxx' = [cxx EXCEPT ![j] = "deleted"] /\ Finish(p, j) /\ UNCHANGED fault
    BY <1>6 DEF DeleteIter
  <2>2. cxx'[j] = "deleted" /\ (i # j => cxx'[i] = cxx[i])
    BY <1>1, <2>1 DEF Inv, TypeOK, Objs
  <2>3. /\ i # j => closed'[i] = closed[i] /\ final'[i] = final[i]
        /\ p = Finalizer => closed'[j] = closed[j] /\ final'[j] = "done"
        /\ p # Finalizer => closed'[j] /\ final'[j] = final[j]
    BY <1>1, <2>1 DEF Finish, Inv, TypeOK, Objs
  <2>4. CASE i # j
    BY <1>1, <2>1, <2>2, <2>3, <2>4, HandleMoves DEF Same
  <2>5. CASE i = j /\ p = Finalizer
    BY <1>1, <1>3, <1>6, <2>1, <2>2, <2>3, <2>5, HandleMoves DEF Handle!Finalize, Handle!Released
  <2>6. CASE i = j /\ p # Finalizer /\ j \in shared
    BY <1>1, <1>2, <1>6, <2>1, <2>2, <2>3, <2>6, HandleMoves DEF Handle!Overlap, Handle!Released
  <2>7. CASE i = j /\ p # Finalizer /\ j \notin shared
    BY <1>1, <1>2, <1>6, <2>1, <2>2, <2>3, <2>7, HandleMoves
       DEF Handle!Close, Handle!Released, ClosedIsFreed
  <2> QED
    BY <1>4, <2>4, <2>5, <2>6, <2>7
<1>7. cxx[j] \in {"live", "deleted"}
  BY DEF DeleteIter
<1> QED
  BY <1>5, <1>6, <1>7

\* Everything else concerns no iterator.
LEMMA HandleRest ==
  ASSUME Inv, Next, NEW i \in Iters,
         \/ \E c \in Ctxs : NewContext(c) \/ FinalizeContext(c) \/ ReadCtxField(c)
         \/ \E t \in Threads, c \in Ctxs : Dispose(t, c) \/ \E op \in Borrowing : Borrow(t, op, c)
         \/ \E t \in Threads : UseDeleted(t) \/ UseContext(t) \/ UseRoot(t) \/ Advance(t) \/ Lookup(t)
         \/ \E p \in Procs : DeleteContext(p) \/ ClearContext(p) \/ ZeroIter(p)
         \/ \E o \in Objs : Drop(o) \/ Collect(o)
  PROVE  Handle(i)!Next
<1>1. i \notin Ctxs /\ NULL # i
  BY IdentitiesDiffer DEF Objs
<1>2. \A p \in Procs : frame[p].at \in {"deleteCtx", "clearCtx"} => frame[p].obj \in Ctxs
  BY DEF Inv, FramesOK, Idle, IterStages
<1>3. /\ i \in made' <=> i \in made
      /\ closed' = closed
  BY <1>1 DEF NewContext, FinalizeContext, ReadCtxField, Dispose, Borrow, UseDeleted, UseContext,
     UseRoot, Advance, Lookup, DeleteContext, ClearContext, ZeroIter, Drop, Collect, Crash, heap
<1>4. fault'.iter = fault.iter \/ fault'.iter = NULL
  BY DEF NewContext, FinalizeContext, ReadCtxField, Dispose, Borrow, UseDeleted, UseContext,
     UseRoot, Advance, Lookup, DeleteContext, ClearContext, ZeroIter, Drop, Collect, Crash
<1>5. fault.iter = NULL
  BY DEF Next, NoFault
<1>6. cxx'[i] = cxx[i]
  BY <1>1, <1>2 DEF NewContext, FinalizeContext, ReadCtxField, Dispose, Borrow, UseDeleted,
     UseContext, UseRoot, Advance, Lookup, DeleteContext, ClearContext, ZeroIter, Drop, Collect,
     Crash, Inv, TypeOK, Objs
<1>7. final'[i] = "done" <=> final[i] = "done"
  BY <1>1, <1>2 DEF NewContext, FinalizeContext, ReadCtxField, Dispose, Borrow, UseDeleted,
     UseContext, UseRoot, Advance, Lookup, DeleteContext, ClearContext, ZeroIter, Drop, Collect,
     Crash, Finalized, Inv, TypeOK, Objs
<1> QED
  BY <1>1, <1>3, <1>4, <1>5, <1>6, <1>7, HandleMoves DEF Same

LEMMA HandleSteps ==
  ASSUME Inv, Inv', Released, Released', ClosedIsFreed, [Next]_vars, NEW i \in Iters
  PROVE  [Handle(i)!Next]_(Handle(i)!vars)
<1> SUFFICES Handle(i)!Next \/ UNCHANGED Handle(i)!vars
  OBVIOUS
<1>1. CASE UNCHANGED vars
  BY <1>1 DEF vars, heap, history, Handle!vars, Handle!fields
<1>2. CASE Next
  <2>1. ASSUME NEW t \in Threads, Application(t) PROVE Handle(i)!Next
    BY <1>2, <2>1, HandleMade, HandleRest, HandleLookahead, HandleDispose DEF Application
  <2>2. ASSUME NEW t \in Threads, CloseAtEnd(t) PROVE Handle(i)!Next
    <3>1. frame[t].obj \in Iters
      BY <2>2 DEF CloseAtEnd, Inv, FramesOK, Idle, CtxStages, Borrowing, Procs
    <3> QED
      BY <1>2, <2>2, <3>1, HandleDispose
  <2>3. ASSUME NEW t \in Threads, Running(t) PROVE Handle(i)!Next
    BY <1>2, <2>2, <2>3, HandleMade, HandleRest, HandleWalk DEF Running
  <2>4. ASSUME NEW p \in Procs, Disposing(p) PROVE Handle(i)!Next
    BY <1>2, <2>4, HandleRest, HandleDelete DEF Disposing
  <2> QED
    BY <1>2, <2>1, <2>3, <2>4, HandleRest, HandleFinalize DEF Next, Finalization, Procs
<1> QED
  BY <1>1, <1>2

\* That a closed iterator is freed needs nothing but IterHandle's steps.
LEMMA ClosedFreed ==
  ASSUME Inv, Inv', Released, Released', ClosedIsFreed, [Next]_vars
  PROVE  ClosedIsFreed'
<1> SUFFICES ASSUME NEW i \in Iters, closed'[i]
             PROVE  i \in made' /\ (i \in shared' \/ cxx'[i] # "live")
  BY DEF ClosedIsFreed
<1>1. [Handle(i)!Next]_(Handle(i)!vars) /\ (closed[i] => i \in made /\ (i \in shared \/ cxx[i] # "live"))
  BY HandleSteps DEF ClosedIsFreed
<1>2. closed[i] \in BOOLEAN
  BY DEF Inv, TypeOK
<1> QED
  BY <1>1, <1>2 DEF Handle!Next, Handle!Construct, Handle!Close, Handle!Finalize, Handle!Crash,
     Handle!Overlap, Handle!Released, Handle!fields, Handle!vars

\* nativeDispose is one step to whoever sees an iterator and its C++ iterator.
THEOREM DisposesOnce == Spec => DisposesAtOnce
<1>1. Init => \A i \in Iters : Handle(i)!Init
  <2> SUFFICES ASSUME Init, NEW i \in Iters PROVE Handle(i)!Init
    OBVIOUS
  <2>1. /\ i \notin made /\ cxx[i] = "none" /\ ~closed[i] /\ final[i] # "done"
        /\ fault.iter # i /\ i \notin shared /\ over[i] \notin disposed
    BY IdentitiesDiffer DEF Init, NoFault, Objs
  <2> QED
    BY <2>1 DEF Handle!Init
<1>2. Init => ClosedIsFreed
  BY DEF Init, ClosedIsFreed
<1>3. Inv /\ Inv' /\ Released /\ Released' /\ ClosedIsFreed /\ [Next]_vars =>
        /\ ClosedIsFreed'
        /\ [\A i \in Iters : [Handle(i)!Next]_(Handle(i)!vars)]_vars
  BY ClosedFreed, HandleSteps
<1>4. Spec => []Released
  BY ReleasedInit, ReleasedNext, Invariance, PTL DEF Spec
<1> QED
  BY <1>1, <1>2, <1>3, <1>4, Invariance, PTL DEF Spec, DisposesAtOnce
===============================================================================
