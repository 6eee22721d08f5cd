------------------------------- MODULE JniCache -------------------------------
(***************************************************************************)
(* The caches of jni_utils.h and the threads that share them.              *)
(*                                                                         *)
(* classCache, methodCache, exceptionCls and exceptToString are static     *)
(* variables of a header: Libuast.cc and jni_utils.cc each have their own. *)
(* JNI_OnLoad fills those of Libuast.cc with RuntimeException; FindClass,  *)
(* MethodID and checkJvmException use those of jni_utils.cc, and know      *)
(* nothing of it.  FindClass and MethodID check, then act on an            *)
(* unordered_map that no lock protects; the Scala side takes the monitor   *)
(* of Libuast around BblfshClient.decode and filter, and around no other   *)
(* native call.                                                            *)
(*                                                                         *)
(* One method of each class stands for all of them.                        *)
(***************************************************************************)
EXTENDS Naturals, FiniteSets

CONSTANTS
  Threads,  \* the threads that call into the library
  Classes,  \* the Java classes the native code looks up
  CLS_RE,   \* java.lang.RuntimeException
  NULL      \* no thread, no class

ASSUME NullIsNone == NULL \notin Threads \cup Classes
ASSUME RuntimeExceptionIsAClass == CLS_RE \in Classes
ASSUME ThreadsFinite == IsFiniteSet(Threads)

Units == {"Libuast.cc", "jni_utils.cc"}

VARIABLES
  onLoad,         \* where JNI_OnLoad is, or how it ended
  exceptionCls,   \* the units whose copy of exceptionCls is set, to a
                  \* global reference of RuntimeException
  exceptToString, \* the units whose copy of exceptToString is set
  libuastCache,   \* which of the caches of Libuast.cc have RuntimeException
  classCache,     \* the copy of jni_utils.cc; operator[] inserts a null
  methodCache,    \* the same, of the method of each class
  globalRefs,     \* the global references FindClass has made of a class
  monitor,        \* the thread inside Libuast.synchronized
  frame,          \* where each thread is, the class it wants, who it is
  crashed,        \* a call through a null jmethodID
  overlapped      \* the classes two threads were finding at once

library == <<onLoad, exceptionCls, exceptToString, libuastCache>>
vars == <<library, classCache, methodCache, globalRefs, monitor, frame, crashed, overlapped>>

Outside == [at |-> "scala", cls |-> NULL, locked |-> FALSE, forMethod |-> FALSE]

Places == {"scala", "native", "read", "find", "write", "check",
           "readMethod", "getMethod", "writeMethod"}

TypeOK ==
  /\ onLoad \in {"begins", "hasClass", "failed", "done"}
  /\ exceptionCls \subseteq Units /\ exceptToString \subseteq Units
  /\ libuastCache \subseteq {"class", "method"}
  /\ classCache \in [Classes -> {"absent", "null", "ref"}]
  /\ methodCache \in [Classes -> {"absent", "null", "id"}]
  /\ globalRefs \in [Classes -> 0..Cardinality(Threads)]
  /\ monitor \in Threads \cup {NULL}
  /\ frame \in [Threads -> [at : Places, cls : Classes \cup {NULL},
                            locked : BOOLEAN, forMethod : BOOLEAN]]
  /\ \A t \in Threads : frame[t].cls = NULL <=> frame[t].at \in {"scala", "native", "check"}
  /\ crashed \in BOOLEAN
  /\ overlapped \subseteq Classes

Init ==
  /\ onLoad = "begins"
  /\ exceptionCls = {} /\ exceptToString = {} /\ libuastCache = {}
  /\ classCache = [c \in Classes |-> "absent"]
  /\ methodCache = [c \in Classes |-> "absent"]
  /\ globalRefs = [c \in Classes |-> 0]
  /\ monitor = NULL
  /\ frame = [t \in Threads |-> Outside]
  /\ crashed = FALSE
  /\ overlapped = {}

-----------------------------------------------------------------------------
Goto(t, at, c) == frame' = [frame EXCEPT ![t].at = at, ![t].cls = c]

\* FindClass was called by MethodID, which goes on with the class, or by the
\* native code itself.
FindClassReturns(t) ==
  IF frame[t].forMethod THEN Goto(t, "getMethod", frame[t].cls) ELSE Goto(t, "native", NULL)

\* JNI_OnLoad, before any native method can be called: a global reference of
\* RuntimeException, kept in exceptionCls and in Libuast.cc's own cache.
OnLoadClass ==
  /\ onLoad = "begins"
  /\ \/ /\ onLoad' = "hasClass"
        /\ exceptionCls' = {"Libuast.cc"} /\ libuastCache' = {"class"}
     \/ onLoad' = "failed" /\ UNCHANGED <<exceptionCls, libuastCache>>
  /\ UNCHANGED <<exceptToString, classCache, methodCache, globalRefs, monitor, frame, crashed, overlapped>>

\* ... and its toString.  After JNI_ERR the JVM takes no native call of the
\* library; the reference stays.
OnLoadMethod ==
  /\ onLoad = "hasClass"
  /\ \/ /\ onLoad' = "done"
        /\ exceptToString' = {"Libuast.cc"} /\ libuastCache' = libuastCache \cup {"method"}
     \/ onLoad' = "failed" /\ UNCHANGED <<exceptToString, libuastCache>>
  /\ UNCHANGED <<exceptionCls, classCache, methodCache, globalRefs, monitor, frame, crashed, overlapped>>

\* A call of decode or filter that does not take the monitor.
EnterUnsynchronized(t) ==
  /\ onLoad = "done"
  /\ frame[t] = Outside
  /\ frame' = [frame EXCEPT ![t] = [Outside EXCEPT !.at = "native", !.locked = TRUE]]
  /\ UNCHANGED <<library, classCache, methodCache, globalRefs, monitor, crashed, overlapped>>

\* BblfshClient.decode and filter.
EnterSynchronized(t) ==
  /\ onLoad = "done"
  /\ frame[t] = Outside
  /\ monitor = NULL
  /\ monitor' = t
  /\ frame' = [frame EXCEPT ![t] = [Outside EXCEPT !.at = "native", !.locked = TRUE]]
  /\ UNCHANGED <<library, classCache, methodCache, globalRefs, crashed, overlapped>>

\* Every other native method: root, load, encode, iterator, nativeNext, ...
Enter(t) ==
  /\ onLoad = "done"
  /\ frame[t] = Outside
  /\ frame' = [frame EXCEPT ![t] = [Outside EXCEPT !.at = "native"]]
  /\ UNCHANGED <<library, classCache, methodCache, globalRefs, monitor, crashed, overlapped>>

Leave(t) ==
  /\ frame[t].at = "native"
  /\ monitor' = IF frame[t].locked THEN NULL ELSE monitor
  /\ frame' = [frame EXCEPT ![t] = Outside]
  /\ UNCHANGED <<library, classCache, methodCache, globalRefs, crashed, overlapped>>

-----------------------------------------------------------------------------
Finding(c) == {t \in Threads : frame[t].cls = c /\ frame[t].at \in {"read", "find", "write"}}

\* FindClass begins: the thread is inside classCache[className].
BeginRead(t, c, forMethod) ==
  /\ frame' = [frame EXCEPT ![t].at = "read", ![t].cls = c, ![t].forMethod = forMethod]
  /\ overlapped' = IF Finding(c) # {} THEN overlapped \cup {c} ELSE overlapped
  /\ UNCHANGED <<library, classCache, globalRefs, monitor, crashed>>

FindClass(t, c) ==
  /\ frame[t].at = "native"
  /\ BeginRead(t, c, FALSE)
  /\ UNCHANGED methodCache

\* A hit returns the reference; a miss has inserted a null entry.
EndRead(t) ==
  LET c == frame[t].cls IN
  /\ frame[t].at = "read"
  /\ \/ /\ classCache[c] = "ref"
        /\ FindClassReturns(t)
        /\ UNCHANGED classCache
     \/ /\ classCache[c] # "ref"
        /\ classCache' = [classCache EXCEPT ![c] = "null"]
        /\ Goto(t, "find", c)
  /\ UNCHANGED <<library, methodCache, globalRefs, monitor, crashed, overlapped>>

\* env->FindClass and NewGlobalRef; the class may not be there to find.
Find(t) ==
  LET c == frame[t].cls IN
  /\ frame[t].at = "find"
  /\ \/ /\ globalRefs' = [globalRefs EXCEPT ![c] = @ + 1]
        /\ Goto(t, "write", c)
     \/ /\ Goto(t, "check", NULL)
        /\ UNCHANGED globalRefs
  /\ UNCHANGED <<library, classCache, methodCache, monitor, crashed, overlapped>>

\* FindClass that returns the class and does not keep it.
WriteForgotten(t) ==
  /\ frame[t].at = "write"
  /\ FindClassReturns(t)
  /\ UNCHANGED <<library, classCache, methodCache, globalRefs, monitor, crashed, overlapped>>

\* classCache[className] = result
Write(t) ==
  /\ frame[t].at = "write"
  /\ classCache' = [classCache EXCEPT ![frame[t].cls] = "ref"]
  /\ FindClassReturns(t)
  /\ UNCHANGED <<library, methodCache, globalRefs, monitor, crashed, overlapped>>

-----------------------------------------------------------------------------
\* MethodID, of IntMethod, ObjectMethod or NewJavaObject, is inside
\* methodCache[className][method][signature].
MethodID(t, c) ==
  /\ frame[t].at = "native"
  /\ Goto(t, "readMethod", c)
  /\ UNCHANGED <<library, classCache, methodCache, globalRefs, monitor, crashed, overlapped>>

\* A hit returns the id; a miss has inserted a null entry, and finds the class.
EndReadMethod(t) ==
  LET c == frame[t].cls IN
  /\ frame[t].at = "readMethod"
  /\ \/ /\ methodCache[c] = "id"
        /\ Goto(t, "native", NULL)
        /\ UNCHANGED <<library, classCache, methodCache, globalRefs, monitor, crashed, overlapped>>
     \/ /\ methodCache[c] # "id"
        /\ methodCache' = [methodCache EXCEPT ![c] = "null"]
        /\ BeginRead(t, c, TRUE)

\* env->GetMethodID; the method may not be there.
GetMethodID(t) ==
  /\ frame[t].at = "getMethod"
  /\ Goto(t, "writeMethod", frame[t].cls) \/ Goto(t, "check", NULL)
  /\ UNCHANGED <<library, classCache, methodCache, globalRefs, monitor, crashed, overlapped>>

\* methodCache[className][method][signature] = result
WriteMethod(t) ==
  /\ frame[t].at = "writeMethod"
  /\ methodCache' = [methodCache EXCEPT ![frame[t].cls] = "id"]
  /\ Goto(t, "native", NULL)
  /\ UNCHANGED <<library, classCache, globalRefs, monitor, crashed, overlapped>>

-----------------------------------------------------------------------------
\* A Java method called from native code (size, valueAt, hashCode, ...) throws.
UpcallThrows(t) ==
  /\ frame[t].at = "native"
  /\ Goto(t, "check", NULL)
  /\ UNCHANGED <<library, classCache, methodCache, globalRefs, monitor, crashed, overlapped>>

\* checkJvmException with an exception pending calls its own exceptToString.
CheckJvmException(t) ==
  /\ frame[t].at = "check"
  /\ IF "jni_utils.cc" \in exceptToString
     THEN Goto(t, "native", NULL) /\ UNCHANGED crashed
     ELSE crashed' = TRUE /\ UNCHANGED frame
  /\ UNCHANGED <<library, classCache, methodCache, globalRefs, monitor, overlapped>>

Step(t) ==
  \/ EnterSynchronized(t) \/ Enter(t) \/ Leave(t)
  \/ \E c \in Classes : FindClass(t, c) \/ MethodID(t, c)
  \/ EndRead(t) \/ Find(t) \/ Write(t)
  \/ EndReadMethod(t) \/ GetMethodID(t) \/ WriteMethod(t)
  \/ UpcallThrows(t) \/ CheckJvmException(t)

Next == ~crashed /\ (OnLoadClass \/ OnLoadMethod \/ \E t \in Threads : Step(t))

Spec == Init /\ [][Next]_vars

-----------------------------------------------------------------------------
(***************************************************************************)
(* Properties.                                                             *)
(***************************************************************************)
InMap(t)  == IF frame[t].at \in {"read", "write"} THEN "class"
             ELSE IF frame[t].at \in {"readMethod", "writeMethod"} THEN "method" ELSE "none"
\* operator[] of a key that is absent changes the map, too.
Writes(t) ==
  \/ frame[t].at \in {"write", "writeMethod"}
  \/ frame[t].at = "read" /\ classCache[frame[t].cls] = "absent"
  \/ frame[t].at = "readMethod" /\ methodCache[frame[t].cls] = "absent"

\* A data race: two threads inside one of the maps, one of them changing it.
Race(t, u) == t # u /\ InMap(t) = InMap(u) /\ InMap(t) # "none" /\ (Writes(t) \/ Writes(u))

\* Threads that only decode and filter through BblfshClient never race on the
\* caches: one of the threads of a race came in without the monitor.
RaceNeedsUnlockedCall ==
  \A t, u \in Threads : Race(t, u) => ~frame[t].locked \/ ~frame[u].locked

\* The global references of c; none is ever released.
Refs(c) ==
  globalRefs[c] + IF c = CLS_RE THEN Cardinality(exceptionCls) ELSE 0

\* FindClass makes one global reference of a class, however often it is called:
\* a second takes two threads that were finding the class at once.  So of
\* RuntimeException, which JNI_OnLoad has made one of, there may be two.
OneRefPerClass ==
  \A c \in Classes : Refs(c) > (IF c = CLS_RE THEN 2 ELSE 1) => c \in overlapped

\* What jni_utils.h:64-68 says of checkJvmException: it throws a
\* RuntimeException in case there is a pending one.  The copy of
\* exceptToString it uses is never set: it calls a null method instead.
PendingExceptionIsRethrown == ~crashed
=============================================================================
