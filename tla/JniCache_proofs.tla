--------------------------- MODULE JniCache_proofs ---------------------------
(***************************************************************************)
(* JniCache for any number of threads and classes: who can race, and how   *)
(* many global references FindClass makes of a class.                      *)
(***************************************************************************)
EXTENDS JniCache, FiniteSetTheorems, TLAPS

F(c) == {t \in Threads : frame[t].at = "find" /\ frame[t].cls = c}
W(c) == {t \in Threads : frame[t].at = "write" /\ frame[t].cls = c}

\* A synchronized call has the monitor.
MonitorHeld == \A t \in Threads : frame[t].locked => monitor = t

\* Until the first thread writes the entry, each reference belongs to a thread
\* that is to write it; from then on only those make one that missed before.
RefsCounted ==
  \A c \in Classes :
    /\ classCache[c] # "ref" => globalRefs[c] = Cardinality(W(c))
    /\ globalRefs[c] + Cardinality(F(c)) <= Cardinality(Threads)

\* Without an overlap there is one finder, and none behind the first write.
OneFinder ==
  \A c \in Classes \ overlapped :
    /\ \A t, u \in Finding(c) : t = u
    /\ classCache[c] = "ref" => globalRefs[c] <= 1 /\ F(c) = {} /\ W(c) = {}

\* JNI_OnLoad makes one reference, and keeps it in Libuast.cc.
LibraryOK ==
  /\ onLoad \in {"begins", "hasClass", "failed", "done"}
  /\ exceptionCls \in {{}, {"Libuast.cc"}}
  /\ exceptToString \subseteq Units
  /\ libuastCache \subseteq {"class", "method"}

\* TypeOK but for the bound of globalRefs, which RefsCounted has.
Typed ==
  /\ LibraryOK
  /\ classCache \in [Classes -> {"absent", "null", "ref"}]
  /\ methodCache \in [Classes -> {"absent", "null", "id"}]
  /\ globalRefs \in [Classes -> Nat]
  /\ monitor \in Threads \cup {NULL}
  /\ frame \in [Threads -> [at : Places, cls : Classes \cup {NULL},
                            locked : BOOLEAN, forMethod : BOOLEAN]]
  /\ \A t \in Threads : frame[t].cls = NULL <=> frame[t].at \in {"scala", "native", "check"}
  /\ crashed \in BOOLEAN
  /\ overlapped \subseteq Classes

Inv == Typed /\ MonitorHeld /\ RefsCounted /\ OneFinder

-----------------------------------------------------------------------------
LEMMA CountsFinite ==
  \A c \in Classes : /\ IsFiniteSet(F(c)) /\ IsFiniteSet(W(c))
                     /\ Cardinality(F(c)) \in Nat /\ Cardinality(W(c)) \in Nat
                     /\ Cardinality(Threads) \in Nat
BY ThreadsFinite, FS_Subset, FS_CardinalityType DEF F, W

LEMMA InitInv == Init => Inv
<1> SUFFICES ASSUME Init PROVE Inv
  OBVIOUS
<1>1. Typed /\ MonitorHeld
  BY DEF Init, Typed, LibraryOK, MonitorHeld, Outside, Places, Units
<1>2. \A c \in Classes : F(c) = {} /\ W(c) = {} /\ Finding(c) = {}
  BY DEF Init, F, W, Finding, Outside
<1>3. RefsCounted
  BY <1>2, CountsFinite, FS_EmptySet DEF Init, RefsCounted
<1>4. OneFinder
  BY <1>2 DEF Init, OneFinder
<1> QED
  BY <1>1, <1>3, <1>4 DEF Inv

\* A step outside of FindClass.
LEMMA OutsideStep ==
  ASSUME Inv, NEW t \in Threads, UNCHANGED <<classCache, globalRefs, overlapped>>,
         \A u \in Threads \ {t} : frame'[u] = frame[u],
         frame[t].at \notin {"read", "find", "write"},
         frame'[t].at \notin {"read", "find", "write"}
  PROVE  RefsCounted' /\ OneFinder'
<1>1. \A c \in Classes : F(c)' = F(c) /\ W(c)' = W(c) /\ Finding(c)' = Finding(c)
  BY DEF F, W, Finding
<1> QED
  BY <1>1 DEF Inv, RefsCounted, OneFinder

\* FindClass begins.
LEMMA BeginReadInv ==
  ASSUME Inv, NEW t \in Threads, NEW c \in Classes, NEW m \in BOOLEAN, BeginRead(t, c, m),
         frame[t].at \in {"native", "readMethod"}
  PROVE  RefsCounted' /\ OneFinder'
<1>1. /\ \A u \in Threads \ {t} : frame'[u] = frame[u]
      /\ frame'[t].at = "read" /\ frame'[t].cls = c
  BY DEF Inv, Typed, BeginRead
<1>2. /\ \A d \in Classes : F(d)' = F(d) /\ W(d)' = W(d)
      /\ \A d \in Classes \ {c} : Finding(d)' = Finding(d)
      /\ Finding(c)' = Finding(c) \cup {t}
  BY <1>1 DEF F, W, Finding
<1>3. RefsCounted'
  BY <1>2 DEF Inv, RefsCounted, BeginRead
<1>4. OneFinder'
  BY <1>2 DEF Inv, OneFinder, BeginRead
<1> QED
  BY <1>3, <1>4

\* A hit leaves FindClass; behind a miss there is one more to make a
\* reference, and still no more than there are threads.
LEMMA EndReadInv ==
  ASSUME Inv, NEW t \in Threads, EndRead(t)
  PROVE  RefsCounted' /\ OneFinder'
<1>c. PICK c \in Classes : c = frame[t].cls
  BY DEF Inv, Typed, EndRead, Find, Write
<1>1. c \in Classes /\ frame[t].at = "read" /\ globalRefs' = globalRefs /\ overlapped' = overlapped
  BY <1>c DEF Inv, Typed, EndRead
<1>2. CASE classCache[c] = "ref" /\ classCache' = classCache /\ FindClassReturns(t)
  <2>1. \A u \in Threads \ {t} : frame'[u] = frame[u]
    BY <1>2 DEF Inv, Typed, FindClassReturns, Goto
  <2>2. frame'[t].at \in {"native", "getMethod"}
    BY <1>2 DEF Inv, Typed, FindClassReturns, Goto
  <2>3. \A d \in Classes : F(d)' = F(d) /\ W(d)' = W(d) /\ Finding(d)' \subseteq Finding(d)
    BY <1>c, <1>1, <2>1, <2>2 DEF F, W, Finding
  <2> QED
    BY <1>1, <1>2, <2>3 DEF Inv, RefsCounted, OneFinder
<1>3. CASE classCache[c] # "ref" /\ classCache' = [classCache EXCEPT ![c] = "null"]
           /\ Goto(t, "find", c)
  <2>1. /\ \A u \in Threads \ {t} : frame'[u] = frame[u]
        /\ frame'[t].at = "find" /\ frame'[t].cls = c
    BY <1>3 DEF Inv, Typed, Goto
  <2>2. /\ \A d \in Classes : W(d)' = W(d) /\ Finding(d)' = Finding(d)
        /\ \A d \in Classes \ {c} : F(d)' = F(d)
        /\ F(c)' = F(c) \cup {t}
    BY <1>c, <1>1, <2>1 DEF F, W, Finding
  <2>3. classCache'[c] = "null" /\ \A d \in Classes \ {c} : classCache'[d] = classCache[d]
    BY <1>1, <1>3 DEF Inv, Typed
  <2>4. globalRefs[c] + Cardinality(F(c) \cup {t}) <= Cardinality(Threads)
    <3>1. t \notin F(c) /\ t \notin W(c) /\ F(c) \cap W(c) = {}
      BY <1>c, <1>1 DEF F, W
    <3>2. IsFiniteSet(F(c) \cup {t}) /\ Cardinality(F(c) \cup {t}) \in Nat
      BY <1>1, CountsFinite, FS_AddElement, FS_CardinalityType
    <3>3. Cardinality((F(c) \cup {t}) \cup W(c)) =
            Cardinality(F(c) \cup {t}) + Cardinality(W(c)) - Cardinality((F(c) \cup {t}) \cap W(c))
      BY <1>1, <3>2, CountsFinite, FS_Union
    <3>4. (F(c) \cup {t}) \cap W(c) = {}
      BY <3>1
    <3>5. Cardinality((F(c) \cup {t}) \cup W(c)) <= Cardinality(Threads)
      <4>1. (F(c) \cup {t}) \cup W(c) \subseteq Threads
        BY DEF F, W
      <4> QED
        BY <4>1, ThreadsFinite, FS_Subset
    <3>6. globalRefs[c] = Cardinality(W(c))
      BY <1>1, <1>3 DEF Inv, RefsCounted
    <3>7. Cardinality({}) = 0
      BY FS_EmptySet
    <3>8. Cardinality((F(c) \cup {t}) \cup W(c)) = Cardinality(F(c) \cup {t}) + Cardinality(W(c)) - 0
      BY <3>3, <3>4, <3>7, Zenon
    <3>9. Cardinality(W(c)) \in Nat /\ Cardinality(Threads) \in Nat
      BY CountsFinite
    <3> QED
      BY <3>2, <3>5, <3>6, <3>8, <3>9
  <2>5. RefsCounted'
    BY <1>1, <1>3, <2>2, <2>3, <2>4 DEF Inv, RefsCounted
  <2>6. OneFinder'
    BY <1>1, <1>3, <2>2, <2>3 DEF Inv, OneFinder
  <2> QED
    BY <2>5, <2>6
<1> QED
  BY <1>c, <1>1, <1>2, <1>3 DEF EndRead

\* Who makes a reference passes from F to W, who finds no class leaves.
LEMMA FindInv ==
  ASSUME Inv, NEW t \in Threads, Find(t)
  PROVE  RefsCounted' /\ OneFinder'
<1>c. PICK c \in Classes : c = frame[t].cls
  BY DEF Inv, Typed, EndRead, Find, Write
<1>1. /\ c \in Classes /\ frame[t].at = "find" /\ classCache' = classCache
      /\ overlapped' = overlapped /\ t \in F(c) /\ t \notin W(c)
  BY <1>c DEF Inv, Typed, Find, F, W
<1>2. /\ Cardinality(F(c) \ {t}) = Cardinality(F(c)) - 1
      /\ Cardinality(W(c) \cup {t}) = Cardinality(W(c)) + 1
  BY <1>1, CountsFinite, FS_RemoveElement, FS_AddElement
<1>3. CASE globalRefs' = [globalRefs EXCEPT ![c] = @ + 1] /\ Goto(t, "write", c)
  <2>1. /\ \A u \in Threads \ {t} : frame'[u] = frame[u]
        /\ frame'[t].at = "write" /\ frame'[t].cls = c
    BY <1>3 DEF Inv, Typed, Goto
  <2>2. /\ \A d \in Classes : Finding(d)' = Finding(d)
        /\ \A d \in Classes \ {c} : F(d)' = F(d) /\ W(d)' = W(d)
        /\ F(c)' = F(c) \ {t} /\ W(c)' = W(c) \cup {t}
    BY <1>c, <1>1, <2>1 DEF F, W, Finding
  <2>3. globalRefs'[c] = globalRefs[c] + 1 /\ globalRefs[c] \in Nat
        /\ \A d \in Classes \ {c} : globalRefs'[d] = globalRefs[d]
    BY <1>1, <1>3 DEF Inv, Typed
  <2>4. RefsCounted'
    <3>1. /\ Cardinality(F(c)') = Cardinality(F(c)) - 1
          /\ Cardinality(W(c)') = Cardinality(W(c)) + 1
      BY <1>2, <2>2
    <3>2. /\ Cardinality(F(c)) \in Nat /\ Cardinality(W(c)) \in Nat
          /\ Cardinality(Threads) \in Nat
      BY CountsFinite
    <3>3. /\ classCache[c] # "ref" => globalRefs'[c] = Cardinality(W(c)')
          /\ globalRefs'[c] + Cardinality(F(c)') <= Cardinality(Threads)
      BY <2>3, <3>1, <3>2 DEF Inv, RefsCounted
    <3> QED
      BY <1>1, <2>2, <2>3, <3>3 DEF Inv, RefsCounted
  <2>5. OneFinder'
    BY <1>1, <2>2, <2>3 DEF Inv, OneFinder
  <2> QED
    BY <2>4, <2>5
<1>4. CASE Goto(t, "check", NULL) /\ globalRefs' = globalRefs
  <2>1. \A u \in Threads \ {t} : frame'[u] = frame[u]
    BY <1>4 DEF Inv, Typed, Goto
  <2>2. frame'[t].at = "check"
    BY <1>4 DEF Inv, Typed, Goto
  <2>3. /\ \A d \in Classes : Finding(d)' \subseteq Finding(d) /\ W(d)' = W(d)
        /\ \A d \in Classes \ {c} : F(d)' = F(d)
        /\ F(c)' = F(c) \ {t}
    BY <1>c, <1>1, <2>1, <2>2 DEF F, W, Finding
  <2>4. RefsCounted'
    <3>1. globalRefs[c] \in Nat
      BY <1>1 DEF Inv, Typed
    <3>2. Cardinality(F(c)') = Cardinality(F(c)) - 1
      BY <1>2, <2>3
    <3>3. Cardinality(F(c)) \in Nat /\ Cardinality(Threads) \in Nat
      BY CountsFinite
    <3>4. globalRefs[c] + Cardinality(F(c)') <= Cardinality(Threads)
      BY <3>1, <3>2, <3>3 DEF Inv, RefsCounted
    <3> QED
      BY <1>1, <1>4, <2>3, <3>4 DEF Inv, RefsCounted
  <2>5. OneFinder'
    BY <1>1, <1>4, <2>3 DEF Inv, OneFinder
  <2> QED
    BY <2>4, <2>5
<1> QED
  BY <1>c, <1>1, <1>3, <1>4 DEF Find

LEMMA WriteInv ==
  ASSUME Inv, NEW t \in Threads, Write(t)
  PROVE  RefsCounted' /\ OneFinder'
<1>c. PICK c \in Classes : c = frame[t].cls
  BY DEF Inv, Typed, EndRead, Find, Write
<1>1. /\ c \in Classes /\ frame[t].at = "write" /\ globalRefs' = globalRefs
      /\ overlapped' = overlapped /\ classCache' = [classCache EXCEPT ![c] = "ref"]
  BY <1>c DEF Inv, Typed, Write
<1>2. \A u \in Threads \ {t} : frame'[u] = frame[u]
  BY DEF Inv, Typed, Write, FindClassReturns, Goto
<1>3. frame'[t].at \in {"native", "getMethod"}
  BY DEF Inv, Typed, Write, FindClassReturns, Goto
<1>4. /\ \A d \in Classes : F(d)' = F(d) /\ W(d)' \subseteq W(d) /\ Finding(d)' \subseteq Finding(d)
      /\ \A d \in Classes \ {c} : W(d)' = W(d)
      /\ W(c)' = W(c) \ {t}
  BY <1>c, <1>1, <1>2, <1>3 DEF F, W, Finding
<1>5. classCache'[c] = "ref" /\ \A d \in Classes \ {c} : classCache'[d] = classCache[d]
  BY <1>1 DEF Inv, Typed
<1>6. RefsCounted'
  BY <1>1, <1>4, <1>5 DEF Inv, RefsCounted
<1>7. ASSUME c \notin overlapped PROVE globalRefs[c] <= 1 /\ F(c) = {} /\ W(c) \ {t} = {}
  <2>1. t \in Finding(c) /\ t \in W(c) /\ F(c) \subseteq Finding(c) /\ W(c) \subseteq Finding(c)
    BY <1>c, <1>1 DEF F, W, Finding
  <2>2. \A u \in Finding(c) : u = t
    BY <1>1, <1>7, <2>1 DEF Inv, OneFinder
  <2>3. t \notin F(c)
    BY <1>c, <1>1 DEF F
  <2>4. W(c) = {t} /\ F(c) = {}
    BY <2>1, <2>2, <2>3
  <2>5. classCache[c] # "ref"
    BY <1>1, <1>7, <2>1 DEF Inv, OneFinder
  <2>6. globalRefs[c] = 1
    BY <1>1, <2>4, <2>5, FS_Singleton DEF Inv, RefsCounted
  <2> QED
    BY <2>4, <2>6
<1>8. OneFinder'
  BY <1>1, <1>4, <1>5, <1>7 DEF Inv, OneFinder
<1> QED
  BY <1>6, <1>8

-----------------------------------------------------------------------------
\* Types, and who has the monitor.
LEMMA GotoTyped ==
  ASSUME Inv, NEW t \in Threads, NEW place \in Places, NEW c \in Classes \cup {NULL},
         c = NULL <=> place \in {"scala", "native", "check"}, Goto(t, place, c)
  PROVE  /\ frame' \in [Threads -> [at : Places, cls : Classes \cup {NULL},
                                    locked : BOOLEAN, forMethod : BOOLEAN]]
         /\ \A u \in Threads :
              frame'[u].cls = NULL <=> frame'[u].at \in {"scala", "native", "check"}
         /\ \A u \in Threads : frame'[u].locked = frame[u].locked
         /\ \A u \in Threads \ {t} : frame'[u] = frame[u]
         /\ frame'[t].at = place
<1>1. frame \in [Threads -> [at : Places, cls : Classes \cup {NULL},
                             locked : BOOLEAN, forMethod : BOOLEAN]]
  BY DEF Inv, Typed
<1>2. frame' = [frame EXCEPT ![t] = [@ EXCEPT !.at = place, !.cls = c]]
  BY <1>1 DEF Goto
<1>3. /\ \A u \in Threads \ {t} : frame'[u] = frame[u]
      /\ frame'[t] = [frame[t] EXCEPT !.at = place, !.cls = c]
  BY <1>1, <1>2
<1>4. frame' \in [Threads -> [at : Places, cls : Classes \cup {NULL},
                              locked : BOOLEAN, forMethod : BOOLEAN]]
  BY <1>1, <1>2
<1>5. frame'[t].at = place /\ frame'[t].cls = c /\ frame'[t].locked = frame[t].locked
  BY <1>1, <1>3
<1> QED
  BY <1>3, <1>4, <1>5 DEF Inv, Typed

LEMMA StepTyped ==
  ASSUME Inv, NEW t \in Threads, Step(t)
  PROVE  Typed' /\ MonitorHeld'
<1>0. LibraryOK /\ (UNCHANGED library => LibraryOK')
  BY DEF Inv, Typed, LibraryOK, library
<1> USE <1>0 DEF Inv, Typed, MonitorHeld, Places
<1>1. CASE EnterSynchronized(t)
  BY <1>1, NullIsNone DEF EnterSynchronized, Outside
<1>2. CASE Enter(t)
  BY <1>2, NullIsNone DEF Enter, Outside
<1>3. CASE Leave(t)
  BY <1>3, NullIsNone DEF Leave, Outside
<1>4. CASE EndRead(t)
  BY <1>4, NullIsNone DEF EndRead, FindClassReturns, Goto
<1>5. CASE Find(t)
  BY <1>5, NullIsNone DEF Find, Goto
<1>6. CASE Write(t)
  BY <1>6, NullIsNone DEF Write, FindClassReturns, Goto
<1>7. CASE GetMethodID(t)
  BY <1>7, NullIsNone DEF GetMethodID, Goto
<1>8. CASE WriteMethod(t)
  BY <1>8, NullIsNone DEF WriteMethod, Goto
<1>9. CASE UpcallThrows(t)
  BY <1>9, GotoTyped DEF UpcallThrows
<1>10. CASE CheckJvmException(t)
  BY <1>10, GotoTyped DEF CheckJvmException
<1>11. ASSUME NEW c \in Classes, FindClass(t, c) PROVE Typed' /\ MonitorHeld'
  BY <1>11, NullIsNone DEF FindClass, BeginRead
<1>12. ASSUME NEW c \in Classes, MethodID(t, c) PROVE Typed' /\ MonitorHeld'
  BY <1>12, NullIsNone DEF MethodID, Goto
<1>13. CASE EndReadMethod(t)
  BY <1>13, NullIsNone DEF EndReadMethod, BeginRead, Goto
<1> QED
  BY <1>1, <1>2, <1>3, <1>4, <1>5, <1>6, <1>7, <1>8, <1>9, <1>10, <1>11, <1>12, <1>13 DEF Step

\* The steps outside of FindClass leave its threads and its map alone.
LEMMA StepOutside ==
  ASSUME Inv, NEW t \in Threads,
         \/ EnterSynchronized(t) \/ Enter(t) \/ Leave(t) \/ UpcallThrows(t)
         \/ CheckJvmException(t) \/ GetMethodID(t) \/ WriteMethod(t)
         \/ \E c \in Classes : MethodID(t, c)
  PROVE  RefsCounted' /\ OneFinder'
<1> DEFINE Quiet == /\ UNCHANGED <<classCache, globalRefs, overlapped>>
                    /\ \A u \in Threads \ {t} : frame'[u] = frame[u]
                    /\ frame[t].at \notin {"read", "find", "write"}
                    /\ frame'[t].at \notin {"read", "find", "write"}
<1>f. frame \in [Threads -> [at : Places, cls : Classes \cup {NULL},
                             locked : BOOLEAN, forMethod : BOOLEAN]]
  BY DEF Inv, Typed
<1>1. ASSUME EnterSynchronized(t) PROVE Quiet
  BY <1>f, <1>1 DEF EnterSynchronized, Outside
<1>2. ASSUME Enter(t) PROVE Quiet
  BY <1>f, <1>2 DEF Enter, Outside
<1>3. ASSUME Leave(t) PROVE Quiet
  BY <1>f, <1>3 DEF Leave, Outside
<1>4. ASSUME UpcallThrows(t) PROVE Quiet
  BY <1>f, <1>4 DEF UpcallThrows, Goto
<1>5. ASSUME CheckJvmException(t) PROVE Quiet
  BY <1>f, <1>5 DEF CheckJvmException, Goto
<1>6. ASSUME GetMethodID(t) PROVE Quiet
  BY <1>f, <1>6 DEF GetMethodID, Goto
<1>7. ASSUME WriteMethod(t) PROVE Quiet
  BY <1>f, <1>7 DEF WriteMethod, Goto
<1>8. ASSUME NEW c \in Classes, MethodID(t, c) PROVE Quiet
  <2>1. Goto(t, "readMethod", c) /\ c # NULL /\ frame[t].at = "native"
    BY <1>8, NullIsNone DEF MethodID
  <2>2. \A u \in Threads \ {t} : frame'[u] = frame[u]
    BY <2>1, GotoTyped DEF Places
  <2>3. frame'[t].at = "readMethod"
    BY <2>1, GotoTyped DEF Places
  <2> QED
    BY <1>8, <2>1, <2>2, <2>3 DEF MethodID
<1>9. Quiet
  BY <1>1, <1>2, <1>3, <1>4, <1>5, <1>6, <1>7, <1>8
<1> QED
  BY <1>9, OutsideStep

\* One step of one thread.
LEMMA StepInv ==
  ASSUME Inv, NEW t \in Threads, Step(t)
  PROVE  Inv'
<1>1. Typed' /\ MonitorHeld'
  BY StepTyped
<1>2. CASE EndRead(t)
  BY <1>1, <1>2, EndReadInv DEF Inv
<1>3. CASE Find(t)
  BY <1>1, <1>3, FindInv DEF Inv
<1>4. CASE Write(t)
  BY <1>1, <1>4, WriteInv DEF Inv
<1>5. ASSUME NEW c \in Classes, FindClass(t, c) PROVE Inv'
  BY <1>1, <1>5, BeginReadInv DEF Inv, FindClass
<1>6. CASE EndReadMethod(t)
  <2>1. frame[t].cls \in Classes /\ frame[t].at = "readMethod"
    BY <1>6 DEF Inv, Typed, EndReadMethod
  <2>2. CASE BeginRead(t, frame[t].cls, TRUE)
    BY <1>1, <2>1, <2>2, BeginReadInv DEF Inv
  <2>3. CASE Goto(t, "native", NULL) /\ UNCHANGED <<classCache, globalRefs, overlapped>>
    <3>1. /\ \A u \in Threads \ {t} : frame'[u] = frame[u]
          /\ frame'[t].at = "native"
      BY <2>3 DEF Inv, Typed, Goto
    <3> QED
      BY <1>1, <2>1, <2>3, <3>1, OutsideStep DEF Inv
  <2> QED
    BY <1>6, <2>2, <2>3 DEF EndReadMethod
<1>7. CASE \/ EnterSynchronized(t) \/ Enter(t) \/ Leave(t) \/ UpcallThrows(t)
           \/ CheckJvmException(t) \/ GetMethodID(t) \/ WriteMethod(t)
           \/ \E c \in Classes : MethodID(t, c)
  BY <1>1, <1>7, StepOutside DEF Inv
<1> QED
  BY <1>2, <1>3, <1>4, <1>5, <1>6, <1>7 DEF Step

LEMMA NextInv == Inv /\ [Next]_vars => Inv'
<1> SUFFICES ASSUME Inv, [Next]_vars PROVE Inv'
  OBVIOUS
<1>1. CASE OnLoadClass \/ OnLoadMethod
  <2>1. LibraryOK' /\ UNCHANGED <<classCache, methodCache, globalRefs, monitor, frame, crashed, overlapped>>
    BY <1>1 DEF OnLoadClass, OnLoadMethod, Inv, Typed, LibraryOK, Units
  <2>2. Typed' /\ MonitorHeld'
    BY <2>1 DEF Inv, Typed, MonitorHeld
  <2>3. \A c \in Classes : F(c)' = F(c) /\ W(c)' = W(c) /\ Finding(c)' = Finding(c)
    BY <2>1 DEF F, W, Finding
  <2> QED
    BY <2>1, <2>2, <2>3 DEF Inv, RefsCounted, OneFinder
<1>2. ASSUME NEW t \in Threads, Step(t) PROVE Inv'
  BY <1>2, StepInv
<1>3. CASE UNCHANGED vars
  <2>1. Typed' /\ MonitorHeld'
    BY <1>3 DEF vars, library, Inv, Typed, LibraryOK, MonitorHeld
  <2>2. \A c \in Classes : F(c)' = F(c) /\ W(c)' = W(c) /\ Finding(c)' = Finding(c)
    BY <1>3 DEF vars, F, W, Finding
  <2> QED
    BY <1>3, <2>1, <2>2 DEF vars, Inv, RefsCounted, OneFinder
<1> QED
  BY <1>1, <1>2, <1>3 DEF Next

LEMMA Invariance == Spec => []Inv
BY InitInv, NextInv, PTL DEF Spec

\* The variables keep their types, and of no class are more references made
\* than there are threads.
THEOREM TypeCorrect == Spec => []TypeOK
<1>1. Inv => TypeOK
  <2> SUFFICES ASSUME Inv, NEW c \in Classes PROVE globalRefs[c] \in 0..Cardinality(Threads)
    BY DEF Inv, Typed, LibraryOK, TypeOK, Units
  <2>1. globalRefs[c] \in Nat /\ globalRefs[c] + Cardinality(F(c)) <= Cardinality(Threads)
    BY DEF Inv, Typed, RefsCounted
  <2>2. Cardinality(F(c)) \in Nat /\ Cardinality(Threads) \in Nat
    BY CountsFinite
  <2> QED
    BY <2>1, <2>2
<1> QED
  BY <1>1, Invariance, PTL

\* Threads that only decode and filter through BblfshClient never race.
THEOREM SynchronizedNeverRace == Spec => []RaceNeedsUnlockedCall
<1>1. Inv => RaceNeedsUnlockedCall
  BY DEF Inv, MonitorHeld, RaceNeedsUnlockedCall, Race
<1> QED
  BY <1>1, Invariance, PTL

\* A second global reference that FindClass makes of a class takes two threads
\* that find it at once; of RuntimeException there is JNI_OnLoad's besides.
THEOREM SecondRefNeedsOverlap == Spec => []OneRefPerClass
<1>1. ASSUME Inv, NEW c \in Classes \ overlapped PROVE globalRefs[c] <= 1
  <2>1. CASE classCache[c] = "ref"
    BY <1>1, <2>1 DEF Inv, OneFinder
  <2>2. CASE classCache[c] # "ref"
    <3>1. globalRefs[c] = Cardinality(W(c)) /\ \A t, u \in W(c) : t = u
      BY <1>1, <2>2 DEF Inv, RefsCounted, OneFinder, W, Finding
    <3>2. CASE W(c) = {}
      BY <3>1, <3>2, FS_EmptySet
    <3>3. CASE W(c) # {}
      <4>1. PICK t : W(c) = {t}
        BY <3>1, <3>3
      <4> QED
        BY <3>1, <4>1, FS_Singleton
    <3> QED
      BY <3>2, <3>3
  <2> QED
    BY <2>1, <2>2
<1>2. ASSUME Inv PROVE OneRefPerClass
  <2>1. Cardinality({}) = 0 /\ Cardinality({"Libuast.cc"}) = 1
    BY FS_EmptySet, FS_Singleton
  <2>2. Cardinality(exceptionCls) \in {0, 1}
    BY <1>2, <2>1 DEF Inv, Typed, LibraryOK
  <2>3. \A c \in Classes : globalRefs[c] \in Nat
    BY <1>2 DEF Inv, Typed
  <2> QED
    BY <1>1, <1>2, <2>2, <2>3 DEF OneRefPerClass, Refs
<1> QED
  BY <1>2, Invariance, PTL
=============================================================================
