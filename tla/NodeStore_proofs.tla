--------------------------- MODULE NodeStore_proofs ---------------------------
(***************************************************************************)
(* Every reachable state of NodeStore satisfies Inv, for any JNodes and    *)
(* Nodes; the properties of NodeStore are parts of it.                     *)
(***************************************************************************)
EXTENDS NodeStore, TLAPS

LEMMA InitInv == Init => Inv
<1> SUFFICES ASSUME Init PROVE Inv
  OBVIOUS
<1> USE NullIsNeither DEF Init
<1>1. TypeOK
  BY DEF TypeOK, Frames, Entries, Entry, NoEntry, Idle, Frame
<1>2. EntriesOK /\ TrackedOK /\ FrameOK
  BY DEF EntriesOK, TrackedOK, FrameOK, Made, Idle, Frame, NoEntry, Entry
<1>3. NodesReleased /\ OneNodePerJNode /\ LookupAnswers
  BY DEF NodesReleased, OneNodePerJNode, LookupAnswers, Made
<1> QED
  BY <1>1, <1>2, <1>3 DEF Inv


\* A find gives an entry of the JNode asked for, one with a dead key, or none,
\* and never none for a key of a map without stale keys.
LEMMA FindGives ==
  ASSUME TypeOK, NEW o \in JNodes, NEW found \in Find(o)
  PROVE  /\ (found \in obj2node /\ found.key \in {o} \cup Refs) \/ found = NoEntry
         /\ found = NoEntry /\ stale = {} /\ DeadKeys = {} => o \notin Keys
<1>1. ASSUME stale = {}, DeadKeys = {}, found = NoEntry, o \in Keys PROVE FALSE
  <2>1. PICK e \in obj2node : e.key = o
    BY <1>1 DEF Keys
  <2>2. found \in obj2node
    BY <1>1, <2>1 DEF Find
  <2>3. NoEntry \notin Entries
    BY NullIsNeither DEF NoEntry, Entry, Entries
  <2> QED
    BY <1>1, <2>2, <2>3 DEF TypeOK
<1> QED
  BY <1>1 DEF Find

\* A map where no key has changed has no dead one.
LEMMA DeadIsRaced == ASSUME Inv, DeadKeys # {} PROVE raced # {} /\ stale # {}
BY DEF Inv, EntriesOK, TrackedOK, DeadKeys, Keys

\* The second find of a lookup.
LEMMA FindAgainGives ==
  ASSUME Inv, frame.at # "idle", NEW found \in FindAgain
  PROVE  /\ frame.jnode \in JNodes
         /\ (found \in obj2node /\ found.key \in {frame.jnode} \cup Refs) \/ found = NoEntry
         /\ found.key \in Refs => frame.jnode \in misled
         /\ found = NoEntry /\ frame.at = "get" => raced # {} /\ frame.jnode \in raced \cup misled
         /\ frame.at = "put" /\ found # NoEntry => raced # {} /\ frame.jnode \in raced \cup misled
<1>1. frame.jnode \in JNodes
  BY DEF Inv, FrameOK
<1>2. NoEntry \notin Entries
  BY NullIsNeither DEF NoEntry, Entry, Entries
<1>3. frame.at \in {"get", "put"} /\ obj2node \subseteq Entries
  BY DEF Inv, TypeOK, Frames
<1>4. (found \in obj2node /\ found.key \in {frame.jnode} \cup Refs) \/ found = NoEntry
  <2>1. CASE found \in Find(frame.jnode)
    BY <1>1, <2>1, FindGives DEF Inv
  <2>2. CASE found = frame.found
    BY <1>3, <2>2 DEF Inv, FrameOK
  <2> QED
    BY <2>1, <2>2 DEF FindAgain
<1>5. ASSUME found.key \in Refs PROVE frame.jnode \in misled
  <2>1. found # NoEntry
    BY <1>5, NullIsNeither DEF NoEntry, Entry
  <2>2. DeadKeys # {}
    BY <1>4, <1>5, <2>1 DEF DeadKeys, Keys
  <2> QED
    BY <2>2 DEF Inv, FrameOK
<1>6. CASE frame.keys = "same" /\ DeadKeys = {}
  <2>1. found = frame.found
    BY <1>6 DEF FindAgain
  <2> QED
    BY <1>1, <1>2, <1>3, <1>4, <1>5, <2>1 DEF Inv, FrameOK
<1>7. CASE frame.keys # "same" \/ DeadKeys # {}
  <2>1. raced # {} /\ frame.jnode \in raced \cup misled
    BY <1>7, DeadIsRaced DEF Inv, FrameOK
  <2> QED
    BY <1>1, <1>4, <1>5, <2>1
<1> QED
  BY <1>6, <1>7

\* Whose lookup meets a dead key is misled, and stays so.
LEMMA MisledGrows ==
  ASSUME Inv, NEW o \in JNodes, Misled(o)
  PROVE  /\ misled \subseteq misled' /\ misled' \subseteq JNodes
         /\ DeadKeys # {} => o \in misled'
         /\ raced = {} => misled' = {}
BY DeadIsRaced DEF Misled, Inv, TypeOK, TrackedOK

\* What an assignment to obj2node[o] leaves: the other entries, and one for n.
LEMMA AssignGives ==
  ASSUME TypeOK, NEW o \in JNodes, NEW n \in Nodes, NEW found, Assign(o, n, found),
         (found \in obj2node /\ found.key \in {o} \cup Refs) \/ found = NoEntry
  PROVE  /\ obj2node' \subseteq Entries
         /\ \A e \in obj2node' : e \in obj2node \/ (e.node = n /\ e.key = o)
                                 \/ (e.node = n /\ e.key \in Refs /\ found.key = e.key)
         /\ \A e \in obj2node : e # found => e \in obj2node'
         /\ Entry(o, n) \in obj2node' \/ found.key \in Refs
         /\ found \notin obj2node => obj2node' = obj2node \cup {Entry(o, n)}
<1> DEFINE key == IF found = NoEntry THEN o ELSE found.key
<1>1. obj2node' = (obj2node \ {found}) \cup {Entry(key, n)}
  BY DEF Assign
<1>2. NoEntry \notin Entries /\ obj2node \subseteq Entries
  BY NullIsNeither DEF NoEntry, Entry, Entries, TypeOK
<1>3. key \in {o} \cup Refs /\ (key \in Refs => found.key = key)
  <2>1. CASE found = NoEntry
    BY <2>1, RefsAreOthers
  <2>2. CASE found # NoEntry
    BY <2>2
  <2> QED
    BY <2>1, <2>2
<1>4. Entry(key, n) \in Entries /\ Entry(key, n).key = key /\ Entry(key, n).node = n
  BY <1>3 DEF Entry, Entries
<1>5. found \notin obj2node => obj2node' = obj2node \cup {Entry(o, n)}
  BY <1>1
<1> HIDE DEF key
<1>6. Entry(o, n) \in obj2node' \/ found.key \in Refs
  BY <1>1, <1>3
<1>7. \A e \in obj2node' : e \in obj2node \/ e = Entry(key, n)
  BY <1>1
<1>8. obj2node' \subseteq Entries
  BY <1>2, <1>4, <1>7
<1>9. \A e \in obj2node : e # found => e \in obj2node'
  BY <1>1
<1>10. \A e \in obj2node' : e \in obj2node \/ (e.node = n /\ e.key = o)
                           \/ (e.node = n /\ e.key \in Refs /\ found.key = e.key)
  BY <1>3, <1>4, <1>7
<1> QED
  BY <1>5, <1>6, <1>8, <1>9, <1>10

LEMMA TypeStep == ASSUME Inv, Next PROVE TypeOK'
<1> USE DEF Entry, NoEntry, Entries
<1>1. ASSUME NEW o \in JNodes, NEW n \in Nodes, Create(o, n) PROVE TypeOK'
  <2>1. PICK found \in Find(o) : Assign(o, n, found)
    BY <1>1 DEF Create
  <2>2. obj2node' \subseteq [key : JNodes \cup Refs, node : Nodes \cup {NULL}]
    BY <2>1, FindGives, AssignGives DEF Inv
  <2>3. misled' \subseteq JNodes
    BY <1>1, MisledGrows DEF Create
  <2> QED
    BY <1>1, <2>2, <2>3 DEF Create, NewNode, Inv, TypeOK
<1>2. ASSUME NEW o \in JNodes, Count(o) PROVE TypeOK'
  <2>1. PICK found \in Find(o) :
          \/ /\ found # NoEntry
             /\ frame' = Frame("get", o, NULL, found)
             /\ UNCHANGED obj
          \/ /\ found = NoEntry
             /\ \E n \in Nodes : NewNode(n, o) /\ frame' = Frame("put", o, n, found)
    BY <1>2 DEF Count
  <2>2. found \in Entries \cup {NoEntry}
    BY <2>1, FindGives DEF Inv, TypeOK
  <2>3. /\ obj' \in [Nodes -> JNodes \cup {NULL}]
        /\ frame' \in Frames
    BY <2>1, <2>2 DEF Frame, Frames, NewNode, Inv, TypeOK
  <2>4. misled' \subseteq JNodes
    BY <1>2, MisledGrows DEF Count
  <2> QED
    BY <1>2, <2>3, <2>4 DEF Count, Inv, TypeOK
<1>3. CASE Get
  <2>1. PICK found \in FindAgain :
          \/ /\ found # NoEntry
             /\ answer' = Entry(frame.jnode, found.node)
             /\ UNCHANGED obj2node
          \/ /\ found = NoEntry
             /\ answer' = Entry(frame.jnode, NULL)
             /\ \E ref \in Refs \ Keys : obj2node' = obj2node \cup {Entry(ref, NULL)}
    BY <1>3 DEF Get
  <2>2. frame.jnode \in JNodes /\ (found \in obj2node \/ found = NoEntry)
    BY <1>3, <2>1, FindAgainGives DEF Get
  <2> QED
    BY <1>3, <2>1, <2>2 DEF Get, Idle, Frame, Frames, Inv, TypeOK
<1>4. CASE Put
  <2>1. frame.at = "put" /\ frame.jnode \in JNodes /\ frame.node \in Nodes
    BY <1>4 DEF Put, Inv, FrameOK, TypeOK, Made
  <2>2. PICK found \in FindAgain : Assign(frame.jnode, frame.node, found)
    BY <1>4 DEF Put
  <2>3. obj2node' \subseteq [key : JNodes \cup Refs, node : Nodes \cup {NULL}]
    BY <2>1, <2>2, FindAgainGives, AssignGives DEF Inv
  <2> QED
    BY <1>4, <2>1, <2>3 DEF Put, Idle, Frame, Frames, Inv, TypeOK
<1>5. CASE Destroy
  <2>1. freed' \subseteq Nodes
    BY <1>5 DEF Destroy, Inv, TypeOK
  <2> QED
    BY <1>5, <2>1 DEF Destroy, Inv, TypeOK
<1>6. ASSUME NEW changed \in SUBSET JNodes, Add(changed) PROVE TypeOK'
  <2>1. frame # Idle => frame.jnode \in JNodes
    BY DEF Inv, FrameOK
  <2>2. frame' \in Frames
    BY <1>6 DEF Add, Frames, Inv, TypeOK
  <2>3. raced' \subseteq JNodes
    BY <1>6, <2>1 DEF Add, Inv, TypeOK
  <2> QED
    BY <1>6, <2>2, <2>3 DEF Add, Inv, TypeOK
<1> QED
  BY <1>1, <1>2, <1>3, <1>4, <1>5, <1>6 DEF Next

\* What Inv says besides TypeOK.
Rest == EntriesOK /\ TrackedOK /\ FrameOK /\ NodesReleased /\ OneNodePerJNode /\ LookupAnswers

\* What is known of a Node stays.
LEMMA MadeGrows ==
  ASSUME TypeOK, NEW o \in JNodes, NEW n \in Nodes, NewNode(n, o)
  PROVE  /\ n \notin Made /\ Made' = Made \cup {n}
         /\ obj'[n] = o /\ \A m \in Nodes \ {n} : obj'[m] = obj[m]
BY NullIsNeither DEF TypeOK, NewNode, Made

\* No entry has a Node that is not made.
LEMMA EntryNodes ==
  ASSUME Inv, NEW e \in obj2node
  PROVE  e.node # NULL => e.node \in Made
<1>1. e.key \in JNodes \cup Refs /\ e.node \in Nodes \cup {NULL}
  BY DEF Inv, TypeOK, Entries
<1>2. CASE e.key \in JNodes
  BY <1>1, <1>2, NullIsNeither DEF Inv, EntriesOK, Made
<1>3. CASE e.key \in Refs
  BY <1>3 DEF Inv, EntriesOK
<1> QED
  BY <1>1, <1>2, <1>3

LEMMA CreateStep ==
  ASSUME Inv, NEW o \in JNodes, NEW n \in Nodes, Create(o, n)
  PROVE  Rest'
<1> USE NullIsNeither, RefsAreOthers
<1>1. /\ alive /\ alive' /\ frame = Idle /\ frame' = Idle
      /\ \A m \in Nodes : obj[m] # o
      /\ UNCHANGED <<freed, stale, answer, raced>>
  BY DEF Create
<1>2. /\ n \notin Made /\ Made' = Made \cup {n}
      /\ obj'[n] = o /\ \A m \in Nodes \ {n} : obj'[m] = obj[m]
  BY MadeGrows DEF Create, Inv
<1>3. PICK found \in Find(o) : Assign(o, n, found)
  BY DEF Create
<1>4. /\ (found \in obj2node /\ found.key \in {o} \cup Refs) \/ found = NoEntry
      /\ found = NoEntry /\ stale = {} /\ DeadKeys = {} => o \notin Keys
  BY <1>3, FindGives DEF Inv
<1>5. \A e \in obj2node : e.key # o /\ e.node # n
  <2> SUFFICES ASSUME NEW e \in obj2node PROVE e.key # o /\ e.node # n
    OBVIOUS
  <2>1. e.key # o
    BY <1>1 DEF Inv, EntriesOK, TypeOK, Entries
  <2>2. e.node # n
    BY <1>2, EntryNodes
  <2> QED
    BY <2>1, <2>2
<1>6. found \in obj2node => found.key \in Refs
  BY <1>4, <1>5 DEF Inv, TypeOK, Entries, NoEntry, Entry
<1>7. /\ misled \subseteq misled'
      /\ DeadKeys # {} => o \in misled'
      /\ raced = {} => misled' = {}
  BY MisledGrows DEF Create
<1>8. found \in obj2node => DeadKeys # {} /\ raced # {} /\ stale # {} /\ o \in misled'
  BY <1>6, <1>7, DeadIsRaced DEF DeadKeys, Keys
<1>9. /\ \A e \in obj2node' : e \in obj2node \/ (e.node = n /\ e.key = o)
                             \/ (e.node = n /\ e.key \in Refs /\ found.key = e.key)
      /\ \A e \in obj2node : e # found => e \in obj2node'
      /\ Entry(o, n) \in obj2node' \/ found.key \in Refs
      /\ found \notin obj2node => obj2node' = obj2node \cup {Entry(o, n)}
  BY <1>3, <1>4, AssignGives DEF Inv
<1>10. NoEntry.key \notin Refs
  BY DEF NoEntry, Entry
<1>11. EntriesOK'
  <2>1. \A e \in obj2node' : e.key \in JNodes => e.node # NULL /\ obj'[e.node] = e.key
    BY <1>2, <1>5, <1>9, EntryNodes DEF Inv, EntriesOK, Made
  <2>2. \A e \in obj2node' : e.key \in Refs =>
          /\ raced' # {}
          /\ e.node # NULL => e.node \in Made' /\ obj'[e.node] \in misled'
    <3> SUFFICES ASSUME NEW e \in obj2node', e.key \in Refs
                 PROVE  /\ raced' # {}
                        /\ e.node # NULL => e.node \in Made' /\ obj'[e.node] \in misled'
      OBVIOUS
    <3>1. CASE e \in obj2node
      BY <1>1, <1>2, <1>7, <3>1 DEF Inv, EntriesOK, Made
    <3>2. CASE e.node = n /\ found.key = e.key
      <4>1. found \in obj2node
        BY <1>4, <1>10, <3>2
      <4> QED
        BY <1>1, <1>2, <1>8, <3>2, <4>1
    <3> QED
      BY <1>9, <3>1, <3>2
  <2>3. stale' = {} => \A e, f \in obj2node' : e.key = f.key => e = f
    <3>1. CASE found \in obj2node
      BY <1>1, <1>8, <3>1
    <3>2. CASE obj2node' = obj2node \cup {Entry(o, n)}
      BY <1>1, <1>5, <3>2 DEF Inv, EntriesOK, Entry
    <3> QED
      BY <1>9, <3>1, <3>2
  <2> QED
    BY <2>1, <2>2, <2>3 DEF EntriesOK
<1>12. TrackedOK'
  <2>1. ASSUME NEW m \in Made' PROVE Entry(obj'[m], m) \in obj2node' \/ obj'[m] \in raced \cup misled'
    <3>1. CASE m = n
      <4>1. CASE Entry(o, n) \in obj2node'
        BY <1>2, <3>1, <4>1
      <4>2. CASE found.key \in Refs
        BY <1>2, <1>4, <1>8, <1>10, <3>1, <4>2
      <4> QED
        BY <1>9, <4>1, <4>2
    <3>2. CASE m \in Made /\ m # n
      <4>1. obj'[m] = obj[m] /\ m \in Nodes /\ m # NULL
        BY <1>2, <3>2 DEF Made
      <4>2. Entry(obj[m], m) \in obj2node \/ obj[m] \in raced \cup misled
        BY <1>1, <3>2 DEF Inv, TrackedOK, Idle, Frame
      <4>3. CASE Entry(obj[m], m) = found /\ found \in obj2node
        <5>1. obj[m] \in Refs /\ obj[m] \in JNodes
          BY <1>6, <3>2, <4>1, <4>3 DEF Inv, TypeOK, Made, Entry
        <5> QED
          BY <5>1
      <4> QED
        BY <1>7, <1>9, <4>1, <4>2, <4>3
    <3> QED
      BY <1>2, <3>1, <3>2
  <2> QED
    BY <1>1, <1>7, <2>1 DEF Inv, TrackedOK
<1>13. FrameOK'
  BY <1>1 DEF FrameOK, Idle, Frame
<1>14. NodesReleased'
  BY <1>1 DEF NodesReleased
<1>15. OneNodePerJNode'
  BY <1>1, <1>2 DEF Inv, OneNodePerJNode, Made
<1>16. LookupAnswers'
  <2>1. answer # NoEntry /\ answer.node # NULL /\ obj[answer.node] = answer.key
          => obj'[answer.node] = obj[answer.node]
    BY <1>2 DEF Inv, TypeOK, Made
  <2> QED
    BY <1>1, <1>7, <2>1 DEF Inv, LookupAnswers
<1> QED
  BY <1>11, <1>12, <1>13, <1>14, <1>15, <1>16 DEF Rest

LEMMA CountHitStep ==
  ASSUME Inv, NEW o \in JNodes, Count(o), UNCHANGED obj
  PROVE  Rest'
<1> USE NullIsNeither
<1>1. \A m \in Nodes : ~NewNode(m, o)
  BY DEF NewNode, Made, Inv, TypeOK
<1>2. PICK found \in Find(o) : found # NoEntry /\ frame' = Frame("get", o, NULL, found)
  BY <1>1 DEF Count
<1>3. found \in obj2node /\ found.key \in {o} \cup Refs
  BY <1>2, FindGives DEF Inv
<1>4. alive /\ alive' /\ frame = Idle /\ UNCHANGED <<obj, freed, obj2node, stale, answer, raced>>
  BY DEF Count
<1>5. Made' = Made /\ DeadKeys' = DeadKeys
  BY <1>4 DEF Made, DeadKeys, Keys
<1>6. /\ misled \subseteq misled'
      /\ DeadKeys # {} => o \in misled'
      /\ raced = {} => misled' = {}
  BY MisledGrows DEF Count
<1>7. FrameOK'
  BY <1>2, <1>3, <1>4, <1>5, <1>6 DEF FrameOK, Frame
<1>8. TrackedOK'
  BY <1>2, <1>4, <1>5, <1>6 DEF Inv, TrackedOK, Idle, Frame, Entry
<1>9. EntriesOK'
  BY <1>4, <1>5, <1>6 DEF Inv, EntriesOK
<1> QED
  BY <1>4, <1>5, <1>6, <1>7, <1>8, <1>9 DEF Inv, Rest, NodesReleased, OneNodePerJNode, LookupAnswers

LEMMA CountMissStep ==
  ASSUME Inv, NEW o \in JNodes, NEW n \in Nodes, Count(o), NoEntry \in Find(o),
         NewNode(n, o), frame' = Frame("put", o, n, NoEntry)
  PROVE  Rest'
<1> USE NullIsNeither
<1>1. /\ alive /\ alive' /\ frame = Idle
      /\ UNCHANGED <<freed, obj2node, stale, answer, raced>>
  BY DEF Count
<1>2. /\ n \notin Made /\ Made' = Made \cup {n}
      /\ obj'[n] = o /\ \A m \in Nodes \ {n} : obj'[m] = obj[m]
  BY MadeGrows DEF Inv
<1>3. /\ misled \subseteq misled'
      /\ DeadKeys # {} => o \in misled'
      /\ raced = {} => misled' = {}
  BY MisledGrows DEF Count
<1>4. DeadKeys' = DeadKeys
  BY <1>1 DEF DeadKeys, Keys
<1>5. stale = {} => o \notin Keys
  BY FindGives, DeadIsRaced DEF Inv
<1>6. EntriesOK'
  BY <1>1, <1>2, <1>3, EntryNodes DEF Inv, EntriesOK, Made
<1>7. TrackedOK'
  BY <1>1, <1>2, <1>3 DEF Inv, TrackedOK, Entry, Idle, Frame, Made
<1>8. FrameOK'
  <2>1. \A e \in obj2node : e.node # n
    BY <1>2, EntryNodes
  <2> QED
    BY <1>1, <1>2, <1>3, <1>4, <1>5, <2>1 DEF FrameOK, Frame, NoEntry, Entry, Keys
<1>9. OneNodePerJNode'
  <2> SUFFICES ASSUME stale = {}, NEW m \in Made, obj[m] = o PROVE FALSE
    BY <1>1, <1>2 DEF Inv, OneNodePerJNode, Made
  <2>1. raced = {} /\ misled = {} /\ Entry(obj[m], m) \in obj2node
    BY <1>1 DEF Inv, TrackedOK, Idle, Frame
  <2> QED
    BY <1>5, <2>1 DEF Keys, Entry
<1>10. LookupAnswers'
  <2>1. answer # NoEntry /\ answer.node # NULL /\ obj[answer.node] = answer.key
          => obj'[answer.node] = obj[answer.node]
    BY <1>2 DEF Inv, TypeOK, Made
  <2> QED
    BY <1>1, <1>3, <2>1 DEF Inv, LookupAnswers
<1>11. NodesReleased'
  BY <1>1 DEF NodesReleased
<1> QED
  BY <1>6, <1>7, <1>8, <1>9, <1>10, <1>11 DEF Rest

LEMMA GetStep == ASSUME Inv, Get PROVE Rest'
<1> USE NullIsNeither, RefsAreOthers
<1>1. PICK found \in FindAgain :
        \/ /\ found # NoEntry
           /\ answer' = Entry(frame.jnode, found.node)
           /\ UNCHANGED obj2node
        \/ /\ found = NoEntry
           /\ answer' = Entry(frame.jnode, NULL)
           /\ \E ref \in Refs \ Keys : obj2node' = obj2node \cup {Entry(ref, NULL)}
  BY DEF Get
<1>2. /\ frame.at = "get" /\ frame' = Idle
      /\ UNCHANGED <<alive, obj, freed, stale, raced, misled>>
  BY DEF Get
<1>3. /\ frame.jnode \in JNodes
      /\ (found \in obj2node /\ found.key \in {frame.jnode} \cup Refs) \/ found = NoEntry
      /\ found.key \in Refs => frame.jnode \in misled
      /\ found = NoEntry => raced # {} /\ frame.jnode \in raced \cup misled
  BY <1>1, <1>2, FindAgainGives
<1>4. Made' = Made
  BY <1>2 DEF Made
<1>5. FrameOK'
  BY <1>2 DEF FrameOK, Idle, Frame
<1>6. TrackedOK'
  BY <1>1, <1>2, <1>4 DEF Inv, TrackedOK, Entry
<1>7. EntriesOK'
  <2>1. CASE UNCHANGED obj2node
    BY <1>2, <1>4, <2>1 DEF Inv, EntriesOK
  <2>2. CASE found = NoEntry /\ \E ref \in Refs \ Keys : obj2node' = obj2node \cup {Entry(ref, NULL)}
    <3>1. PICK ref \in Refs : obj2node' = obj2node \cup {Entry(ref, NULL)}
      BY <2>2
    <3>2. raced # {} /\ stale # {}
      BY <1>3, <2>2 DEF Inv, TrackedOK
    <3>3. Entry(ref, NULL).key = ref /\ Entry(ref, NULL).node = NULL
      BY DEF Entry
    <3>4. \A e \in obj2node' : e \in obj2node \/ (e.key \in Refs /\ e.node = NULL)
      BY <3>1, <3>3
    <3> QED
      BY <1>2, <1>4, <3>2, <3>4 DEF Inv, EntriesOK
  <2> QED
    BY <1>1, <2>1, <2>2
<1>8. LookupAnswers'
  <2>1. CASE found = NoEntry
    BY <1>1, <1>2, <1>3, <2>1 DEF LookupAnswers, Entry
  <2>2. CASE found # NoEntry /\ found.key \in Refs
    <3>1. raced # {}
      BY <1>3, <2>2 DEF Inv, EntriesOK
    <3> QED
      BY <1>1, <1>2, <1>3, <2>2, <3>1 DEF LookupAnswers, Entry
  <2>3. CASE found # NoEntry /\ found.key = frame.jnode
    BY <1>1, <1>2, <1>3, <2>3 DEF Inv, EntriesOK, LookupAnswers, Entry
  <2> QED
    BY <1>3, <2>1, <2>2, <2>3
<1>9. NodesReleased' /\ OneNodePerJNode'
  BY <1>2, <1>4 DEF Inv, NodesReleased, OneNodePerJNode
<1> QED
  BY <1>5, <1>6, <1>7, <1>8, <1>9 DEF Rest

LEMMA PutStep == ASSUME Inv, Put PROVE Rest'
<1> USE NullIsNeither, RefsAreOthers
<1> DEFINE o == frame.jnode
           n == frame.node
<1>1. PICK found \in FindAgain : Assign(o, n, found)
  BY DEF Put
<1>2. /\ frame.at = "put" /\ frame' = Idle /\ answer' = Entry(o, n)
      /\ UNCHANGED <<alive, obj, freed, stale, raced, misled>>
  BY DEF Put
<1>3. /\ o \in JNodes
      /\ (found \in obj2node /\ found.key \in {o} \cup Refs) \/ found = NoEntry
      /\ found.key \in Refs => o \in misled
      /\ found # NoEntry => raced # {} /\ o \in raced \cup misled
  BY <1>1, <1>2, FindAgainGives
<1>4. Made' = Made
  BY <1>2 DEF Made
<1>5. /\ n \in Made /\ n \in Nodes /\ n # NULL /\ obj[n] = o
      /\ stale = {} => o \notin Keys
  BY <1>2 DEF Inv, FrameOK, Made
<1> HIDE DEF o, n
<1>6. /\ \A e \in obj2node' : e \in obj2node \/ (e.node = n /\ e.key = o)
                             \/ (e.node = n /\ e.key \in Refs /\ found.key = e.key)
      /\ \A e \in obj2node : e # found => e \in obj2node'
      /\ Entry(o, n) \in obj2node' \/ found.key \in Refs
      /\ found \notin obj2node => obj2node' = obj2node \cup {Entry(o, n)}
  BY <1>1, <1>3, <1>5, AssignGives DEF Inv
<1>7. NoEntry.key \notin Refs
  BY DEF NoEntry, Entry
<1>8. FrameOK'
  BY <1>2 DEF FrameOK, Idle, Frame
<1>9. TrackedOK'
  <2>1. ASSUME alive, NEW m \in Made
        PROVE  Entry(obj[m], m) \in obj2node' \/ obj[m] \in raced \cup misled
    <3>1. CASE m = n
      BY <1>3, <1>5, <1>6, <3>1
    <3>2. CASE m # n /\ Entry(obj[m], m) \in obj2node
      <4>1. Entry(obj[m], m).key = obj[m] /\ obj[m] \in JNodes
        BY DEF Entry, Inv, TypeOK, Made
      <4>2. CASE Entry(obj[m], m) = found
        <5>1. found # NoEntry
          BY <4>1, <4>2 DEF NoEntry, Entry
        <5>2. obj[m] = o
          BY <1>3, <4>1, <4>2, <5>1
        <5> QED
          BY <1>3, <5>1, <5>2
      <4> QED
        BY <1>6, <3>2, <4>2
    <3> QED
      BY <1>2, <2>1, <3>1, <3>2 DEF Inv, TrackedOK, n
  <2> QED
    BY <1>2, <1>4, <2>1 DEF Inv, TrackedOK
<1>10. EntriesOK'
  <2>1. \A e \in obj2node' : e.key \in JNodes => e.node # NULL /\ obj[e.node] = e.key
    BY <1>5, <1>6 DEF Inv, EntriesOK
  <2>2. \A e \in obj2node' : e.key \in Refs =>
          /\ raced # {}
          /\ e.node # NULL => e.node \in Made /\ obj[e.node] \in misled
    <3> SUFFICES ASSUME NEW e \in obj2node', e.key \in Refs
                 PROVE  /\ raced # {}
                        /\ e.node # NULL => e.node \in Made /\ obj[e.node] \in misled
      OBVIOUS
    <3>1. CASE e \in obj2node
      BY <3>1 DEF Inv, EntriesOK
    <3>2. CASE e.node = n /\ found.key = e.key
      BY <1>3, <1>5, <1>7, <3>2
    <3> QED
      BY <1>3, <1>6, <3>1, <3>2
  <2>3. stale = {} => \A e, f \in obj2node' : e.key = f.key => e = f
    <3> SUFFICES ASSUME stale = {} PROVE \A e, f \in obj2node' : e.key = f.key => e = f
      OBVIOUS
    <3>1. raced = {}
      BY DEF Inv, TrackedOK
    <3>2. found = NoEntry /\ NoEntry \notin obj2node
      BY <1>3, <3>1 DEF Inv, TypeOK, Entries, NoEntry, Entry
    <3>3. obj2node' = obj2node \cup {Entry(o, n)} /\ \A e \in obj2node : e.key # o
      BY <1>5, <1>6, <3>2 DEF Keys
    <3> QED
      BY <3>3 DEF Inv, EntriesOK, Entry
  <2> QED
    BY <1>2, <1>4, <2>1, <2>2, <2>3 DEF EntriesOK
<1>11. LookupAnswers'
  BY <1>2, <1>5 DEF LookupAnswers, Entry
<1>12. NodesReleased' /\ OneNodePerJNode'
  BY <1>2, <1>4 DEF Inv, NodesReleased, OneNodePerJNode
<1> QED
  BY <1>8, <1>9, <1>10, <1>11, <1>12 DEF Rest

LEMMA DestroyStep == ASSUME Inv, Destroy PROVE Rest'
<1> USE NullIsNeither
<1>1. /\ alive /\ frame = Idle /\ alive' = FALSE /\ obj2node' = {}
      /\ freed' = {e.node : e \in obj2node} \ {NULL}
      /\ UNCHANGED <<obj, stale, frame, answer, raced, misled>>
  BY DEF Destroy
<1>2. Made' = Made
  BY <1>1 DEF Made
<1>3. NodesReleased'
  <2> SUFFICES ASSUME NEW n \in Made
               PROVE  n \in freed' \/ obj[n] \in raced \/ (obj[n] \in misled /\ raced # {})
    BY <1>1, <1>2 DEF NodesReleased
  <2>1. Entry(obj[n], n) \in obj2node \/ obj[n] \in raced \/ (obj[n] \in misled /\ raced # {})
    BY <1>1 DEF Inv, TrackedOK, Idle, Frame
  <2>2. n # NULL
    BY DEF Made
  <2> QED
    BY <1>1, <2>1, <2>2 DEF Entry
<1>4. EntriesOK' /\ TrackedOK' /\ FrameOK'
  BY <1>1 DEF Inv, EntriesOK, TrackedOK, FrameOK, Idle, Frame, DeadKeys, Keys
<1>5. OneNodePerJNode' /\ LookupAnswers'
  BY <1>1, <1>2 DEF Inv, OneNodePerJNode, LookupAnswers
<1> QED
  BY <1>3, <1>4, <1>5 DEF Rest

LEMMA AddStep ==
  ASSUME Inv, NEW changed \in SUBSET JNodes, Add(changed)
  PROVE  Rest'
<1>1. /\ stale' # {} /\ raced \subseteq raced'
      /\ UNCHANGED <<alive, obj, freed, obj2node, answer, misled>>
  BY DEF Add
<1>2. Made' = Made /\ Keys' = Keys /\ DeadKeys' = DeadKeys
  BY <1>1 DEF Made, Keys, DeadKeys
<1>3. FrameOK'
  <2>1. CASE frame = Idle
    BY <2>1 DEF Add, FrameOK, Idle, Frame
  <2>2. CASE frame # Idle
    <3>1. frame' = [frame EXCEPT !.keys = "changed"] /\ frame.jnode \in raced'
      BY <2>2 DEF Add
    <3>2. /\ frame'.at = frame.at /\ frame'.jnode = frame.jnode
          /\ frame'.node = frame.node /\ frame'.found = frame.found
      BY <3>1 DEF Inv, TypeOK, Frames
    <3>3. frame.at # "idle"
      BY <2>2 DEF Inv, FrameOK
    <3> QED
      BY <1>1, <1>2, <3>1, <3>2, <3>3 DEF Inv, FrameOK
  <2> QED
    BY <2>1, <2>2
<1>4. TrackedOK'
  <2>1. frame'.at = frame.at /\ frame'.node = frame.node /\ (frame = Idle => frame' = Idle)
    BY DEF Add, Inv, TypeOK, Frames
  <2> QED
    BY <1>1, <1>2, <2>1 DEF Inv, TrackedOK
<1>5. EntriesOK' /\ NodesReleased' /\ OneNodePerJNode' /\ LookupAnswers'
  BY <1>1, <1>2 DEF Inv, EntriesOK, NodesReleased, OneNodePerJNode, LookupAnswers
<1> QED
  BY <1>3, <1>4, <1>5 DEF Rest

LEMMA StepInv == Inv /\ [Next]_vars => Inv'
<1> SUFFICES ASSUME Inv, [Next]_vars PROVE Inv'
  OBVIOUS
<1>1. CASE UNCHANGED vars
  BY <1>1 DEF vars, Inv, TypeOK, EntriesOK, TrackedOK, FrameOK, NodesReleased,
             OneNodePerJNode, LookupAnswers, Made, Keys, DeadKeys
<1>2. CASE Next
  <2>1. TypeOK'
    BY <1>2, TypeStep
  <2>2. ASSUME NEW o \in JNodes, NEW n \in Nodes, Create(o, n) PROVE Rest'
    BY <2>2, CreateStep
  <2>3. ASSUME NEW o \in JNodes, Count(o) PROVE Rest'
    <3>1. PICK found \in Find(o) :
            \/ /\ found # NoEntry
               /\ frame' = Frame("get", o, NULL, found)
               /\ UNCHANGED obj
            \/ /\ found = NoEntry
               /\ \E n \in Nodes : NewNode(n, o) /\ frame' = Frame("put", o, n, found)
      BY <2>3 DEF Count
    <3>2. CASE UNCHANGED obj
      BY <2>3, <3>2, CountHitStep
    <3>3. CASE found = NoEntry /\ \E n \in Nodes : NewNode(n, o) /\ frame' = Frame("put", o, n, found)
      BY <2>3, <3>3, CountMissStep
    <3> QED
      BY <3>1, <3>2, <3>3
  <2>4. ASSUME Get PROVE Rest'
    BY <2>4, GetStep
  <2>5. ASSUME Put PROVE Rest'
    BY <2>5, PutStep
  <2>6. ASSUME Destroy PROVE Rest'
    BY <2>6, DestroyStep
  <2>7. ASSUME NEW changed \in SUBSET JNodes, Add(changed) PROVE Rest'
    BY <2>7, AddStep
  <2>8. Rest'
    BY <1>2, <2>2, <2>3, <2>4, <2>5, <2>6, <2>7 DEF Next
  <2> QED
    BY <2>1, <2>8 DEF Inv, Rest
<1> QED
  BY <1>1, <1>2

\* The invariant holds of every run, whoever changes the tree and whenever.
THEOREM Invariance == Spec => []Inv
  BY InitInv, StepInv, PTL DEF Spec

\* The map, the Nodes and the lookup under way keep their types.
THEOREM TypeCorrect == Spec => []TypeOK
<1>1. Inv => TypeOK
  BY DEF Inv
<1> QED
  BY <1>1, Invariance, PTL

\* ~Interface releases the Nodes it made, as NodesReleased says.
THEOREM ContextsRelease == Spec => []NodesReleased
<1>1. Inv => NodesReleased
  BY DEF Inv
<1> QED
  BY <1>1, Invariance, PTL

\* lookupOrCreate keeps identities on an unchanged tree, as OneNodePerJNode says.
THEOREM IdentityKept == Spec => []OneNodePerJNode
<1>1. Inv => OneNodePerJNode
  BY DEF Inv
<1> QED
  BY <1>1, Invariance, PTL

\* What lookupOrCreate returns, as LookupAnswers says.
THEOREM AnswersBelong == Spec => []LookupAnswers
<1>1. Inv => LookupAnswers
  BY DEF Inv
<1> QED
  BY <1>1, Invariance, PTL
=============================================================================
