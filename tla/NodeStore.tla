------------------------------ MODULE NodeStore ------------------------------
(***************************************************************************)
(* obj2node, the map of a C++ Context from the JNodes of a tree to the C++ *)
(* Nodes libuast walks in their place, and who frees the Nodes.            *)
(*                                                                         *)
(* A Node owns a global reference to its JNode.  The map compares its keys *)
(* by identity and hashes them with their hashCode(), which for JObject    *)
(* and JArray is that of their contents: add() moves a key to another      *)
(* bucket while its entry stays where it was put.  The map keeps no hash   *)
(* codes, so one such key can hide others as well: as long as no key has   *)
(* changed a find is exact, and behind that it may miss any entry.         *)
(*                                                                         *)
(* lookupOrCreate asks twice, first count(), then operator[], and another  *)
(* thread of the application can call add() in between.  If the second     *)
(* find misses what the first one found, operator[] makes an entry whose   *)
(* key is the caller's local reference.  ValueAt deletes that reference    *)
(* next, a native method loses it at its return, and nothing is looked up  *)
(* before: the map is left with a dead key.  Later finds hash and compare  *)
(* it, which is undefined.  The slot may be free, or another local         *)
(* reference may be in it, of any JNode, so a find may take the entry for  *)
(* the one it looks for or miss any other; if the process ends instead,    *)
(* the behaviour ends.  The map itself is used by one thread at a time.    *)
(***************************************************************************)
CONSTANTS
  JNodes,  \* the Java objects
  Nodes,   \* the C++ nodes
  Refs,    \* local references that were left in the map
  NULL     \* no node, no object

ASSUME NullIsNeither == NULL \notin JNodes \cup Nodes \cup Refs
ASSUME RefsAreOthers == Refs \cap JNodes = {}

VARIABLES
  alive,    \* the Context is there
  obj,      \* the JNode a C++ node refers to, NULL before it is made
  freed,    \* the C++ nodes deleted, with their global references
  obj2node, \* the entries of the map
  stale,    \* the keys that have changed since their entry was made
  frame,    \* where lookupOrCreate is, for which JNode, with which new Node
  answer,   \* the last JNode looked up and the Node that came back
  raced,    \* the JNodes whose lookup a change of a key came between
  misled    \* the JNodes looked up or put into a map with a dead key

vars == <<alive, obj, freed, obj2node, stale, frame, answer, raced, misled>>

Entry(o, n)  == [key |-> o, node |-> n]
NoEntry      == Entry(NULL, NULL)
Entries      == [key : JNodes \cup Refs, node : Nodes \cup {NULL}]
Keys         == {e.key : e \in obj2node}
DeadKeys     == Keys \cap Refs
Made         == {n \in Nodes : obj[n] # NULL}

\* found is what count() found; keys tells whether a key has changed since.
Frame(at, o, n, found) ==
  [at |-> at, jnode |-> o, node |-> n, found |-> found, keys |-> "same"]
Idle == Frame("idle", NULL, NULL, NoEntry)
Frames ==
  [at : {"idle", "get", "put"}, jnode : JNodes \cup {NULL}, node : Nodes \cup {NULL},
   found : Entries \cup {NoEntry}, keys : {"same", "changed"}]

TypeOK ==
  /\ alive \in BOOLEAN
  /\ obj \in [Nodes -> JNodes \cup {NULL}]
  /\ freed \subseteq Nodes
  /\ obj2node \subseteq Entries
  /\ stale \subseteq JNodes
  /\ frame \in Frames
  /\ answer \in [key : JNodes, node : Nodes \cup {NULL}] \cup {NoEntry}
  /\ raced \subseteq JNodes
  /\ misled \subseteq JNodes

Init ==
  /\ alive = TRUE
  /\ obj = [n \in Nodes |-> NULL]
  /\ freed = {}
  /\ obj2node = {}
  /\ stale = {}
  /\ frame = Idle
  /\ answer = NoEntry
  /\ raced = {}
  /\ misled = {}

-----------------------------------------------------------------------------
\* A find that takes JNodes of one hash code for the same.
FindByHash(o) == IF obj2node = {} THEN {NoEntry} ELSE obj2node

\* What a find of o may come to: an entry of o, one whose key is dead, or none.
Find(o) ==
  LET hits == {e \in obj2node : e.key \in {o} \cup Refs} IN
  IF hits = {} \/ stale # {} \/ DeadKeys # {} THEN hits \cup {NoEntry} ELSE hits

\* The second find of a lookup: what the first one found, if no key has
\* changed since and none is dead.
FindAgain ==
  IF frame.keys = "same" /\ DeadKeys = {} THEN {frame.found} ELSE Find(frame.jnode)

Misled(o) == misled' = IF DeadKeys = {} THEN misled ELSE misled \cup {o}

\* obj2node[o] = n: a hit keeps its key and loses its Node.
Assign(o, n, found) ==
  obj2node' = (obj2node \ {found}) \cup {Entry(IF found = NoEntry THEN o ELSE found.key, n)}

\* new Node: a global reference to o.
NewNode(n, o) == n \notin Made /\ obj' = [obj EXCEPT ![n] = o]

\* create without the entry in the map.
CreateUntracked(o, n) ==
  /\ alive /\ frame = Idle
  /\ \A m \in Nodes : obj[m] # o
  /\ NewNode(n, o)
  /\ UNCHANGED <<alive, freed, obj2node, stale, frame, answer, raced, misled>>

\* create: the Node of a fresh JNode of New* goes into the map.
Create(o, n) ==
  /\ alive /\ frame = Idle
  /\ \A m \in Nodes : obj[m] # o
  /\ NewNode(n, o)
  /\ \E found \in Find(o) : Assign(o, n, found)
  /\ Misled(o)
  /\ UNCHANGED <<alive, freed, stale, frame, answer, raced>>

\* lookupOrCreate without the count().
CountSkipped(o) ==
  /\ alive /\ frame = Idle
  /\ \E n \in Nodes : NewNode(n, o) /\ frame' = Frame("put", o, n, NoEntry)
  /\ Misled(o)
  /\ UNCHANGED <<alive, freed, obj2node, stale, answer, raced>>

\* lookupOrCreate: count(), and a new Node if there was nothing to count.
Count(o) ==
  /\ alive /\ frame = Idle
  /\ \E found \in Find(o) :
       \/ /\ found # NoEntry
          /\ frame' = Frame("get", o, NULL, found)
          /\ UNCHANGED obj
       \/ /\ found = NoEntry
          /\ \E n \in Nodes : NewNode(n, o) /\ frame' = Frame("put", o, n, found)
  /\ Misled(o)
  /\ UNCHANGED <<alive, freed, obj2node, stale, answer, raced>>

\* ... return obj2node[obj]: a miss now inserts a null Node under the local
\* reference of the caller, and returns it.
Get ==
  /\ frame.at = "get"
  /\ \E found \in FindAgain :
       \/ /\ found # NoEntry
          /\ answer' = Entry(frame.jnode, found.node)
          /\ UNCHANGED obj2node
       \/ /\ found = NoEntry
          /\ answer' = Entry(frame.jnode, NULL)
          /\ \E ref \in Refs \ Keys : obj2node' = obj2node \cup {Entry(ref, NULL)}
  /\ frame' = Idle
  /\ UNCHANGED <<alive, obj, freed, stale, raced, misled>>

\* ... obj2node[node->obj] = node
Put ==
  /\ frame.at = "put"
  /\ \E found \in FindAgain : Assign(frame.jnode, frame.node, found)
  /\ answer' = Entry(frame.jnode, frame.node)
  /\ frame' = Idle
  /\ UNCHANGED <<alive, obj, freed, stale, raced, misled>>

\* JObject.add and JArray.add, called by the application at any time and by
\* SetKeyValue and SetValue between lookups, change the hash code of a JNode
\* and of the JNodes that contain it.
Add(changed) ==
  LET keys == changed \cap Keys IN
  /\ keys # {}
  /\ stale' = stale \cup keys
  /\ IF frame = Idle
     THEN UNCHANGED <<frame, raced>>
     ELSE /\ frame' = [frame EXCEPT !.keys = "changed"]
          /\ raced' = raced \cup {frame.jnode}
  /\ UNCHANGED <<alive, obj, freed, obj2node, answer, misled>>

\* ~Interface that takes a null Node for one to delete.
DestroyNulls ==
  /\ alive /\ frame = Idle
  /\ alive' = FALSE
  /\ freed' = {e.node : e \in obj2node}
  /\ obj2node' = {}
  /\ UNCHANGED <<obj, stale, frame, answer, raced, misled>>

\* ~Interface deletes the Nodes in the map.
Destroy ==
  /\ alive /\ frame = Idle
  /\ alive' = FALSE
  /\ freed' = {e.node : e \in obj2node} \ {NULL}
  /\ obj2node' = {}
  /\ UNCHANGED <<obj, stale, frame, answer, raced, misled>>

Next ==
  \/ \E o \in JNodes, n \in Nodes : Create(o, n)
  \/ \E o \in JNodes : Count(o)
  \/ Get \/ Put \/ Destroy
  \/ \E changed \in SUBSET JNodes : Add(changed)

Spec == Init /\ [][Next]_vars

-----------------------------------------------------------------------------
(***************************************************************************)
(* Properties.                                                             *)
(***************************************************************************)

\* The destruction of a Context deletes every Node it made, and with it the
\* global reference that keeps a JNode from the collector, although load()
\* fills each container only after it was hashed and the application may
\* change the tree.  Only a change in the middle of a lookup can leak a Node,
\* there and then or by the dead key it may leave.
NodesReleased ==
  ~alive => \A n \in Made :
    n \in freed \/ obj[n] \in raced \/ (obj[n] \in misled /\ raced # {})

\* libuast sees one JNode as one Node as long as no key changes.
OneNodePerJNode ==
  stale = {} => \A m, n \in Made : obj[m] = obj[n] => m = n

\* A lookup gives back a Node of the JNode asked for, whatever has changed and
\* whatever was missed.  A change in its middle can make that null.  What
\* other lookups answer stays right until one of those has left a dead key.
LookupAnswers ==
  answer # NoEntry =>
    \/ answer.node # NULL /\ obj[answer.node] = answer.key
    \/ answer.node = NULL /\ answer.key \in raced
    \/ answer.key \in misled /\ raced # {}

-----------------------------------------------------------------------------
(***************************************************************************)
(* Why they hold.                                                          *)
(***************************************************************************)
\* The Node of an entry is of its key.  A dead key comes of
\* a lookup that was raced, and whatever is put under it is a misled one's.
EntriesOK ==
  /\ \A e \in obj2node : e.key \in JNodes => e.node # NULL /\ obj[e.node] = e.key
  /\ \A e \in obj2node : e.key \in Refs =>
       /\ raced # {}
       /\ e.node # NULL => e.node \in Made /\ obj[e.node] \in misled
  /\ stale = {} => \A e, f \in obj2node : e.key = f.key => e = f

\* A Node is in the map, or about to be put there, or a raced or misled lookup
\* lost it.
TrackedOK ==
  /\ alive => \A n \in Made :
       \/ Entry(obj[n], n) \in obj2node
       \/ frame.at = "put" /\ frame.node = n
       \/ obj[n] \in raced \cup misled
  /\ ~alive => frame = Idle
  /\ stale = {} => raced = {}
  /\ raced = {} => misled = {}

\* What the lookup under way knows.
FrameOK ==
  /\ frame.at = "idle" => frame = Idle
  /\ frame.at # "idle" => frame.jnode \in JNodes
  /\ frame.at = "get" => frame.found \in obj2node /\ frame.found.key \in {frame.jnode} \cup Refs
  /\ frame.at = "put" =>
       /\ frame.node \in Made /\ obj[frame.node] = frame.jnode
       /\ frame.found = NoEntry
       /\ \A e \in obj2node : e.node # frame.node
       /\ stale = {} => frame.jnode \notin Keys
  /\ frame.at # "idle" /\ frame.keys # "same" => frame.jnode \in raced
  /\ frame.at # "idle" /\ DeadKeys # {} => frame.jnode \in misled

Inv == TypeOK /\ EntriesOK /\ TrackedOK /\ FrameOK
         /\ NodesReleased /\ OneNodePerJNode /\ LookupAnswers
=============================================================================
