------------------------------ MODULE TreeLoad ------------------------------
(***************************************************************************)
(* A tree on its way from libuast to the JVM and back: NodeExt.load makes  *)
(* JNodes of the nodes of a decoded tree, Context.encode hands a tree of   *)
(* JNodes to libuast.  The one-shot helpers get, parseFrom and toByteBuffer*)
(* are the same calls in a row.                                            *)
(*                                                                         *)
(* A JNode is held by references: a local one of the native method, the    *)
(* global one of its C++ Node, the caller's, and the fields of other       *)
(* JNodes.  The collector takes any JNode that has none, at any time.      *)
(*                                                                         *)
(* wire is the tree on libuast's side, heap the JNodes at the same places. *)
(* In which order libuast makes nodes is left open; it sets the values of  *)
(* one container in order, once each.                                      *)
(***************************************************************************)
EXTENDS NodeCodec

CONSTANT MaxTurns  \* bound: how often a tree is encoded

ASSUME TurnsBounded == MaxTurns \in Nat

VARIABLES
  pc,      \* which call the tree is in
  wire,    \* the tree on libuast's side
  heap,    \* the JNodes
  size,    \* Size(), asked for once at each container that is encoded
  globals, \* the JNodes C++ Nodes refer to
  open,    \* the Context that encoded the tree is not disposed of
  locals,  \* the JNodes the native method refers to
  held,    \* the caller has the root
  turn,    \* how often the tree was encoded
  source,  \* the last tree decoded
  begun,   \* the JNodes when the last encode began
  ended    \* the JNodes when it ended

vars == <<pc, wire, heap, size, globals, open, locals, held, turn, source, begun, ended>>

TypeOK ==
  /\ pc \in {"bytes", "npe", "loading", "loaded", "returning", "tree", "encoding"}
  /\ {wire, source} \subseteq [Ids -> WireNodes \cup {NONE}]
  /\ {heap, begun, ended} \subseteq [Ids -> JNodes \cup {NONE}]
  /\ size \in [Ids -> Nat]
  /\ globals \subseteq Ids /\ locals \subseteq Ids
  /\ {held, open} \subseteq BOOLEAN
  /\ turn \in 0..MaxTurns

Init ==
  /\ \/ pc = "bytes" /\ wire \in WireTrees /\ heap = NoTree /\ held = FALSE
     \/ pc = "tree" /\ wire = NoTree /\ heap \in JvmTrees /\ held = TRUE
  /\ size = [w \in Ids |-> 0]
  /\ globals = {} /\ locals = {} /\ open = FALSE
  /\ turn = 0
  /\ source = NoTree /\ begun = NoTree /\ ended = NoTree

-----------------------------------------------------------------------------
(***************************************************************************)
(* load.                                                                   *)
(***************************************************************************)
\* root() of a tree that is null answers null, and load() is called on it.
RootIsNull ==
  /\ pc = "bytes" /\ wire[Root].kind = "null"
  /\ pc' = "npe"
  /\ UNCHANGED <<wire, heap, size, globals, open, locals, held, turn, source, begun, ended>>

\* load: new Context(), uast::Load begins.  A JVM copy from before, and the
\* Context that encoded it, are not followed any more.
Begin ==
  /\ pc = "bytes" /\ wire[Root].kind # "null"
  /\ pc' = "loading"
  /\ heap' = NoTree /\ held' = FALSE
  /\ globals' = {} /\ open' = FALSE
  /\ source' = wire
  /\ UNCHANGED <<wire, size, locals, turn, begun, ended>>

\* NewX without the DeleteLocalRef.
NewKeepsLocal(w) ==
  /\ pc = "loading"
  /\ wire[w] # NONE /\ wire[w].kind # "null" /\ heap[w] = NONE
  /\ heap' = [heap EXCEPT ![w] = Empty(Loaded(wire[w]))]
  /\ globals' = globals \cup {w} /\ locals' = locals \cup {w}
  /\ UNCHANGED <<pc, wire, size, open, held, turn, source, begun, ended>>

\* NewObject, NewArray, NewString, ...: a JNode, a Node with its global
\* reference; the local one goes.
New(w) ==
  /\ pc = "loading"
  /\ wire[w] # NONE /\ wire[w].kind # "null" /\ heap[w] = NONE
  /\ heap' = [heap EXCEPT ![w] = Empty(Loaded(wire[w]))]
  /\ globals' = globals \cup {w}
  /\ UNCHANGED <<pc, wire, size, open, locals, held, turn, source, begun, ended>>

\* The next child of p, made by now, or null: a JNull is made in its place.
Place(p)   == Len(heap[p].kids) + 1
Pending(p) == pc = "loading" /\ heap[p] # NONE /\ Place(p) \in DOMAIN wire[p].kids
AddChild(p, key) ==
  LET kid == wire[p].kids[Place(p)].id
      full == [heap EXCEPT ![p] = WithKid(@, [key |-> key, id |-> kid])] IN
  /\ \/ heap[kid] # NONE /\ heap' = full
     \/ /\ heap[kid] = NONE /\ wire[kid].kind = "null"
        /\ heap' = [full EXCEPT ![kid] = Loaded(wire[kid])]
  /\ UNCHANGED <<pc, wire, size, globals, open, locals, held, turn, source, begun, ended>>

\* SetKeyValue that takes the key as it is.
SetKeyValueRaw(p) ==
  /\ Pending(p) /\ wire[p].kind = "object"
  /\ AddChild(p, wire[p].kids[Place(p)].key)

\* The key is converted like any text.
SetKeyValue(p) ==
  /\ Pending(p) /\ wire[p].kind = "object"
  /\ AddChild(p, NewStringUTF(wire[p].kids[Place(p)].key))

\* SetValue ignores its index: the child goes to the end.
SetValue(p) ==
  /\ Pending(p) /\ wire[p].kind = "array"
  /\ AddChild(p, <<>>)

\* uast::Load returns without NewLocalRef.
LoadedWithoutRef ==
  /\ pc = "loading"
  /\ \A w \in Ids : wire[w] # NONE =>
       heap[w] # NONE /\ Len(heap[w].kids) = Len(wire[w].kids)
  /\ pc' = "loaded"
  /\ UNCHANGED <<wire, heap, size, globals, open, locals, held, turn, source, begun, ended>>

\* uast::Load returns; env->NewLocalRef of the root.
LoadReturns ==
  /\ pc = "loading"
  /\ \A w \in Ids : wire[w] # NONE =>
       heap[w] # NONE /\ Len(heap[w].kids) = Len(wire[w].kids)
  /\ pc' = "loaded"
  /\ locals' = locals \cup {Root}
  /\ UNCHANGED <<wire, heap, size, globals, open, held, turn, source, begun, ended>>

\* delete (ctx): every Node, and its global reference.
DeleteContext ==
  /\ pc = "loaded" /\ pc' = "returning"
  /\ globals' = {}
  /\ UNCHANGED <<wire, heap, size, open, locals, held, turn, source, begun, ended>>

\* The native method returns; the JVM drops its local references.
Return ==
  /\ pc = "returning" /\ pc' = "tree"
  /\ locals' = {} /\ held' = TRUE
  /\ UNCHANGED <<wire, heap, size, globals, open, turn, source, begun, ended>>

-----------------------------------------------------------------------------
(***************************************************************************)
(* encode.                                                                 *)
(***************************************************************************)
\* Context() and nativeEncode.
BeginEncode ==
  /\ pc = "tree" /\ held /\ turn < MaxTurns
  /\ pc' = "encoding"
  /\ turn' = turn + 1
  /\ open' = TRUE
  /\ wire' = NoTree
  /\ begun' = heap
  /\ UNCHANGED <<heap, size, globals, locals, held, source, ended>>

\* toNode of the root, or lookupOrCreate of a child: a Node and its values.
Visit(w) ==
  /\ pc = "encoding" /\ wire[w] = NONE
  /\ \/ w = Root
     \/ \E p \in Ids : wire[p] # NONE /\ \E i \in DOMAIN wire[p].kids : wire[p].kids[i].id = w
  /\ wire' = [wire EXCEPT ![w] = Empty(Encoded(heap[w]))]
  /\ size' = [size EXCEPT ![w] = IF KindOf(heap[w].class) \in {"object", "array"}
                                THEN SizeOf(heap[w]) ELSE 0]
  /\ globals' = globals \cup {w}
  /\ UNCHANGED <<pc, heap, open, locals, held, turn, source, begun, ended>>

\* KeyAt and ValueAt of the next index below Size().
ReadChild(p) ==
  LET i == Len(wire[p].kids) + 1 IN
  /\ pc = "encoding" /\ wire[p] # NONE /\ i <= size[p]
  /\ wire' = [wire EXCEPT ![p] = WithKid(@, ChildAt(heap[p], i))]
  /\ UNCHANGED <<pc, heap, size, globals, open, locals, held, turn, source, begun, ended>>

\* The bytes are there.  The Context keeps its Nodes.
EncodeReturns ==
  /\ pc = "encoding" /\ wire[Root] # NONE
  /\ \A w \in Ids : wire[w] # NONE =>
       /\ Len(wire[w].kids) = size[w]
       /\ \A i \in DOMAIN wire[w].kids : wire[wire[w].kids[i].id] # NONE
  /\ pc' = "bytes"
  /\ ended' = heap
  /\ UNCHANGED <<wire, heap, size, globals, open, locals, held, turn, source, begun>>

\* dispose that clears the handle and deletes nothing.
DisposeHandleOnly ==
  /\ pc = "bytes" /\ open
  /\ open' = FALSE
  /\ UNCHANGED <<pc, wire, heap, size, globals, locals, held, turn, source, begun, ended>>

\* The Context is disposed of and deletes its Nodes: by toByteBuffer at once, by
\* who called encode sooner or later, or by the finalizer.
Dispose ==
  /\ pc = "bytes" /\ open
  /\ open' = FALSE
  /\ globals' = {}
  /\ UNCHANGED <<pc, wire, heap, size, locals, held, turn, source, begun, ended>>

-----------------------------------------------------------------------------
(***************************************************************************)
(* The application and the collector.                                      *)
(***************************************************************************)
\* add() of JObject and JArray, from any thread, while it is encoded too.  One
\* step is exact for one thread that adds and whose writes are seen in order:
\* the ArrayBuffer behind is not synchronised.
Add(p, x) ==
  /\ pc \in {"tree", "encoding"} /\ held
  /\ heap[p] # NONE /\ heap[p].class \in {"JObject", "JArray"}
  /\ heap[x] = NONE /\ wire[x] = NONE
  /\ heap' = [heap EXCEPT
       ![p] = WithKid(@, [key |-> IF heap[p].class = "JArray" THEN <<>> ELSE NewKey, id |-> x]),
       ![x] = [class |-> "JNull", text |-> <<>>, num |-> 0, kids |-> <<>>]]
  /\ UNCHANGED <<pc, wire, size, globals, open, locals, held, turn, source, begun, ended>>

Drop ==
  /\ pc \in {"tree", "bytes"} /\ held
  /\ held' = FALSE
  /\ UNCHANGED <<pc, wire, heap, size, globals, open, locals, turn, source, begun, ended>>

Reachable(w) ==
  \/ w \in globals \cup locals
  \/ held /\ w = Root
  \/ \E p \in Ids : heap[p] # NONE /\ \E i \in DOMAIN heap[p].kids : heap[p].kids[i].id = w

Collect(w) ==
  /\ heap[w] # NONE /\ ~Reachable(w)
  /\ heap' = [heap EXCEPT ![w] = NONE]
  /\ UNCHANGED <<pc, wire, size, globals, open, locals, held, turn, source, begun, ended>>

Load   == \/ RootIsNull \/ Begin \/ LoadReturns \/ DeleteContext \/ Return
          \/ \E w \in Ids : New(w) \/ SetKeyValue(w) \/ SetValue(w)
Encode == BeginEncode \/ EncodeReturns \/ Dispose \/ \E w \in Ids : Visit(w) \/ ReadChild(w)

Next ==
  \/ Load \/ Encode \/ Drop
  \/ \E w \in Ids : Collect(w)
  \/ \E p, x \in Ids : Add(p, x)

Spec == Init /\ [][Next]_vars

\* The JVM sooner or later collects what it can.
FairSpec == Spec /\ WF_vars(\E w \in Ids : Collect(w))

-----------------------------------------------------------------------------
(***************************************************************************)
(* Properties.                                                             *)
(***************************************************************************)
\* load() brings every node of the tree with its value and its children in
\* order, and none of them is lost to the collector, from the deletion of the
\* Context that made them until the caller drops the tree.
LoadMirrorsWire ==
  pc = "returning" \/ (pc = "tree" /\ held) =>
    \A w \in Ids : wire[w] # NONE =>
      heap[w] # NONE /\ Between(Loaded(wire[w]), heap[w], heap[w])

\* What comes back of a JNode that was encoded and loaded again: null and
\* JNothing have no kind of their own, a JUint has 32 bits.
Restored(o) ==
  [o EXCEPT !.num = AsNum(o),
            !.class = CASE o.class = "nullptr" -> "JNull"
                        [] o.class = "JNothing" -> "JObject"
                        [] OTHER -> o.class]

\* A tree of the JVM that is encoded and loaded again loses nothing else, any
\* text survives, and of what another thread adds meanwhile each container
\* has a beginning.
SameTree ==
  pc = "returning" /\ turn > 0 =>
    \A w \in Ids : begun[w] # NONE =>
      heap[w] # NONE /\ Between(Restored(begun[w]), heap[w], Restored(ended[w]))

\* What survives in the other direction.
Representable(n) ==
  LET ok(s) == \A i \in DOMAIN s : s[i] \notin {"nul", "four"} IN
  /\ ok(n.text) /\ \A i \in DOMAIN n.kids : ok(n.kids[i].key)
  /\ n.kind = "uint" => n.num < IntSize

\* A decoded tree that is loaded and encoded again is the same, with what was
\* added meanwhile, but for text with nul or four-byte characters and for
\* numbers of more than 32 bits.
SameBytes ==
  pc = "bytes" /\ source # NoTree =>
    \A w \in Ids : source[w] # NONE /\ Representable(source[w]) =>
      wire[w] # NONE /\ Between(source[w], wire[w], wire[w])

\* For its caller each call is one step, whatever the collector and a thread
\* that adds do in its middle: load() of a whole tree or none, encode() of a
\* whole tree that is no older than the call.
Codec == INSTANCE TreeCodec WITH
  bytes <- IF pc \in {"tree", "encoding"} THEN NoTree ELSE wire,
  tree  <- IF held THEN heap ELSE NoTree,
  begun <- IF pc = "encoding" THEN begun ELSE NoTree
CallsAreSteps == Codec!Spec

\* However large the tree, load() has one local reference at a time and leaves
\* none.  encode() leaves in its Context one global reference for each JNode it
\* sent, and no other, until the Context is disposed of.
RefsReleased ==
  /\ \A v, w \in locals : v = w
  /\ pc \in {"tree", "bytes"} => locals = {}
  /\ pc \in {"returning", "tree"} => globals = {}
  /\ pc = "bytes" => globals = IF open THEN {w \in Ids : wire[w] # NONE} ELSE {}

\* A tree the caller has dropped is collected, all of it, once the Context that
\* encoded it is disposed of: neither call leaves another reference behind.
DroppedTreeCollected ==
  (pc \in {"tree", "bytes"} /\ ~held /\ ~open) ~> (heap = NoTree)

\* BblfshClientLoadTest.scala:56-74, "Decoding, loading & encoding to different
\* context should produce the same results": the tree loaded from the bytes of
\* a loaded tree equals it.  A JUint of more than 32 bits comes back short.
SameResults ==
  /\ pc = "returning" /\ turn > 0 /\ begun = ended
  /\ \A w \in Ids : begun[w] # NONE => begun[w].class \notin {"nullptr", "JNothing"}
  => heap = begun
=============================================================================
