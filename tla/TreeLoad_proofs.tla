--------------------------- MODULE TreeLoad_proofs ---------------------------
(***************************************************************************)
(* What the conversions of NodeCodec lose, that load() brings a whole tree *)
(* and that no reference outlives its Context, for any places, trees and   *)
(* sizes of integers.                                                      *)
(***************************************************************************)
EXTENDS TreeLoad, WellFoundedInduction, TLAPS

\* The characters in front of the first nul are the first so many.
LEMMA CutIsPrefix ==
  ASSUME NEW s \in Seq(WireChar)
  PROVE  \E n \in 0..Len(s) : BeforeNul(s) = 1..n
<1> DEFINE nuls == {j \in 1..Len(s) : s[j] = "nul"}
<1>1. CASE nuls = {}
  <2>1. BeforeNul(s) = 1..Len(s)
    BY <1>1 DEF BeforeNul
  <2> QED
    BY <2>1
<1>2. CASE nuls # {}
  <2> DEFINE R == OpToRel(<, Nat)
  <2>1. \A x, y \in Nat : x < y => <<x, y>> \in R
    BY DEF OpToRel
  <2>2. \E x \in nuls : \A y \in nuls : <<y, x>> \notin R
    <3>1. nuls \subseteq Nat
      OBVIOUS
    <3> QED
      BY <1>2, <3>1, NatLessThanWellFounded, WFMin
  <2> HIDE DEF R
  <2>3. PICK x \in nuls : \A y \in nuls : <<y, x>> \notin R
    BY <2>2
  <2>4. \A y \in nuls : y \in Nat /\ x \in Nat
    OBVIOUS
  <2>5. \A y \in nuls : ~ (y < x)
    BY <2>1, <2>3, <2>4, Zenon
  <2>6. \A y \in nuls : x <= y
    <3> HIDE DEF nuls
    <3> QED
      BY <2>4, <2>5
  <2>7. BeforeNul(s) = 1..(x - 1)
    BY <2>6 DEF BeforeNul
  <2> QED
    BY <2>7
<1> QED
  BY <1>1, <1>2

LEMMA NewStringUTFType ==
  ASSUME NEW s \in Seq(WireChar)
  PROVE  NewStringUTF(s) \in Seq(JavaChar)
<1>1. PICK n \in 0..Len(s) : BeforeNul(s) = 1..n
  BY CutIsPrefix
<1>2. \A c \in WireChar : ToJava[c] \in JavaChar
  BY DEF WireChar, JavaChar, ToJava
<1>3. \A i \in 1..n : s[i] \in WireChar
  OBVIOUS
<1>4. NewStringUTF(s) = [i \in 1..n |-> ToJava[s[i]]]
  BY <1>1 DEF NewStringUTF
<1>5. NewStringUTF(s) \in [1..n -> JavaChar]
  BY <1>2, <1>3, <1>4
<1> QED
  BY <1>5

LEMMA GetStringUTFCharsType ==
  ASSUME NEW s \in Seq(JavaChar)
  PROVE  /\ GetStringUTFChars(s) \in Seq(WireChar)
         /\ Len(GetStringUTFChars(s)) = Len(s)
         /\ \A i \in 1..Len(s) : GetStringUTFChars(s)[i] = ToWire[s[i]]
<1>1. \A c \in JavaChar : ToWire[c] \in WireChar
  BY DEF WireChar, JavaChar, ToWire
<1>2. GetStringUTFChars(s) = [i \in 1..Len(s) |-> ToWire[s[i]]]
  BY DEF GetStringUTFChars
<1>3. GetStringUTFChars(s) \in [1..Len(s) -> WireChar]
  BY <1>1, <1>2
<1> QED
  BY <1>2, <1>3

\* Any Java string comes back as it was: nul and surrogate pairs travel in
\* the forms modified UTF-8 has for them.
THEOREM JavaTextSurvives ==
  ASSUME NEW s \in Seq(JavaChar)
  PROVE  NewStringUTF(GetStringUTFChars(s)) = s
<1> DEFINE t == GetStringUTFChars(s)
<1>1. t \in Seq(WireChar) /\ Len(t) = Len(s) /\ \A i \in 1..Len(s) : t[i] = ToWire[s[i]]
  BY GetStringUTFCharsType
<1>2. \A c \in JavaChar : ToWire[c] # "nul" /\ ToJava[ToWire[c]] = c
  BY DEF JavaChar, ToWire, ToJava
<1> HIDE DEF t
<1>3. BeforeNul(t) = 1..Len(s)
  BY <1>1, <1>2 DEF BeforeNul
<1>4. NewStringUTF(t) = [i \in 1..Len(s) |-> ToJava[t[i]]]
  BY <1>3 DEF NewStringUTF
<1>5. NewStringUTF(t) = [i \in 1..Len(s) |-> s[i]]
  BY <1>1, <1>2, <1>4
<1>6. s = [i \in 1..Len(s) |-> s[i]]
  OBVIOUS
<1> QED
  BY <1>5, <1>6 DEF t

\* A Go string without nul and four-byte characters comes back as it was.
THEOREM GoTextSurvives ==
  ASSUME NEW s \in Seq(WireChar), \A i \in DOMAIN s : s[i] \notin {"nul", "four"}
  PROVE  GetStringUTFChars(NewStringUTF(s)) = s
<1> DEFINE t == NewStringUTF(s)
<1>1. BeforeNul(s) = 1..Len(s)
  BY DEF BeforeNul
<1>2. t = [i \in 1..Len(s) |-> ToJava[s[i]]]
  BY <1>1 DEF NewStringUTF
<1>3. \A c \in WireChar \ {"nul", "four"} : ToWire[ToJava[c]] = c
  BY DEF WireChar, ToWire, ToJava
<1>4. DOMAIN t = 1..Len(s) /\ \A i \in 1..Len(s) : t[i] = ToJava[s[i]]
  BY <1>2
<1> HIDE DEF t
<1>5. GetStringUTFChars(t) = [i \in 1..Len(s) |-> s[i]]
  BY <1>3, <1>4 DEF GetStringUTFChars
<1>6. s = [i \in 1..Len(s) |-> s[i]]
  OBVIOUS
<1> QED
  BY <1>5, <1>6 DEF t
-----------------------------------------------------------------------------
(***************************************************************************)
(* The inductive invariant.                                                *)
(***************************************************************************)
\* What native code refers to: load() has the local reference of the root
\* from LoadReturns on; the global references are load()'s, or those of the
\* Context that encodes, one for each place it was sent.
References ==
  /\ locals \subseteq {Root}
  /\ pc \in {"loaded", "returning"} => Root \in locals
  /\ pc \notin {"loaded", "returning"} => locals = {}
  /\ pc = "encoding" => open
  /\ open => pc \in {"encoding", "bytes", "npe"}
  /\ pc \notin {"loading", "loaded"} =>
       globals = IF open THEN {w \in Ids : wire[w] # NONE} ELSE {}

\* Every place below the root has a parent.
HasParents(tree) ==
  \A w \in Ids \ {Root} : tree[w] # NONE =>
    \E p \in Ids : tree[p] # NONE /\ \E i \in DOMAIN tree[p].kids : tree[p].kids[i].id = w

\* The tree of libuast is whole but while encode() builds it.
WholeWire ==
  /\ HasParents(wire)
  /\ pc \notin {"tree", "encoding"} => wire[Root] # NONE /\ Closed(wire)

\* The collector leaves no JNode without its children, or the caller without
\* the root.
WholeHeap ==
  /\ Closed(heap)
  /\ held => heap[Root] # NONE
  /\ pc = "encoding" => held

Shapes ==
  \A w \in Ids :
    /\ wire[w] # NONE => WireShaped(wire[w])
    /\ heap[w] # NONE => JvmShaped(heap[w])

\* s is the beginning of t; o and n have the same value.
Begins(s, t)    == Len(s) <= Len(t) /\ \A i \in 1..Len(s) : s[i] = t[i]
SameValue(o, n) == Empty(o) = Empty(n)

\* What load() has made so far is the beginning of what it is to make, and
\* held by its Node or, if it is null, by its parent.
Linked(w) ==
  \E p \in Ids : heap[p] # NONE /\ \E i \in DOMAIN heap[p].kids : heap[p].kids[i].id = w
LoadingInv ==
  pc = "loading" => \A w \in Ids : heap[w] # NONE =>
    /\ wire[w] # NONE
    /\ SameValue(heap[w], Loaded(wire[w])) /\ Begins(heap[w].kids, Loaded(wire[w]).kids)
    /\ w \in globals \/ Linked(w)

\* What load() has made is all there until the caller drops it.
LoadedInv ==
  pc \in {"loaded", "returning"} \/ (pc = "tree" /\ held) =>
    \A w \in Ids : wire[w] # NONE =>
      /\ heap[w] # NONE
      /\ SameValue(heap[w], Loaded(wire[w])) /\ Begins(Loaded(wire[w]).kids, heap[w].kids)

\* What encode() has visited is held by its Node, and has the children of
\* the JNode as far as they were read.
EncodingInv ==
  pc = "encoding" => \A w \in Ids : wire[w] # NONE =>
    /\ w \in globals /\ heap[w] # NONE
    /\ Len(wire[w].kids) <= Len(heap[w].kids) /\ size[w] <= Len(heap[w].kids)
    /\ \A i \in 1..Len(wire[w].kids) : wire[w].kids[i].id = heap[w].kids[i].id
    /\ wire[w].kind = KindOf(heap[w].class)

Inv ==
  /\ TypeOK /\ References /\ WholeWire /\ WholeHeap /\ Shapes
  /\ LoadingInv /\ LoadedInv /\ EncodingInv

-----------------------------------------------------------------------------
(***************************************************************************)
(* What the operators make of nodes.                                       *)
(***************************************************************************)
LEMMA EmptyType ==
  /\ \A n \in WireNodes : Empty(n) \in WireNodes /\ Empty(n).kids = <<>>
                          /\ Empty(n).kind = n.kind /\ Empty(Empty(n)) = Empty(n)
  /\ \A o \in JNodes : Empty(o) \in JNodes /\ Empty(o).kids = <<>>
                       /\ Empty(o).class = o.class /\ Empty(Empty(o)) = Empty(o)
<1>1. <<>> \in Seq(WireKids) /\ <<>> \in Seq(JvmKids)
  OBVIOUS
<1>2. ASSUME NEW n \in WireNodes
      PROVE  Empty(n) \in WireNodes /\ Empty(n).kids = <<>>
             /\ Empty(n).kind = n.kind /\ Empty(Empty(n)) = Empty(n)
  BY <1>1 DEF Empty, WireNodes
<1>3. ASSUME NEW o \in JNodes
      PROVE  Empty(o) \in JNodes /\ Empty(o).kids = <<>>
             /\ Empty(o).class = o.class /\ Empty(Empty(o)) = Empty(o)
  BY <1>1 DEF Empty, JNodes
<1> QED
  BY <1>2, <1>3

\* What one more child does to a node.
HasKid(q, o, kid) ==
  /\ Empty(q) = Empty(o)
  /\ Len(q.kids) = Len(o.kids) + 1
  /\ \A i \in 1..Len(o.kids) : q.kids[i] = o.kids[i]
  /\ q.kids[Len(o.kids) + 1] = kid

LEMMA JvmKid ==
  ASSUME NEW o \in JNodes, NEW kid \in JvmKids
  PROVE  /\ WithKid(o, kid) \in JNodes /\ WithKid(o, kid).class = o.class
         /\ HasKid(WithKid(o, kid), o, kid)
<1>1. o.kids \in Seq(JvmKids)
  BY DEF JNodes
<1>2. Append(o.kids, kid) \in Seq(JvmKids)
  BY <1>1
<1>3. WithKid(o, kid).kids = Append(o.kids, kid)
  BY DEF WithKid, JNodes
<1>4. WithKid(o, kid) \in JNodes /\ WithKid(o, kid).class = o.class
  BY <1>2 DEF WithKid, JNodes
<1>5. Empty(WithKid(o, kid)) = Empty(o)
  BY DEF WithKid, Empty, JNodes
<1> QED
  BY <1>1, <1>3, <1>4, <1>5 DEF HasKid

LEMMA WireKid ==
  ASSUME NEW n \in WireNodes, NEW kid \in WireKids
  PROVE  /\ WithKid(n, kid) \in WireNodes /\ WithKid(n, kid).kind = n.kind
         /\ HasKid(WithKid(n, kid), n, kid)
<1>1. n.kids \in Seq(WireKids)
  BY DEF WireNodes
<1>2. Append(n.kids, kid) \in Seq(WireKids)
  BY <1>1
<1>3. WithKid(n, kid).kids = Append(n.kids, kid)
  BY DEF WithKid, WireNodes
<1>4. WithKid(n, kid) \in WireNodes /\ WithKid(n, kid).kind = n.kind
  BY <1>2 DEF WithKid, WireNodes
<1>5. Empty(WithKid(n, kid)) = Empty(n)
  BY DEF WithKid, Empty, WireNodes
<1> QED
  BY <1>1, <1>3, <1>4, <1>5 DEF HasKid

LEMMA LoadedType ==
  ASSUME NEW n \in WireNodes
  PROVE  /\ Loaded(n) \in JNodes
         /\ Len(Loaded(n).kids) = Len(n.kids)
         /\ \A i \in 1..Len(n.kids) :
              Loaded(n).kids[i] = [key |-> NewStringUTF(n.kids[i].key), id |-> n.kids[i].id]
         /\ Loaded(n).class = "JArray" <=> n.kind = "array"
         /\ n.kind \in {"object", "array"} => Loaded(n).class \in {"JObject", "JArray"}
<1> DEFINE kids == [i \in DOMAIN n.kids |-> [key |-> NewStringUTF(n.kids[i].key), id |-> n.kids[i].id]]
<1>1. n.kids \in Seq(WireKids) /\ n.text \in Seq(WireChar) /\ n.kind \in Kinds /\ n.num \in Longs
  BY DEF WireNodes
<1>2. \A i \in 1..Len(n.kids) : n.kids[i].key \in Seq(WireChar) /\ n.kids[i].id \in Ids
  <2>1. \A i \in 1..Len(n.kids) : n.kids[i] \in WireKids
    BY <1>1
  <2> QED
    BY <2>1 DEF WireKids
<1>3. kids \in [1..Len(n.kids) -> JvmKids]
  BY <1>1, <1>2, NewStringUTFType DEF JvmKids
<1>4. kids \in Seq(JvmKids) /\ Len(kids) = Len(n.kids)
  <2> HIDE DEF kids
  <2>1. Len(n.kids) \in Nat
    BY <1>1
  <2> QED
    BY <1>3, <2>1
<1>5. NewStringUTF(n.text) \in Seq(JavaChar)
  BY <1>1, NewStringUTFType
<1> DEFINE class == IF n.kind = "null" THEN "JNull" ELSE ClassOf[n.kind]
<1>6. /\ class \in Classes /\ (class = "JArray" <=> n.kind = "array")
      /\ n.kind \in {"object", "array"} => class \in {"JObject", "JArray"}
  BY <1>1 DEF Kinds, Classes, ClassOf
<1>7. Loaded(n) = [class |-> class, text |-> NewStringUTF(n.text), num |-> n.num, kids |-> kids]
  BY DEF Loaded
<1>8. \A i \in 1..Len(n.kids) :
        kids[i] = [key |-> NewStringUTF(n.kids[i].key), id |-> n.kids[i].id]
  BY <1>1
<1> HIDE DEF kids, class
<1>9. Loaded(n) \in JNodes
  BY <1>1, <1>4, <1>5, <1>6, <1>7 DEF JNodes
<1> QED
  BY <1>4, <1>6, <1>7, <1>8, <1>9

LEMMA ChildAtType ==
  ASSUME NEW o \in JNodes, NEW i \in 1..Len(o.kids)
  PROVE  ChildAt(o, i) \in WireKids /\ ChildAt(o, i).id = o.kids[i].id
<1>1. o.kids \in Seq(JvmKids)
  BY DEF JNodes
<1>2. o.kids[i] \in JvmKids
  BY <1>1
<1>3. o.kids[i].key \in Seq(JavaChar) /\ o.kids[i].id \in Ids
  BY <1>2 DEF JvmKids
<1>4. GetStringUTFChars(o.kids[i].key) \in Seq(WireChar)
  BY <1>3, GetStringUTFCharsType
<1> QED
  BY <1>3, <1>4 DEF WireKids, ChildAt

\* What Visit makes of a JNode: its value, with no children yet.
LEMMA VisitedType ==
  ASSUME NEW o \in JNodes
  PROVE  /\ Empty(Encoded(o)) \in WireNodes /\ Empty(Encoded(o)).kids = <<>>
         /\ Empty(Encoded(o)).kind = KindOf(o.class)
         /\ KindOf(o.class) = "array" <=> o.class = "JArray"
<1>1. o.text \in Seq(JavaChar) /\ o.class \in Classes /\ o.num \in Longs
  BY DEF JNodes
<1>2. KindOf(o.class) \in Kinds /\ (KindOf(o.class) = "array" <=> o.class = "JArray")
  <2>1. CASE o.class \in {"nullptr", "JNull", "JObject", "JNothing"}
    BY <2>1 DEF KindOf, Kinds
  <2>2. CASE o.class \notin {"nullptr", "JNull", "JObject", "JNothing"}
    <3>1. \E k \in DOMAIN ClassOf : ClassOf[k] = o.class
      BY <1>1, <2>2 DEF Classes, ClassOf
    <3>2. KindOf(o.class) = CHOOSE k \in DOMAIN ClassOf : ClassOf[k] = o.class
      BY <2>2 DEF KindOf
    <3>3. KindOf(o.class) \in DOMAIN ClassOf /\ ClassOf[KindOf(o.class)] = o.class
      BY <3>1, <3>2
    <3> QED
      BY <3>3 DEF ClassOf, Kinds
  <2> QED
    BY <2>1, <2>2
<1>3. AsNum(o) \in Longs
  BY <1>1, Constants DEF AsNum, Longs
<1>4. GetStringUTFChars(o.text) \in Seq(WireChar)
  BY <1>1, GetStringUTFCharsType
<1>5. Empty(Encoded(o)) = [kind |-> KindOf(o.class), text |-> GetStringUTFChars(o.text),
                          num |-> AsNum(o), kids |-> <<>>]
  <2> DEFINE kids == [i \in DOMAIN o.kids |-> ChildAt(o, i)]
  <2>1. Encoded(o) = [kind |-> KindOf(o.class), text |-> GetStringUTFChars(o.text),
                      num |-> AsNum(o), kids |-> kids]
    BY DEF Encoded
  <2> HIDE DEF kids
  <2> QED
    BY <2>1 DEF Empty
<1> QED
  BY <1>2, <1>3, <1>4, <1>5 DEF WireNodes

-----------------------------------------------------------------------------
(***************************************************************************)
(* Initial states.                                                         *)
(***************************************************************************)
LEMMA NoTreeType ==
  NoTree \in [Ids -> WireNodes \cup {NONE}] /\ NoTree \in [Ids -> JNodes \cup {NONE}]
  /\ HasParents(NoTree) /\ Closed(NoTree)
BY DEF NoTree, HasParents, Closed

\* The root and the places with a parent are a set that has the children of
\* its members.
LEMMA ConnectedHasParents ==
  ASSUME NEW tree \in [Ids -> WireNodes \cup JNodes \cup {NONE}], Connected(tree), Closed(tree)
  PROVE  HasParents(tree)
<1> DEFINE S == {w \in Ids : \/ w = Root
                            \/ \E p \in Ids : /\ tree[p] # NONE
                                              /\ \E i \in DOMAIN tree[p].kids : tree[p].kids[i].id = w}
<1>1. ASSUME NEW w \in S, tree[w] # NONE, NEW i \in DOMAIN tree[w].kids
      PROVE  tree[w].kids[i].id \in S
  <2>1. tree[w].kids[i].id \in Ids
    <3>1. CASE tree[w] \in WireNodes
      <4>1. tree[w].kids \in Seq(WireKids)
        BY <3>1 DEF WireNodes
      <4>2. tree[w].kids[i] \in WireKids
        BY <1>1, <4>1
      <4> QED
        BY <4>2 DEF WireKids
    <3>2. CASE tree[w] \in JNodes
      <4>1. tree[w].kids \in Seq(JvmKids)
        BY <3>2 DEF JNodes
      <4>2. tree[w].kids[i] \in JvmKids
        BY <1>1, <4>1
      <4> QED
        BY <4>2 DEF JvmKids
    <3> QED
      BY <1>1, <3>1, <3>2
  <2> QED
    BY <1>1, <2>1
<1>2. S \in SUBSET Ids /\ Root \in S /\ HasKids(S, tree)
  BY <1>1, Constants DEF HasKids
<1>3. \A w \in Ids \ S : tree[w] = NONE
  BY <1>2 DEF Connected
<1> QED
  BY <1>3 DEF HasParents

LEMMA InitInv == Init => Inv
<1> SUFFICES ASSUME Init PROVE Inv
  OBVIOUS
<1>1. /\ wire \in [Ids -> WireNodes \cup {NONE}] /\ HasParents(wire)
      /\ heap \in [Ids -> JNodes \cup {NONE}] /\ Closed(heap)
      /\ (pc = "bytes" /\ ~held) \/ (pc = "tree" /\ held /\ wire = NoTree)
      /\ pc = "bytes" => wire[Root] # NONE /\ Closed(wire)
      /\ held => heap[Root] # NONE
  <2>1. CASE pc = "bytes" /\ wire \in WireTrees /\ heap = NoTree /\ held = FALSE
    <3>1. wire \in [Ids -> WireNodes \cup {NONE}] /\ Rooted(wire)
      BY <2>1, TreesAreRooted
    <3>2. HasParents(wire) /\ Closed(wire) /\ wire[Root] # NONE
      BY <3>1, ConnectedHasParents DEF Rooted
    <3>3. heap \in [Ids -> JNodes \cup {NONE}] /\ Closed(heap)
      BY <2>1, NoTreeType
    <3>4. held => heap[Root] # NONE
      BY <2>1
    <3>5. (pc = "bytes" /\ ~held) \/ (pc = "tree" /\ held /\ wire = NoTree)
      BY <2>1
    <3> QED
      BY <3>1, <3>2, <3>3, <3>4, <3>5, Zenon
  <2>2. CASE pc = "tree" /\ wire = NoTree /\ heap \in JvmTrees /\ held = TRUE
    <3>1. heap \in [Ids -> JNodes \cup {NONE}] /\ Rooted(heap)
      BY <2>2, TreesAreRooted
    <3> QED
      BY <2>2, <3>1, NoTreeType DEF Rooted
  <2> QED
    BY <2>1, <2>2 DEF Init
<1>2. TypeOK
  <2>1. {held, open} \subseteq BOOLEAN /\ pc \in {"bytes", "tree"}
    BY DEF Init
  <2> QED
    BY <1>1, <2>1, NoTreeType, Constants, TurnsBounded DEF Init, TypeOK
<1>3. Shapes
  BY TreesAreRooted DEF Init, Shapes, NoTree
<1>4. References /\ WholeWire /\ WholeHeap
  BY <1>1 DEF Init, References, WholeWire, WholeHeap
<1>5. LoadingInv /\ LoadedInv /\ EncodingInv
  BY <1>1 DEF LoadingInv, LoadedInv, EncodingInv, NoTree
<1> QED
  BY <1>2, <1>3, <1>4, <1>5 DEF Inv

-----------------------------------------------------------------------------
(***************************************************************************)
(* load() keeps the invariant.                                             *)
(***************************************************************************)
\* What a step in between does not touch.
LEMMA Framed ==
  ASSUME Inv, UNCHANGED <<wire, heap>>
  PROVE  Shapes' /\ HasParents(wire)' /\ Closed(wire)' = Closed(wire) /\ Closed(heap)'
BY DEF Inv, Shapes, WholeWire, WholeHeap, HasParents, Closed

LEMMA RootIsNullInv == Inv /\ RootIsNull => Inv'
<1> SUFFICES ASSUME Inv, RootIsNull PROVE Inv'
  OBVIOUS
<1>1. Shapes' /\ HasParents(wire)' /\ Closed(wire)' = Closed(wire) /\ Closed(heap)'
  BY Framed DEF RootIsNull
<1>2. TypeOK' /\ References'
  BY DEF Inv, TypeOK, References, RootIsNull
<1>3. WholeWire' /\ WholeHeap'
  BY <1>1 DEF Inv, RootIsNull, WholeWire, WholeHeap
<1>4. LoadingInv' /\ LoadedInv' /\ EncodingInv'
  BY DEF RootIsNull, LoadingInv, LoadedInv, EncodingInv
<1> QED
  BY <1>1, <1>2, <1>3, <1>4 DEF Inv

LEMMA BeginInv == Inv /\ Begin => Inv'
<1> SUFFICES ASSUME Inv, Begin PROVE Inv'
  OBVIOUS
<1>1. TypeOK' /\ References'
  BY NoTreeType DEF Inv, TypeOK, References, Begin
<1>2. WholeWire'
  BY DEF Inv, Begin, WholeWire, HasParents, Closed
<1>3. WholeHeap'
  BY NoTreeType DEF Begin, WholeHeap
<1>4. Shapes'
  BY DEF Inv, Begin, Shapes, NoTree
<1>5. LoadingInv' /\ LoadedInv' /\ EncodingInv'
  BY DEF Begin, LoadingInv, LoadedInv, EncodingInv, NoTree
<1> QED
  BY <1>1, <1>2, <1>3, <1>4, <1>5 DEF Inv

\* A heap in which load() has made w, and the links there were.
LEMMA NewInv == ASSUME NEW w \in Ids PROVE Inv /\ New(w) => Inv'
<1> SUFFICES ASSUME Inv, New(w) PROVE Inv'
  OBVIOUS
<1> DEFINE o == Empty(Loaded(wire[w]))
<1>1. wire[w] \in WireNodes /\ pc = "loading" /\ heap[w] = NONE /\ heap \in [Ids -> JNodes \cup {NONE}]
  BY DEF Inv, TypeOK, New
<1>2. /\ o \in JNodes /\ o.kids = <<>>
      /\ Empty(o) = o /\ o # NONE
      /\ Loaded(wire[w]).kids \in Seq(JvmKids)
  BY <1>1, LoadedType, EmptyType, Constants DEF JNodes
<1>3. heap' = [heap EXCEPT ![w] = o]
  BY DEF New
<1> HIDE DEF o
<1>4. heap'[w] = o /\ \A v \in Ids \ {w} : heap'[v] = heap[v]
  BY <1>1, <1>3
<1>5. TypeOK' /\ References'
  BY <1>1, <1>2, <1>3 DEF Inv, TypeOK, References, New
<1>6. WholeWire'
  BY DEF Inv, New, WholeWire, HasParents, Closed
<1>7. WholeHeap'
  BY <1>1, <1>2, <1>4 DEF Inv, New, WholeHeap, Closed
<1>8. Shapes'
  BY <1>2, <1>4 DEF Inv, New, Shapes, JvmShaped
<1>9. LoadingInv'
  <2>1. ASSUME NEW v \in Ids, heap[v] # NONE, Linked(v) PROVE Linked(v)'
    BY <2>1, <1>1, <1>4 DEF Linked
  <2>2. SameValue(o, Loaded(wire[w])) /\ Begins(o.kids, Loaded(wire[w]).kids)
    BY <1>2 DEF SameValue, Begins, o
  <2> QED
    BY <1>1, <1>4, <2>1, <2>2 DEF Inv, New, LoadingInv
<1>10. LoadedInv' /\ EncodingInv'
  BY DEF New, LoadedInv, EncodingInv
<1> QED
  BY <1>5, <1>6, <1>7, <1>8, <1>9, <1>10 DEF Inv

\* The child that SetKeyValue and SetValue place, whatever its key, and what
\* it leaves alone.
LEMMA AddChildInv ==
  ASSUME NEW p \in Ids, NEW key \in Seq(JavaChar), Inv, Pending(p), AddChild(p, key),
         key = NewStringUTF(wire[p].kids[Place(p)].key), wire[p].kind = "array" => key = <<>>
  PROVE  Inv'
<1> DEFINE k == [key |-> key, id |-> wire[p].kids[Place(p)].id]
           o == WithKid(heap[p], k)
<1>1. /\ pc = "loading" /\ heap \in [Ids -> JNodes \cup {NONE}] /\ heap[p] \in JNodes /\ heap[p] # NONE
      /\ wire \in [Ids -> WireNodes \cup {NONE}] /\ wire[p] # NONE /\ wire[p] \in WireNodes
  BY DEF Inv, TypeOK, Pending, LoadingInv
<1>2. /\ Place(p) = Len(heap[p].kids) + 1 /\ Place(p) \in 1..Len(wire[p].kids)
      /\ heap[p].kids \in Seq(JvmKids) /\ wire[p].kids \in Seq(WireKids)
  BY <1>1 DEF Pending, Place, JNodes, WireNodes
<1>3. PICK kid \in Ids : kid = wire[p].kids[Place(p)].id /\ wire[kid] # NONE
  <2>1. wire[p].kids[Place(p)] \in WireKids
    BY <1>2
  <2> QED
    BY <1>1, <1>2, <2>1 DEF Inv, WholeWire, Closed, WireKids
<1>4. wire[kid] \in WireNodes /\ Loaded(wire[kid]) \in JNodes /\ Loaded(wire[p]) \in JNodes
  BY <1>1, <1>3, LoadedType
<1>5. k \in JvmKids /\ k.id = kid
  BY <1>3 DEF JvmKids
<1>6. /\ o \in JNodes /\ o.class = heap[p].class /\ HasKid(o, heap[p], k)
      /\ o.kids \in Seq(JvmKids)
  BY <1>1, <1>5, JvmKid DEF JNodes
<1>7. /\ SameValue(o, Loaded(wire[p])) /\ Begins(o.kids, Loaded(wire[p]).kids)
  <2>1. Loaded(wire[p]).kids[Place(p)] = k
    BY <1>1, <1>2, <1>3, LoadedType
  <2>2. SameValue(heap[p], Loaded(wire[p])) /\ Begins(heap[p].kids, Loaded(wire[p]).kids)
    BY <1>1 DEF Inv, LoadingInv
  <2>3. Len(Loaded(wire[p]).kids) = Len(wire[p].kids)
    BY <1>1, LoadedType
  <2> HIDE DEF o, k
  <2>4. \A i \in 1..Len(o.kids) : i \in 1..Len(heap[p].kids) \/ i = Place(p)
    BY <1>2, <1>6 DEF HasKid
  <2>5. Begins(o.kids, Loaded(wire[p]).kids)
    BY <1>2, <1>6, <2>1, <2>2, <2>3, <2>4 DEF Begins, HasKid
  <2> QED
    BY <1>6, <2>2, <2>5 DEF SameValue, HasKid
<1> DEFINE full == [heap EXCEPT ![p] = o]
           lk   == Loaded(wire[kid])
<1>8. \/ heap[kid] # NONE /\ heap' = full
      \/ heap[kid] = NONE /\ wire[kid].kind = "null" /\ heap' = [full EXCEPT ![kid] = lk]
  BY <1>3 DEF AddChild
<1> HIDE DEF k, o
<1>9. full \in [Ids -> JNodes \cup {NONE}] /\ full[p] = o
      /\ \A v \in Ids \ {p} : full[v] = heap[v]
  BY <1>1, <1>6
<1> HIDE DEF full, lk
<1>10. lk \in JNodes /\ lk # NONE /\ o # NONE /\ lk.kids \in Seq(JvmKids)
  BY <1>4, <1>6, Constants DEF lk, JNodes
\* Nothing is unmade, p has a child, and kid is made.
<1>11. /\ heap' \in [Ids -> JNodes \cup {NONE}] /\ heap'[p] = o /\ heap'[kid] # NONE
       /\ \A v \in Ids \ {p} : \/ heap'[v] = heap[v]
                               \/ /\ v = kid /\ heap[v] = NONE /\ heap'[v] = lk
                                  /\ wire[v].kind = "null"
  <2>1. CASE heap[kid] # NONE /\ heap' = full
    BY <1>3, <1>9, <1>10, <2>1
  <2>2. CASE heap[kid] = NONE /\ wire[kid].kind = "null" /\ heap' = [full EXCEPT ![kid] = lk]
    BY <1>1, <1>3, <1>9, <1>10, <2>2
  <2> QED
    BY <1>8, <2>1, <2>2
<1>12. wire[kid].kind = "null" => lk.kids = <<>>
  <2>1. ASSUME wire[kid].kind = "null" PROVE lk.kids = <<>>
    <3>1. wire[kid].kids = <<>>
      BY <1>3, <2>1 DEF Inv, Shapes, WireShaped
    <3>2. Len(lk.kids) = 0
      BY <1>4, <3>1, LoadedType DEF lk
    <3> QED
      BY <1>10, <3>2
  <2> QED
    BY <2>1
<1>13. \A v \in Ids : heap[v] # NONE => heap'[v] # NONE
  BY <1>10, <1>11
<1>14. \A v \in Ids : Linked(v) => Linked(v)'
  <2> SUFFICES ASSUME NEW v \in Ids, Linked(v) PROVE Linked(v)'
    OBVIOUS
  <2>1. PICK q \in Ids : heap[q] # NONE /\ \E i \in DOMAIN heap[q].kids : heap[q].kids[i].id = v
    BY DEF Linked
  <2>2. CASE q = p
    <3>1. PICK i \in DOMAIN heap[p].kids : heap[p].kids[i].id = v
      BY <2>1, <2>2
    <3>2. i \in 1..Len(heap[p].kids) /\ Len(heap[p].kids) \in Nat
      BY <1>2
    <3>3. i \in 1..Len(o.kids) /\ o.kids[i] = heap[p].kids[i]
      BY <1>6, <3>2 DEF HasKid
    <3>4. i \in DOMAIN o.kids
      BY <1>6, <3>3
    <3> QED
      BY <1>10, <1>11, <3>1, <3>3, <3>4 DEF Linked
  <2>3. CASE q # p
    BY <1>11, <2>1, <2>3 DEF Linked
  <2> QED
    BY <2>2, <2>3
<1>15. Linked(kid)'
  <2>1. Place(p) \in DOMAIN o.kids /\ o.kids[Place(p)].id = kid
    BY <1>2, <1>5, <1>6 DEF HasKid
  <2> QED
    BY <1>10, <1>11, <2>1 DEF Linked
<1>16. TypeOK' /\ References' /\ WholeWire'
  BY <1>11 DEF Inv, TypeOK, References, WholeWire, HasParents, Closed, AddChild
<1>17. WholeHeap'
  <2>1. ASSUME NEW v \in Ids, heap'[v] # NONE, NEW i \in DOMAIN heap'[v].kids
        PROVE  heap'[heap'[v].kids[i].id] # NONE
    <3>1. CASE v # p /\ heap'[v] = heap[v]
      <4>1. heap[v].kids[i].id \in Ids /\ heap[heap[v].kids[i].id] # NONE
        <5>1. heap[v] \in JNodes /\ heap[v].kids \in Seq(JvmKids)
          BY <1>1, <2>1, <3>1 DEF JNodes
        <5>2. heap[v].kids[i] \in JvmKids
          BY <2>1, <3>1, <5>1
        <5> QED
          BY <2>1, <3>1, <5>2 DEF Inv, WholeHeap, Closed, JvmKids
      <4> QED
        BY <1>13, <3>1, <4>1
    <3>2. CASE heap'[v] = lk /\ lk.kids = <<>>
      BY <2>1, <3>2
    <3>3. CASE v = p
      <4>1. i \in 1..Len(heap[p].kids) \/ i = Len(heap[p].kids) + 1
        BY <1>2, <1>6, <1>11, <2>1, <3>3 DEF HasKid
      <4>2. CASE i = Len(heap[p].kids) + 1
        BY <1>5, <1>6, <1>11, <3>3, <4>2 DEF HasKid
      <4>3. CASE i \in 1..Len(heap[p].kids)
        <5>1. o.kids[i] = heap[p].kids[i] /\ heap[p].kids[i] \in JvmKids
          BY <1>2, <1>6, <4>3 DEF HasKid
        <5>2. heap[p].kids[i].id \in Ids /\ heap[heap[p].kids[i].id] # NONE
          BY <1>1, <1>2, <4>3, <5>1 DEF Inv, WholeHeap, Closed, JvmKids
        <5> QED
          BY <1>11, <1>13, <3>3, <5>1, <5>2
      <4> QED
        BY <4>1, <4>2, <4>3
    <3> QED
      BY <1>11, <1>12, <3>1, <3>2, <3>3
  <2>2. Closed(heap)'
    BY <2>1 DEF Closed
  <2>3. held' = held /\ pc' = pc
    BY DEF AddChild
  <2> QED
    BY <1>1, <1>13, <2>2, <2>3, Constants DEF Inv, WholeHeap
<1>18. Shapes'
  <2>1. ASSUME NEW v \in Ids, heap'[v] # NONE PROVE JvmShaped(heap'[v])
    <3>1. CASE v # p /\ heap'[v] = heap[v]
      BY <2>1, <3>1 DEF Inv, Shapes
    <3>2. CASE heap'[v] = lk /\ lk.kids = <<>>
      BY <3>2 DEF JvmShaped
    <3>3. CASE v = p
      <4>1. /\ o.class = Loaded(wire[p]).class
            /\ wire[p].kind \in {"object", "array"}
            /\ Loaded(wire[p]).class \in {"JObject", "JArray"}
        <5>1. o.class = Loaded(wire[p]).class
          BY <1>4, <1>6, <1>7, EmptyType DEF SameValue
        <5>2. wire[p].kind \in {"object", "array"}
          BY <1>1, <1>2 DEF Inv, Shapes, WireShaped
        <5> QED
          BY <1>1, <5>1, <5>2, LoadedType
      <4>2. JvmShaped(heap[p])
        BY <1>1 DEF Inv, Shapes
      <4>3. o.class \in {"JObject", "JArray"}
        BY <1>6, <4>1
      <4>4. ASSUME o.class = "JArray", NEW i \in DOMAIN o.kids PROVE o.kids[i].key = <<>>
        <5>1. wire[p].kind = "array"
          BY <1>1, <4>1, <4>4, LoadedType
        <5>2. k.key = <<>>
          BY <5>1 DEF k
        <5>3. i \in 1..Len(heap[p].kids) \/ i = Len(heap[p].kids) + 1
          BY <1>2, <1>6, <4>4 DEF HasKid
        <5>4. heap[p].class = "JArray"
          BY <1>6, <4>4
        <5> QED
          BY <1>2, <1>6, <4>2, <5>2, <5>3, <5>4 DEF HasKid, JvmShaped
      <4> QED
        BY <1>11, <3>3, <4>3, <4>4 DEF JvmShaped
    <3> QED
      BY <1>11, <1>12, <3>1, <3>2, <3>3
  <2>2. wire' = wire
    BY DEF AddChild
  <2> QED
    BY <2>1, <2>2 DEF Inv, Shapes
<1>19. LoadingInv'
  <2>1. SameValue(lk, Loaded(wire[kid])) /\ Begins(lk.kids, Loaded(wire[kid]).kids)
    BY <1>10 DEF lk, SameValue, Begins
  <2> QED
    BY <1>1, <1>3, <1>7, <1>11, <1>14, <1>15, <2>1 DEF Inv, LoadingInv, AddChild
<1>20. LoadedInv' /\ EncodingInv'
  BY <1>1 DEF AddChild, LoadedInv, EncodingInv
<1> QED
  BY <1>16, <1>17, <1>18, <1>19, <1>20 DEF Inv

LEMMA SetInv ==
  ASSUME NEW p \in Ids
  PROVE  Inv /\ (SetKeyValue(p) \/ SetValue(p)) => Inv'
<1> SUFFICES ASSUME Inv, SetKeyValue(p) \/ SetValue(p) PROVE Inv'
  OBVIOUS
<1>1. Pending(p) /\ wire[p] # NONE /\ wire[p] \in WireNodes /\ WireShaped(wire[p])
  BY DEF SetKeyValue, SetValue, Pending, Inv, TypeOK, LoadingInv, Shapes
<1>2. Place(p) \in DOMAIN wire[p].kids /\ wire[p].kids[Place(p)].key \in Seq(WireChar)
  <2>1. Place(p) \in DOMAIN wire[p].kids /\ wire[p].kids \in Seq(WireKids)
    BY <1>1 DEF Pending, WireNodes
  <2>2. wire[p].kids[Place(p)] \in WireKids
    BY <2>1
  <2> QED
    BY <2>1, <2>2 DEF WireKids
<1> DEFINE key == wire[p].kids[Place(p)].key
<1>3. NewStringUTF(key) \in Seq(JavaChar)
  BY <1>2, NewStringUTFType
<1>4. wire[p].kind = "array" => key = <<>>
  BY <1>1, <1>2 DEF WireShaped
<1>5. NewStringUTF(<<>>) = <<>>
  BY DEF NewStringUTF, BeforeNul
<1>6. CASE SetKeyValue(p)
  BY <1>1, <1>3, <1>4, <1>5, <1>6, AddChildInv DEF SetKeyValue
<1>7. CASE SetValue(p)
  BY <1>1, <1>3, <1>4, <1>5, <1>7, AddChildInv DEF SetValue
<1> QED
  BY <1>6, <1>7

LEMMA LoadReturnsInv == Inv /\ LoadReturns => Inv'
<1> SUFFICES ASSUME Inv, LoadReturns PROVE Inv'
  OBVIOUS
<1>1. Shapes' /\ HasParents(wire)' /\ Closed(wire)' = Closed(wire) /\ Closed(heap)'
  BY Framed DEF LoadReturns
<1>2. TypeOK' /\ References'
  BY Constants DEF Inv, TypeOK, References, LoadReturns
<1>3. WholeWire' /\ WholeHeap'
  BY <1>1 DEF Inv, LoadReturns, WholeWire, WholeHeap
<1>4. LoadedInv'
  <2>1. ASSUME NEW w \in Ids, wire[w] # NONE
        PROVE  /\ heap[w] # NONE
               /\ SameValue(heap[w], Loaded(wire[w])) /\ Begins(Loaded(wire[w]).kids, heap[w].kids)
    <3>1. heap[w] # NONE /\ Len(heap[w].kids) = Len(wire[w].kids)
      BY <2>1 DEF LoadReturns
    <3>2. SameValue(heap[w], Loaded(wire[w])) /\ Begins(heap[w].kids, Loaded(wire[w]).kids)
      BY <3>1 DEF Inv, LoadReturns, LoadingInv
    <3>3. Len(Loaded(wire[w]).kids) = Len(wire[w].kids)
      BY <2>1, LoadedType DEF Inv, TypeOK
    <3> QED
      BY <3>1, <3>2, <3>3 DEF Begins
  <2> QED
    BY <2>1 DEF LoadReturns, LoadedInv
<1>5. LoadingInv' /\ EncodingInv'
  BY DEF LoadReturns, LoadingInv, EncodingInv
<1> QED
  BY <1>1, <1>2, <1>3, <1>4, <1>5 DEF Inv

LEMMA ReturnInv == Inv /\ (DeleteContext \/ Return) => Inv'
<1> SUFFICES ASSUME Inv, DeleteContext \/ Return PROVE Inv'
  OBVIOUS
<1>1. Shapes' /\ HasParents(wire)' /\ Closed(wire)' = Closed(wire) /\ Closed(heap)'
  BY Framed DEF DeleteContext, Return
<1>2. TypeOK'
  BY DEF Inv, TypeOK, DeleteContext, Return
<1>3. References'
  <2>1. References /\ ~open
    BY DEF Inv, References, DeleteContext, Return
  <2> QED
    BY <2>1 DEF References, DeleteContext, Return
<1>4. WholeWire'
  BY <1>1 DEF Inv, DeleteContext, Return, WholeWire
<1>5. LoadedInv' /\ LoadingInv' /\ EncodingInv'
  BY DEF Inv, DeleteContext, Return, LoadedInv, LoadingInv, EncodingInv
<1>6. WholeHeap'
  BY <1>1, Constants DEF Inv, DeleteContext, Return, WholeWire, WholeHeap, LoadedInv
<1> QED
  BY <1>1, <1>2, <1>3, <1>4, <1>5, <1>6 DEF Inv

-----------------------------------------------------------------------------
(***************************************************************************)
(* encode() keeps the invariant.                                           *)
(***************************************************************************)
LEMMA BeginEncodeInv == Inv /\ BeginEncode => Inv'
<1> SUFFICES ASSUME Inv, BeginEncode PROVE Inv'
  OBVIOUS
<1>1. TypeOK' /\ References'
  <2>1. TypeOK'
    BY NoTreeType, Constants, TurnsBounded DEF Inv, TypeOK, BeginEncode
  <2>2. globals = {} /\ locals = {}
    BY DEF Inv, References, BeginEncode
  <2>3. References'
    BY <2>2 DEF References, BeginEncode, NoTree
  <2> QED
    BY <2>1, <2>3
<1>2. WholeWire'
  BY NoTreeType DEF WholeWire, BeginEncode
<1>3. WholeHeap'
  BY DEF Inv, WholeHeap, Closed, BeginEncode
<1>4. Shapes' /\ LoadingInv' /\ LoadedInv' /\ EncodingInv'
  BY DEF Inv, Shapes, BeginEncode, LoadingInv, LoadedInv, EncodingInv, NoTree
<1> QED
  BY <1>1, <1>2, <1>3, <1>4 DEF Inv

LEMMA VisitInv == ASSUME NEW w \in Ids PROVE Inv /\ Visit(w) => Inv'
<1> SUFFICES ASSUME Inv, Visit(w) PROVE Inv'
  OBVIOUS
<1>1. /\ pc = "encoding" /\ wire[w] = NONE /\ heap' = heap
      /\ wire \in [Ids -> WireNodes \cup {NONE}] /\ heap \in [Ids -> JNodes \cup {NONE}]
  BY DEF Inv, TypeOK, Visit
<1>2. heap[w] # NONE
  <2>1. CASE w = Root
    BY <1>1, <2>1 DEF Inv, WholeHeap
  <2>2. CASE w # Root
    <3>1. PICK p \in Ids : wire[p] # NONE /\ \E i \in DOMAIN wire[p].kids : wire[p].kids[i].id = w
      BY <2>2 DEF Visit
    <3>2. PICK i \in DOMAIN wire[p].kids : wire[p].kids[i].id = w
      BY <3>1
    <3>3. wire[p].kids \in Seq(WireKids) /\ heap[p] # NONE /\ heap[p].kids \in Seq(JvmKids)
      BY <1>1, <3>1 DEF Inv, EncodingInv, WireNodes, JNodes
    <3>4. i \in DOMAIN heap[p].kids /\ heap[p].kids[i].id = w
      BY <1>1, <3>1, <3>2, <3>3 DEF Inv, EncodingInv
    <3> QED
      BY <3>3, <3>4 DEF Inv, WholeHeap, Closed
  <2> QED
    BY <2>1, <2>2
<1> DEFINE n == Empty(Encoded(heap[w]))
           s == IF KindOf(heap[w].class) \in {"object", "array"} THEN SizeOf(heap[w]) ELSE 0
<1>3. heap[w] \in JNodes /\ JvmShaped(heap[w]) /\ heap[w].kids \in Seq(JvmKids)
  BY <1>1, <1>2 DEF Inv, Shapes, JNodes
<1>4. n \in WireNodes /\ n # NONE /\ n.kids = <<>> /\ n.kind = KindOf(heap[w].class)
  BY <1>3, VisitedType, Constants
<1>5. s \in Nat /\ s <= Len(heap[w].kids)
  <2>1. heap[w].class = "JString" => KindOf(heap[w].class) \notin {"object", "array"}
    <3>1. "JString" \in Classes /\ KindOf("JString") = CHOOSE k \in DOMAIN ClassOf : ClassOf[k] = "JString"
      BY DEF Classes, KindOf
    <3>2. ClassOf["string"] = "JString" /\ \A k \in DOMAIN ClassOf : ClassOf[k] = "JString" => k = "string"
      BY DEF ClassOf
    <3>3. "string" \in DOMAIN ClassOf
      BY DEF ClassOf
    <3> QED
      BY <3>1, <3>2, <3>3
  <2> QED
    BY <1>3, <2>1 DEF SizeOf
<1>6. /\ wire' = [wire EXCEPT ![w] = n] /\ size' = [size EXCEPT ![w] = s]
      /\ globals' = globals \cup {w}
      /\ UNCHANGED <<pc, heap, open, locals, held, turn, source, begun, ended>>
  BY DEF Visit
<1> HIDE DEF n, s
<1>7. wire'[w] = n /\ \A v \in Ids \ {w} : wire'[v] = wire[v]
  BY <1>1, <1>6
<1>8. size'[w] = s /\ \A v \in Ids \ {w} : size'[v] = size[v]
  BY <1>6 DEF Inv, TypeOK
<1>9. TypeOK' /\ References'
  <2>1. {v \in Ids : wire'[v] # NONE} = {v \in Ids : wire[v] # NONE} \cup {w}
    BY <1>4, <1>7
  <2>2. TypeOK'
    BY <1>1, <1>4, <1>5, <1>6 DEF Inv, TypeOK
  <2>3. References'
    BY <1>1, <1>6, <2>1 DEF Inv, References
  <2> QED
    BY <2>2, <2>3
<1>10. HasParents(wire)'
  <2> SUFFICES ASSUME NEW v \in Ids \ {Root}, wire'[v] # NONE
      PROVE  \E p \in Ids : wire'[p] # NONE /\ \E i \in DOMAIN wire'[p].kids : wire'[p].kids[i].id = v
    BY DEF HasParents
  <2>1. PICK p \in Ids : wire[p] # NONE /\ \E i \in DOMAIN wire[p].kids : wire[p].kids[i].id = v
    <3>1. CASE v = w
      BY <3>1 DEF Visit
    <3>2. CASE v # w
      BY <1>7, <3>2 DEF Inv, WholeWire, HasParents
    <3> QED
      BY <3>1, <3>2
  <2> QED
    BY <1>1, <1>7, <2>1
<1>11. WholeWire' /\ WholeHeap'
  BY <1>1, <1>6, <1>10 DEF Inv, WholeWire, WholeHeap, Closed
<1>12. Shapes'
  BY <1>1, <1>4, <1>7 DEF Inv, Shapes, WireShaped
<1>13. EncodingInv'
  <2>1. \A v \in Ids : wire'[v] # NONE /\ v # w => wire[v] # NONE
    BY <1>7
  <2> QED
    BY <1>1, <1>2, <1>3, <1>4, <1>5, <1>6, <1>7, <1>8, <2>1 DEF Inv, EncodingInv
<1>14. LoadingInv' /\ LoadedInv'
  BY <1>1, <1>6 DEF LoadingInv, LoadedInv
<1> QED
  BY <1>9, <1>11, <1>12, <1>13, <1>14 DEF Inv

LEMMA ReadChildInv == ASSUME NEW p \in Ids PROVE Inv /\ ReadChild(p) => Inv'
<1> SUFFICES ASSUME Inv, ReadChild(p) PROVE Inv'
  OBVIOUS
<1> DEFINE i == Len(wire[p].kids) + 1
           k == ChildAt(heap[p], i)
           n == WithKid(wire[p], k)
<1>1. /\ pc = "encoding" /\ wire[p] # NONE /\ i <= size[p] /\ heap' = heap
      /\ wire' = [wire EXCEPT ![p] = n]
      /\ UNCHANGED <<pc, size, globals, open, locals, held, turn, source, begun, ended>>
      /\ wire \in [Ids -> WireNodes \cup {NONE}] /\ heap \in [Ids -> JNodes \cup {NONE}]
  BY DEF Inv, TypeOK, ReadChild
<1>2. /\ wire[p] \in WireNodes /\ wire[p].kids \in Seq(WireKids)
      /\ heap[p] # NONE /\ heap[p] \in JNodes /\ heap[p].kids \in Seq(JvmKids)
      /\ size[p] <= Len(heap[p].kids) /\ size[p] \in Nat
  BY <1>1 DEF Inv, EncodingInv, TypeOK, WireNodes, JNodes
<1>3. i \in 1..Len(heap[p].kids)
  BY <1>1, <1>2
<1>4. k \in WireKids /\ k.id = heap[p].kids[i].id /\ k.key = GetStringUTFChars(heap[p].kids[i].key)
  <2> HIDE DEF i
  <2> QED
    BY <1>2, <1>3, ChildAtType DEF ChildAt
<1>5. /\ n \in WireNodes /\ n.kind = wire[p].kind /\ HasKid(n, wire[p], k) /\ n # NONE
      /\ n.kids \in Seq(WireKids)
  <2> HIDE DEF i, k
  <2> QED
    BY <1>2, <1>4, WireKid, Constants DEF WireNodes
<1> HIDE DEF k, n
<1>6. wire'[p] = n /\ \A v \in Ids \ {p} : wire'[v] = wire[v]
  BY <1>1
<1>7. Len(n.kids) = i /\ n.kids[i] = k /\ \A j \in 1..Len(wire[p].kids) : n.kids[j] = wire[p].kids[j]
  BY <1>5 DEF HasKid
<1>8. TypeOK' /\ References'
  <2>1. {v \in Ids : wire'[v] # NONE} = {v \in Ids : wire[v] # NONE}
    BY <1>1, <1>5, <1>6
  <2>2. TypeOK'
    BY <1>1, <1>5 DEF Inv, TypeOK
  <2>3. References'
    BY <1>1, <2>1 DEF Inv, References
  <2> QED
    BY <2>2, <2>3
<1>9. HasParents(wire)'
  <2> SUFFICES ASSUME NEW v \in Ids \ {Root}, wire'[v] # NONE
      PROVE  \E q \in Ids : wire'[q] # NONE /\ \E j \in DOMAIN wire'[q].kids : wire'[q].kids[j].id = v
    BY DEF HasParents
  <2>1. PICK q \in Ids : wire[q] # NONE /\ \E j \in DOMAIN wire[q].kids : wire[q].kids[j].id = v
    BY <1>1, <1>6 DEF Inv, WholeWire, HasParents
  <2>2. CASE q = p
    <3>1. PICK j \in DOMAIN wire[p].kids : wire[p].kids[j].id = v
      BY <2>1, <2>2
    <3>2. j \in 1..Len(wire[p].kids)
      BY <1>2, <3>1
    <3>3. j \in DOMAIN n.kids
      BY <1>2, <1>5, <1>7, <3>2
    <3>4. n.kids[j].id = v
      BY <1>7, <3>1, <3>2
    <3> QED
      BY <1>5, <1>6, <3>3, <3>4
  <2>3. CASE q # p
    BY <1>6, <2>1, <2>3
  <2> QED
    BY <2>2, <2>3
<1>10. WholeWire' /\ WholeHeap'
  BY <1>1, <1>9 DEF Inv, WholeWire, WholeHeap, Closed
\* An object or an array: the others have no children to be read.
<1>11. WireShaped(n)
  <2>1. heap[p].kids # <<>> /\ JvmShaped(heap[p]) /\ wire[p].kind = KindOf(heap[p].class)
    BY <1>1, <1>2, <1>3 DEF Inv, Shapes, EncodingInv
  <2>2. heap[p].class \in {"JObject", "JArray"}
    BY <2>1 DEF JvmShaped
  <2>3. wire[p].kind \in {"object", "array"}
    <3>1. heap[p].class = "JArray" => KindOf(heap[p].class) = "array"
      BY <1>2, VisitedType
    <3>2. KindOf("JObject") = "object"
      BY DEF KindOf
    <3> QED
      BY <2>1, <2>2, <3>1, <3>2
  <2>4. ASSUME wire[p].kind = "array", NEW j \in DOMAIN n.kids PROVE n.kids[j].key = <<>>
    <3>1. heap[p].class = "JArray"
      BY <1>2, <2>1, <2>4, VisitedType
    <3>2. heap[p].kids[i].key = <<>>
      BY <1>2, <1>3, <2>1, <3>1 DEF JvmShaped
    <3>3. k.key = <<>>
      BY <1>4, <3>2 DEF GetStringUTFChars
    <3>4. j \in 1..Len(wire[p].kids) \/ j = i
      BY <1>2, <1>5, <1>7, <2>4
    <3>5. WireShaped(wire[p])
      BY <1>1 DEF Inv, Shapes
    <3> QED
      BY <1>2, <1>7, <2>4, <3>3, <3>4, <3>5 DEF WireShaped
  <2> QED
    BY <1>5, <2>3, <2>4 DEF WireShaped
<1>12. Shapes'
  BY <1>1, <1>6, <1>11 DEF Inv, Shapes
<1>13. EncodingInv'
  <2>1. \A j \in 1..Len(n.kids) : n.kids[j].id = heap[p].kids[j].id
    <3>1. \A j \in 1..Len(n.kids) : j \in 1..Len(wire[p].kids) \/ j = i
      BY <1>2, <1>7
    <3>2. \A j \in 1..Len(wire[p].kids) : wire[p].kids[j].id = heap[p].kids[j].id
      BY <1>1 DEF Inv, EncodingInv
    <3> QED
      BY <1>4, <1>7, <3>1, <3>2
  <2>2. Len(n.kids) <= Len(heap[p].kids)
    BY <1>3, <1>7
  <2> QED
    BY <1>1, <1>5, <1>6, <2>1, <2>2 DEF Inv, EncodingInv
<1>14. LoadingInv' /\ LoadedInv'
  BY <1>1 DEF LoadingInv, LoadedInv
<1> QED
  BY <1>8, <1>10, <1>12, <1>13, <1>14 DEF Inv

LEMMA EncodeReturnsInv == Inv /\ EncodeReturns => Inv'
<1> SUFFICES ASSUME Inv, EncodeReturns PROVE Inv'
  OBVIOUS
<1>1. Shapes' /\ HasParents(wire)' /\ Closed(wire)' = Closed(wire) /\ Closed(heap)'
  BY Framed DEF EncodeReturns
<1>2. TypeOK' /\ References'
  BY DEF Inv, TypeOK, References, EncodeReturns
<1>3. WholeWire' /\ WholeHeap'
  <2>1. Closed(wire)
    BY DEF EncodeReturns, Closed
  <2> QED
    BY <1>1, <2>1 DEF Inv, EncodeReturns, WholeWire, WholeHeap
<1>4. LoadingInv' /\ LoadedInv' /\ EncodingInv'
  BY DEF EncodeReturns, LoadingInv, LoadedInv, EncodingInv
<1> QED
  BY <1>1, <1>2, <1>3, <1>4 DEF Inv

LEMMA DisposeInv == Inv /\ Dispose => Inv'
<1> SUFFICES ASSUME Inv, Dispose PROVE Inv'
  OBVIOUS
<1>1. Shapes' /\ HasParents(wire)' /\ Closed(wire)' = Closed(wire) /\ Closed(heap)'
  BY Framed DEF Dispose
<1>2. TypeOK' /\ References'
  BY DEF Inv, TypeOK, References, Dispose
<1>3. WholeWire' /\ WholeHeap' /\ LoadingInv' /\ LoadedInv' /\ EncodingInv'
  BY <1>1 DEF Inv, Dispose, WholeWire, WholeHeap, LoadingInv, LoadedInv, EncodingInv
<1> QED
  BY <1>1, <1>2, <1>3 DEF Inv

-----------------------------------------------------------------------------
(***************************************************************************)
(* So do the application and the collector.                                *)
(***************************************************************************)
LEMMA AddInv == ASSUME NEW p \in Ids, NEW x \in Ids PROVE Inv /\ Add(p, x) => Inv'
<1> SUFFICES ASSUME Inv, Add(p, x) PROVE Inv'
  OBVIOUS
<1> DEFINE k == [key |-> IF heap[p].class = "JArray" THEN <<>> ELSE NewKey, id |-> x]
           o == WithKid(heap[p], k)
           l == [class |-> "JNull", text |-> <<>>, num |-> 0, kids |-> <<>>]
<1>1. /\ pc \in {"tree", "encoding"} /\ held /\ heap[p] # NONE /\ heap[x] = NONE /\ wire[x] = NONE
      /\ heap[p].class \in {"JObject", "JArray"}
      /\ heap' = [heap EXCEPT ![p] = o, ![x] = l]
      /\ UNCHANGED <<pc, wire, size, globals, open, locals, held, turn, source, begun, ended>>
      /\ wire \in [Ids -> WireNodes \cup {NONE}] /\ heap \in [Ids -> JNodes \cup {NONE}]
  BY DEF Inv, TypeOK, Add
<1>2. heap[p] \in JNodes /\ heap[p].kids \in Seq(JvmKids) /\ p # x
  BY <1>1 DEF JNodes
<1>3. k \in JvmKids /\ k.id = x /\ (heap[p].class = "JArray" => k.key = <<>>)
  BY Constants DEF JvmKids
<1>4. /\ o \in JNodes /\ o.class = heap[p].class /\ HasKid(o, heap[p], k)
      /\ o.kids \in Seq(JvmKids) /\ o # NONE
  <2> HIDE DEF k
  <2> QED
    BY <1>2, <1>3, JvmKid, Constants DEF JNodes
<1>5. l \in JNodes /\ l.kids = <<>> /\ l.class = "JNull" /\ l # NONE
  <2>1. 0 \in Longs
    BY Constants DEF Longs
  <2>2. l \in JNodes
    BY <2>1 DEF JNodes, Classes
  <2> QED
    BY <2>2, Constants
<1> HIDE DEF k, o, l
<1>6. /\ heap' \in [Ids -> JNodes \cup {NONE}] /\ heap'[p] = o /\ heap'[x] = l
      /\ \A v \in Ids \ {p, x} : heap'[v] = heap[v]
  BY <1>1, <1>2, <1>4, <1>5
<1>7. \A v \in Ids : heap[v] # NONE => heap'[v] # NONE
  BY <1>4, <1>5, <1>6
<1>8. /\ Len(o.kids) = Len(heap[p].kids) + 1 /\ o.kids[Len(heap[p].kids) + 1] = k
      /\ \A i \in 1..Len(heap[p].kids) : o.kids[i] = heap[p].kids[i]
      /\ \A i \in DOMAIN o.kids : i \in 1..Len(heap[p].kids) \/ i = Len(heap[p].kids) + 1
      /\ Empty(o) = Empty(heap[p])
  BY <1>2, <1>4 DEF HasKid
<1>9. TypeOK' /\ References' /\ WholeWire'
  BY <1>1, <1>6 DEF Inv, TypeOK, References, WholeWire, HasParents, Closed
<1>10. WholeHeap'
  <2>1. ASSUME NEW v \in Ids, heap'[v] # NONE, NEW i \in DOMAIN heap'[v].kids
        PROVE  heap'[heap'[v].kids[i].id] # NONE
    <3>1. ASSUME NEW u \in Ids, heap[u] # NONE, NEW j \in DOMAIN heap[u].kids
          PROVE  heap'[heap[u].kids[j].id] # NONE
      <4>1. heap[u].kids \in Seq(JvmKids)
        BY <1>1, <3>1 DEF JNodes
      <4>2. heap[u].kids[j] \in JvmKids
        BY <3>1, <4>1
      <4> QED
        BY <1>7, <3>1, <4>2 DEF Inv, WholeHeap, Closed, JvmKids
    <3>2. CASE v \notin {p, x}
      BY <1>6, <2>1, <3>1, <3>2
    <3>3. CASE v = x
      BY <1>5, <1>6, <2>1, <3>3
    <3>4. CASE v = p /\ i = Len(heap[p].kids) + 1
      BY <1>3, <1>5, <1>6, <1>8, <3>4
    <3>5. CASE v = p /\ i \in 1..Len(heap[p].kids)
      <4>1. i \in DOMAIN heap[p].kids
        BY <1>2, <3>5
      <4>2. heap'[heap[p].kids[i].id] # NONE
        BY <1>1, <3>1, <4>1
      <4>3. heap'[v].kids[i] = heap[p].kids[i]
        BY <1>6, <1>8, <3>5
      <4> QED
        BY <4>2, <4>3
    <3> QED
      BY <1>6, <1>8, <2>1, <3>2, <3>3, <3>4, <3>5
  <2>2. Closed(heap)'
    BY <2>1 DEF Closed
  <2> QED
    BY <1>1, <1>7, <2>2, Constants DEF Inv, WholeHeap
<1>11. Shapes'
  <2>1. JvmShaped(o)
    BY <1>1, <1>2, <1>3, <1>4, <1>8 DEF Inv, Shapes, JvmShaped
  <2>2. JvmShaped(l)
    BY <1>5 DEF JvmShaped
  <2> QED
    BY <1>1, <1>6, <2>1, <2>2 DEF Inv, Shapes
\* Whatever began a JNode still does.
<1>12. ASSUME NEW v \in Ids, wire[v] # NONE, heap[v] # NONE
       PROVE  /\ Empty(heap'[v]) = Empty(heap[v]) /\ Len(heap[v].kids) <= Len(heap'[v].kids)
              /\ \A i \in 1..Len(heap[v].kids) : heap'[v].kids[i] = heap[v].kids[i]
              /\ heap'[v].class = heap[v].class
  <2>1. heap[v].kids \in Seq(JvmKids)
    BY <1>1, <1>12 DEF JNodes
  <2>2. CASE v = p
    BY <1>2, <1>4, <1>6, <1>8, <2>2
  <2>3. CASE v # p
    BY <1>1, <1>6, <1>12, <2>1, <2>3
  <2> QED
    BY <2>2, <2>3
<1>13. LoadedInv'
  <2> SUFFICES ASSUME pc = "tree", NEW v \in Ids, wire[v] # NONE
      PROVE  /\ heap'[v] # NONE
             /\ SameValue(heap'[v], Loaded(wire[v])) /\ Begins(Loaded(wire[v]).kids, heap'[v].kids)
    BY <1>1 DEF LoadedInv
  <2>1. /\ heap[v] # NONE
        /\ SameValue(heap[v], Loaded(wire[v])) /\ Begins(Loaded(wire[v]).kids, heap[v].kids)
    BY <1>1 DEF Inv, LoadedInv
  <2>2. Len(Loaded(wire[v]).kids) \in Nat /\ Len(heap[v].kids) \in Nat /\ Len(heap'[v].kids) \in Nat
    BY <1>1, <1>6, <1>7, <2>1, LoadedType DEF JNodes
  <2> QED
    BY <1>7, <1>12, <2>1, <2>2 DEF SameValue, Begins
<1>14. EncodingInv'
  <2> SUFFICES ASSUME pc = "encoding", NEW v \in Ids, wire[v] # NONE
      PROVE  /\ v \in globals /\ heap'[v] # NONE
             /\ Len(wire[v].kids) <= Len(heap'[v].kids) /\ size[v] <= Len(heap'[v].kids)
             /\ \A i \in 1..Len(wire[v].kids) : wire[v].kids[i].id = heap'[v].kids[i].id
             /\ wire[v].kind = KindOf(heap'[v].class)
    BY <1>1 DEF EncodingInv
  <2>1. /\ v \in globals /\ heap[v] # NONE
        /\ Len(wire[v].kids) <= Len(heap[v].kids) /\ size[v] <= Len(heap[v].kids)
        /\ \A i \in 1..Len(wire[v].kids) : wire[v].kids[i].id = heap[v].kids[i].id
        /\ wire[v].kind = KindOf(heap[v].class)
    BY DEF Inv, EncodingInv
  <2>2. /\ Len(wire[v].kids) \in Nat /\ size[v] \in Nat
        /\ Len(heap[v].kids) \in Nat /\ Len(heap'[v].kids) \in Nat
    BY <1>1, <1>6, <1>7, <2>1 DEF JNodes, WireNodes, Inv, TypeOK
  <2>3. heap'[v].class = heap[v].class /\ Len(heap[v].kids) <= Len(heap'[v].kids)
    BY <1>12, <2>1
  <2>4. ASSUME NEW i \in 1..Len(wire[v].kids) PROVE wire[v].kids[i].id = heap'[v].kids[i].id
    <3>1. i \in 1..Len(heap[v].kids)
      BY <2>1, <2>2
    <3>2. heap'[v].kids[i] = heap[v].kids[i]
      BY <1>12, <2>1, <3>1
    <3> QED
      BY <2>1, <3>2
  <2>5. wire[v].kind = KindOf(heap'[v].class)
    BY <2>1, <2>3
  <2>6. Len(wire[v].kids) <= Len(heap'[v].kids) /\ size[v] <= Len(heap'[v].kids)
    BY <2>1, <2>2, <2>3
  <2> QED
    BY <1>7, <2>1, <2>4, <2>5, <2>6
<1>15. LoadingInv'
  BY <1>1 DEF LoadingInv
<1> QED
  BY <1>9, <1>10, <1>11, <1>13, <1>14, <1>15 DEF Inv

LEMMA DropInv == Inv /\ Drop => Inv'
<1> SUFFICES ASSUME Inv, Drop PROVE Inv'
  OBVIOUS
<1>1. Shapes' /\ HasParents(wire)' /\ Closed(wire)' = Closed(wire) /\ Closed(heap)'
  BY Framed DEF Drop
<1>2. TypeOK' /\ References'
  BY DEF Inv, TypeOK, References, Drop
<1>3. WholeWire' /\ WholeHeap' /\ LoadingInv' /\ LoadedInv' /\ EncodingInv'
  BY <1>1 DEF Inv, Drop, WholeWire, WholeHeap, LoadingInv, LoadedInv, EncodingInv
<1> QED
  BY <1>1, <1>2, <1>3 DEF Inv

\* What is collected is not linked, not referred to, and so not of a tree
\* that is being made, is held or is being read.
LEMMA CollectInv == ASSUME NEW w \in Ids PROVE Inv /\ Collect(w) => Inv'
<1> SUFFICES ASSUME Inv, Collect(w) PROVE Inv'
  OBVIOUS
<1>1. /\ heap[w] # NONE /\ heap' = [heap EXCEPT ![w] = NONE]
      /\ w \notin globals \cup locals /\ ~(held /\ w = Root) /\ ~Linked(w)
      /\ UNCHANGED <<pc, wire, size, globals, open, locals, held, turn, source, begun, ended>>
      /\ wire \in [Ids -> WireNodes \cup {NONE}] /\ heap \in [Ids -> JNodes \cup {NONE}]
  BY DEF Inv, TypeOK, Collect, Reachable, Linked
<1>2. heap'[w] = NONE /\ \A v \in Ids \ {w} : heap'[v] = heap[v]
  BY <1>1
<1>3. TypeOK' /\ References' /\ WholeWire' /\ Shapes'
  BY <1>1, <1>2 DEF Inv, TypeOK, References, WholeWire, Shapes, HasParents, Closed
<1>4. ASSUME NEW v \in Ids, heap[v] # NONE, NEW i \in DOMAIN heap[v].kids
      PROVE  heap[v].kids[i].id \in Ids \ {w} /\ heap[heap[v].kids[i].id] # NONE
  <2>1. heap[v].kids \in Seq(JvmKids)
    BY <1>1, <1>4 DEF JNodes
  <2>2. heap[v].kids[i] \in JvmKids
    BY <1>4, <2>1
  <2>3. heap[v].kids[i].id # w
    BY <1>1, <1>4 DEF Linked
  <2> QED
    BY <1>4, <2>2, <2>3 DEF Inv, WholeHeap, Closed, JvmKids
<1>5. Closed(heap)'
  BY <1>2, <1>4 DEF Closed
<1>6. WholeHeap'
  BY <1>1, <1>2, <1>5, Constants DEF Inv, WholeHeap
<1>7. LoadingInv'
  <2>1. pc # "loading"
    BY <1>1 DEF Inv, LoadingInv
  <2> QED
    BY <1>1, <2>1 DEF LoadingInv
<1>8. LoadedInv'
  <2> SUFFICES ASSUME pc \in {"loaded", "returning"} \/ (pc = "tree" /\ held), wire[w] # NONE
      PROVE  FALSE
    BY <1>1, <1>2 DEF Inv, LoadedInv
  <2>1. CASE w = Root
    BY <1>1, <2>1 DEF Inv, References
  <2>2. CASE w # Root
    <3>1. PICK p \in Ids : wire[p] # NONE /\ \E i \in DOMAIN wire[p].kids : wire[p].kids[i].id = w
      BY <2>2 DEF Inv, WholeWire, HasParents
    <3>2. PICK i \in DOMAIN wire[p].kids : wire[p].kids[i].id = w
      BY <3>1
    <3>3. heap[p] # NONE /\ Begins(Loaded(wire[p]).kids, heap[p].kids)
      BY <3>1 DEF Inv, LoadedInv
    <3>4. wire[p].kids \in Seq(WireKids) /\ heap[p].kids \in Seq(JvmKids)
      BY <1>1, <3>1, <3>3 DEF WireNodes, JNodes
    <3>5. /\ i \in 1..Len(wire[p].kids) /\ Len(Loaded(wire[p]).kids) = Len(wire[p].kids)
          /\ Loaded(wire[p]).kids[i].id = w
      <4>1. wire[p] \in WireNodes /\ i \in 1..Len(wire[p].kids)
        BY <1>1, <3>1, <3>4
      <4>2. Loaded(wire[p]).kids[i] = [key |-> NewStringUTF(wire[p].kids[i].key), id |-> wire[p].kids[i].id]
        BY <4>1, LoadedType
      <4> QED
        BY <3>2, <4>1, <4>2, LoadedType
    <3>6. i \in DOMAIN heap[p].kids /\ heap[p].kids[i].id = w
      BY <3>3, <3>4, <3>5 DEF Begins
    <3> QED
      BY <1>1, <3>3, <3>6 DEF Linked
  <2> QED
    BY <2>1, <2>2
<1>9. EncodingInv'
  BY <1>1, <1>2 DEF Inv, EncodingInv
<1> QED
  BY <1>3, <1>6, <1>7, <1>8, <1>9 DEF Inv

-----------------------------------------------------------------------------
(***************************************************************************)
(* The theorems.                                                           *)
(***************************************************************************)
LEMMA NextInv == Inv /\ [Next]_vars => Inv'
<1> SUFFICES ASSUME Inv, [Next]_vars PROVE Inv'
  OBVIOUS
<1>1. CASE RootIsNull
  BY <1>1, RootIsNullInv
<1>2. CASE Begin
  BY <1>2, BeginInv
<1>3. ASSUME NEW w \in Ids, New(w) PROVE Inv'
  BY <1>3, NewInv
<1>4. ASSUME NEW p \in Ids, SetKeyValue(p) \/ SetValue(p) PROVE Inv'
  BY <1>4, SetInv
<1>5. CASE LoadReturns
  BY <1>5, LoadReturnsInv
<1>6. CASE DeleteContext \/ Return
  BY <1>6, ReturnInv
<1>7. CASE BeginEncode
  BY <1>7, BeginEncodeInv
<1>8. ASSUME NEW w \in Ids, Visit(w) PROVE Inv'
  BY <1>8, VisitInv
<1>9. ASSUME NEW p \in Ids, ReadChild(p) PROVE Inv'
  BY <1>9, ReadChildInv
<1>10. CASE EncodeReturns
  BY <1>10, EncodeReturnsInv
<1>11. ASSUME NEW p \in Ids, NEW x \in Ids, Add(p, x) PROVE Inv'
  BY <1>11, AddInv
<1>12. CASE Drop
  BY <1>12, DropInv
<1>13. ASSUME NEW w \in Ids, Collect(w) PROVE Inv'
  BY <1>13, CollectInv
<1>14. CASE Dispose
  BY <1>14, DisposeInv
<1>15. CASE UNCHANGED vars
  <2>1. TypeOK' /\ References' /\ WholeWire' /\ WholeHeap' /\ Shapes'
    BY <1>15 DEF vars, Inv, TypeOK, References, WholeWire, WholeHeap, Shapes, HasParents, Closed
  <2>2. LoadingInv' /\ LoadedInv' /\ EncodingInv'
    BY <1>15 DEF vars, Inv, LoadingInv, LoadedInv, EncodingInv, Linked
  <2> QED
    BY <2>1, <2>2 DEF Inv
<1> QED
  BY <1>1, <1>2, <1>3, <1>4, <1>5, <1>6, <1>7, <1>8, <1>9, <1>10, <1>11, <1>12, <1>13, <1>14, <1>15
     DEF Next, Load, Encode

LEMMA Invariance == Spec => []Inv
BY InitInv, NextInv, PTL DEF Spec

\* load(), encode(), the application and the collector keep every variable in
\* its set: what they make of nodes are nodes.
THEOREM TypeCorrect == Spec => []TypeOK
<1>1. Inv => TypeOK
  BY DEF Inv
<1> QED
  BY <1>1, Invariance, PTL

\* Whatever the tree, load() has at most one local reference and leaves none of
\* any kind; encode() leaves exactly one global reference for each JNode it
\* sent, until its Context is disposed of, and none after.
THEOREM ReferencesEndWithContext == Spec => []RefsReleased
<1>1. Inv => RefsReleased
  BY DEF Inv, References, RefsReleased
<1> QED
  BY <1>1, Invariance, PTL

\* The JNodes of a loaded tree begin with what libuast has at their places,
\* in the order libuast has it, and are all there until the caller drops the
\* tree, whatever the collector does in between.
THEOREM LoadIsComplete == Spec => []LoadMirrorsWire
<1>1. ASSUME NEW s \in Seq(JvmKids), NEW t \in Seq(JvmKids), Begins(s, t)
      PROVE  IsPrefix(s, t)
  BY <1>1 DEF Begins, IsPrefix
<1>2. ASSUME Inv, pc = "returning" \/ (pc = "tree" /\ held), NEW w \in Ids, wire[w] # NONE
      PROVE  heap[w] # NONE /\ Between(Loaded(wire[w]), heap[w], heap[w])
  <2>1. /\ heap[w] # NONE
        /\ SameValue(heap[w], Loaded(wire[w])) /\ Begins(Loaded(wire[w]).kids, heap[w].kids)
    BY <1>2 DEF Inv, LoadedInv
  <2>2. heap[w].kids \in Seq(JvmKids) /\ Loaded(wire[w]).kids \in Seq(JvmKids)
    BY <1>2, <2>1, LoadedType DEF Inv, TypeOK, JNodes
  <2>3. Begins(heap[w].kids, heap[w].kids)
    BY <2>2 DEF Begins
  <2> QED
    BY <1>1, <2>1, <2>2, <2>3 DEF Between, SameValue
<1>3. Inv => LoadMirrorsWire
  BY <1>2 DEF LoadMirrorsWire
<1> QED
  BY <1>3, Invariance, PTL
=============================================================================
