------------------------------ MODULE NodeCodec ------------------------------
(***************************************************************************)
(* The nodes of both sides, and how one becomes the other: the values      *)
(* nodes of libuast and JNodes have, and the conversions of the JNI        *)
(* functions and of the native code that carry a value across.             *)
(*                                                                         *)
(* Ids name places in a tree.  Text is a sequence of characters told apart *)
(* by how the JNI functions convert them, a number its 64 bits.            *)
(***************************************************************************)
EXTENDS Integers, SequencesExt

CONSTANTS
  Ids,       \* the places of a tree
  Root,      \* the place of its root
  WireTrees, \* the trees that are decoded
  JvmTrees,  \* the trees the application builds itself
  IntSize,   \* the values of 32 bits
  LongSize,  \* the values of 64 bits
  NewKey,    \* the key of a field the application adds
  NONE       \* nothing at this place

\* Characters in a Go string: nul, a four-byte one (four), the two bytes C0 80,
\* a pair of three-byte surrogates (cesu), two-byte ones, all others (plain).
WireChar == {"plain", "nul", "four", "c080", "cesu", "latin"}
\* Characters in a Java string: nul, a surrogate pair, U+0080..U+00FF, others.
JavaChar == {"plain", "nul", "pair", "latin"}

Kinds   == {"null", "object", "array", "string", "int", "uint", "float", "bool"}
Classes == {"nullptr", "JNothing", "JNull", "JObject", "JArray", "JString",
            "JInt", "JUint", "JFloat", "JBool"}

Longs     == 0..(LongSize - 1)
WireKids  == [key : Seq(WireChar), id : Ids]
JvmKids   == [key : Seq(JavaChar), id : Ids]
WireNodes == [kind : Kinds, text : Seq(WireChar), num : Longs, kids : Seq(WireKids)]
JNodes    == [class : Classes, text : Seq(JavaChar), num : Longs, kids : Seq(JvmKids)]

NoTree == [w \in Ids |-> NONE]

\* What is there is what children of children lead to from the root: it is in
\* every set that has the root and the children of its members.  What a parent
\* names is there.
HasKids(S, tree) ==
  \A w \in S : tree[w] # NONE => \A i \in DOMAIN tree[w].kids : tree[w].kids[i].id \in S
Connected(tree) ==
  \A S \in SUBSET Ids : Root \in S /\ HasKids(S, tree) => \A w \in Ids \ S : tree[w] = NONE
Closed(tree) ==
  \A w \in Ids : tree[w] # NONE =>
    \A i \in DOMAIN tree[w].kids : tree[tree[w].kids[i].id] # NONE
Rooted(tree) == tree[Root] # NONE /\ Connected(tree) /\ Closed(tree)

\* Only containers have children, and only those of an object have keys.
WireShaped(n) ==
  /\ n.kind \notin {"object", "array"} => n.kids = <<>>
  /\ n.kind = "array" => \A i \in DOMAIN n.kids : n.kids[i].key = <<>>
JvmShaped(o) ==
  /\ o.class \notin {"JObject", "JArray"} => o.kids = <<>>
  /\ o.class = "JArray" => \A i \in DOMAIN o.kids : o.kids[i].key = <<>>

ASSUME Constants ==
  /\ Root \in Ids
  /\ LongSize \in Nat \ {0} /\ IntSize \in 1..LongSize
  /\ NewKey \in Seq(JavaChar)
  /\ NONE \notin WireNodes \cup JNodes

ASSUME TreesAreRooted ==
  /\ \A t \in WireTrees : /\ t \in [Ids -> WireNodes \cup {NONE}] /\ Rooted(t)
                          /\ \A w \in Ids : t[w] # NONE => WireShaped(t[w])
  /\ \A t \in JvmTrees  : /\ t \in [Ids -> JNodes \cup {NONE}] /\ Rooted(t)
                          /\ \A w \in Ids : t[w] # NONE => JvmShaped(t[w])

-----------------------------------------------------------------------------
(***************************************************************************)
(* Conversions.                                                            *)
(***************************************************************************)
\* NewStringUTF: a C string of modified UTF-8, up to its first nul.  Bytes of
\* a four-byte character become characters of their own.
ToJava == [plain |-> "plain", nul |-> "nul", four |-> "latin", c080 |-> "nul",
           cesu |-> "pair", latin |-> "latin"]
BeforeNul(s)    == {j \in DOMAIN s : \A k \in 1..j : s[k] # "nul"}
NewStringUTF(s) == [i \in BeforeNul(s) |-> ToJava[s[i]]]

\* Standard UTF-8 in place of modified.
Utf8 == [plain |-> "plain", nul |-> "nul", pair |-> "four", latin |-> "latin"]
GetStringUTF8(s) == [i \in DOMAIN s |-> Utf8[s[i]]]

\* GetStringUTFChars: modified UTF-8.
ToWire == [plain |-> "plain", nul |-> "c080", pair |-> "cesu", latin |-> "latin"]
GetStringUTFChars(s) == [i \in DOMAIN s |-> ToWire[s[i]]]

\* The NewX method for each kind; no node is made of null.
ClassOf == [object |-> "JObject", array |-> "JArray", string |-> "JString",
            int |-> "JInt", uint |-> "JUint", float |-> "JFloat", bool |-> "JBool"]

\* kindOf that asks for JObject in place of JNull.
KindOfNullAsObject(class) ==
  IF class = "nullptr" THEN "null"
  ELSE IF \E k \in DOMAIN ClassOf : ClassOf[k] = class
       THEN CHOOSE k \in DOMAIN ClassOf : ClassOf[k] = class ELSE "object"

\* kindOf asks for each class but JObject: what is left is an object.
KindOf(class) ==
  IF class \in {"nullptr", "JNull"} THEN "null"
  ELSE IF class \in {"JObject", "JNothing"} THEN "object"
  ELSE CHOOSE k \in DOMAIN ClassOf : ClassOf[k] = class

\* AsInt, AsFloat and AsBool read the value, AsUint calls JUint.get, which
\* keeps an Int of it.
AsNum(o) == IF o.class = "JUint" THEN o.num % IntSize ELSE o.num

\* JNode.size, keyAt and valueAt: a JString has a size, and no children.
SizeOf(o)     == IF o.class = "JString" THEN Len(o.text) ELSE Len(o.kids)
ChildAt(o, i) == [key |-> GetStringUTFChars(o.kids[i].key), id |-> o.kids[i].id]

\* The JNode load makes of a node, and the node encode makes of a JNode, when
\* every child is in its place.
Loaded(n) ==
  [class |-> IF n.kind = "null" THEN "JNull" ELSE ClassOf[n.kind],
   text |-> NewStringUTF(n.text), num |-> n.num,
   kids |-> [i \in DOMAIN n.kids |-> [key |-> NewStringUTF(n.kids[i].key), id |-> n.kids[i].id]]]
Encoded(o) ==
  [kind |-> KindOf(o.class), text |-> GetStringUTFChars(o.text), num |-> AsNum(o),
   kids |-> [i \in DOMAIN o.kids |-> ChildAt(o, i)]]

Empty(o)        == [o EXCEPT !.kids = <<>>]
WithKid(o, kid) == [o EXCEPT !.kids = Append(@, kid)]

\* Of a container that only grows, m was taken after a and before b.
Between(a, m, b) ==
  /\ Empty(a) = Empty(m) /\ Empty(m) = Empty(b)
  /\ IsPrefix(a.kids, m.kids) /\ IsPrefix(m.kids, b.kids)
==============================================================================
