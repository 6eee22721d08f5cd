--------------------------- MODULE RoundTrip_proofs ---------------------------
(***************************************************************************)
(* A tree that is encoded and loaded again, and one that is loaded and     *)
(* encoded again, for any trees: what the whole way there and back leaves  *)
(* of them.  The invariant of TreeLoad_proofs says of each call that it    *)
(* brings every node it was led to; that it is led to every node is        *)
(* because the tree is connected, and stays so.                            *)
(***************************************************************************)
EXTENDS TreeLoad_proofs

\* b is a later than a: the same value, and no child gone.
Grown(a, b) == SameValue(a, b) /\ Begins(a.kids, b.kids)

\* What encode() has written of o so far is n.
Written(n, o) ==
  /\ SameValue(n, Encoded(o))
  /\ Len(n.kids) <= Len(o.kids)
  /\ \A i \in 1..Len(n.kids) : n.kids[i] = ChildAt(o, i)

\* The caller's tree is connected, and load() makes nothing else.
HeapConnected ==
  /\ held => Connected(heap)
  /\ pc \in {"loading", "loaded", "returning"} => ~held
  /\ pc \in {"loaded", "returning"} => \A w \in Ids :
       IF wire[w] = NONE THEN heap[w] = NONE
       ELSE heap[w] # NONE /\ Len(heap[w].kids) = Len(wire[w].kids)

\* Until it is encoded, libuast's tree is the one that was decoded.
SourceKept == pc \in {"loading", "loaded", "returning", "tree"} => source = wire

\* encode() began with all that load() had brought, what it began with is still
\* there, and it reads at least that much of what it visits.
EncodeBegun ==
  pc \in {"encoding", "bytes"} => \A w \in Ids : source[w] # NONE =>
    begun[w] # NONE /\ Grown(Loaded(source[w]), begun[w])
Encoding ==
  pc = "encoding" =>
    /\ begun[Root] # NONE /\ Connected(begun)
    /\ \A w \in Ids : begun[w] # NONE =>
         /\ heap[w] # NONE /\ Grown(begun[w], heap[w])
         /\ wire[w] # NONE => Len(begun[w].kids) <= size[w]
    /\ \A w \in Ids : wire[w] # NONE => Written(wire[w], heap[w])

\* What was sent has all that was there when encode() began, as it was when
\* encode() ended.
Sent ==
  pc \in {"bytes", "loading", "loaded", "returning"} =>
    \A w \in Ids : begun[w] # NONE =>
      /\ ended[w] # NONE /\ Grown(begun[w], ended[w])
      /\ wire[w] # NONE /\ Written(wire[w], ended[w])
      /\ Len(begun[w].kids) <= Len(wire[w].kids)

Trip == Connected(wire) /\ HeapConnected /\ SourceKept /\ EncodeBegun /\ Encoding /\ Sent

-----------------------------------------------------------------------------
(***************************************************************************)
(* What the conversions leave of a node.                                   *)
(***************************************************************************)
LEMMA JvmFields ==
  ASSUME NEW o \in JNodes
  PROVE  /\ o = [class |-> o.class, text |-> o.text, num |-> o.num, kids |-> o.kids]
         /\ Empty(o) = [class |-> o.class, text |-> o.text, num |-> o.num, kids |-> <<>>]
<1>1. o = [class |-> o.class, text |-> o.text, num |-> o.num, kids |-> o.kids]
  BY DEF JNodes
<1>2. PICK f, t, m, k : o = [class |-> f, text |-> t, num |-> m, kids |-> k]
  BY <1>1
<1>3. Empty(o) = [class |-> f, text |-> t, num |-> m, kids |-> <<>>]
  BY <1>2 DEF Empty
<1> QED
  BY <1>1, <1>2, <1>3

LEMMA JvmValue ==
  ASSUME NEW a \in JNodes, NEW b \in JNodes
  PROVE  SameValue(a, b) <=> a.class = b.class /\ a.text = b.text /\ a.num = b.num
BY JvmFields DEF SameValue

LEMMA WireFields ==
  ASSUME NEW n \in WireNodes
  PROVE  /\ n = [kind |-> n.kind, text |-> n.text, num |-> n.num, kids |-> n.kids]
         /\ Empty(n) = [kind |-> n.kind, text |-> n.text, num |-> n.num, kids |-> <<>>]
<1>1. n = [kind |-> n.kind, text |-> n.text, num |-> n.num, kids |-> n.kids]
  BY DEF WireNodes
<1>2. PICK f, t, m, k : n = [kind |-> f, text |-> t, num |-> m, kids |-> k]
  BY <1>1
<1>3. Empty(n) = [kind |-> f, text |-> t, num |-> m, kids |-> <<>>]
  BY <1>2 DEF Empty
<1> QED
  BY <1>1, <1>2, <1>3

LEMMA WireValue ==
  ASSUME NEW a \in WireNodes, NEW b \in WireNodes
  PROVE  SameValue(a, b) <=> a.kind = b.kind /\ a.text = b.text /\ a.num = b.num
BY WireFields DEF SameValue

LEMMA EncodedType ==
  ASSUME NEW o \in JNodes
  PROVE  /\ Encoded(o) \in WireNodes
         /\ Encoded(o).kind = KindOf(o.class) /\ Encoded(o).text = GetStringUTFChars(o.text)
         /\ Encoded(o).num = AsNum(o)
<1> DEFINE kids == [i \in DOMAIN o.kids |-> ChildAt(o, i)]
<1>1. Encoded(o) = [kind |-> KindOf(o.class), text |-> GetStringUTFChars(o.text),
                    num |-> AsNum(o), kids |-> kids]
  BY DEF Encoded
<1>2. o.kids \in Seq(JvmKids) /\ Len(o.kids) \in Nat
  BY DEF JNodes
<1>3. kids \in [1..Len(o.kids) -> WireKids]
  BY <1>2, ChildAtType
<1>4. kids \in Seq(WireKids)
  BY <1>2, <1>3
<1> HIDE DEF kids
<1>5. Empty(Encoded(o)) \in WireNodes
  BY VisitedType
<1>6. Empty(Encoded(o)) = [kind |-> KindOf(o.class), text |-> GetStringUTFChars(o.text),
                           num |-> AsNum(o), kids |-> <<>>]
  BY <1>1 DEF Empty
<1> QED
  BY <1>1, <1>4, <1>5, <1>6 DEF WireNodes

LEMMA LoadedValue ==
  ASSUME NEW n \in WireNodes
  PROVE  /\ Loaded(n).class = IF n.kind = "null" THEN "JNull" ELSE ClassOf[n.kind]
         /\ Loaded(n).text = NewStringUTF(n.text) /\ Loaded(n).num = n.num
BY DEF Loaded

\* A child that was read, and its key when it is loaded.
LEMMA ChildTrip ==
  ASSUME NEW o \in JNodes, NEW i \in 1..Len(o.kids)
  PROVE  [key |-> NewStringUTF(ChildAt(o, i).key), id |-> ChildAt(o, i).id] = o.kids[i]
<1>1. o.kids \in Seq(JvmKids)
  BY DEF JNodes
<1>2. o.kids[i] \in JvmKids
  BY <1>1
<1>3. o.kids[i].key \in Seq(JavaChar) /\ o.kids[i] = [key |-> o.kids[i].key, id |-> o.kids[i].id]
  BY <1>2 DEF JvmKids
<1> QED
  BY <1>3, JavaTextSurvives DEF ChildAt

\* No class comes back as another but nullptr and JNothing.
LEMMA ClassTrip ==
  ASSUME NEW c \in Classes
  PROVE  (IF KindOf(c) = "null" THEN "JNull" ELSE ClassOf[KindOf(c)]) =
           CASE c = "nullptr" -> "JNull" [] c = "JNothing" -> "JObject" [] OTHER -> c
<1>1. CASE c \in {"nullptr", "JNull", "JObject", "JNothing"}
  BY <1>1 DEF KindOf, ClassOf
<1>2. CASE c \notin {"nullptr", "JNull", "JObject", "JNothing"}
  <2>1. \E k \in DOMAIN ClassOf : ClassOf[k] = c
    BY <1>2 DEF Classes, ClassOf
  <2>2. KindOf(c) = CHOOSE k \in DOMAIN ClassOf : ClassOf[k] = c
    BY <1>2 DEF KindOf
  <2>3. KindOf(c) \in DOMAIN ClassOf /\ ClassOf[KindOf(c)] = c
    BY <2>1, <2>2
  <2>4. "null" \notin DOMAIN ClassOf
    BY DEF ClassOf
  <2> QED
    BY <1>2, <2>3, <2>4
<1> QED
  BY <1>1, <1>2

\* Every kind comes back.
LEMMA KindTrip ==
  ASSUME NEW k \in Kinds
  PROVE  KindOf(IF k = "null" THEN "JNull" ELSE ClassOf[k]) = k
<1>1. CASE k \in {"null", "object"}
  BY <1>1 DEF KindOf, ClassOf
<1>2. CASE k \notin {"null", "object"}
  <2>1. k \in DOMAIN ClassOf /\ ClassOf[k] \notin {"nullptr", "JNull", "JObject", "JNothing"}
    BY <1>2 DEF Kinds, ClassOf
  <2>2. \A j \in DOMAIN ClassOf : ClassOf[j] = ClassOf[k] => j = k
    BY <1>2 DEF Kinds, ClassOf
  <2>3. KindOf(ClassOf[k]) = CHOOSE j \in DOMAIN ClassOf : ClassOf[j] = ClassOf[k]
    BY <2>1 DEF KindOf
  <2> QED
    BY <1>2, <2>1, <2>2, <2>3
<1> QED
  BY <1>1, <1>2

LEMMA RestoredValue ==
  ASSUME NEW o \in JNodes
  PROVE  /\ Restored(o) \in JNodes /\ Restored(o).kids = o.kids
         /\ Restored(o).class = Loaded(Encoded(o)).class
         /\ Restored(o).text = o.text /\ Restored(o).num = AsNum(o)
<1> DEFINE c == CASE o.class = "nullptr" -> "JNull"
                  [] o.class = "JNothing" -> "JObject"
                  [] OTHER -> o.class
<1>1. o.class \in Classes /\ c \in Classes
  BY DEF JNodes, Classes
<1>2. AsNum(o) \in Longs
  <2>1. o.num \in Longs
    BY DEF JNodes
  <2> QED
    BY <2>1, Constants DEF AsNum, Longs
<1>3. Restored(o) = [class |-> c, text |-> o.text, num |-> AsNum(o), kids |-> o.kids]
  <2>1. Restored(o) = [o EXCEPT !.num = AsNum(o), !.class = c]
    BY DEF Restored
  <2>2. PICK f, t, m, k : o = [class |-> f, text |-> t, num |-> m, kids |-> k]
    BY JvmFields
  <2> HIDE DEF c
  <2> QED
    BY <2>1, <2>2
<1>4. Loaded(Encoded(o)).class = c
  BY <1>1, EncodedType, LoadedValue, ClassTrip
<1> HIDE DEF c
<1> QED
  BY <1>1, <1>2, <1>3, <1>4 DEF JNodes

LEMMA PrefixOf ==
  ASSUME NEW X, NEW s \in Seq(X), NEW t \in Seq(X), Begins(s, t)
  PROVE  IsPrefix(s, t)
BY DEF Begins, IsPrefix

\* Growing and being written go through steps.
LEMMA KidsType ==
  /\ \A o \in JNodes : /\ o.kids \in Seq(JvmKids) /\ Len(o.kids) \in Nat
                       /\ \A i \in 1..Len(o.kids) : o.kids[i] \in JvmKids /\ o.kids[i].id \in Ids
  /\ \A n \in WireNodes : /\ n.kids \in Seq(WireKids) /\ Len(n.kids) \in Nat
                          /\ \A i \in 1..Len(n.kids) : n.kids[i] \in WireKids /\ n.kids[i].id \in Ids
<1>1. ASSUME NEW o \in JNodes
      PROVE  /\ o.kids \in Seq(JvmKids) /\ Len(o.kids) \in Nat
             /\ \A i \in 1..Len(o.kids) : o.kids[i] \in JvmKids
  <2>1. o.kids \in Seq(JvmKids)
    BY DEF JNodes
  <2> QED
    BY <2>1
<1>2. ASSUME NEW n \in WireNodes
      PROVE  /\ n.kids \in Seq(WireKids) /\ Len(n.kids) \in Nat
             /\ \A i \in 1..Len(n.kids) : n.kids[i] \in WireKids
  <2>1. n.kids \in Seq(WireKids)
    BY DEF WireNodes
  <2> QED
    BY <2>1
<1>3. (\A k \in JvmKids : k.id \in Ids) /\ (\A k \in WireKids : k.id \in Ids)
  BY DEF JvmKids, WireKids
<1> QED
  BY <1>1, <1>2, <1>3

LEMMA GrownTrans ==
  ASSUME NEW a \in JNodes, NEW b \in JNodes, NEW c \in JNodes, Grown(a, b), Grown(b, c)
  PROVE  Grown(a, c)
<1>1. Len(a.kids) \in Nat /\ Len(b.kids) \in Nat /\ Len(c.kids) \in Nat
  BY KidsType
<1> QED
  BY <1>1 DEF Grown, SameValue, Begins

LEMMA GrownRefl == \A a \in JNodes : Grown(a, a)
BY KidsType DEF Grown, SameValue, Begins

LEMMA WrittenGrows ==
  ASSUME NEW n \in WireNodes, NEW o \in JNodes, NEW q \in JNodes, Written(n, o), Grown(o, q)
  PROVE  Written(n, q)
<1>1. o.class = q.class /\ o.text = q.text /\ o.num = q.num
  BY JvmValue DEF Grown
<1>2. AsNum(o) = AsNum(q)
  BY <1>1 DEF AsNum
<1>3. SameValue(n, Encoded(q))
  BY <1>1, <1>2, EncodedType, WireValue DEF Written
<1>4. Len(n.kids) \in Nat /\ Len(o.kids) \in Nat /\ Len(q.kids) \in Nat
  BY KidsType
<1>5. \A i \in 1..Len(n.kids) : n.kids[i] = ChildAt(q, i)
  BY <1>4 DEF Written, Grown, Begins, ChildAt
<1> QED
  BY <1>3, <1>4, <1>5 DEF Written, Grown, Begins

LEMMA BetweenOf ==
  ASSUME NEW a \in JNodes, NEW m \in JNodes, NEW b \in JNodes, Grown(a, m), Grown(m, b)
  PROVE  Between(a, m, b)
<1>1. IsPrefix(a.kids, m.kids) /\ IsPrefix(m.kids, b.kids)
  BY KidsType, PrefixOf DEF Grown
<1> QED
  BY <1>1 DEF Between, Grown, SameValue

\* Of b, which was there when encode() began, and e, which it had become when
\* encode() ended, load() makes something in between.
LEMMA JvmTrip ==
  ASSUME NEW b \in JNodes, NEW e \in JNodes, NEW n \in WireNodes,
         Grown(b, e), Written(n, e), Len(b.kids) <= Len(n.kids)
  PROVE  Between(Restored(b), Loaded(n), Restored(e))
<1>1. b.class = e.class /\ b.text = e.text /\ b.num = e.num
  BY JvmValue DEF Grown
<1>2. /\ n.kind = KindOf(e.class) /\ n.text = GetStringUTFChars(e.text) /\ n.num = AsNum(e)
  BY EncodedType, WireValue DEF Written
<1>3. AsNum(b) = AsNum(e)
  BY <1>1 DEF AsNum
<1>4. e.text \in Seq(JavaChar)
  BY DEF JNodes
<1>5. /\ Loaded(n) \in JNodes /\ Loaded(n).class = Loaded(Encoded(e)).class
      /\ Loaded(n).text = e.text /\ Loaded(n).num = AsNum(e)
  <2>1. Loaded(n) \in JNodes
    BY LoadedType
  <2>2. Loaded(n).text = e.text
    BY <1>2, <1>4, LoadedValue, JavaTextSurvives
  <2>3. Encoded(e) \in WireNodes /\ Encoded(e).kind = n.kind
    BY <1>2, EncodedType
  <2>4. Loaded(n).class = Loaded(Encoded(e)).class
    BY <2>3, LoadedValue
  <2> QED
    BY <1>2, <2>1, <2>2, <2>4, LoadedValue
<1>6. /\ Restored(b) \in JNodes /\ Restored(e) \in JNodes
      /\ Restored(b).kids = b.kids /\ Restored(e).kids = e.kids
  BY RestoredValue
<1>7. SameValue(Restored(b), Loaded(n)) /\ SameValue(Loaded(n), Restored(e))
  <2>1. Loaded(Encoded(b)).class = Loaded(Encoded(e)).class
    BY <1>1, EncodedType, LoadedValue
  <2> QED
    BY <1>1, <1>3, <1>5, <1>6, <2>1, RestoredValue, JvmValue
<1>8. Len(b.kids) \in Nat /\ Len(e.kids) \in Nat /\ Len(n.kids) \in Nat
  BY KidsType
<1>9. \A i \in 1..Len(n.kids) : Loaded(n).kids[i] = e.kids[i]
  <2> SUFFICES ASSUME NEW i \in 1..Len(n.kids) PROVE Loaded(n).kids[i] = e.kids[i]
    OBVIOUS
  <2>1. i \in 1..Len(e.kids) /\ n.kids[i] = ChildAt(e, i)
    BY <1>8 DEF Written
  <2>2. Loaded(n).kids[i] = [key |-> NewStringUTF(n.kids[i].key), id |-> n.kids[i].id]
    BY LoadedType
  <2> QED
    BY <2>1, <2>2, ChildTrip
<1>10. Begins(b.kids, Loaded(n).kids) /\ Begins(Loaded(n).kids, e.kids)
  BY <1>8, <1>9, LoadedType DEF Begins, Grown, Written
<1> QED
  BY <1>5, <1>6, <1>7, <1>10, BetweenOf DEF Grown

\* Of s, which is decoded, loaded, grown to b when encode() begins and to e
\* when it ends, n is written.
LEMMA GoTrip ==
  ASSUME NEW s \in WireNodes, NEW b \in JNodes, NEW e \in JNodes, NEW n \in WireNodes,
         Representable(s), Grown(Loaded(s), b), Grown(b, e), Written(n, e),
         Len(b.kids) <= Len(n.kids)
  PROVE  Between(s, n, n)
<1>1. Loaded(s) \in JNodes /\ Grown(Loaded(s), e)
  BY LoadedType, GrownTrans
<1>2. /\ e.class = Loaded(s).class /\ e.text = Loaded(s).text /\ e.num = Loaded(s).num
  BY <1>1, JvmValue DEF Grown
<1>3. s.kind \in Kinds /\ s.text \in Seq(WireChar)
  BY DEF WireNodes
<1>4. KindOf(e.class) = s.kind
  BY <1>2, <1>3, LoadedValue, KindTrip
<1>5. GetStringUTFChars(e.text) = s.text
  BY <1>2, <1>3, LoadedValue, GoTextSurvives DEF Representable
<1>6. AsNum(e) = s.num
  <2>1. s.num \in Longs /\ IntSize \in Nat \ {0} /\ LongSize \in Nat
    BY Constants DEF WireNodes
  <2>2. CASE e.class = "JUint"
    <3>1. s.kind = "uint"
      <4>1. (IF s.kind = "null" THEN "JNull" ELSE ClassOf[s.kind]) = "JUint"
        BY <1>2, <2>2, LoadedValue
      <4> QED
        BY <1>3, <4>1 DEF Kinds, ClassOf
    <3>2. s.num \in Nat /\ s.num < IntSize
      BY <2>1, <3>1 DEF Representable, Longs
    <3> QED
      BY <1>2, <2>1, <2>2, <3>2, LoadedValue DEF AsNum
  <2>3. CASE e.class # "JUint"
    BY <1>2, <2>3, LoadedValue DEF AsNum
  <2> QED
    BY <2>2, <2>3
<1>7. SameValue(s, n)
  BY <1>4, <1>5, <1>6, EncodedType, WireValue DEF Written
<1>8. /\ Len(s.kids) \in Nat /\ Len(b.kids) \in Nat /\ Len(e.kids) \in Nat /\ Len(n.kids) \in Nat
      /\ Len(s.kids) <= Len(n.kids) /\ Len(n.kids) <= Len(e.kids)
  BY KidsType, LoadedType DEF Grown, Begins, Written
<1>9. \A i \in 1..Len(s.kids) : s.kids[i] = n.kids[i]
  <2> SUFFICES ASSUME NEW i \in 1..Len(s.kids) PROVE s.kids[i] = n.kids[i]
    OBVIOUS
  <2>1. i \in 1..Len(n.kids) /\ n.kids[i] = ChildAt(e, i)
    BY <1>8 DEF Written
  <2>2. e.kids[i] = [key |-> NewStringUTF(s.kids[i].key), id |-> s.kids[i].id]
    BY <1>1, LoadedType DEF Grown, Begins
  <2>3. s.kids[i] \in WireKids /\ i \in DOMAIN s.kids
    BY <1>8, KidsType
  <2>4. /\ s.kids[i] = [key |-> s.kids[i].key, id |-> s.kids[i].id]
        /\ s.kids[i].key \in Seq(WireChar)
    BY <2>3 DEF WireKids
  <2>5. GetStringUTFChars(NewStringUTF(s.kids[i].key)) = s.kids[i].key
    BY <2>3, <2>4, GoTextSurvives DEF Representable
  <2> QED
    BY <2>1, <2>2, <2>4, <2>5 DEF ChildAt
<1>10. Begins(s.kids, n.kids) /\ Begins(n.kids, n.kids)
  BY <1>8, <1>9 DEF Begins
<1>11. IsPrefix(s.kids, n.kids) /\ IsPrefix(n.kids, n.kids)
  BY <1>10, KidsType, PrefixOf
<1> QED
  BY <1>7, <1>11 DEF Between, SameValue

-----------------------------------------------------------------------------
(***************************************************************************)
(* The invariant holds.                                                    *)
(***************************************************************************)
\* A connected tree that keeps its children and gets new places under old ones
\* is connected.
LEMMA ConnectedGrows ==
  ASSUME NEW old, NEW new, Connected(old),
         \A v \in Ids : old[v] # NONE =>
           /\ new[v] # NONE
           /\ \A i \in DOMAIN old[v].kids :
                i \in DOMAIN new[v].kids /\ new[v].kids[i].id = old[v].kids[i].id,
         \A w \in Ids \ {Root} : new[w] # NONE /\ old[w] = NONE =>
           \E p \in Ids : old[p] # NONE /\ \E i \in DOMAIN new[p].kids : new[p].kids[i].id = w
  PROVE  Connected(new)
<1> SUFFICES ASSUME NEW S \in SUBSET Ids, Root \in S, HasKids(S, new), NEW w \in Ids \ S
             PROVE  new[w] = NONE
  BY DEF Connected
<1>1. HasKids(S, old)
  BY DEF HasKids
<1>2. \A v \in Ids \ S : old[v] = NONE
  BY <1>1 DEF Connected
<1>3. SUFFICES ASSUME new[w] # NONE PROVE FALSE
  OBVIOUS
<1>4. PICK p \in Ids : old[p] # NONE /\ \E i \in DOMAIN new[p].kids : new[p].kids[i].id = w
  BY <1>2, <1>3
<1>5. p \in S /\ new[p] # NONE
  BY <1>2, <1>4
<1> QED
  BY <1>4, <1>5 DEF HasKids

LEMMA NoTreeConnected == Connected(NoTree)
BY DEF Connected, NoTree

LEMMA Types ==
  ASSUME Inv
  PROVE  /\ wire \in [Ids -> WireNodes \cup {NONE}] /\ source \in [Ids -> WireNodes \cup {NONE}]
         /\ heap \in [Ids -> JNodes \cup {NONE}] /\ begun \in [Ids -> JNodes \cup {NONE}]
         /\ ended \in [Ids -> JNodes \cup {NONE}]
         /\ size \in [Ids -> Nat]
BY DEF Inv, TypeOK

LEMMA TripInit == Init => Trip
<1> SUFFICES ASSUME Init PROVE Trip
  OBVIOUS
<1>1. \A w \in Ids : source[w] = NONE /\ begun[w] = NONE
  BY DEF Init, NoTree
<1>2. Connected(wire)
  BY TreesAreRooted, NoTreeConnected DEF Init, Rooted
<1>3. HeapConnected
  BY TreesAreRooted DEF Init, Rooted, HeapConnected
<1>4. SourceKept /\ EncodeBegun /\ Encoding /\ Sent
  BY <1>1 DEF Init, SourceKept, EncodeBegun, Encoding, Sent
<1> QED
  BY <1>2, <1>3, <1>4 DEF Trip

\* A step that leaves the trees and their histories alone.
LEMMA TripStill ==
  ASSUME Trip, UNCHANGED <<wire, heap, size, source, begun, ended>>,
         pc' = pc \/ pc' = "npe" \/ (pc = "loaded" /\ pc' = "returning"),
         held' = held \/ held' = FALSE
  PROVE  Trip'
<1>1. Connected(wire)' /\ (Connected(heap) => Connected(heap)')
  BY DEF Trip, Connected, HasKids
<1>2. HeapConnected' /\ SourceKept'
  BY <1>1 DEF Trip, HeapConnected, SourceKept
<1>3. Connected(begun) => Connected(begun)'
  BY DEF Connected, HasKids
<1>4. EncodeBegun' /\ Encoding' /\ Sent'
  BY <1>3 DEF Trip, EncodeBegun, Encoding, Sent
<1> QED
  BY <1>1, <1>2, <1>4 DEF Trip

LEMMA TripBegin == Inv /\ Trip /\ Begin => Trip'
<1> SUFFICES ASSUME Inv, Trip, Begin PROVE Trip'
  OBVIOUS
<1>1. Connected(wire)'
  BY DEF Trip, Begin, Connected, HasKids
<1>2. HeapConnected' /\ SourceKept'
  BY DEF Begin, HeapConnected, SourceKept
<1>3. EncodeBegun' /\ Encoding' /\ Sent'
  BY DEF Trip, Begin, EncodeBegun, Encoding, Sent
<1> QED
  BY <1>1, <1>2, <1>3 DEF Trip

LEMMA TripLoading ==
  ASSUME Trip, pc = "loading", pc' = "loading", held' = held,
         UNCHANGED <<wire, source, begun, ended>>
  PROVE  Trip'
<1>1. Connected(wire)'
  BY DEF Trip, Connected, HasKids
<1>2. HeapConnected' /\ SourceKept'
  BY DEF Trip, HeapConnected, SourceKept
<1>3. EncodeBegun' /\ Encoding' /\ Sent'
  BY DEF Trip, EncodeBegun, Encoding, Sent
<1> QED
  BY <1>1, <1>2, <1>3 DEF Trip

LEMMA TripLoadReturns == Inv /\ Trip /\ LoadReturns => Trip'
<1> SUFFICES ASSUME Inv, Trip, LoadReturns PROVE Trip'
  OBVIOUS
<1>1. Connected(wire)'
  BY DEF Trip, LoadReturns, Connected, HasKids
<1>2. HeapConnected'
  BY DEF Inv, Trip, LoadReturns, LoadingInv, HeapConnected
<1>3. SourceKept' /\ EncodeBegun' /\ Encoding' /\ Sent'
  BY DEF Trip, LoadReturns, SourceKept, EncodeBegun, Encoding, Sent
<1> QED
  BY <1>1, <1>2, <1>3 DEF Trip

\* The JNodes have the places and the children of the tree they were made of.
LEMMA TripReturn == Inv /\ Trip /\ Return => Trip'
<1> SUFFICES ASSUME Inv, Trip, Return PROVE Trip'
  OBVIOUS
<1>1. Connected(wire)'
  BY DEF Trip, Return, Connected, HasKids
<1>2. ASSUME NEW v \in Ids, wire[v] # NONE
      PROVE  /\ heap[v] # NONE
             /\ \A i \in DOMAIN wire[v].kids :
                  i \in DOMAIN heap[v].kids /\ heap[v].kids[i].id = wire[v].kids[i].id
  <2>1. heap[v] # NONE /\ Begins(Loaded(wire[v]).kids, heap[v].kids)
    BY <1>2 DEF Inv, LoadedInv, Return
  <2>2. wire[v] \in WireNodes /\ heap[v] \in JNodes
    BY <1>2, <2>1, Types
  <2>3. /\ DOMAIN wire[v].kids = 1..Len(wire[v].kids) /\ DOMAIN heap[v].kids = 1..Len(heap[v].kids)
        /\ Len(wire[v].kids) \in Nat /\ Len(heap[v].kids) \in Nat
    BY <2>2, KidsType
  <2>4. /\ Len(Loaded(wire[v]).kids) = Len(wire[v].kids)
        /\ \A i \in 1..Len(wire[v].kids) : Loaded(wire[v]).kids[i].id = wire[v].kids[i].id
    <3>1. ASSUME NEW i \in 1..Len(wire[v].kids)
          PROVE  Loaded(wire[v]).kids[i].id = wire[v].kids[i].id
      <4>1. Loaded(wire[v]).kids[i] =
              [key |-> NewStringUTF(wire[v].kids[i].key), id |-> wire[v].kids[i].id]
        BY <2>2, LoadedType
      <4> QED
        BY <4>1
    <3> QED
      BY <2>2, <3>1, LoadedType
  <2> QED
    BY <2>1, <2>3, <2>4 DEF Begins
<1>3. \A w \in Ids : heap[w] # NONE => wire[w] # NONE
  BY DEF Trip, HeapConnected, Return
<1>4. Connected(heap)
  BY <1>2, <1>3, ConnectedGrows DEF Trip
<1>5. HeapConnected'
  BY <1>4 DEF Return, HeapConnected, Connected, HasKids
<1>6. SourceKept' /\ EncodeBegun' /\ Encoding' /\ Sent'
  BY DEF Trip, Return, SourceKept, EncodeBegun, Encoding, Sent
<1> QED
  BY <1>1, <1>5, <1>6 DEF Trip

LEMMA TripBeginEncode == Inv /\ Trip /\ BeginEncode => Trip'
<1> SUFFICES ASSUME Inv, Trip, BeginEncode PROVE Trip'
  OBVIOUS
<1>1. Connected(wire)'
  BY NoTreeConnected DEF BeginEncode, Connected, HasKids
<1>2. HeapConnected' /\ SourceKept' /\ Sent'
  BY DEF Trip, BeginEncode, HeapConnected, SourceKept, Sent, Connected, HasKids
<1>3. EncodeBegun'
  <2> SUFFICES ASSUME NEW w \in Ids, source[w] # NONE
               PROVE  heap[w] # NONE /\ Grown(Loaded(source[w]), heap[w])
    BY DEF BeginEncode, EncodeBegun
  <2>1. wire[w] # NONE /\ source[w] = wire[w]
    BY DEF Trip, SourceKept, BeginEncode
  <2> QED
    BY <2>1 DEF Inv, LoadedInv, BeginEncode, Grown, SameValue
<1>4. Encoding'
  <2>1. heap[Root] # NONE /\ Connected(heap)
    BY DEF Inv, WholeHeap, Trip, HeapConnected, BeginEncode
  <2>2. \A w \in Ids : heap[w] # NONE => Grown(heap[w], heap[w])
    BY Types, GrownRefl
  <2>3. \A w \in Ids : wire'[w] = NONE
    BY DEF BeginEncode, NoTree
  <2>4. begun' = heap /\ heap' = heap
    BY DEF BeginEncode
  <2>5. Connected(begun)'
    BY <2>1, <2>4 DEF Connected, HasKids
  <2> QED
    BY <2>1, <2>2, <2>3, <2>4, <2>5 DEF Encoding
<1> QED
  BY <1>1, <1>2, <1>3, <1>4 DEF Trip

\* A node that is visited is the child of one visited before, and as many
\* children are to be read as were there when encode() began.
LEMMA TripVisit == ASSUME NEW w \in Ids PROVE Inv /\ Inv' /\ Trip /\ Visit(w) => Trip'
<1> SUFFICES ASSUME Inv, Inv', Trip, Visit(w) PROVE Trip'
  OBVIOUS
<1> DEFINE n == Empty(Encoded(heap[w]))
           s == IF KindOf(heap[w].class) \in {"object", "array"} THEN SizeOf(heap[w]) ELSE 0
<1>1. /\ pc = "encoding" /\ wire[w] = NONE
      /\ wire' = [wire EXCEPT ![w] = n] /\ size' = [size EXCEPT ![w] = s]
      /\ UNCHANGED <<pc, heap, open, locals, held, turn, source, begun, ended>>
      /\ w = Root \/ \E p \in Ids : wire[p] # NONE /\ \E i \in DOMAIN wire[p].kids : wire[p].kids[i].id = w
  BY DEF Visit
<1>2. /\ wire'[w] = n /\ size'[w] = s
      /\ \A v \in Ids \ {w} : wire'[v] = wire[v] /\ size'[v] = size[v]
  BY <1>1, Types
<1>4. heap[w] \in JNodes /\ JvmShaped(heap[w]) /\ heap[w].kids \in Seq(JvmKids)
  <2>1. heap[w] # NONE
    <3>1. CASE w = Root
      BY <1>1, <3>1 DEF Inv, WholeHeap
    <3>2. CASE w # Root
      <4>1. PICK p \in Ids : wire[p] # NONE /\ \E i \in DOMAIN wire[p].kids : wire[p].kids[i].id = w
        BY <1>1, <3>2
      <4>2. PICK i \in DOMAIN wire[p].kids : wire[p].kids[i].id = w
        BY <4>1
      <4>3. heap[p] # NONE /\ wire[p] \in WireNodes /\ heap[p] \in JNodes
        BY <1>1, <4>1, Types DEF Inv, EncodingInv
      <4>4. /\ DOMAIN wire[p].kids = 1..Len(wire[p].kids) /\ DOMAIN heap[p].kids = 1..Len(heap[p].kids)
            /\ Len(wire[p].kids) \in Nat /\ Len(heap[p].kids) \in Nat
        BY <4>3, KidsType
      <4>5. i \in DOMAIN heap[p].kids /\ heap[p].kids[i].id = w
        BY <1>1, <4>1, <4>2, <4>4 DEF Inv, EncodingInv
      <4> QED
        BY <4>3, <4>5 DEF Inv, WholeHeap, Closed
    <3> QED
      BY <3>1, <3>2
  <2>2. heap[w] \in JNodes
    BY <2>1, Types
  <2> QED
    BY <2>1, <2>2, KidsType DEF Inv, Shapes
<1>5. /\ n \in WireNodes /\ n.kids = <<>> /\ SameValue(n, Encoded(heap[w])) /\ n # NONE
  <2>1. Encoded(heap[w]) \in WireNodes
    BY <1>4, EncodedType
  <2> QED
    BY <2>1, EmptyType, Constants DEF SameValue
<1>6. Written(n, heap[w])
  BY <1>4, <1>5 DEF Written
<1>7. Len(heap[w].kids) <= s
  <2>1. CASE heap[w].class \notin {"JObject", "JArray"}
    <3>1. heap[w].kids = <<>>
      BY <1>4, <2>1 DEF JvmShaped
    <3>2. s \in Nat
      <4>1. heap[w].text \in Seq(JavaChar)
        BY <1>4 DEF JNodes
      <4> QED
        BY <1>4, <4>1 DEF SizeOf
    <3> QED
      BY <3>1, <3>2
  <2>2. CASE heap[w].class = "JObject"
    BY <1>4, <2>2 DEF KindOf, SizeOf
  <2>3. CASE heap[w].class = "JArray"
    <3>1. KindOf(heap[w].class) = "array"
      BY <1>4, <2>3, VisitedType
    <3> QED
      BY <1>4, <2>3, <3>1 DEF SizeOf
  <2> QED
    BY <2>1, <2>2, <2>3
<1> HIDE DEF n, s
<1>8. Connected(wire)'
  <2>1. \A v \in Ids : wire[v] # NONE => wire'[v] = wire[v] /\ wire'[v] # NONE
    BY <1>1, <1>2
  <2>2. \A v \in Ids \ {Root} : wire'[v] # NONE /\ wire[v] = NONE =>
          \E p \in Ids : wire[p] # NONE /\ \E i \in DOMAIN wire'[p].kids : wire'[p].kids[i].id = v
    BY <1>1, <1>2, <2>1
  <2>3. Connected(wire)
    BY DEF Trip
  <2> QED
    BY <2>1, <2>2, <2>3, ConnectedGrows
<1>9. HeapConnected' /\ SourceKept' /\ EncodeBegun' /\ Sent'
  BY <1>1 DEF Trip, HeapConnected, SourceKept, EncodeBegun, Sent, Connected, HasKids
<1>10. Encoding'
  <2>1. begun'[Root] # NONE /\ Connected(begun)'
    BY <1>1 DEF Trip, Encoding, Connected, HasKids
  <2>2. ASSUME NEW v \in Ids, begun[v] # NONE
        PROVE  /\ heap[v] # NONE /\ Grown(begun[v], heap[v])
               /\ wire'[v] # NONE => Len(begun[v].kids) <= size'[v]
    <3>1. heap[v] # NONE /\ Grown(begun[v], heap[v])
      BY <1>1, <2>2 DEF Trip, Encoding
    <3>2. CASE v = w
      <4>1. Len(begun[w].kids) \in Nat /\ Len(heap[w].kids) \in Nat /\ s \in Nat
        <5>1. begun[w] \in JNodes
          BY <2>2, <3>2, Types
        <5>2. size'[w] \in Nat
          BY DEF Inv, TypeOK
        <5> QED
          BY <1>2, <1>4, <5>1, <5>2, KidsType
      <4> QED
        BY <1>2, <1>7, <3>1, <3>2, <4>1 DEF Grown, Begins
    <3>3. CASE v # w
      BY <1>1, <1>2, <2>2, <3>1, <3>3 DEF Trip, Encoding
    <3> QED
      BY <3>2, <3>3
  <2>3. ASSUME NEW v \in Ids, wire'[v] # NONE PROVE Written(wire'[v], heap[v])
    BY <1>1, <1>2, <1>6, <2>3 DEF Trip, Encoding
  <2> QED
    BY <1>1, <2>1, <2>2, <2>3 DEF Encoding
<1> QED
  BY <1>8, <1>9, <1>10 DEF Trip

LEMMA TripReadChild == ASSUME NEW p \in Ids PROVE Inv /\ Trip /\ ReadChild(p) => Trip'
<1> SUFFICES ASSUME Inv, Trip, ReadChild(p) PROVE Trip'
  OBVIOUS
<1> DEFINE i == Len(wire[p].kids) + 1
           k == ChildAt(heap[p], i)
           n == WithKid(wire[p], k)
<1>1. /\ pc = "encoding" /\ wire[p] # NONE /\ i <= size[p]
      /\ wire' = [wire EXCEPT ![p] = n]
      /\ UNCHANGED <<pc, heap, size, globals, open, locals, held, turn, source, begun, ended>>
  BY DEF ReadChild
<1>2. /\ wire[p] \in WireNodes /\ heap[p] \in JNodes
      /\ Written(wire[p], heap[p]) /\ size[p] <= Len(heap[p].kids) /\ size[p] \in Nat
  BY <1>1, Types DEF Inv, EncodingInv, Trip, Encoding
<1>3. /\ wire[p].kids \in Seq(WireKids) /\ Len(wire[p].kids) \in Nat /\ Len(heap[p].kids) \in Nat
      /\ i \in 1..Len(heap[p].kids)
  <2>1. /\ wire[p].kids \in Seq(WireKids) /\ Len(wire[p].kids) \in Nat /\ Len(heap[p].kids) \in Nat
    BY <1>2, KidsType
  <2> QED
    BY <1>1, <1>2, <2>1
<1>4. k \in WireKids
  BY <1>2, <1>3, ChildAtType
<1>5. n \in WireNodes /\ HasKid(n, wire[p], k) /\ n # NONE /\ n.kids \in Seq(WireKids)
  <2> HIDE DEF k
  <2> QED
    BY <1>2, <1>4, WireKid, KidsType, Constants
<1>6. Written(n, heap[p])
  <2> HIDE DEF n
  <2>1. SameValue(n, Encoded(heap[p]))
    BY <1>2, <1>5 DEF HasKid, Written, SameValue
  <2>2. Len(n.kids) = i
    BY <1>5 DEF HasKid
  <2>3. \A j \in 1..Len(n.kids) : n.kids[j] = ChildAt(heap[p], j)
    BY <1>2, <1>3, <1>5, <2>2 DEF HasKid, Written
  <2> QED
    BY <1>3, <2>1, <2>2, <2>3 DEF Written
<1> HIDE DEF n
<1>7. wire'[p] = n /\ \A v \in Ids \ {p} : wire'[v] = wire[v]
  BY <1>1, Types
<1>8. Connected(wire)'
  <2>1. ASSUME NEW v \in Ids, wire[v] # NONE
        PROVE  /\ wire'[v] # NONE
               /\ \A j \in DOMAIN wire[v].kids :
                    j \in DOMAIN wire'[v].kids /\ wire'[v].kids[j].id = wire[v].kids[j].id
    <3>1. CASE v = p
      <4>1. \A j \in 1..Len(wire[p].kids) : j \in 1..Len(n.kids) /\ n.kids[j] = wire[p].kids[j]
        <5> HIDE DEF k
        <5>1. Len(n.kids) = Len(wire[p].kids) + 1
          BY <1>5 DEF HasKid
        <5> QED
          BY <1>3, <1>5, <5>1 DEF HasKid
      <4>2. DOMAIN wire[p].kids = 1..Len(wire[p].kids) /\ DOMAIN n.kids = 1..Len(n.kids)
        BY <1>3, <1>5
      <4> QED
        BY <1>5, <1>7, <3>1, <4>1, <4>2
    <3>2. CASE v # p
      BY <1>7, <2>1, <3>2
    <3> QED
      BY <3>1, <3>2
  <2>2. \A v \in Ids : wire'[v] # NONE => wire[v] # NONE
    BY <1>1, <1>7
  <2>3. Connected(wire)
    BY DEF Trip
  <2> QED
    BY <2>1, <2>2, <2>3, ConnectedGrows
<1>9. HeapConnected' /\ SourceKept' /\ EncodeBegun' /\ Sent'
  BY <1>1 DEF Trip, HeapConnected, SourceKept, EncodeBegun, Sent, Connected, HasKids
<1>10. Encoding'
  <2>1. begun'[Root] # NONE /\ Connected(begun)'
    BY <1>1 DEF Trip, Encoding, Connected, HasKids
  <2>2. \A v \in Ids : wire'[v] # NONE => wire[v] # NONE
    BY <1>1, <1>7
  <2>3. ASSUME NEW v \in Ids, wire'[v] # NONE PROVE Written(wire'[v], heap[v])
    BY <1>1, <1>6, <1>7, <2>3 DEF Trip, Encoding
  <2> QED
    BY <1>1, <2>1, <2>2, <2>3 DEF Trip, Encoding
<1> QED
  BY <1>8, <1>9, <1>10 DEF Trip

\* encode() has written the root and the children of what it has written, so
\* everything that was there when it began.
LEMMA TripEncodeReturns == Inv /\ Trip /\ EncodeReturns => Trip'
<1> SUFFICES ASSUME Inv, Trip, EncodeReturns PROVE Trip'
  OBVIOUS
<1>1. Connected(wire)' /\ HeapConnected' /\ SourceKept'
  BY DEF Trip, EncodeReturns, HeapConnected, SourceKept, Connected, HasKids
<1>2. EncodeBegun' /\ Encoding'
  BY DEF Trip, EncodeReturns, EncodeBegun, Encoding
<1> DEFINE S == {w \in Ids : wire[w] # NONE}
<1>3. ASSUME NEW w \in S, begun[w] # NONE, NEW i \in DOMAIN begun[w].kids
      PROVE  begun[w].kids[i].id \in S
  <2>1. /\ heap[w] # NONE /\ Grown(begun[w], heap[w]) /\ Len(begun[w].kids) <= size[w]
        /\ Written(wire[w], heap[w])
    BY <1>3 DEF Trip, Encoding, EncodeReturns
  <2>2. begun[w] \in JNodes /\ heap[w] \in JNodes /\ wire[w] \in WireNodes
    BY <1>3, <2>1, Types
  <2>3. /\ Len(begun[w].kids) \in Nat /\ Len(heap[w].kids) \in Nat /\ Len(wire[w].kids) \in Nat
        /\ DOMAIN begun[w].kids = 1..Len(begun[w].kids) /\ DOMAIN wire[w].kids = 1..Len(wire[w].kids)
    BY <2>2, KidsType
  <2>4. Len(wire[w].kids) = size[w]
    BY <1>3 DEF EncodeReturns
  <2>5. i \in 1..Len(begun[w].kids) /\ i \in DOMAIN wire[w].kids /\ i \in 1..Len(heap[w].kids)
    BY <1>3, <2>1, <2>3, <2>4 DEF Grown, Begins
  <2>6. wire[wire[w].kids[i].id] # NONE
    BY <1>3, <2>5 DEF EncodeReturns
  <2>7. wire[w].kids[i].id = heap[w].kids[i].id
    <3>1. wire[w].kids[i] = ChildAt(heap[w], i)
      BY <2>1, <2>3, <2>5 DEF Written
    <3> QED
      BY <3>1 DEF ChildAt
  <2>8. heap[w].kids[i] = begun[w].kids[i] /\ begun[w].kids[i].id \in Ids
    BY <2>1, <2>2, <2>5, KidsType DEF Grown, Begins
  <2> QED
    BY <2>6, <2>7, <2>8
<1>4. Root \in S /\ HasKids(S, begun)
  BY <1>3, Constants DEF EncodeReturns, HasKids
<1>5. \A w \in Ids : begun[w] # NONE => wire[w] # NONE
  BY <1>4 DEF Trip, Encoding, Connected, EncodeReturns
<1>6. Sent'
  <2>1. ASSUME NEW w \in Ids, begun[w] # NONE
        PROVE  /\ heap[w] # NONE /\ Grown(begun[w], heap[w])
               /\ wire[w] # NONE /\ Written(wire[w], heap[w])
               /\ Len(begun[w].kids) <= Len(wire[w].kids)
    BY <1>5, <2>1 DEF Trip, Encoding, EncodeReturns
  <2> QED
    BY <2>1 DEF EncodeReturns, Sent
<1> QED
  BY <1>1, <1>2, <1>6 DEF Trip

\* A new child comes to the end: all there was has grown, or stayed as it was.
LEMMA TripAdd ==
  ASSUME NEW p \in Ids, NEW x \in Ids
  PROVE  Inv /\ Inv' /\ Trip /\ Add(p, x) => Trip'
<1> SUFFICES ASSUME Inv, Inv', Trip, Add(p, x) PROVE Trip'
  OBVIOUS
<1> DEFINE k == [key |-> IF heap[p].class = "JArray" THEN <<>> ELSE NewKey, id |-> x]
           o == WithKid(heap[p], k)
           l == [class |-> "JNull", text |-> <<>>, num |-> 0, kids |-> <<>>]
<1>1. /\ pc \in {"tree", "encoding"} /\ held /\ heap[p] # NONE /\ heap[x] = NONE
      /\ heap' = [heap EXCEPT ![p] = o, ![x] = l]
      /\ UNCHANGED <<pc, wire, size, globals, open, locals, held, turn, source, begun, ended>>
  BY DEF Add
<1>2. heap[p] \in JNodes /\ k \in JvmKids /\ k.id = x /\ p # x
  BY <1>1, Types, Constants DEF JvmKids
<1> HIDE DEF k
<1>3. o \in JNodes /\ HasKid(o, heap[p], k)
  BY <1>2, JvmKid
<1> HIDE DEF o, l
<1>4. heap'[p] = o /\ \A v \in Ids \ {p, x} : heap'[v] = heap[v]
  BY <1>1, <1>2, Types
<1>5. /\ o.kids \in Seq(JvmKids) /\ heap[p].kids \in Seq(JvmKids)
      /\ Len(o.kids) \in Nat /\ Len(heap[p].kids) \in Nat
  BY <1>2, <1>3, KidsType
<1>6. Grown(heap[p], o)
  BY <1>3, <1>5 DEF HasKid, Grown, SameValue, Begins
<1>7. ASSUME NEW v \in Ids, heap[v] # NONE
      PROVE  heap'[v] \in JNodes /\ heap[v] \in JNodes /\ heap'[v] # NONE /\ Grown(heap[v], heap'[v])
  <2>1. heap[v] \in JNodes
    BY <1>7, Types
  <2> QED
    BY <1>1, <1>3, <1>4, <1>6, <1>7, <2>1, GrownRefl, Constants
<1>8. Connected(heap)'
  <2>1. ASSUME NEW v \in Ids, heap[v] # NONE
        PROVE  /\ heap'[v] # NONE
               /\ \A j \in DOMAIN heap[v].kids :
                    j \in DOMAIN heap'[v].kids /\ heap'[v].kids[j].id = heap[v].kids[j].id
    <3>1. heap'[v] # NONE /\ Grown(heap[v], heap'[v]) /\ heap[v] \in JNodes /\ heap'[v] \in JNodes
      BY <1>7, <2>1
    <3>2. /\ DOMAIN heap[v].kids = 1..Len(heap[v].kids) /\ DOMAIN heap'[v].kids = 1..Len(heap'[v].kids)
          /\ Len(heap[v].kids) \in Nat /\ Len(heap'[v].kids) \in Nat
      BY <3>1, KidsType
    <3> QED
      BY <3>1, <3>2 DEF Grown, Begins
  <2>2. /\ Len(o.kids) \in DOMAIN heap'[p].kids /\ heap'[p].kids[Len(o.kids)].id = x
    BY <1>2, <1>3, <1>4, <1>5 DEF HasKid
  <2>3. ASSUME NEW v \in Ids \ {Root}, heap'[v] # NONE /\ heap[v] = NONE
        PROVE  \E q \in Ids : heap[q] # NONE /\ \E j \in DOMAIN heap'[q].kids : heap'[q].kids[j].id = v
    <3>1. v = x
      BY <1>1, <1>4, <2>3
    <3> QED
      BY <1>1, <2>2, <3>1
  <2>4. Connected(heap)
    BY <1>1 DEF Trip, HeapConnected
  <2> QED
    BY <2>1, <2>3, <2>4, ConnectedGrows
<1>9. HeapConnected'
  BY <1>1, <1>8 DEF HeapConnected
<1>10. Connected(wire)' /\ SourceKept' /\ EncodeBegun' /\ Sent'
  BY <1>1 DEF Trip, SourceKept, EncodeBegun, Sent, Connected, HasKids
<1>11. Encoding'
  <2> SUFFICES ASSUME pc = "encoding" PROVE Encoding'
    BY <1>1 DEF Encoding
  <2>1. begun'[Root] # NONE /\ Connected(begun)'
    BY <1>1 DEF Trip, Encoding, Connected, HasKids
  <2>2. ASSUME NEW w \in Ids, begun[w] # NONE
        PROVE  /\ heap'[w] # NONE /\ Grown(begun[w], heap'[w])
               /\ wire[w] # NONE => Len(begun[w].kids) <= size[w]
    <3>1. /\ heap[w] # NONE /\ Grown(begun[w], heap[w])
          /\ wire[w] # NONE => Len(begun[w].kids) <= size[w]
      BY <2>2 DEF Trip, Encoding
    <3>2. begun[w] \in JNodes
      BY <2>2, Types
    <3> QED
      BY <1>7, <3>1, <3>2, GrownTrans
  <2>3. ASSUME NEW w \in Ids, wire[w] # NONE PROVE Written(wire[w], heap'[w])
    <3>1. wire[w] \in WireNodes /\ heap[w] # NONE /\ Written(wire[w], heap[w])
      BY <2>3, Types DEF Trip, Encoding, Inv, EncodingInv
    <3> QED
      BY <1>7, <3>1, WrittenGrows
  <2> QED
    BY <1>1, <2>1, <2>2, <2>3 DEF Encoding
<1> QED
  BY <1>9, <1>10, <1>11 DEF Trip

\* Nothing a caller has is collected.
LEMMA HeldKept == ASSUME NEW w \in Ids PROVE Inv /\ Trip /\ Collect(w) => ~held
<1> SUFFICES ASSUME Inv, Trip, Collect(w), held PROVE FALSE
  OBVIOUS
<1>1. heap \in [Ids -> WireNodes \cup JNodes \cup {NONE}] /\ Connected(heap) /\ Closed(heap)
  BY Types DEF Trip, HeapConnected, Inv, WholeHeap
<1>2. HasParents(heap)
  BY <1>1, ConnectedHasParents
<1> QED
  BY <1>2 DEF HasParents, Reachable, Collect

LEMMA TripCollect == ASSUME NEW w \in Ids PROVE Inv /\ Inv' /\ Trip /\ Collect(w) => Trip'
<1> SUFFICES ASSUME Inv, Inv', Trip, Collect(w) PROVE Trip'
  OBVIOUS
<1>1. /\ heap[w] # NONE /\ heap' = [heap EXCEPT ![w] = NONE] /\ ~Reachable(w)
      /\ UNCHANGED <<pc, wire, size, globals, open, locals, held, turn, source, begun, ended>>
  BY DEF Collect
<1>2. heap'[w] = NONE /\ \A v \in Ids \ {w} : heap'[v] = heap[v]
  BY <1>1, Types
<1>3. ~held
  BY HeldKept
<1>4. pc \notin {"loaded", "returning"}
  <2> SUFFICES ASSUME pc \in {"loaded", "returning"} PROVE FALSE
    OBVIOUS
  <2>1. wire[w] # NONE
    BY <1>1 DEF Trip, HeapConnected
  <2> QED
    BY <1>1, <1>2, <2>1 DEF Inv, LoadedInv
<1>5. pc # "encoding"
  BY <1>3 DEF Inv, WholeHeap
<1>6. Connected(wire)' /\ SourceKept' /\ EncodeBegun' /\ Sent'
  BY <1>1 DEF Trip, SourceKept, EncodeBegun, Sent, Connected, HasKids
<1>7. HeapConnected' /\ Encoding'
  BY <1>1, <1>3, <1>4, <1>5 DEF HeapConnected, Encoding
<1> QED
  BY <1>6, <1>7 DEF Trip

LEMMA TripNext == Inv /\ Inv' /\ Trip /\ [Next]_vars => Trip'
<1> SUFFICES ASSUME Inv, Inv', Trip, [Next]_vars PROVE Trip'
  OBVIOUS
<1>1. CASE RootIsNull \/ DeleteContext \/ Dispose \/ Drop
  BY <1>1, TripStill DEF RootIsNull, DeleteContext, Dispose, Drop
<1>2. CASE Begin
  BY <1>2, TripBegin
<1>3. ASSUME NEW w \in Ids, New(w) PROVE Trip'
  BY <1>3, TripLoading DEF New
<1>4. ASSUME NEW p \in Ids, SetKeyValue(p) \/ SetValue(p) PROVE Trip'
  BY <1>4, TripLoading DEF SetKeyValue, SetValue, Pending, AddChild
<1>5. CASE LoadReturns
  BY <1>5, TripLoadReturns
<1>6. CASE Return
  BY <1>6, TripReturn
<1>7. CASE BeginEncode
  BY <1>7, TripBeginEncode
<1>8. ASSUME NEW w \in Ids, Visit(w) PROVE Trip'
  BY <1>8, TripVisit
<1>9. ASSUME NEW p \in Ids, ReadChild(p) PROVE Trip'
  BY <1>9, TripReadChild
<1>10. CASE EncodeReturns
  BY <1>10, TripEncodeReturns
<1>11. ASSUME NEW p \in Ids, NEW x \in Ids, Add(p, x) PROVE Trip'
  BY <1>11, TripAdd
<1>12. ASSUME NEW w \in Ids, Collect(w) PROVE Trip'
  BY <1>12, TripCollect
<1>13. CASE UNCHANGED vars
  BY <1>13, TripStill DEF vars
<1> QED
  BY <1>1, <1>2, <1>3, <1>4, <1>5, <1>6, <1>7, <1>8, <1>9, <1>10, <1>11, <1>12, <1>13
     DEF Next, Load, Encode

LEMMA TripInvariance == Spec => [](Inv /\ Trip)
<1>1. Init => Inv /\ Trip
  BY InitInv, TripInit
<1>2. Inv /\ Trip /\ [Next]_vars => (Inv /\ Trip)'
  BY NextInv, TripNext
<1> QED
  BY <1>1, <1>2, PTL DEF Spec

-----------------------------------------------------------------------------
(***************************************************************************)
(* To its caller each call is a step of TreeCodec.                         *)
(***************************************************************************)
\* What a caller sees.
Bytes == IF pc \in {"tree", "encoding"} THEN NoTree ELSE wire
Tree  == IF held THEN heap ELSE NoTree
First == IF pc = "encoding" THEN begun ELSE NoTree

\* A tree that is null was not begun to load.
RootLoads == pc \in {"loading", "loaded", "returning"} => wire[Root].kind # "null"

Seen == Inv /\ Trip /\ RootLoads

\* TreeCodec has the operators of the same module.
LEMMA SameCodec ==
  /\ Codec!NoTree = NoTree
  /\ \A n : Codec!Loaded(n) = Loaded(n)
  /\ \A o : Codec!Encoded(o) = Encoded(o)
  /\ \A o : Codec!Empty(o) = Empty(o)
  /\ \A o, kid : Codec!WithKid(o, kid) = WithKid(o, kid)
  /\ \A t : Codec!Rooted(t) <=> Rooted(t)
  /\ \A a, m, b : Codec!Between(a, m, b) <=> Between(a, m, b)
<1>1. Codec!NoTree = NoTree
  BY DEF Codec!NoTree, NoTree
<1>2. \A s : Codec!NewStringUTF(s) = NewStringUTF(s)
  BY DEF Codec!NewStringUTF, NewStringUTF, Codec!BeforeNul, BeforeNul, Codec!ToJava, ToJava
<1>3. \A n : Codec!Loaded(n) = Loaded(n)
  BY <1>2 DEF Codec!Loaded, Loaded, Codec!ClassOf, ClassOf
<1>4. \A s : Codec!GetStringUTFChars(s) = GetStringUTFChars(s)
  BY DEF Codec!GetStringUTFChars, GetStringUTFChars, Codec!ToWire, ToWire
<1>5. \A o, i : Codec!ChildAt(o, i) = ChildAt(o, i)
  BY <1>4 DEF Codec!ChildAt, ChildAt
<1>6. \A c : Codec!KindOf(c) = KindOf(c)
  BY DEF Codec!KindOf, KindOf, Codec!ClassOf, ClassOf
<1>7. \A o : Codec!AsNum(o) = AsNum(o)
  BY DEF Codec!AsNum, AsNum
<1>8. \A o : Codec!Encoded(o) = Encoded(o)
  BY <1>4, <1>5, <1>6, <1>7 DEF Codec!Encoded, Encoded
<1>9. \A o : Codec!Empty(o) = Empty(o)
  BY DEF Codec!Empty, Empty
<1>10. \A o, kid : Codec!WithKid(o, kid) = WithKid(o, kid)
  BY DEF Codec!WithKid, WithKid
<1>11. \A t : Codec!Rooted(t) <=> Rooted(t)
  BY DEF Codec!Rooted, Rooted, Codec!Connected, Connected, Codec!HasKids, HasKids,
     Codec!Closed, Closed
<1>12. \A a, m, b : Codec!Between(a, m, b) <=> Between(a, m, b)
  BY <1>9 DEF Codec!Between, Between, Codec!IsPrefix, IsPrefix
<1> QED
  BY <1>1, <1>3, <1>8, <1>9, <1>10, <1>11, <1>12

LEMMA SeenInit == Init => Seen /\ Codec!Init
<1>1. Init => Seen
  BY InitInv, TripInit DEF Init, Seen, RootLoads
<1>2. Init => Codec!Init
  BY SameCodec DEF Init, Codec!Init
<1> QED
  BY <1>1, <1>2

LEMMA SeenNext == Seen /\ [Next]_vars => Seen'
<1> SUFFICES ASSUME Seen, [Next]_vars PROVE Seen'
  OBVIOUS
<1>1. Inv' /\ Trip'
  BY NextInv, TripNext DEF Seen
<1>2. RootLoads'
  BY DEF Seen, RootLoads, Next, Load, Encode, vars, RootIsNull, Begin, New, SetKeyValue,
     SetValue, AddChild, Pending, LoadReturns, DeleteContext, Return, BeginEncode, EncodeReturns,
     Visit, ReadChild, Dispose, Drop, Collect, Add
<1> QED
  BY <1>1, <1>2 DEF Seen

LEMMA Unseen ==
  ASSUME Bytes' = Bytes, Tree' = Tree, First' = First
  PROVE  UNCHANGED Codec!vars
BY SameCodec DEF Codec!vars, Bytes, Tree, First

\* A loaded tree is the decoded one, converted, and nothing else.
LEMMA LoadedWhole ==
  ASSUME Inv, Trip, pc = "returning", NEW w \in Ids
  PROVE  heap[w] = IF wire[w] = NONE THEN NONE ELSE Loaded(wire[w])
<1>1. CASE wire[w] = NONE
  BY <1>1 DEF Trip, HeapConnected
<1>2. CASE wire[w] # NONE
  <2>1. /\ heap[w] # NONE /\ Len(heap[w].kids) = Len(wire[w].kids)
        /\ SameValue(heap[w], Loaded(wire[w])) /\ Begins(Loaded(wire[w]).kids, heap[w].kids)
    BY <1>2 DEF Trip, HeapConnected, Inv, LoadedInv
  <2>2. /\ heap[w] \in JNodes /\ wire[w] \in WireNodes /\ Loaded(wire[w]) \in JNodes
        /\ Len(Loaded(wire[w]).kids) = Len(heap[w].kids)
    BY <1>2, <2>1, Types, LoadedType
  <2>3. heap[w].kids = Loaded(wire[w]).kids
    <3>1. heap[w].kids \in Seq(JvmKids) /\ Loaded(wire[w]).kids \in Seq(JvmKids)
      BY <2>2, KidsType
    <3> QED
      BY <2>1, <2>2, <3>1 DEF Begins
  <2> QED
    BY <1>2, <2>1, <2>2, <2>3, JvmValue, JvmFields
<1> QED
  BY <1>1, <1>2

\* What is written of a tree that grew since it was begun with.
LEMMA WrittenBetween ==
  ASSUME NEW n \in WireNodes, NEW e \in JNodes, Written(n, e)
  PROVE  /\ Between(Empty(Encoded(e)), n, Encoded(e))
         /\ \A b \in JNodes : Grown(b, e) /\ Len(b.kids) <= Len(n.kids) =>
              Between(Encoded(b), n, Encoded(e))
<1>1. \A o \in JNodes :
        /\ Encoded(o) \in WireNodes /\ Encoded(o).kids \in Seq(WireKids)
        /\ Len(Encoded(o).kids) = Len(o.kids) /\ Len(o.kids) \in Nat
        /\ \A i \in 1..Len(o.kids) : Encoded(o).kids[i] = ChildAt(o, i)
  <2> SUFFICES ASSUME NEW o \in JNodes
               PROVE  /\ Encoded(o) \in WireNodes /\ Encoded(o).kids \in Seq(WireKids)
                      /\ Len(Encoded(o).kids) = Len(o.kids) /\ Len(o.kids) \in Nat
                      /\ \A i \in 1..Len(o.kids) : Encoded(o).kids[i] = ChildAt(o, i)
    OBVIOUS
  <2>1. /\ Encoded(o) \in WireNodes /\ Encoded(o).kids \in Seq(WireKids)
        /\ Len(Encoded(o).kids) \in Nat /\ Len(o.kids) \in Nat /\ o.kids \in Seq(JvmKids)
    BY EncodedType, KidsType
  <2>2. Encoded(o).kids = [i \in 1..Len(o.kids) |-> ChildAt(o, i)]
    BY <2>1 DEF Encoded
  <2>3. DOMAIN Encoded(o).kids = 1..Len(Encoded(o).kids)
    BY <2>1
  <2>4. Len(Encoded(o).kids) = Len(o.kids)
    BY <2>1, <2>2, <2>3
  <2> QED
    BY <2>1, <2>2, <2>4
<1>2. /\ n.kids \in Seq(WireKids) /\ Len(n.kids) \in Nat /\ Len(n.kids) <= Len(e.kids)
      /\ SameValue(n, Encoded(e)) /\ \A i \in 1..Len(n.kids) : n.kids[i] = ChildAt(e, i)
  BY KidsType DEF Written
<1>3. IsPrefix(n.kids, Encoded(e).kids)
  <2>1. Begins(n.kids, Encoded(e).kids)
    BY <1>1, <1>2 DEF Begins
  <2> QED
    BY <1>1, <1>2, <2>1, PrefixOf
<1>4. Between(Empty(Encoded(e)), n, Encoded(e))
  <2>1. Empty(Encoded(e)) \in WireNodes /\ Empty(Encoded(e)).kids = <<>>
    BY <1>1, WireFields, VisitedType
  <2>2. Empty(Empty(Encoded(e))) = Empty(Encoded(e))
    BY <1>1, <2>1, WireFields DEF Empty
  <2>3. IsPrefix(<<>>, n.kids)
    <3>1. <<>> \in Seq(WireKids) /\ Begins(<<>>, n.kids)
      BY <1>2 DEF Begins
    <3> QED
      BY <1>2, <3>1, PrefixOf
  <2> QED
    BY <1>2, <1>3, <2>1, <2>2, <2>3 DEF Between, SameValue
<1>5. ASSUME NEW b \in JNodes, Grown(b, e), Len(b.kids) <= Len(n.kids)
      PROVE  Between(Encoded(b), n, Encoded(e))
  <2>1. Begins(Encoded(b).kids, n.kids)
    <3>1. \A i \in 1..Len(b.kids) : b.kids[i] = e.kids[i]
      BY <1>1, <1>5 DEF Grown, Begins
    <3>2. \A i \in 1..Len(b.kids) : ChildAt(b, i) = ChildAt(e, i)
      BY <3>1 DEF ChildAt
    <3> QED
      BY <1>1, <1>2, <1>5, <3>2 DEF Begins
  <2>2. Empty(Encoded(b)) = Empty(n)
    <3>1. b.class = e.class /\ b.text = e.text /\ b.num = e.num
      BY <1>5, JvmValue DEF Grown
    <3>2. AsNum(b) = AsNum(e)
      BY <3>1 DEF AsNum
    <3>3. SameValue(Encoded(b), Encoded(e))
      BY <1>1, <3>1, <3>2, EncodedType, WireValue
    <3> QED
      BY <1>2, <3>3 DEF SameValue
  <2>3. IsPrefix(Encoded(b).kids, n.kids)
    BY <1>1, <1>2, <2>1, PrefixOf
  <2> QED
    BY <1>2, <1>3, <2>2, <2>3 DEF Between, SameValue
<1> QED
  BY <1>4, <1>5

LEMMA LoadIsAStep == Seen /\ Return => Codec!Load
<1> SUFFICES ASSUME Seen, Return PROVE Codec!Load
  OBVIOUS
<1>1. /\ pc = "returning" /\ pc' = "tree" /\ ~held /\ held'
      /\ UNCHANGED <<wire, heap, begun>>
  BY DEF Seen, Trip, HeapConnected, Return
<1>2. wire[Root] # NONE /\ wire[Root].kind # "null"
  BY <1>1 DEF Seen, RootLoads, Inv, WholeWire
<1>3. heap' = [w \in Ids |-> IF wire[w] = NONE THEN NONE ELSE Loaded(wire[w])]
  <2>1. \A w \in Ids : heap[w] = IF wire[w] = NONE THEN NONE ELSE Loaded(wire[w])
    BY <1>1, LoadedWhole DEF Seen
  <2>2. heap = [w \in Ids |-> heap[w]]
    BY Types DEF Seen
  <2> QED
    BY <1>1, <2>1, <2>2
<1> QED
  BY <1>1, <1>2, <1>3, SameCodec DEF Codec!Load

LEMMA EncodeIsAStep == Seen /\ Seen' /\ EncodeReturns => Codec!EndEncode
<1> SUFFICES ASSUME Seen, Seen', EncodeReturns PROVE Codec!EndEncode
  OBVIOUS
<1>1. /\ pc = "encoding" /\ pc' = "bytes" /\ held /\ held' /\ wire' = wire /\ heap' = heap
      /\ begun' = begun /\ ended' = heap /\ wire[Root] # NONE
  BY DEF EncodeReturns, Seen, Inv, WholeHeap
<1>2. Rooted(wire)
  BY DEF EncodeReturns, Seen, Trip, Rooted, Closed
<1>3. begun[Root] # NONE
  BY <1>1 DEF Seen, Trip, Encoding
<1>4. ASSUME NEW w \in Ids, begun[w] # NONE
      PROVE  wire[w] # NONE /\ Between(Encoded(begun[w]), wire[w], Encoded(heap[w]))
  <2>1. /\ heap[w] # NONE /\ Grown(begun[w], heap[w])
        /\ wire[w] # NONE /\ Written(wire[w], heap[w]) /\ Len(begun[w].kids) <= Len(wire[w].kids)
    BY <1>1, <1>4 DEF Seen, Trip, Sent
  <2>2. begun[w] \in JNodes /\ heap[w] \in JNodes /\ wire[w] \in WireNodes
    BY <1>4, <2>1, Types DEF Seen
  <2> QED
    BY <2>1, <2>2, WrittenBetween
<1>5. ASSUME NEW w \in Ids, wire[w] # NONE
      PROVE  heap[w] # NONE /\ Between(Empty(Encoded(heap[w])), wire[w], Encoded(heap[w]))
  <2>1. heap[w] # NONE /\ Written(wire[w], heap[w])
    BY <1>1, <1>5 DEF Seen, Trip, Encoding, Inv, EncodingInv
  <2>2. heap[w] \in JNodes /\ wire[w] \in WireNodes
    BY <1>5, <2>1, Types DEF Seen
  <2> QED
    BY <2>1, <2>2, WrittenBetween
<1>6. Codec!Encodes(wire, begun, heap)
  BY <1>2, <1>4, <1>5, SameCodec DEF Codec!Encodes
<1> QED
  BY <1>1, <1>3, <1>6, SameCodec DEF Codec!EndEncode

LEMMA AddIsAStep ==
  ASSUME NEW p \in Ids, NEW x \in Ids
  PROVE  Seen /\ Add(p, x) => Codec!Add(p, x)
<1> SUFFICES ASSUME Seen, Add(p, x) PROVE Codec!Add(p, x)
  OBVIOUS
<1> DEFINE key == IF heap[p].class = "JArray" THEN <<>> ELSE NewKey
           l == [class |-> "JNull", text |-> <<>>, num |-> 0, kids |-> <<>>]
<1>1. /\ pc \in {"tree", "encoding"} /\ held /\ held' /\ pc' = pc /\ begun' = begun /\ wire' = wire
      /\ heap[p] # NONE /\ heap[p].class \in {"JObject", "JArray"} /\ heap[x] = NONE
      /\ heap' = [heap EXCEPT ![p] = WithKid(heap[p], [key |-> key, id |-> x]), ![x] = l]
  BY DEF Add
<1>2. heap'[x] = l /\ l # NONE /\ l.kids = <<>>
  <2>1. l \in JNodes
    BY Constants DEF JNodes, Longs, Classes
  <2> QED
    BY <1>1, <2>1, Types, Constants DEF Seen
<1> HIDE DEF l
<1>3. key \in {<<>>, NewKey}
  OBVIOUS
<1> HIDE DEF key
<1>4. heap' = [heap EXCEPT ![p] = Codec!WithKid(heap[p], [key |-> key, id |-> x]), ![x] = heap'[x]]
  BY <1>1, <1>2, SameCodec
<1> QED
  BY <1>1, <1>2, <1>3, <1>4 DEF Codec!Add

LEMMA CallSteps == Seen /\ Seen' /\ [Next]_vars => [Codec!Next]_(Codec!vars)
<1> SUFFICES ASSUME Seen, Seen', [Next]_vars PROVE Codec!Next \/ UNCHANGED Codec!vars
  OBVIOUS
<1>1. pc \in {"loading", "loaded", "returning"} => ~held
  BY DEF Seen, Trip, HeapConnected
<1>2. CASE RootIsNull \/ LoadReturns \/ DeleteContext \/ Dispose \/ UNCHANGED vars
  BY <1>2, Unseen DEF RootIsNull, LoadReturns, DeleteContext, Dispose, vars, Bytes, Tree, First
<1>3. ASSUME NEW w \in Ids, New(w) \/ SetKeyValue(w) \/ SetValue(w) PROVE UNCHANGED Codec!vars
  <2>1. pc = "loading" /\ UNCHANGED <<pc, wire, held, begun>>
    BY <1>3 DEF New, SetKeyValue, SetValue, AddChild, Pending
  <2> QED
    BY <1>1, <2>1, Unseen DEF Bytes, Tree, First
<1>4. ASSUME NEW w \in Ids, Visit(w) \/ ReadChild(w) PROVE UNCHANGED Codec!vars
  <2>1. pc = "encoding" /\ UNCHANGED <<pc, heap, held, begun>>
    BY <1>4 DEF Visit, ReadChild
  <2> QED
    BY <2>1, Unseen DEF Bytes, Tree, First
<1>5. ASSUME NEW w \in Ids, Collect(w) PROVE UNCHANGED Codec!vars
  <2>1. ~held /\ UNCHANGED <<pc, wire, held, begun>>
    BY <1>5, HeldKept DEF Collect, Seen
  <2> QED
    BY <2>1, Unseen DEF Bytes, Tree, First
<1>6. CASE Begin \/ Drop
  BY <1>6, SameCodec DEF Begin, Drop, Codec!Next, Codec!Drop
<1>7. CASE BeginEncode
  <2>1. heap[Root] # NONE
    BY <1>7 DEF BeginEncode, Seen, Inv, WholeHeap
  <2> QED
    BY <1>7, <2>1, SameCodec DEF BeginEncode, Codec!Next, Codec!BeginEncode
<1>8. CASE Return
  BY <1>8, LoadIsAStep DEF Codec!Next
<1>9. CASE EncodeReturns
  BY <1>9, EncodeIsAStep DEF Codec!Next
<1>10. ASSUME NEW p \in Ids, NEW x \in Ids, Add(p, x) PROVE Codec!Next
  BY <1>10, AddIsAStep DEF Codec!Next
<1> QED
  BY <1>2, <1>3, <1>4, <1>5, <1>6, <1>7, <1>8, <1>9, <1>10 DEF Next, Load, Encode

-----------------------------------------------------------------------------
(***************************************************************************)
(* The theorems.                                                           *)
(***************************************************************************)
\* A tree of the JVM that is encoded and loaded again is the same, with what
\* was added meanwhile, but for null, JNothing and the upper half of a JUint:
\* every node is there, every text, every child in its order.
THEOREM JvmTreeSurvives == Spec => []SameTree
<1>1. ASSUME Inv, Trip, pc = "returning", NEW w \in Ids, begun[w] # NONE
      PROVE  heap[w] # NONE /\ Between(Restored(begun[w]), heap[w], Restored(ended[w]))
  <2>1. /\ ended[w] # NONE /\ Grown(begun[w], ended[w])
        /\ wire[w] # NONE /\ Written(wire[w], ended[w])
        /\ Len(begun[w].kids) <= Len(wire[w].kids)
    BY <1>1 DEF Trip, Sent
  <2>2. begun[w] \in JNodes /\ ended[w] \in JNodes /\ wire[w] \in WireNodes
    BY <1>1, <2>1, Types
  <2>3. Between(Restored(begun[w]), Loaded(wire[w]), Restored(ended[w]))
    BY <2>1, <2>2, JvmTrip
  <2>4. heap[w] = Loaded(wire[w]) /\ Loaded(wire[w]) \in JNodes
    BY <1>1, <2>1, <2>2, LoadedWhole, LoadedType
  <2> QED
    BY <2>3, <2>4, Constants
<1>2. Inv /\ Trip => SameTree
  BY <1>1 DEF SameTree
<1> QED
  BY <1>2, TripInvariance, PTL

\* A decoded tree that is loaded and encoded again is the same, with what was
\* added meanwhile, but for text behind a nul, four-byte characters and the
\* upper half of a number.
THEOREM GoTreeSurvives == Spec => []SameBytes
<1>1. ASSUME Inv, Trip, pc = "bytes", NEW w \in Ids, source[w] # NONE, Representable(source[w])
      PROVE  wire[w] # NONE /\ Between(source[w], wire[w], wire[w])
  <2>1. begun[w] # NONE /\ Grown(Loaded(source[w]), begun[w])
    BY <1>1 DEF Trip, EncodeBegun
  <2>2. /\ ended[w] # NONE /\ Grown(begun[w], ended[w])
        /\ wire[w] # NONE /\ Written(wire[w], ended[w])
        /\ Len(begun[w].kids) <= Len(wire[w].kids)
    BY <1>1, <2>1 DEF Trip, Sent
  <2>3. /\ source[w] \in WireNodes /\ wire[w] \in WireNodes
        /\ begun[w] \in JNodes /\ ended[w] \in JNodes
    BY <1>1, <2>1, <2>2, Types
  <2> QED
    BY <1>1, <2>1, <2>2, <2>3, GoTrip
<1>2. Inv /\ Trip => SameBytes
  BY <1>1 DEF SameBytes
<1> QED
  BY <1>2, TripInvariance, PTL

\* Each call is one step to its caller: load() of a whole tree, encode() of a
\* whole tree no older than the call; the collector takes nothing in use.
THEOREM CallsAreAtomic == Spec => CallsAreSteps
<1> QED
  BY SeenInit, SeenNext, CallSteps, PTL DEF Spec, CallsAreSteps, Codec!Spec
=============================================================================
