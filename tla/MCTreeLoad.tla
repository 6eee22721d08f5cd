----------------------------- MODULE MCTreeLoad -----------------------------
(***************************************************************************)
(* TreeLoad for the trees of at most three nodes that its conversions can  *)
(* tell apart: a leaf, a container of two leaves, a container in another.  *)
(* Place x is for a leaf the application adds.                             *)
(***************************************************************************)
EXTENDS TreeLoad

CONSTANTS a, b

AddedKey == <<"pair", "plain">>

Kid(key, w)  == [key |-> key, id |-> w]
WireLeaf(kind, text, num) == [kind |-> kind, text |-> text, num |-> num, kids |-> <<>>]
JvmLeaf(class, text, num) == [class |-> class, text |-> text, num |-> num, kids |-> <<>>]
WireNode(kind, kids) == [kind |-> kind, text |-> <<>>, num |-> 0, kids |-> kids]
JvmNode(class, kids) == [class |-> class, text |-> <<>>, num |-> 0, kids |-> kids]

\* A leaf, an array or object over one or two leaves, one container in another.
Trees(leaves, fewer, node(_, _), arr, obj, keys) ==
  LET tree(r, na, nb) == [NoTree EXCEPT ![Root] = r, ![a] = na, ![b] = nb] IN
    {tree(l, NONE, NONE) : l \in fewer}
  \cup {tree(node(arr, <<Kid(<<>>, a), Kid(<<>>, b)>>), l, m) : l \in leaves, m \in fewer}
  \cup {tree(node(obj, <<Kid(k, a)>>), node(arr, <<Kid(<<>>, b)>>), l) : k \in keys, l \in fewer}
  \cup {tree(node(arr, <<Kid(<<>>, a)>>), node(obj, <<Kid(k, b)>>), l) : k \in keys, l \in fewer}
  \cup {tree(node(obj, <<Kid(<<"plain">>, a), Kid(<<"latin">>, b)>>), l, m) :
          l \in fewer, m \in fewer}

WireTexts == {<<c>> : c \in WireChar} \cup {<<"plain", "nul", "plain">>, <<"cesu", "plain">>}
JavaTexts == {<<c>> : c \in JavaChar} \cup {<<"plain", "nul", "pair">>}

MCWireTrees ==
  LET fewer == {WireLeaf("null", <<>>, 0), WireLeaf("string", <<"plain">>, 0),
                WireLeaf("uint", <<>>, LongSize - 1)} IN
  Trees(fewer \cup {WireLeaf("string", s, 0) : s \in WireTexts}
              \cup {WireLeaf(k, <<>>, 1) : k \in {"int", "uint", "float", "bool"}},
        fewer, WireNode, "array", "object", WireTexts)

MCJvmTrees ==
  LET fewer == {JvmLeaf("nullptr", <<>>, 0), JvmLeaf("JNothing", <<>>, 0),
                JvmLeaf("JUint", <<>>, LongSize - 1)} IN
  Trees(fewer \cup {JvmLeaf("JString", s, 0) : s \in JavaTexts} \cup {JvmLeaf("JBool", <<>>, 1)},
        fewer, JvmNode, "JArray", "JObject", JavaTexts)
=============================================================================
