------------------------------ MODULE TreeCodec -------------------------------
(***************************************************************************)
(* What encode() and load() promise of a tree, whatever they are made of.  *)
(* load() brings the whole tree that is in the bytes, at once.  encode()   *)
(* takes as long as the application may go on adding to the tree; what it  *)
(* sends is a whole tree again, with all that was there when it began.     *)
(* What the caller has stays what it is: nobody collects it, and no call   *)
(* changes it.                                                             *)
(***************************************************************************)
EXTENDS NodeCodec

VARIABLES
  bytes, \* the tree in the bytes there are, as long as they are not loaded
  tree,  \* the tree the caller has
  begun  \* the tree encode() began with, while it runs

vars == <<bytes, tree, begun>>

Init ==
  /\ \/ bytes \in WireTrees /\ tree = NoTree
     \/ bytes = NoTree /\ tree \in JvmTrees
  /\ begun = NoTree

\* A tree that is null has nothing to load.
Load ==
  /\ bytes[Root] # NONE /\ bytes[Root].kind # "null"
  /\ tree = NoTree
  /\ tree' = [w \in Ids |-> IF bytes[w] = NONE THEN NONE ELSE Loaded(bytes[w])]
  /\ bytes' = NoTree
  /\ UNCHANGED begun

\* The caller lets go of the tree, for nothing or for another.
Drop ==
  /\ begun = NoTree
  /\ tree' = NoTree
  /\ UNCHANGED <<bytes, begun>>

BeginEncode ==
  /\ bytes = NoTree /\ begun = NoTree /\ tree[Root] # NONE
  /\ begun' = tree
  /\ UNCHANGED <<bytes, tree>>

\* sent may be sent of a tree that was first and is last by now: a node of
\* either is as it is encoded, and has the children it had at first, and of
\* those that came since a beginning.
Encodes(sent, first, last) ==
  /\ Rooted(sent)
  /\ \A w \in Ids : first[w] # NONE =>
       sent[w] # NONE /\ Between(Encoded(first[w]), sent[w], Encoded(last[w]))
  /\ \A w \in Ids : sent[w] # NONE =>
       last[w] # NONE /\ Between(Empty(Encoded(last[w])), sent[w], Encoded(last[w]))

EndEncode ==
  /\ begun[Root] # NONE
  /\ Encodes(bytes', begun, tree)
  /\ begun' = NoTree
  /\ UNCHANGED tree

\* A container grows at its end, by a leaf that was not there.
Add(p, x) ==
  /\ tree[p] # NONE /\ tree[p].class \in {"JObject", "JArray"}
  /\ tree[x] = NONE /\ tree'[x] # NONE /\ tree'[x].kids = <<>>
  /\ \E key \in {<<>>, NewKey} :
       tree' = [tree EXCEPT ![p] = WithKid(@, [key |-> key, id |-> x]), ![x] = tree'[x]]
  /\ UNCHANGED <<bytes, begun>>

Next == Load \/ Drop \/ BeginEncode \/ EndEncode \/ \E p, x \in Ids : Add(p, x)

Spec == Init /\ [][Next]_vars
=============================================================================
