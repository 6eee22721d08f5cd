--------------------------- MODULE MCNativeLifetime ---------------------------
(***************************************************************************)
(* NativeLifetime on small instances: the sets are model values of the     *)
(* configurations, and threads, contexts and iterators of one kind are     *)
(* interchangeable.                                                        *)
(***************************************************************************)
EXTENDS NativeLifetime, TLC

Symmetry == Permutations(Threads) \cup Permutations(ExtCtxs)
              \cup Permutations(JvmCtxs) \cup Permutations(Iters)
=============================================================================
