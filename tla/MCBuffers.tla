------------------------------ MODULE MCBuffers ------------------------------
(***************************************************************************)
(* Buffers for one heap and one direct buffer of the application and one   *)
(* more for copies and results; a buffer that is freed is used again.      *)
(***************************************************************************)
EXTENDS Buffers

CONSTANTS heap, direct, b1

MCBuffers == {heap, direct, b1}
MCHeap    == {heap}
MCDirect  == {direct}
=============================================================================
