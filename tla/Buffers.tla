-------------------------------- MODULE Buffers --------------------------------
(***************************************************************************)
(* The byte buffers on their way into decode and out of encode.            *)
(*                                                                         *)
(* C++ decodes all capacity() bytes of a direct buffer, whatever its       *)
(* position and limit are.  parseFrom copies a heap buffer of the caller   *)
(* into a direct one and moves the caller's position meanwhile; a direct   *)
(* buffer goes as it is.  Arrays and ByteStrings are copied, too, but no   *)
(* step of another thread can come between.  encode hands out memory of    *)
(* libuast as a direct buffer, which the JVM does not free.                *)
(*                                                                         *)
(* Byte i of a tree's encoding is the number i, and 0 is a byte nobody     *)
(* wrote.  The application does not move the position or limit of a heap   *)
(* buffer that is being copied.                                            *)
(***************************************************************************)
EXTENDS Naturals

CONSTANTS
  Threads,      \* the threads of the application
  Buffers,      \* the ByteBuffers there can be at a time
  HeapBuffers,  \* those the application has at first, on the Java heap
  DirectBuffers,\* and from allocateDirect
  Cap,          \* the length of an encoding, the capacity of every buffer
  MaxCalls,     \* how many calls a thread makes
  NULL          \* no thread, no buffer

ASSUME NullIsNone == NULL \notin Threads \cup Buffers
ASSUME GivenBuffers == HeapBuffers \subseteq Buffers /\ DirectBuffers \subseteq Buffers \ HeapBuffers
ASSUME Bounds == Cap \in Nat /\ MaxCalls \in Nat

Bytes == [1..Cap -> 0..Cap]
Whole == [i \in 1..Cap |-> i]
Zeros == [i \in 1..Cap |-> 0]
Upto(n) == [i \in 1..Cap |-> IF i <= n THEN i ELSE 0]

VARIABLES
  buf,     \* [mem, bytes, pos, lim] of each ByteBuffer and its memory
  held,    \* the buffers the application has a reference to
  frame,   \* each thread's call of parseFrom, UastMethods.decode or decode
  monitor, \* the thread inside Libuast.synchronized
  calls    \* how many calls each thread has begun

vars == <<buf, held, frame, monitor, calls>>

Memory == {"none", "heap", "direct", "malloc", "leaked"}
Places == {"scala", "put", "advance", "rewind", "decode", "reading", "returned"}

Unused  == [mem |-> "none", bytes |-> Zeros, pos |-> 0, lim |-> 0]
Fresh(mem, bytes, pos) == [mem |-> mem, bytes |-> bytes, pos |-> pos, lim |-> Cap]
Outside == [at |-> "scala", src |-> NULL, dst |-> NULL, shared |-> FALSE, got |-> Zeros]

TypeOK ==
  /\ buf \in [Buffers -> [mem : Memory, bytes : Bytes, pos : 0..Cap, lim : 0..Cap]]
  /\ \A b \in Buffers : buf[b].pos <= buf[b].lim
  /\ held \subseteq Buffers
  /\ frame \in [Threads -> [at : Places, src : HeapBuffers \cup {NULL}, dst : Buffers \cup {NULL},
                            shared : BOOLEAN, got : Bytes]]
  /\ monitor \in Threads \cup {NULL}
  /\ calls \in [Threads -> 0..MaxCalls]

Init ==
  /\ buf = [b \in Buffers |-> IF b \in HeapBuffers THEN Fresh("heap", Whole, 0)
                              ELSE IF b \in DirectBuffers THEN Fresh("direct", Whole, 0)
                              ELSE Unused]
  /\ held = HeapBuffers \cup DirectBuffers
  /\ frame = [t \in Threads |-> Outside]
  /\ monitor = NULL
  /\ calls = [t \in Threads |-> 0]

\* The calls of parseFrom with a heap buffer.
InFlight(b)  == {t \in Threads : frame[t].src = b}
Reachable(b) == b \in held \/ \E t \in Threads : b \in {frame[t].src, frame[t].dst}

-----------------------------------------------------------------------------
\* A call begins; src is the heap buffer it is to copy, and calls with the same
\* one know of each other.
Begin(t, at, src, dst) ==
  /\ frame[t] = Outside
  /\ calls[t] < MaxCalls
  /\ calls' = [calls EXCEPT ![t] = @ + 1]
  /\ LET others == IF src = NULL THEN {} ELSE InFlight(src) IN
     frame' = [u \in Threads |->
       IF u = t THEN [Outside EXCEPT !.at = at, !.src = src, !.dst = dst, !.shared = others # {}]
       ELSE IF u \in others THEN [frame[u] EXCEPT !.shared = TRUE] ELSE frame[u]]
  /\ UNCHANGED <<held, monitor>>

\* original.rewind(), behind allocateDirect(original.capacity())
Rewind(b) == [buf EXCEPT ![b].pos = 0]

\* parseFrom of a heap buffer that does not rewind it first.
ParseHeapAsIs(t, b, copy) ==
  /\ b \in held /\ buf[b].mem = "heap"
  /\ buf[copy].mem = "none" /\ ~Reachable(copy)
  /\ Begin(t, "put", b, copy)
  /\ buf' = [buf EXCEPT ![copy] = Fresh("direct", Zeros, 0)]

\* parseFrom with its test of isDirect the wrong way round.
ParseDirect(t, b, copy) ==
  /\ b \in held /\ buf[b].mem # "heap"
  /\ buf[copy].mem = "none" /\ ~Reachable(copy)
  /\ Begin(t, "put", b, copy)
  /\ buf' = [Rewind(b) EXCEPT ![copy] = Fresh("direct", Zeros, 0)]

\* parseFrom of a heap buffer: the copy is made, the original rewound.
ParseHeap(t, b, copy) ==
  /\ b \in held /\ buf[b].mem = "heap"
  /\ buf[copy].mem = "none" /\ ~Reachable(copy)
  /\ Begin(t, "put", b, copy)
  /\ buf' = [Rewind(b) EXCEPT ![copy] = Fresh("direct", Zeros, 0)]

\* bufDirectCopy.put(original) reads original's position and limit,
Put(t) ==
  LET f == frame[t]  src == buf[f.src]  n == src.lim - src.pos IN
  /\ f.at = "put"
  /\ buf' = [buf EXCEPT ![f.dst].bytes = [i \in 1..Cap |-> IF i <= n THEN src.bytes[src.pos + i] ELSE 0],
                        ![f.dst].pos = n]
  /\ frame' = [frame EXCEPT ![t].at = "advance"]
  /\ UNCHANGED <<held, monitor, calls>>

\* and in the end puts original's position there.
Advance(t) ==
  LET f == frame[t] IN
  /\ f.at = "advance"
  /\ buf' = [buf EXCEPT ![f.src].pos = buf[f.src].lim]
  /\ frame' = [frame EXCEPT ![t].at = "rewind"]
  /\ UNCHANGED <<held, monitor, calls>>

\* parseFrom that does not rewind the original again.
FlipOnly(t) ==
  LET f == frame[t] IN
  /\ f.at = "rewind"
  /\ buf' = [buf EXCEPT ![f.dst].lim = buf[f.dst].pos, ![f.dst].pos = 0]
  /\ frame' = [frame EXCEPT ![t].at = "decode"]
  /\ UNCHANGED <<held, monitor, calls>>

\* original.rewind(), bufDirectCopy.flip()
RewindAndFlip(t) ==
  LET f == frame[t] IN
  /\ f.at = "rewind"
  /\ buf' = [Rewind(f.src) EXCEPT ![f.dst].lim = buf[f.dst].pos, ![f.dst].pos = 0]
  /\ frame' = [frame EXCEPT ![t].at = "decode"]
  /\ UNCHANGED <<held, monitor, calls>>

\* parseFrom(bytes), which flips its copy, and UastMethods.decode, which does not.
CopyAndDecode(t, copy, pos) ==
  /\ buf[copy].mem = "none" /\ ~Reachable(copy)
  /\ Begin(t, "decode", NULL, copy)
  /\ buf' = [buf EXCEPT ![copy] = Fresh("direct", Whole, pos)]

\* parseFrom of a direct buffer, or BblfshClient.decode of any.
DecodeAsIs(t, b) ==
  /\ b \in held
  /\ Begin(t, "decode", NULL, b)
  /\ UNCHANGED buf

-----------------------------------------------------------------------------
\* BblfshClient.decode refuses a heap buffer.
Refuse(t) ==
  /\ frame[t].at = "decode" /\ monitor = NULL
  /\ buf[frame[t].dst].mem = "heap"
  /\ frame' = [frame EXCEPT ![t] = Outside]
  /\ UNCHANGED <<buf, held, monitor, calls>>

\* Libuast.decode: GetDirectBufferAddress, GetDirectBufferCapacity
Decode(t) ==
  /\ frame[t].at = "decode" /\ monitor = NULL
  /\ buf[frame[t].dst].mem # "heap"
  /\ monitor' = t
  /\ frame' = [frame EXCEPT ![t].at = "reading"]
  /\ UNCHANGED <<buf, held, calls>>

\* decode that takes what is between position and limit.
DecodeRemaining(t) ==
  LET b == buf[frame[t].dst] IN
  /\ frame[t].at = "reading"
  /\ monitor' = NULL
  /\ frame' = [frame EXCEPT ![t].at = "returned", ![t].dst = NULL,
                            ![t].got = [i \in 1..Cap |-> IF b.pos + i <= b.lim THEN b.bytes[b.pos + i] ELSE 0]]
  /\ UNCHANGED <<buf, held, calls>>

\* decode that keeps a reference to the buffer it has read.
DecodePins(t) ==
  /\ frame[t].at = "reading"
  /\ monitor' = NULL
  /\ held' = held \cup {frame[t].dst}
  /\ frame' = [frame EXCEPT ![t].at = "returned", ![t].dst = NULL,
                            ![t].got = buf[frame[t].dst].bytes]
  /\ UNCHANGED <<buf, calls>>

\* uast::Decode has read the bytes: a context, or an exception.
DecodeReturns(t) ==
  /\ frame[t].at = "reading"
  /\ monitor' = NULL
  /\ frame' = [frame EXCEPT ![t].at = "returned", ![t].dst = NULL,
                            ![t].got = buf[frame[t].dst].bytes]
  /\ UNCHANGED <<buf, held, calls>>

Return(t) ==
  /\ frame[t].at = "returned"
  /\ frame' = [frame EXCEPT ![t] = Outside]
  /\ UNCHANGED <<buf, held, monitor, calls>>

-----------------------------------------------------------------------------
\* toByteBuffer that hands out memory of the context it disposes of.
EncodeInContext(t, b, keep) ==
  /\ buf[b].mem = "none" /\ ~Reachable(b)
  /\ frame[t] = Outside /\ calls[t] < MaxCalls
  /\ calls' = [calls EXCEPT ![t] = @ + 1]
  /\ buf' = [buf EXCEPT ![b] = Unused]
  /\ held' = IF keep THEN held \cup {b} ELSE held
  /\ UNCHANGED <<frame, monitor>>

\* toByteBuffer; toByteArray copies the bytes and drops the buffer.
Encode(t, b, keep) ==
  /\ buf[b].mem = "none" /\ ~Reachable(b)
  /\ frame[t] = Outside /\ calls[t] < MaxCalls
  /\ calls' = [calls EXCEPT ![t] = @ + 1]
  /\ buf' = [buf EXCEPT ![b] = Fresh("malloc", Whole, 0)]
  /\ held' = IF keep THEN held \cup {b} ELSE held
  /\ UNCHANGED <<frame, monitor>>

\* The application sets the position and the limit of a buffer.
Move(b, pos, lim) ==
  /\ b \in held /\ InFlight(b) = {} /\ pos <= lim
  /\ buf' = [buf EXCEPT ![b].pos = pos, ![b].lim = lim]
  /\ UNCHANGED <<held, frame, monitor, calls>>

Drop(b) ==
  /\ held' = held \ {b}
  /\ UNCHANGED <<buf, frame, monitor, calls>>

\* The collector; UastMethods.decode asks for it.  NewDirectByteBuffer gives a
\* buffer no cleaner: its memory stays.
Collect(b) ==
  /\ buf[b].mem \in {"heap", "direct", "malloc"} /\ ~Reachable(b)
  /\ buf' = [buf EXCEPT ![b] = [Unused EXCEPT !.mem = IF buf[b].mem = "malloc" THEN "leaked" ELSE "none"]]
  /\ UNCHANGED <<held, frame, monitor, calls>>

GoOn(t) ==
  \/ Put(t) \/ Advance(t) \/ RewindAndFlip(t)
  \/ Refuse(t) \/ Decode(t) \/ DecodeReturns(t) \/ Return(t)

Call(t) ==
  \E b \in Buffers :
    \/ \E src \in Buffers : ParseHeap(t, src, b)
    \/ \E pos \in {0, Cap} : CopyAndDecode(t, b, pos)
    \/ DecodeAsIs(t, b)
    \/ \E keep \in BOOLEAN : Encode(t, b, keep)

Next ==
  \/ \E t \in Threads : Call(t) \/ GoOn(t)
  \/ \E b \in Buffers : Drop(b) \/ Collect(b) \/ \E pos, lim \in 0..Cap : Move(b, pos, lim)

Fairness == (\A t \in Threads : WF_vars(GoOn(t))) /\ (\A b \in Buffers : WF_vars(Collect(b)))

Spec == Init /\ [][Next]_vars /\ Fairness

-----------------------------------------------------------------------------
(***************************************************************************)
(* Properties.                                                             *)
(***************************************************************************)
FromHeap(t) == frame[t].src # NULL

\* What decode reads of the buffer a call was given: of a heap buffer all up to
\* its limit, of anything else all there is.
Expected(t) == IF FromHeap(t) THEN Upto(buf[frame[t].src].lim) ELSE Whole

\* Whatever the position of a buffer and the limit of a direct one are, decode
\* gets the bytes it should, unless two calls of parseFrom have one buffer.
InputComplete ==
  \A t \in Threads : frame[t].at = "returned" /\ ~frame[t].shared => frame[t].got = Expected(t)

\* Two calls of parseFrom with one heap buffer can lose its bytes, all of them:
\* the one copies behind the position the other left.  No call gets a part.
InputWholeOrEmpty ==
  \A t \in Threads : frame[t].at = "returned" => frame[t].got \in {Expected(t), Zeros}

\* A heap buffer in the hands of calls has position 0, or one of them is
\* between put() and its second rewind(): the last to go leaves it rewound.
LeftRewound ==
  \A t \in Threads : FromHeap(t) /\ buf[frame[t].src].pos # 0 =>
    \E u \in InFlight(frame[t].src) : frame[u].at = "rewind"

\* The bytes of a buffer the application has stay, whatever the calls that come
\* after do to other buffers and to its own position and limit.
HeldBytesStay == \A b \in held : buf[b].mem \in {"heap", "direct", "malloc"} /\ buf[b].bytes = Whole

\* Every direct copy parseFrom made of a heap buffer is freed in the end.
CopiesFreed ==
  \A b \in Buffers : buf[b].mem = "direct" /\ b \notin held ~> buf[b].mem = "none"
=============================================================================
