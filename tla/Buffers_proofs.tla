---------------------------- MODULE Buffers_proofs ----------------------------
(***************************************************************************)
(* Buffers for any threads, buffers and capacity: what decode gets to read *)
(* and how parseFrom leaves its caller's buffer.                           *)
(***************************************************************************)
EXTENDS Buffers, TLAPS

BufferRecord == [mem : Memory, bytes : Bytes, pos : 0..Cap, lim : 0..Cap]
FrameRecord  == [at : Places, src : HeapBuffers \cup {NULL}, dst : Buffers \cup {NULL},
                 shared : BOOLEAN, got : Bytes]

Copying == {"put", "advance", "rewind"}
Filled  == {"advance", "rewind", "decode", "reading"}

HeapKept == \A b \in Buffers : buf[b].mem = "heap" => b \in HeapBuffers

\* The copy a call is making is nobody else's.
Own(t) ==
  frame[t].at \in Copying =>
    /\ frame[t].dst \in Buffers /\ frame[t].dst \notin held
    /\ buf[frame[t].dst].mem = "direct"
    /\ frame[t].at = "put" => buf[frame[t].dst].lim = Cap
    /\ \A u \in Threads \ {t} : frame[u].dst # frame[t].dst

\* Nobody else copies the buffer of a call that is not shared.
Alone(t) ==
  frame[t].src # NULL /\ ~frame[t].shared =>
    \A u \in Threads : frame[u].src = frame[t].src => u = t

\* The position of a buffer that is copied is at one end.
Source(t) ==
  /\ frame[t].at \in Copying => frame[t].src # NULL
  /\ frame[t].src # NULL =>
       /\ buf[frame[t].src].mem = "heap"
       /\ buf[frame[t].src].bytes = Whole
       /\ buf[frame[t].src].pos \in {0, buf[frame[t].src].lim}

Good(t, bytes) == bytes \in {Expected(t), Zeros} /\ (~frame[t].shared => bytes = Expected(t))

Input(t) ==
  frame[t].at \in Filled => frame[t].dst \in Buffers /\ Good(t, buf[frame[t].dst].bytes)

Result(t) == frame[t].at = "returned" => Good(t, frame[t].got)

Sound(t) == Own(t) /\ Alone(t) /\ Source(t) /\ Input(t) /\ Result(t)

Inv == TypeOK /\ HeapKept /\ HeldBytesStay /\ LeftRewound /\ \A t \in Threads : Sound(t)

-----------------------------------------------------------------------------
LEMMA Strings ==
  /\ Whole \in Bytes /\ Zeros \in Bytes
  /\ \A n \in 0..Cap : Upto(n) \in Bytes
  /\ Upto(Cap) = Whole /\ Upto(0) = Zeros
BY Bounds DEF Bytes, Whole, Zeros, Upto

LEMMA InitInv == Init => Inv
<1> SUFFICES ASSUME Init PROVE Inv
  OBVIOUS
<1>1. buf \in [Buffers -> BufferRecord]
  BY Bounds, Strings DEF Init, BufferRecord, Memory, Fresh, Unused
<1>2. frame \in [Threads -> FrameRecord]
  BY Strings DEF Init, FrameRecord, Outside, Places
<1>3. TypeOK
  BY <1>1, <1>2, Bounds, GivenBuffers DEF Init, TypeOK, BufferRecord, FrameRecord, Fresh, Unused
<1>4. HeapKept /\ HeldBytesStay
  BY GivenBuffers DEF Init, HeapKept, HeldBytesStay, Fresh, Unused
<1>5. \A t \in Threads : frame[t] = Outside
  BY DEF Init
<1>6. LeftRewound /\ \A t \in Threads : Sound(t)
  BY <1>5 DEF LeftRewound, FromHeap, Outside, Sound, Own, Alone, Source, Input, Result, Copying, Filled
<1> QED
  BY <1>3, <1>4, <1>6 DEF Inv

\* What a step must leave alone for a thread it is not a step of.
LEMMA Elsewhere ==
  ASSUME Inv, NEW u \in Threads,
         /\ frame'[u].at = frame[u].at /\ frame'[u].src = frame[u].src
         /\ frame'[u].dst = frame[u].dst /\ frame'[u].got = frame[u].got,
         frame[u].shared => frame'[u].shared,
         frame[u].at \in Copying =>
           /\ frame[u].dst \notin held' /\ buf'[frame[u].dst].lim = buf[frame[u].dst].lim
           /\ \A v \in Threads \ {u} : frame'[v].dst # frame[u].dst,
         frame[u].src # NULL /\ ~frame'[u].shared =>
           \A v \in Threads \ {u} : frame'[v].src # frame[u].src,
         frame[u].src # NULL =>
           /\ buf'[frame[u].src].mem = buf[frame[u].src].mem
           /\ buf'[frame[u].src].bytes = buf[frame[u].src].bytes
           /\ buf'[frame[u].src].lim = buf[frame[u].src].lim
           /\ buf'[frame[u].src].pos \in {0, buf[frame[u].src].pos, buf[frame[u].src].lim},
         frame[u].dst # NULL =>
           /\ buf'[frame[u].dst].mem = buf[frame[u].dst].mem
           /\ buf'[frame[u].dst].bytes = buf[frame[u].dst].bytes
  PROVE  Sound(u)'
<1>0. Sound(u) /\ (frame[u].dst \in Buffers => frame[u].dst # NULL)
  BY NullIsNone DEF Inv
<1>1. Own(u)' /\ Alone(u)' /\ Source(u)'
  <2>1. Own(u)'
    <3>1. SUFFICES ASSUME frame[u].at \in Copying PROVE Own(u)'
      BY DEF Own
    <3>2. /\ frame[u].dst \in Buffers /\ frame[u].dst # NULL /\ buf[frame[u].dst].mem = "direct"
          /\ frame[u].at = "put" => buf[frame[u].dst].lim = Cap
      BY <1>0, <3>1 DEF Sound, Own
    <3> QED
      BY <3>1, <3>2 DEF Own
  <2>2. Alone(u)'
    BY DEF Alone
  <2>3. Source(u)'
    BY <1>0 DEF Sound, Source
  <2> QED
    BY <2>1, <2>2, <2>3
<1>2. Expected(u)' = Expected(u)
  BY DEF Expected, FromHeap, Upto, Whole
<1>3. \A b : Good(u, b) => Good(u, b)'
  BY <1>2 DEF Good, Zeros
<1>4. Input(u)'
  BY <1>0, <1>3 DEF Sound, Input, Good
<1>5. Result(u)'
  BY <1>0, <1>3 DEF Sound, Result, Good
<1> QED
  BY <1>1, <1>4, <1>5 DEF Sound

\* No position leaves 0, and who is between put() and rewind() stays there.
LEMMA StillRewound ==
  ASSUME Inv,
         \A u \in Threads : frame'[u].src # NULL /\ buf'[frame'[u].src].pos # 0 =>
           frame'[u].src = frame[u].src /\ buf[frame[u].src].pos # 0,
         \A u \in Threads : frame[u].at = "rewind" =>
           frame'[u].at = "rewind" /\ frame'[u].src = frame[u].src
  PROVE  LeftRewound'
<1> SUFFICES ASSUME NEW u \in Threads, FromHeap(u)', buf'[frame'[u].src].pos # 0
             PROVE  \E v \in Threads : frame'[v].src = frame'[u].src /\ frame'[v].at = "rewind"
  BY DEF LeftRewound, InFlight
<1>1. FromHeap(u) /\ buf[frame[u].src].pos # 0 /\ frame'[u].src = frame[u].src
  BY DEF FromHeap
<1>2. PICK v \in Threads : frame[v].src = frame[u].src /\ frame[v].at = "rewind"
  BY <1>1 DEF Inv, LeftRewound, InFlight
<1> QED
  BY <1>1, <1>2

-----------------------------------------------------------------------------
\* The start of a call.
LEMMA BeginFacts ==
  ASSUME Inv, NEW t \in Threads, NEW place \in Places, NEW src \in HeapBuffers \cup {NULL},
         NEW dst \in Buffers, Begin(t, place, src, dst)
  PROVE  /\ frame[t] = Outside /\ held' = held /\ monitor' = monitor
         /\ frame' \in [Threads -> FrameRecord]
         /\ calls' \in [Threads -> 0..MaxCalls]
         /\ frame'[t].at = place /\ frame'[t].src = src /\ frame'[t].dst = dst
         /\ src # NULL /\ ~frame'[t].shared => \A u \in Threads : frame[u].src # src
         /\ \A u \in Threads \ {t} :
              /\ frame'[u].at = frame[u].at /\ frame'[u].src = frame[u].src
              /\ frame'[u].dst = frame[u].dst /\ frame'[u].got = frame[u].got
              /\ frame[u].shared => frame'[u].shared
              /\ src # NULL /\ frame[u].src = src => frame'[u].shared
<1> DEFINE others == IF src = NULL THEN {} ELSE InFlight(src)
<1>1. /\ frame[t] = Outside /\ held' = held /\ monitor' = monitor
      /\ calls[t] < MaxCalls /\ calls' = [calls EXCEPT ![t] = @ + 1]
      /\ frame \in [Threads -> FrameRecord] /\ calls \in [Threads -> 0..MaxCalls]
  BY DEF Begin, Inv, TypeOK, FrameRecord
<1>2. frame' = [u \in Threads |->
         IF u = t THEN [Outside EXCEPT !.at = place, !.src = src, !.dst = dst, !.shared = others # {}]
         ELSE IF u \in others THEN [frame[u] EXCEPT !.shared = TRUE] ELSE frame[u]]
  BY DEF Begin
<1>3. frame'[t] = [at |-> place, src |-> src, dst |-> dst, shared |-> others # {}, got |-> Zeros]
  BY <1>2 DEF Outside
<1>4. \A u \in Threads \ {t} :
        frame'[u] = IF u \in others THEN [frame[u] EXCEPT !.shared = TRUE] ELSE frame[u]
  BY <1>2
<1>5. \A u \in Threads \ {t} :
        /\ frame'[u] \in FrameRecord
        /\ frame'[u].at = frame[u].at /\ frame'[u].src = frame[u].src
        /\ frame'[u].dst = frame[u].dst /\ frame'[u].got = frame[u].got
        /\ frame[u].shared => frame'[u].shared
        /\ u \in others => frame'[u].shared
  <2> SUFFICES ASSUME NEW u \in Threads \ {t}
               PROVE  /\ frame'[u] \in FrameRecord
                      /\ frame'[u].at = frame[u].at /\ frame'[u].src = frame[u].src
                      /\ frame'[u].dst = frame[u].dst /\ frame'[u].got = frame[u].got
                      /\ frame[u].shared => frame'[u].shared
                      /\ u \in others => frame'[u].shared
    OBVIOUS
  <2>1. frame[u] \in FrameRecord
    BY <1>1
  <2>2. CASE u \in others
    <3>1. frame'[u] = [frame[u] EXCEPT !.shared = TRUE]
      BY <1>4, <2>2
    <3> QED
      BY <2>1, <3>1 DEF FrameRecord
  <2>3. CASE u \notin others
    BY <1>4, <2>1, <2>3
  <2> QED
    BY <2>2, <2>3
<1>6. frame'[t] \in FrameRecord
  BY <1>3, Strings DEF FrameRecord
<1>7. \A u \in Threads : frame'[u] \in FrameRecord
  BY <1>5, <1>6
<1>8. frame' \in [Threads -> FrameRecord]
  BY <1>2, <1>7
<1>9. calls' \in [Threads -> 0..MaxCalls]
  BY <1>1, Bounds
<1>10. \A u \in Threads : src # NULL => (u \in others <=> frame[u].src = src)
  BY DEF InFlight
<1>11. src # NULL /\ ~frame'[t].shared => \A u \in Threads : frame[u].src # src
  <2>1. frame'[t].shared = (others # {})
    BY <1>3
  <2> HIDE DEF others
  <2>2. ASSUME src # NULL, NEW u \in Threads, frame[u].src = src PROVE frame'[t].shared
    <3>1. u \in others
      BY <1>10, <2>2
    <3> QED
      BY <2>1, <3>1, Zenon
  <2> QED
    BY <2>2
<1>12. \A u \in Threads \ {t} : src # NULL /\ frame[u].src = src => frame'[u].shared
  BY <1>5, <1>10
<1> QED
  BY <1>1, <1>3, <1>5, <1>8, <1>9, <1>11, <1>12

\* The others, when a call begins whose dst is not the copy of another call.
LEMMA BeginOthers ==
  ASSUME Inv, NEW t \in Threads, NEW place \in Places, NEW src \in HeapBuffers \cup {NULL},
         NEW dst \in Buffers, Begin(t, place, src, dst),
         \A u \in Threads \ {t} : frame[u].at \in Copying => frame[u].dst # dst,
         \A b \in Buffers : Reachable(b) =>
           /\ buf'[b].mem = buf[b].mem /\ buf'[b].bytes = buf[b].bytes
           /\ buf'[b].lim = buf[b].lim /\ buf'[b].pos \in {0, buf[b].pos},
         NEW u \in Threads \ {t}
  PROVE  Sound(u)'
<1>1. /\ held' = held
      /\ frame'[t].src = src /\ frame'[t].dst = dst
      /\ src # NULL /\ frame[u].src = src => frame'[u].shared
      /\ \A v \in Threads \ {t} :
           /\ frame'[v].at = frame[v].at /\ frame'[v].src = frame[v].src
           /\ frame'[v].dst = frame[v].dst /\ frame'[v].got = frame[v].got
           /\ frame[v].shared => frame'[v].shared
  BY BeginFacts
<1>2. frame[u] \in FrameRecord /\ HeapBuffers \subseteq Buffers /\ Sound(u)
  BY GivenBuffers DEF Inv, TypeOK, FrameRecord
<1>3. frame[u].dst # NULL => frame[u].dst \in Buffers /\ Reachable(frame[u].dst)
  BY <1>2 DEF FrameRecord, Reachable
<1>4. frame[u].src # NULL => frame[u].src \in Buffers /\ Reachable(frame[u].src)
  BY <1>2 DEF FrameRecord, Reachable
<1>5. frame[u].at \in Copying =>
        /\ frame[u].dst \notin held' /\ buf'[frame[u].dst].lim = buf[frame[u].dst].lim
        /\ \A v \in Threads \ {u} : frame'[v].dst # frame[u].dst
  <2>1. frame[u].at \in Copying => frame[u].dst # NULL
    BY <1>2, NullIsNone DEF Sound, Own
  <2> QED
    BY <1>1, <1>2, <1>3, <2>1 DEF Sound, Own
<1>6. frame[u].src # NULL /\ ~frame'[u].shared =>
        \A v \in Threads \ {u} : frame'[v].src # frame[u].src
  BY <1>1, <1>2 DEF Sound, Alone
<1>7. frame[u].src # NULL =>
        /\ buf'[frame[u].src].mem = buf[frame[u].src].mem
        /\ buf'[frame[u].src].bytes = buf[frame[u].src].bytes
        /\ buf'[frame[u].src].lim = buf[frame[u].src].lim
        /\ buf'[frame[u].src].pos \in {0, buf[frame[u].src].pos, buf[frame[u].src].lim}
  BY <1>4
<1>8. frame[u].dst # NULL =>
        /\ buf'[frame[u].dst].mem = buf[frame[u].dst].mem
        /\ buf'[frame[u].dst].bytes = buf[frame[u].dst].bytes
  BY <1>3
<1> QED
  BY <1>1, <1>5, <1>6, <1>7, <1>8, Elsewhere

-----------------------------------------------------------------------------
LEMMA ParseHeapInv ==
  ASSUME Inv, NEW t \in Threads, NEW b \in Buffers, NEW copy \in Buffers, ParseHeap(t, b, copy)
  PROVE  Inv'
<1>1. /\ b \in held /\ buf[b].mem = "heap" /\ b \in HeapBuffers /\ b # NULL
      /\ buf[copy].mem = "none" /\ ~Reachable(copy) /\ copy # NULL /\ b # copy
      /\ Begin(t, "put", b, copy) /\ buf \in [Buffers -> BufferRecord]
      /\ buf[b].bytes = Whole /\ "put" \in Places
  BY NullIsNone DEF ParseHeap, Inv, TypeOK, HeapKept, HeldBytesStay, BufferRecord, Places
<1>2. /\ buf'[copy] = Fresh("direct", Zeros, 0)
      /\ buf'[b] = [buf[b] EXCEPT !.pos = 0]
      /\ \A c \in Buffers \ {b, copy} : buf'[c] = buf[c]
      /\ buf' \in [Buffers -> BufferRecord]
  <2>1. buf' = [[buf EXCEPT ![b] = [buf[b] EXCEPT !.pos = 0]]
                     EXCEPT ![copy] = Fresh("direct", Zeros, 0)]
    BY <1>1 DEF ParseHeap, Rewind
  <2>2. Fresh("direct", Zeros, 0) \in BufferRecord
    BY Bounds, Strings DEF Fresh, BufferRecord, Memory
  <2>3. [buf[b] EXCEPT !.pos = 0] \in BufferRecord
    BY <1>1, Bounds DEF BufferRecord
  <2> QED
    BY <1>1, <2>1, <2>2, <2>3
<1>3. /\ buf'[copy].mem = "direct" /\ buf'[copy].bytes = Zeros
      /\ buf'[copy].pos = 0 /\ buf'[copy].lim = Cap
      /\ buf'[b].mem = "heap" /\ buf'[b].bytes = Whole /\ buf'[b].pos = 0 /\ buf'[b].lim = buf[b].lim
  BY <1>1, <1>2 DEF Fresh, BufferRecord
<1>4. /\ frame[t] = Outside /\ held' = held /\ monitor' = monitor
      /\ frame' \in [Threads -> FrameRecord]
      /\ calls' \in [Threads -> 0..MaxCalls]
      /\ frame'[t].at = "put" /\ frame'[t].src = b /\ frame'[t].dst = copy
      /\ ~frame'[t].shared => \A u \in Threads : frame[u].src # b
      /\ \A u \in Threads \ {t} : /\ frame'[u].at = frame[u].at /\ frame'[u].src = frame[u].src
                                  /\ frame'[u].dst = frame[u].dst
  BY <1>1, BeginFacts
<1>5. \A u \in Threads : frame[u].dst # copy /\ frame[u].src # copy
  BY <1>1 DEF Reachable
<1>6. ASSUME NEW u \in Threads \ {t} PROVE Sound(u)'
  <2>1. \A c \in Buffers : Reachable(c) => /\ buf'[c].mem = buf[c].mem /\ buf'[c].bytes = buf[c].bytes
                                           /\ buf'[c].lim = buf[c].lim /\ buf'[c].pos \in {0, buf[c].pos}
    BY <1>1, <1>2, <1>3
  <2> QED
    BY <1>1, <1>5, <2>1, BeginOthers
<1>7. Sound(t)'
  BY <1>1, <1>3, <1>4, <1>5 DEF Sound, Own, Alone, Source, Input, Result, Copying, Filled, Reachable
<1>8. TypeOK'
  <2>1. \A c \in Buffers : buf'[c].pos <= buf'[c].lim
    BY <1>1, <1>2, <1>3, Bounds DEF Inv, TypeOK, BufferRecord
  <2> QED
    BY <1>2, <1>4, <2>1 DEF Inv, TypeOK, BufferRecord, FrameRecord
<1>9. HeapKept' /\ HeldBytesStay'
  <2>1. HeapKept'
    BY <1>1, <1>2, <1>3 DEF Inv, HeapKept
  <2>2. \A c \in held' : c \in Buffers /\ c # copy /\ c \in held
    BY <1>1, <1>4 DEF Inv, TypeOK, Reachable
  <2>3. \A c \in held' : buf'[c].mem = buf[c].mem /\ buf'[c].bytes = buf[c].bytes
    BY <1>1, <1>2, <1>3, <2>2
  <2> QED
    BY <2>1, <2>2, <2>3 DEF Inv, HeldBytesStay, Whole
<1>10. LeftRewound'
  <2>1. \A u \in Threads : frame'[u].src # NULL /\ buf'[frame'[u].src].pos # 0 =>
          frame'[u].src = frame[u].src /\ buf[frame[u].src].pos # 0
    BY <1>2, <1>3, <1>4, <1>5, GivenBuffers DEF Inv, TypeOK
  <2> QED
    BY <1>4, <2>1, StillRewound DEF Outside
<1> QED
  BY <1>6, <1>7, <1>8, <1>9, <1>10 DEF Inv

LEMMA CopyAndDecodeInv ==
  ASSUME Inv, NEW t \in Threads, NEW copy \in Buffers, NEW pos \in {0, Cap},
         CopyAndDecode(t, copy, pos)
  PROVE  Inv'
<1>1. /\ buf[copy].mem = "none" /\ ~Reachable(copy) /\ copy # NULL
      /\ Begin(t, "decode", NULL, copy) /\ buf \in [Buffers -> BufferRecord]
      /\ "decode" \in Places
  BY NullIsNone DEF CopyAndDecode, Inv, TypeOK, BufferRecord, Places
<1>2. /\ buf'[copy] = Fresh("direct", Whole, pos)
      /\ \A c \in Buffers \ {copy} : buf'[c] = buf[c]
      /\ buf' \in [Buffers -> BufferRecord]
  <2>1. Fresh("direct", Whole, pos) \in BufferRecord
    BY Bounds, Strings DEF Fresh, BufferRecord, Memory
  <2> QED
    BY <1>1, <2>1 DEF CopyAndDecode
<1>3. buf'[copy].mem = "direct" /\ buf'[copy].bytes = Whole /\ buf'[copy].pos = pos /\ buf'[copy].lim = Cap
  BY <1>2 DEF Fresh
<1>4. /\ frame[t] = Outside /\ held' = held /\ monitor' = monitor
      /\ frame' \in [Threads -> FrameRecord]
      /\ calls' \in [Threads -> 0..MaxCalls]
      /\ frame'[t].at = "decode" /\ frame'[t].src = NULL /\ frame'[t].dst = copy
      /\ \A u \in Threads \ {t} : /\ frame'[u].at = frame[u].at /\ frame'[u].src = frame[u].src
                                  /\ frame'[u].dst = frame[u].dst
  BY <1>1, BeginFacts
<1>5. \A u \in Threads : frame[u].dst # copy /\ frame[u].src # copy
  BY <1>1 DEF Reachable
<1>6. ASSUME NEW u \in Threads \ {t} PROVE Sound(u)'
  <2>1. \A c \in Buffers : Reachable(c) => buf'[c] = buf[c]
    BY <1>1, <1>2
  <2> QED
    BY <1>1, <1>5, <2>1, BeginOthers
<1>7. Sound(t)'
  BY <1>3, <1>4 DEF Sound, Own, Alone, Source, Input, Result, Good, Expected, FromHeap,
                    Copying, Filled, Whole
<1>8. TypeOK'
  <2>1. \A c \in Buffers : buf'[c].pos <= buf'[c].lim
    BY <1>1, <1>2, <1>3, Bounds DEF Inv, TypeOK, BufferRecord
  <2> QED
    BY <1>2, <1>4, <2>1 DEF Inv, TypeOK, BufferRecord, FrameRecord
<1>9. HeapKept' /\ HeldBytesStay'
  <2>1. HeapKept'
    BY <1>2, <1>3 DEF Inv, HeapKept
  <2>2. \A c \in held' : c \in Buffers /\ c # copy /\ c \in held
    BY <1>1, <1>4 DEF Inv, TypeOK, Reachable
  <2>3. \A c \in held' : buf'[c].mem = buf[c].mem /\ buf'[c].bytes = buf[c].bytes
    BY <1>2, <2>2
  <2> QED
    BY <2>1, <2>2, <2>3 DEF Inv, HeldBytesStay, Whole
<1>10. LeftRewound'
  <2>1. \A u \in Threads : frame'[u].src # NULL /\ buf'[frame'[u].src].pos # 0 =>
          frame'[u].src = frame[u].src /\ buf[frame[u].src].pos # 0
    BY <1>2, <1>3, <1>4, <1>5, GivenBuffers DEF Inv, TypeOK
  <2> QED
    BY <1>4, <2>1, StillRewound DEF Outside
<1> QED
  BY <1>6, <1>7, <1>8, <1>9, <1>10 DEF Inv

LEMMA DecodeAsIsInv ==
  ASSUME Inv, NEW t \in Threads, NEW b \in Buffers, DecodeAsIs(t, b)
  PROVE  Inv'
<1>1. /\ b \in held /\ b # NULL /\ buf' = buf /\ buf[b].bytes = Whole
      /\ Begin(t, "decode", NULL, b) /\ "decode" \in Places
  BY NullIsNone DEF DecodeAsIs, Inv, HeldBytesStay, Places
<1>2. /\ frame[t] = Outside /\ held' = held /\ monitor' = monitor
      /\ frame' \in [Threads -> FrameRecord]
      /\ calls' \in [Threads -> 0..MaxCalls]
      /\ frame'[t].at = "decode" /\ frame'[t].src = NULL /\ frame'[t].dst = b
      /\ \A u \in Threads \ {t} : /\ frame'[u].at = frame[u].at /\ frame'[u].src = frame[u].src
                                  /\ frame'[u].dst = frame[u].dst
  BY <1>1, BeginFacts
<1>3. ASSUME NEW u \in Threads \ {t} PROVE Sound(u)'
  <2>1. \A v \in Threads : frame[v].at \in Copying => frame[v].dst # b
    BY <1>1 DEF Inv, Sound, Own
  <2> QED
    BY <1>1, <2>1, BeginOthers
<1>4. Sound(t)'
  BY <1>1, <1>2 DEF Sound, Own, Alone, Source, Input, Result, Good, Expected, FromHeap,
                    Copying, Filled, Whole
<1>5. TypeOK' /\ HeapKept' /\ HeldBytesStay'
  BY <1>1, <1>2 DEF Inv, TypeOK, HeapKept, HeldBytesStay, FrameRecord, Whole
<1>6. LeftRewound'
  BY <1>1, <1>2, StillRewound DEF Outside
<1> QED
  BY <1>3, <1>4, <1>5, <1>6 DEF Inv

-----------------------------------------------------------------------------
\* A step of a call, which moves its source's position and writes its copy: the
\* others neither have the copy nor see more of the source than its position.
LEMMA CallOthers ==
  ASSUME Inv, NEW t \in Threads, held' = held, frame[t].dst \in Buffers,
         \A u \in Threads \ {t} : frame'[u] = frame[u],
         frame'[t].src = frame[t].src, frame'[t].dst = frame[t].dst,
         frame[t].at \in Copying \/ buf' = buf,
         \A b \in Buffers \ {frame[t].dst} :
           /\ buf'[b].mem = buf[b].mem /\ buf'[b].bytes = buf[b].bytes
           /\ buf'[b].lim = buf[b].lim /\ buf'[b].pos \in {0, buf[b].pos, buf[b].lim},
         NEW u \in Threads \ {t}
  PROVE  Sound(u)'
<1>1. frame[u] \in FrameRecord /\ HeapBuffers \subseteq Buffers /\ Sound(u) /\ Sound(t)
  BY GivenBuffers DEF Inv, TypeOK, FrameRecord
<1>2. \A b \in Buffers : b # frame[t].dst \/ buf' = buf =>
        /\ buf'[b].mem = buf[b].mem /\ buf'[b].bytes = buf[b].bytes
        /\ buf'[b].lim = buf[b].lim /\ buf'[b].pos \in {0, buf[b].pos, buf[b].lim}
  OBVIOUS
<1>3. frame[u].dst # NULL => frame[u].dst \in Buffers /\ (frame[u].dst # frame[t].dst \/ buf' = buf)
  BY <1>1 DEF Sound, Own, FrameRecord
<1>4. frame[u].src # NULL => frame[u].src \in Buffers /\ (frame[u].src # frame[t].dst \/ buf' = buf)
  BY <1>1 DEF Sound, Own, Source, FrameRecord
<1>5. frame[u].at \in Copying =>
        /\ frame[u].dst \notin held' /\ buf'[frame[u].dst].lim = buf[frame[u].dst].lim
        /\ \A v \in Threads \ {u} : frame'[v].dst # frame[u].dst
  <2>1. frame[u].at \in Copying => frame[u].dst # NULL
    BY <1>1, NullIsNone DEF Sound, Own
  <2> QED
    BY <1>1, <1>2, <1>3, <2>1 DEF Sound, Own
<1>6. frame[u].src # NULL /\ ~frame'[u].shared =>
        \A v \in Threads \ {u} : frame'[v].src # frame[u].src
  BY <1>1 DEF Sound, Alone
<1>7. frame[u].src # NULL =>
        /\ buf'[frame[u].src].mem = buf[frame[u].src].mem
        /\ buf'[frame[u].src].bytes = buf[frame[u].src].bytes
        /\ buf'[frame[u].src].lim = buf[frame[u].src].lim
        /\ buf'[frame[u].src].pos \in {0, buf[frame[u].src].pos, buf[frame[u].src].lim}
  BY <1>2, <1>4
<1>8. frame[u].dst # NULL =>
        /\ buf'[frame[u].dst].mem = buf[frame[u].dst].mem
        /\ buf'[frame[u].dst].bytes = buf[frame[u].dst].bytes
  BY <1>2, <1>3
<1> QED
  BY <1>5, <1>6, <1>7, <1>8, Elsewhere

\* What a call that is making its copy has in hand.
LEMMA CopyingFacts ==
  ASSUME Inv, NEW t \in Threads, frame[t].at \in Copying
  PROVE  LET src == frame[t].src
             dst == frame[t].dst IN
         /\ src \in HeapBuffers /\ src \in Buffers /\ dst \in Buffers /\ src # dst
         /\ src # NULL /\ dst # NULL /\ dst \notin held
         /\ buf[src] \in BufferRecord /\ buf[dst] \in BufferRecord /\ frame[t] \in FrameRecord
         /\ buf[src].mem = "heap" /\ buf[src].bytes = Whole /\ buf[src].pos \in {0, buf[src].lim}
         /\ buf[dst].mem = "direct" /\ (frame[t].at = "put" => buf[dst].lim = Cap)
         /\ \A u \in Threads \ {t} : frame[u].dst # dst
         /\ Expected(t) = Upto(buf[src].lim)
<1>1. Sound(t) /\ frame[t] \in FrameRecord /\ buf \in [Buffers -> BufferRecord]
  BY DEF Inv, TypeOK, FrameRecord, BufferRecord
<1> QED
  BY <1>1, GivenBuffers, NullIsNone DEF Sound, Own, Source, FrameRecord, Expected, FromHeap

LEMMA PutInv ==
  ASSUME Inv, NEW t \in Threads, Put(t)
  PROVE  Inv'
<1> DEFINE s == frame[t].src
           d == frame[t].dst
           n == buf[s].lim - buf[s].pos
           bytes == [i \in 1..Cap |-> IF i <= n THEN buf[s].bytes[buf[s].pos + i] ELSE 0]
<1>1. /\ frame[t].at = "put" /\ frame[t].at \in Copying
      /\ held' = held /\ monitor' = monitor /\ calls' = calls
      /\ frame \in [Threads -> FrameRecord] /\ buf \in [Buffers -> BufferRecord]
  BY DEF Put, Inv, TypeOK, FrameRecord, BufferRecord, Copying
<1>2. /\ s \in HeapBuffers /\ s \in Buffers /\ d \in Buffers /\ s # d
      /\ s # NULL /\ d # NULL /\ d \notin held
      /\ buf[s] \in BufferRecord /\ buf[d] \in BufferRecord /\ frame[t] \in FrameRecord
      /\ buf[s].mem = "heap" /\ buf[s].bytes = Whole /\ buf[s].pos \in {0, buf[s].lim}
      /\ buf[d].mem = "direct" /\ buf[d].lim = Cap
      /\ \A u \in Threads \ {t} : frame[u].dst # d
      /\ Expected(t) = Upto(buf[s].lim)
  BY <1>1, CopyingFacts
<1>3. n \in 0..Cap /\ buf[s].lim \in 0..Cap
  BY <1>2, Bounds DEF BufferRecord
<1>4. /\ buf[s].pos = 0 => bytes = Upto(buf[s].lim)
      /\ buf[s].pos # 0 => bytes = Zeros
  <2>1. CASE buf[s].pos = 0
    <3>1. \A i \in 1..Cap : buf[s].pos + i = i /\ Whole[i] = i
      BY <2>1 DEF Whole
    <3> QED
      BY <1>2, <1>3, <2>1, <3>1 DEF Upto
  <2>2. CASE buf[s].pos # 0
    BY <1>2, <1>3, <2>2, Bounds DEF Zeros
  <2> QED
    BY <2>1, <2>2
<1>5. bytes \in Bytes
  BY <1>3, <1>4, Strings
<1>6. /\ buf' = [buf EXCEPT ![d] = [[buf[d] EXCEPT !.bytes = bytes] EXCEPT !.pos = n]]
      /\ frame' = [frame EXCEPT ![t] = [frame[t] EXCEPT !.at = "advance"]]
  BY DEF Put
<1> HIDE DEF bytes, n
<1>7. /\ buf'[d] = [mem |-> "direct", bytes |-> bytes, pos |-> n, lim |-> Cap]
      /\ \A b \in Buffers \ {d} : buf'[b] = buf[b]
      /\ buf' \in [Buffers -> BufferRecord]
  <2>1. buf'[d] = [mem |-> "direct", bytes |-> bytes, pos |-> n, lim |-> Cap]
    BY <1>1, <1>2, <1>6 DEF BufferRecord
  <2>2. \A b \in Buffers \ {d} : buf'[b] = buf[b]
    BY <1>1, <1>6
  <2>3. buf'[d] \in BufferRecord
    BY <1>3, <1>5, <2>1, Bounds DEF BufferRecord, Memory
  <2> QED
    BY <1>1, <1>6, <2>1, <2>2, <2>3
<1>8. /\ frame'[t].at = "advance" /\ frame'[t].src = s /\ frame'[t].dst = d
      /\ frame'[t].shared = frame[t].shared /\ frame'[t].got = frame[t].got
      /\ \A u \in Threads \ {t} : frame'[u] = frame[u]
      /\ frame' \in [Threads -> FrameRecord]
  BY <1>1, <1>6 DEF FrameRecord, Places
<1>9. ASSUME NEW u \in Threads \ {t} PROVE Sound(u)'
  BY <1>1, <1>2, <1>7, <1>8, CallOthers
<1>10. Sound(t)'
  <2>1. ~frame[t].shared => buf[s].pos = 0
    BY <1>1, <1>2 DEF Inv, Sound, Alone, LeftRewound, FromHeap, InFlight
  <2>2. Expected(t)' = Upto(buf[s].lim)
    BY <1>2, <1>7, <1>8 DEF Expected, FromHeap, Upto
  <2>3. Input(t)'
    BY <1>2, <1>4, <1>7, <1>8, <2>1, <2>2 DEF Input, Good, Zeros
  <2>4. Own(t)' /\ Source(t)' /\ Result(t)'
    BY <1>1, <1>2, <1>7, <1>8 DEF Own, Source, Result, Copying, Whole
  <2>5. Alone(t)'
    BY <1>1, <1>8 DEF Inv, Sound, Alone
  <2> QED
    BY <2>3, <2>4, <2>5 DEF Sound
<1>11. TypeOK'
  <2>1. \A c \in Buffers : buf'[c].pos <= buf'[c].lim
    BY <1>3, <1>7 DEF Inv, TypeOK
  <2> QED
    BY <1>1, <1>7, <1>8, <2>1 DEF Inv, TypeOK, BufferRecord, FrameRecord
<1>12. HeapKept' /\ HeldBytesStay'
  <2>1. \A c \in held' : c \in Buffers /\ c # d /\ c \in held
    BY <1>1, <1>2 DEF Inv, TypeOK
  <2> QED
    BY <1>7, <2>1 DEF Inv, HeapKept, HeldBytesStay, Whole
<1>13. LeftRewound'
  <2>1. \A u \in Threads : frame'[u].src = frame[u].src
    BY <1>8
  <2>2. \A u \in Threads : frame[u].src # NULL => frame[u].src \in Buffers /\ frame[u].src # d
    BY <1>2, GivenBuffers DEF Inv, TypeOK, Sound, Source
  <2>3. \A u \in Threads : frame'[u].src # NULL /\ buf'[frame'[u].src].pos # 0 =>
          frame'[u].src = frame[u].src /\ buf[frame[u].src].pos # 0
    BY <1>7, <2>1, <2>2
  <2>4. \A u \in Threads : frame[u].at = "rewind" =>
          frame'[u].at = "rewind" /\ frame'[u].src = frame[u].src
    BY <1>1, <1>8
  <2> QED
    BY <2>3, <2>4, StillRewound
<1> QED
  BY <1>9, <1>10, <1>11, <1>12, <1>13 DEF Inv

LEMMA AdvanceInv ==
  ASSUME Inv, NEW t \in Threads, Advance(t)
  PROVE  Inv'
<1> DEFINE s == frame[t].src
           d == frame[t].dst
<1>1. /\ frame[t].at = "advance" /\ frame[t].at \in Copying
      /\ held' = held /\ monitor' = monitor /\ calls' = calls
      /\ frame \in [Threads -> FrameRecord] /\ buf \in [Buffers -> BufferRecord]
  BY DEF Advance, Inv, TypeOK, FrameRecord, BufferRecord, Copying
<1>2. /\ s \in HeapBuffers /\ s \in Buffers /\ d \in Buffers /\ s # d
      /\ s # NULL /\ d # NULL /\ d \notin held
      /\ buf[s] \in BufferRecord /\ buf[d] \in BufferRecord /\ frame[t] \in FrameRecord
      /\ buf[s].mem = "heap" /\ buf[s].bytes = Whole /\ buf[d].mem = "direct"
      /\ \A u \in Threads \ {t} : frame[u].dst # d
  BY <1>1, CopyingFacts
<1>3. /\ buf' = [buf EXCEPT ![s] = [buf[s] EXCEPT !.pos = buf[s].lim]]
      /\ frame' = [frame EXCEPT ![t] = [frame[t] EXCEPT !.at = "rewind"]]
  BY DEF Advance
<1>4. /\ buf'[s] = [mem |-> "heap", bytes |-> Whole, pos |-> buf[s].lim, lim |-> buf[s].lim]
      /\ \A b \in Buffers \ {s} : buf'[b] = buf[b]
      /\ buf' \in [Buffers -> BufferRecord]
  <2>1. buf'[s] = [mem |-> "heap", bytes |-> Whole, pos |-> buf[s].lim, lim |-> buf[s].lim]
    BY <1>1, <1>2, <1>3 DEF BufferRecord
  <2>2. buf'[s] \in BufferRecord
    BY <1>2, <2>1 DEF BufferRecord
  <2> QED
    BY <1>1, <1>3, <2>1, <2>2
<1>5. /\ frame'[t].at = "rewind" /\ frame'[t].src = s /\ frame'[t].dst = d
      /\ frame'[t].shared = frame[t].shared /\ frame'[t].got = frame[t].got
      /\ \A u \in Threads \ {t} : frame'[u] = frame[u]
      /\ frame' \in [Threads -> FrameRecord]
  BY <1>1, <1>3 DEF FrameRecord, Places
<1>6. ASSUME NEW u \in Threads \ {t} PROVE Sound(u)'
  BY <1>1, <1>2, <1>4, <1>5, CallOthers
<1>7. Sound(t)'
  <2>1. Expected(t)' = Expected(t)
    BY <1>2, <1>4, <1>5 DEF Expected, FromHeap, Upto
  <2>2. Input(t)'
    BY <1>1, <1>2, <1>4, <1>5, <2>1 DEF Inv, Sound, Input, Good, Zeros, Filled
  <2>3. Own(t)'
    BY <1>1, <1>2, <1>4, <1>5 DEF Own, Copying
  <2>4. Source(t)'
    <3>1. /\ buf'[frame'[t].src].mem = "heap" /\ buf'[frame'[t].src].bytes = Whole
          /\ buf'[frame'[t].src].pos \in {0, buf'[frame'[t].src].lim}
      BY <1>4, <1>5
    <3> QED
      BY <1>2, <1>5, <3>1 DEF Source, Whole
  <2>5. Result(t)' /\ Alone(t)'
    BY <1>1, <1>5 DEF Inv, Sound, Alone, Result
  <2> QED
    BY <2>2, <2>3, <2>4, <2>5 DEF Sound
<1>8. TypeOK'
  <2>1. \A c \in Buffers : buf'[c].pos <= buf'[c].lim
    BY <1>2, <1>4 DEF Inv, TypeOK, BufferRecord
  <2> QED
    BY <1>1, <1>4, <1>5, <2>1 DEF Inv, TypeOK, BufferRecord, FrameRecord
<1>9. HeapKept' /\ HeldBytesStay'
  <2>1. \A c \in held' : c \in Buffers /\ c \in held
    BY <1>1 DEF Inv, TypeOK
  <2> QED
    BY <1>2, <1>4, <2>1 DEF Inv, HeapKept, HeldBytesStay, Whole
<1>10. LeftRewound'
  <2> SUFFICES ASSUME NEW u \in Threads, FromHeap(u)', buf'[frame'[u].src].pos # 0
               PROVE  \E v \in Threads : frame'[v].src = frame'[u].src /\ frame'[v].at = "rewind"
    BY DEF LeftRewound, InFlight
  <2>1. CASE frame'[u].src = s
    BY <1>5, <2>1
  <2>2. CASE frame'[u].src # s
    <3>1. u # t /\ frame'[u].src = frame[u].src /\ frame[u].src \in Buffers
      BY <1>5, <2>2, GivenBuffers DEF FromHeap, Inv, TypeOK
    <3>2. PICK v \in Threads : frame[v].src = frame[u].src /\ frame[v].at = "rewind"
      BY <1>4, <2>2, <3>1 DEF Inv, LeftRewound, InFlight, FromHeap
    <3> QED
      BY <1>5, <3>1, <3>2
  <2> QED
    BY <2>1, <2>2
<1> QED
  BY <1>6, <1>7, <1>8, <1>9, <1>10 DEF Inv

LEMMA RewindAndFlipInv ==
  ASSUME Inv, NEW t \in Threads, RewindAndFlip(t)
  PROVE  Inv'
<1> DEFINE s == frame[t].src
           d == frame[t].dst
<1>1. /\ frame[t].at = "rewind" /\ frame[t].at \in Copying
      /\ held' = held /\ monitor' = monitor /\ calls' = calls
      /\ frame \in [Threads -> FrameRecord] /\ buf \in [Buffers -> BufferRecord]
  BY DEF RewindAndFlip, Inv, TypeOK, FrameRecord, BufferRecord, Copying
<1>2. /\ s \in HeapBuffers /\ s \in Buffers /\ d \in Buffers /\ s # d
      /\ s # NULL /\ d # NULL /\ d \notin held
      /\ buf[s] \in BufferRecord /\ buf[d] \in BufferRecord /\ frame[t] \in FrameRecord
      /\ buf[s].mem = "heap" /\ buf[s].bytes = Whole /\ buf[d].mem = "direct"
      /\ \A u \in Threads \ {t} : frame[u].dst # d
  BY <1>1, CopyingFacts
<1>3. /\ buf' = [[buf EXCEPT ![s] = [buf[s] EXCEPT !.pos = 0]]
                      EXCEPT ![d] = [[buf[d] EXCEPT !.lim = buf[d].pos] EXCEPT !.pos = 0]]
      /\ frame' = [frame EXCEPT ![t] = [frame[t] EXCEPT !.at = "decode"]]
  BY <1>1, <1>2 DEF RewindAndFlip, Rewind
<1>4. /\ buf'[s] = [mem |-> "heap", bytes |-> Whole, pos |-> 0, lim |-> buf[s].lim]
      /\ buf'[d] = [mem |-> "direct", bytes |-> buf[d].bytes, pos |-> 0, lim |-> buf[d].pos]
      /\ \A b \in Buffers \ {s, d} : buf'[b] = buf[b]
      /\ buf' \in [Buffers -> BufferRecord]
  <2>1. buf'[s] = [mem |-> "heap", bytes |-> Whole, pos |-> 0, lim |-> buf[s].lim]
    BY <1>1, <1>2, <1>3 DEF BufferRecord
  <2>2. buf'[d] = [mem |-> "direct", bytes |-> buf[d].bytes, pos |-> 0, lim |-> buf[d].pos]
    BY <1>1, <1>2, <1>3 DEF BufferRecord
  <2>3. buf'[s] \in BufferRecord /\ buf'[d] \in BufferRecord
    BY <1>2, <2>1, <2>2, Bounds DEF BufferRecord
  <2> QED
    BY <1>1, <1>3, <2>1, <2>2, <2>3
<1>5. /\ frame'[t].at = "decode" /\ frame'[t].src = s /\ frame'[t].dst = d
      /\ frame'[t].shared = frame[t].shared /\ frame'[t].got = frame[t].got
      /\ \A u \in Threads \ {t} : frame'[u] = frame[u]
      /\ frame' \in [Threads -> FrameRecord]
  BY <1>1, <1>3 DEF FrameRecord, Places
<1>6. ASSUME NEW u \in Threads \ {t} PROVE Sound(u)'
  BY <1>1, <1>2, <1>4, <1>5, CallOthers
<1>7. Sound(t)'
  <2>1. Expected(t)' = Expected(t)
    BY <1>2, <1>4, <1>5 DEF Expected, FromHeap, Upto
  <2>2. Input(t)'
    BY <1>1, <1>2, <1>4, <1>5, <2>1 DEF Inv, Sound, Input, Good, Zeros, Filled
  <2>3. Own(t)'
    BY <1>1, <1>2, <1>4, <1>5 DEF Own, Copying
  <2>4. Source(t)'
    <3>1. /\ buf'[frame'[t].src].mem = "heap" /\ buf'[frame'[t].src].bytes = Whole
          /\ buf'[frame'[t].src].pos \in {0, buf'[frame'[t].src].lim}
      BY <1>4, <1>5
    <3> QED
      BY <1>2, <1>5, <3>1 DEF Source, Whole
  <2>5. Result(t)' /\ Alone(t)'
    BY <1>1, <1>5 DEF Inv, Sound, Alone, Result
  <2> QED
    BY <2>2, <2>3, <2>4, <2>5 DEF Sound
<1>8. TypeOK'
  <2>1. \A c \in Buffers : buf'[c].pos <= buf'[c].lim
    BY <1>2, <1>4 DEF Inv, TypeOK, BufferRecord
  <2> QED
    BY <1>1, <1>4, <1>5, <2>1 DEF Inv, TypeOK, BufferRecord, FrameRecord
<1>9. HeapKept' /\ HeldBytesStay'
  <2>1. \A c \in held' : c \in Buffers /\ c \in held /\ c # d
    BY <1>1, <1>2 DEF Inv, TypeOK
  <2> QED
    BY <1>2, <1>4, <2>1 DEF Inv, HeapKept, HeldBytesStay, Whole
<1>10. LeftRewound'
  <2> SUFFICES ASSUME NEW u \in Threads, FromHeap(u)', buf'[frame'[u].src].pos # 0
               PROVE  \E v \in Threads : frame'[v].src = frame'[u].src /\ frame'[v].at = "rewind"
    BY DEF LeftRewound, InFlight
  <2>1. frame'[u].src # s
    BY <1>4
  <2>2. u # t /\ frame'[u].src = frame[u].src /\ frame[u].src \in Buffers /\ frame[u].src # d
    BY <1>2, <1>5, <2>1, GivenBuffers DEF FromHeap, Inv, TypeOK, Sound, Source
  <2>3. PICK v \in Threads : frame[v].src = frame[u].src /\ frame[v].at = "rewind"
    BY <1>4, <2>1, <2>2 DEF Inv, LeftRewound, InFlight, FromHeap
  <2>4. v # t
    BY <2>1, <2>2, <2>3
  <2> QED
    BY <1>5, <2>2, <2>3, <2>4
<1> QED
  BY <1>6, <1>7, <1>8, <1>9, <1>10 DEF Inv

-----------------------------------------------------------------------------
\* A step behind the copying, which changes no buffer.
LEMMA BehindCopying ==
  ASSUME Inv, NEW t \in Threads, frame[t].at \in {"decode", "reading", "returned"},
         buf' = buf, held' = held, calls' = calls, monitor' \in Threads \cup {NULL},
         frame'[t] \in FrameRecord, frame' = [frame EXCEPT ![t] = frame'[t]],
         frame'[t].src \in {frame[t].src, NULL}, frame'[t].dst \in {frame[t].dst, NULL},
         frame'[t].at \in {"scala", "reading", "returned"},
         frame'[t].src # NULL => frame'[t].shared = frame[t].shared,
         frame'[t].at = "reading" => Input(t)', Result(t)'
  PROVE  Inv'
<1>1. /\ frame \in [Threads -> FrameRecord] /\ frame' \in [Threads -> FrameRecord]
      /\ \A u \in Threads \ {t} : frame'[u] = frame[u]
      /\ \A u \in Threads : Sound(u)
  BY DEF Inv, TypeOK, FrameRecord
<1>2. ASSUME NEW u \in Threads \ {t} PROVE Sound(u)'
  <2>1. frame[u].at \in Copying =>
          /\ frame[u].dst \in Buffers /\ frame[u].dst \notin held
          /\ \A v \in Threads \ {u} : frame[v].dst # frame[u].dst
    BY <1>1 DEF Sound, Own
  <2>2. frame[u].at \in Copying => \A v \in Threads \ {u} : frame'[v].dst # frame[u].dst
    BY <1>1, <2>1, NullIsNone
  <2>3. frame[u].src # NULL /\ ~frame'[u].shared =>
          \A v \in Threads \ {u} : frame'[v].src # frame[u].src
    BY <1>1 DEF Sound, Alone
  <2>4. frame'[u] = frame[u]
    BY <1>1
  <2>5. frame[u].src # NULL => buf[frame[u].src].pos \in {0, buf[frame[u].src].pos, buf[frame[u].src].lim}
    OBVIOUS
  <2> QED
    BY <2>1, <2>2, <2>3, <2>4, <2>5, Elsewhere
<1>3. Sound(t)'
  <2>1. Own(t)'
    BY DEF Own, Copying
  <2>2. Alone(t)'
    BY <1>1 DEF Sound, Alone
  <2>3. Source(t)'
    BY <1>1 DEF Sound, Source, Copying, Whole
  <2>4. Input(t)'
    BY DEF Input, Filled
  <2> QED
    BY <2>1, <2>2, <2>3, <2>4 DEF Sound
<1>4. TypeOK' /\ HeapKept' /\ HeldBytesStay'
  BY <1>1 DEF Inv, TypeOK, HeapKept, HeldBytesStay, FrameRecord, Whole
<1>5. LeftRewound'
  <2>1. \A u \in Threads : frame'[u].src # NULL => frame'[u].src = frame[u].src
    BY <1>1
  <2>2. \A u \in Threads : frame[u].at = "rewind" => frame'[u] = frame[u]
    BY <1>1
  <2> QED
    BY <2>1, <2>2, StillRewound
<1> QED
  BY <1>2, <1>3, <1>4, <1>5 DEF Inv

LEMMA BehindInv ==
  ASSUME Inv, NEW t \in Threads,
         Refuse(t) \/ Decode(t) \/ DecodeReturns(t) \/ Return(t)
  PROVE  Inv'
<1>1. /\ frame \in [Threads -> FrameRecord] /\ frame[t] \in FrameRecord
      /\ buf \in [Buffers -> BufferRecord] /\ monitor \in Threads \cup {NULL} /\ Sound(t)
  BY DEF Inv, TypeOK, FrameRecord, BufferRecord
<1>2. CASE Refuse(t) \/ Return(t)
  <2>1. /\ frame[t].at \in {"decode", "returned"} /\ frame' = [frame EXCEPT ![t] = Outside]
        /\ buf' = buf /\ held' = held /\ calls' = calls /\ monitor' = monitor
    BY <1>2 DEF Refuse, Return
  <2>2. /\ frame'[t] = Outside /\ frame'[t].at = "scala" /\ frame'[t].src = NULL /\ frame'[t].dst = NULL
        /\ frame'[t] \in FrameRecord
    BY <1>1, <2>1, Strings DEF Outside, FrameRecord, Places
  <2>3. Result(t)'
    BY <2>2 DEF Result
  <2> QED
    BY <1>1, <2>1, <2>2, <2>3, BehindCopying
<1>3. CASE Decode(t)
  <2>1. /\ frame[t].at = "decode" /\ frame' = [frame EXCEPT ![t] = [frame[t] EXCEPT !.at = "reading"]]
        /\ buf' = buf /\ held' = held /\ calls' = calls /\ monitor' = t
    BY <1>3 DEF Decode
  <2>2. /\ frame'[t] = [frame[t] EXCEPT !.at = "reading"]
        /\ frame'[t].at = "reading" /\ frame'[t].src = frame[t].src /\ frame'[t].dst = frame[t].dst
        /\ frame'[t].shared = frame[t].shared /\ frame'[t] \in FrameRecord
    BY <1>1, <2>1 DEF FrameRecord, Places
  <2>3. Result(t)'
    BY <2>2 DEF Result
  <2>4. Input(t)'
    <3>1. Expected(t)' = Expected(t)
      BY <2>1, <2>2 DEF Expected, FromHeap, Upto, Whole
    <3> QED
      BY <1>1, <2>1, <2>2, <3>1 DEF Sound, Input, Good, Filled, Zeros
  <2> QED
    BY <1>1, <2>1, <2>2, <2>3, <2>4, BehindCopying
<1>4. CASE DecodeReturns(t)
  <2> DEFINE bytes == buf[frame[t].dst].bytes
  <2>1. /\ frame[t].at = "reading" /\ buf' = buf /\ held' = held /\ calls' = calls /\ monitor' = NULL
        /\ frame' = [frame EXCEPT ![t] = [[[frame[t] EXCEPT !.at = "returned"]
                                                      EXCEPT !.dst = NULL] EXCEPT !.got = bytes]]
    BY <1>4 DEF DecodeReturns
  <2>2. Good(t, bytes) /\ bytes \in Bytes
    BY <1>1, <2>1 DEF Sound, Input, Filled, BufferRecord
  <2>3. /\ frame'[t] = [at |-> "returned", src |-> frame[t].src, dst |-> NULL,
                        shared |-> frame[t].shared, got |-> bytes]
    BY <1>1, <2>1 DEF FrameRecord
  <2>4. frame'[t] \in FrameRecord
    BY <1>1, <2>2, <2>3 DEF FrameRecord, Places
  <2>5. Result(t)'
    <3>1. Expected(t)' = Expected(t)
      BY <2>1, <2>3 DEF Expected, FromHeap, Upto, Whole
    <3> QED
      BY <2>2, <2>3, <3>1 DEF Result, Good, Zeros
  <2> QED
    BY <1>1, <2>1, <2>3, <2>4, <2>5, BehindCopying
<1> QED
  BY <1>2, <1>3, <1>4

-----------------------------------------------------------------------------
\* A step that is no call's: it leaves alone what a call can reach but for the
\* position and limit of a buffer nobody copies, from or to.
LEMMA NobodysStep ==
  ASSUME Inv, frame' = frame, monitor' = monitor, calls' \in [Threads -> 0..MaxCalls],
         buf' \in [Buffers -> BufferRecord], held' \subseteq Buffers,
         \A b \in Buffers : buf'[b].pos <= buf'[b].lim,
         \A t \in Threads :
           /\ frame[t].src # NULL => buf'[frame[t].src] = buf[frame[t].src]
           /\ frame[t].dst # NULL => /\ buf'[frame[t].dst].mem = buf[frame[t].dst].mem
                                     /\ buf'[frame[t].dst].bytes = buf[frame[t].dst].bytes
           /\ frame[t].at \in Copying => /\ frame[t].dst \notin held'
                                         /\ buf'[frame[t].dst] = buf[frame[t].dst],
         HeapKept', HeldBytesStay'
  PROVE  Inv'
<1>1. ASSUME NEW u \in Threads PROVE Sound(u)'
  <2>1. frame[u].at \in Copying => \A v \in Threads \ {u} : frame[v].dst # frame[u].dst
    BY DEF Inv, Sound, Own
  <2>2. frame[u].src # NULL /\ ~frame[u].shared =>
          \A v \in Threads \ {u} : frame[v].src # frame[u].src
    BY DEF Inv, Sound, Alone
  <2> QED
    BY <2>1, <2>2, Elsewhere
<1>2. TypeOK'
  BY DEF Inv, TypeOK, BufferRecord
<1>3. LeftRewound'
  BY StillRewound
<1> QED
  BY <1>1, <1>2, <1>3 DEF Inv

LEMMA EncodeInv ==
  ASSUME Inv, NEW t \in Threads, NEW b \in Buffers, NEW keep \in BOOLEAN, Encode(t, b, keep)
  PROVE  Inv'
<1>1. /\ buf[b].mem = "none" /\ ~Reachable(b) /\ b # NULL /\ frame' = frame /\ monitor' = monitor
      /\ calls[t] < MaxCalls /\ calls' = [calls EXCEPT ![t] = @ + 1]
      /\ buf' = [buf EXCEPT ![b] = Fresh("malloc", Whole, 0)]
      /\ held' \subseteq held \cup {b} /\ held \subseteq Buffers
      /\ buf \in [Buffers -> BufferRecord] /\ calls \in [Threads -> 0..MaxCalls]
  BY NullIsNone DEF Encode, Inv, TypeOK, BufferRecord
<1>2. Fresh("malloc", Whole, 0) \in BufferRecord
  BY Bounds, Strings DEF Fresh, BufferRecord, Memory
<1>3. /\ buf'[b] = Fresh("malloc", Whole, 0) /\ buf' \in [Buffers -> BufferRecord]
      /\ \A c \in Buffers \ {b} : buf'[c] = buf[c]
  BY <1>1, <1>2
<1>4. buf'[b].mem = "malloc" /\ buf'[b].bytes = Whole /\ buf'[b].pos = 0 /\ buf'[b].lim = Cap
  BY <1>3 DEF Fresh
<1>5. \A c \in Buffers : buf'[c].pos <= buf'[c].lim
  BY <1>3, <1>4, Bounds DEF Inv, TypeOK
<1>6. \A u \in Threads : /\ frame[u].src # NULL => frame[u].src \in Buffers \ {b}
                         /\ frame[u].dst # NULL => frame[u].dst \in Buffers \ {b}
                         /\ frame[u].at \in Copying => frame[u].dst \in Buffers \ {b} /\ frame[u].dst \notin held
  BY <1>1, GivenBuffers DEF Inv, TypeOK, Reachable, Sound, Own
<1>7. HeapKept'
  BY <1>3, <1>4 DEF Inv, HeapKept
<1>8. HeldBytesStay'
  BY <1>1, <1>3, <1>4 DEF Inv, HeldBytesStay, Whole
<1>9. calls' \in [Threads -> 0..MaxCalls]
  BY <1>1, Bounds
<1> QED
  BY <1>1, <1>3, <1>5, <1>6, <1>7, <1>8, <1>9, NobodysStep

LEMMA MoveInv ==
  ASSUME Inv, NEW b \in Buffers, NEW pos \in 0..Cap, NEW lim \in 0..Cap, Move(b, pos, lim)
  PROVE  Inv'
<1>1. /\ b \in held /\ InFlight(b) = {} /\ pos <= lim /\ frame' = frame /\ monitor' = monitor
      /\ held' = held /\ calls' = calls
      /\ buf' = [buf EXCEPT ![b] = [[buf[b] EXCEPT !.pos = pos] EXCEPT !.lim = lim]]
      /\ buf \in [Buffers -> BufferRecord]
  BY DEF Move, Inv, TypeOK, BufferRecord
<1>2. /\ buf'[b] = [mem |-> buf[b].mem, bytes |-> buf[b].bytes, pos |-> pos, lim |-> lim]
      /\ \A c \in Buffers \ {b} : buf'[c] = buf[c]
  BY <1>1 DEF BufferRecord
<1>3. buf' \in [Buffers -> BufferRecord]
  <2>1. buf'[b] \in BufferRecord
    BY <1>1, <1>2 DEF BufferRecord
  <2> QED
    BY <1>1, <2>1
<1>4. \A c \in Buffers : /\ buf'[c].mem = buf[c].mem /\ buf'[c].bytes = buf[c].bytes
                         /\ buf'[c].pos <= buf'[c].lim
  BY <1>1, <1>2 DEF Inv, TypeOK
<1>5. \A u \in Threads : /\ frame[u].src # NULL => frame[u].src \in Buffers \ {b}
                         /\ frame[u].dst # NULL => frame[u].dst \in Buffers
                         /\ frame[u].at \in Copying => frame[u].dst \in Buffers \ {b} /\ frame[u].dst \notin held
  BY <1>1, GivenBuffers DEF Inv, TypeOK, InFlight, Sound, Own
<1>6. HeapKept' /\ HeldBytesStay'
  <2>1. held' \subseteq Buffers
    BY <1>1 DEF Inv, TypeOK
  <2> QED
    BY <1>1, <1>4, <2>1 DEF Inv, HeapKept, HeldBytesStay, Whole
<1>7. calls' \in [Threads -> 0..MaxCalls] /\ held' \subseteq Buffers
  BY <1>1 DEF Inv, TypeOK
<1> QED
  BY <1>1, <1>2, <1>3, <1>4, <1>5, <1>6, <1>7, NobodysStep

LEMMA DropInv ==
  ASSUME Inv, NEW b \in Buffers, Drop(b)
  PROVE  Inv'
<1>1. /\ held' \subseteq held /\ buf' = buf /\ frame' = frame /\ monitor' = monitor /\ calls' = calls
  BY DEF Drop
<1>2. HeapKept' /\ HeldBytesStay'
  BY <1>1 DEF Inv, HeapKept, HeldBytesStay, Whole
<1>3. /\ calls' \in [Threads -> 0..MaxCalls] /\ held' \subseteq Buffers
      /\ buf' \in [Buffers -> BufferRecord] /\ \A c \in Buffers : buf'[c].pos <= buf'[c].lim
      /\ \A t \in Threads : frame[t].at \in Copying => frame[t].dst \notin held'
  BY <1>1 DEF Inv, TypeOK, BufferRecord, Sound, Own
<1> QED
  BY <1>1, <1>2, <1>3, NobodysStep

LEMMA CollectInv ==
  ASSUME Inv, NEW b \in Buffers, Collect(b)
  PROVE  Inv'
<1> DEFINE left == IF buf[b].mem = "malloc" THEN "leaked" ELSE "none"
<1>1. /\ ~Reachable(b) /\ frame' = frame /\ monitor' = monitor
      /\ held' = held /\ calls' = calls
      /\ buf' = [buf EXCEPT ![b] = [Unused EXCEPT !.mem = left]]
      /\ buf \in [Buffers -> BufferRecord]
  BY DEF Collect, Inv, TypeOK, BufferRecord
<1>2. /\ buf'[b] = [mem |-> left, bytes |-> Zeros, pos |-> 0, lim |-> 0]
      /\ \A c \in Buffers \ {b} : buf'[c] = buf[c]
  BY <1>1 DEF Unused
<1>3. buf' \in [Buffers -> BufferRecord]
  <2>1. buf'[b] \in BufferRecord
    BY <1>2, Bounds, Strings DEF BufferRecord, Memory
  <2> QED
    BY <1>1, <2>1
<1>4. \A c \in Buffers : buf'[c].pos <= buf'[c].lim
  BY <1>2 DEF Inv, TypeOK
<1>5. \A u \in Threads : /\ frame[u].src # NULL => frame[u].src \in Buffers \ {b}
                         /\ frame[u].dst # NULL => frame[u].dst \in Buffers \ {b}
                         /\ frame[u].at \in Copying => frame[u].dst \in Buffers \ {b} /\ frame[u].dst \notin held
  BY <1>1, GivenBuffers DEF Inv, TypeOK, Reachable, Sound, Own
<1>6. HeapKept'
  BY <1>2 DEF Inv, HeapKept
<1>7. HeldBytesStay'
  <2>1. \A c \in held' : c \in held /\ c \in Buffers \ {b}
    BY <1>1 DEF Reachable, Inv, TypeOK
  <2> QED
    BY <1>2, <2>1 DEF Inv, HeldBytesStay, Whole
<1>8. calls' \in [Threads -> 0..MaxCalls] /\ held' \subseteq Buffers
  BY <1>1 DEF Inv, TypeOK
<1> QED
  BY <1>1, <1>2, <1>3, <1>4, <1>5, <1>6, <1>7, <1>8, NobodysStep

-----------------------------------------------------------------------------
LEMMA NextInv == Inv /\ [Next]_vars => Inv'
<1> SUFFICES ASSUME Inv, [Next]_vars PROVE Inv'
  OBVIOUS
<1>1. ASSUME NEW t \in Threads, Call(t) PROVE Inv'
  <2>1. PICK b \in Buffers :
          \/ \E src \in Buffers : ParseHeap(t, src, b)
          \/ \E pos \in {0, Cap} : CopyAndDecode(t, b, pos)
          \/ DecodeAsIs(t, b)
          \/ \E keep \in BOOLEAN : Encode(t, b, keep)
    BY <1>1 DEF Call
  <2> QED
    BY <2>1, ParseHeapInv, CopyAndDecodeInv, DecodeAsIsInv, EncodeInv
<1>2. ASSUME NEW t \in Threads, GoOn(t) PROVE Inv'
  BY <1>2, PutInv, AdvanceInv, RewindAndFlipInv, BehindInv DEF GoOn
<1>3. ASSUME NEW b \in Buffers, Drop(b) \/ Collect(b) \/ \E pos, lim \in 0..Cap : Move(b, pos, lim)
      PROVE  Inv'
  BY <1>3, DropInv, CollectInv, MoveInv
<1>4. CASE UNCHANGED vars
  <2>1. buf' = buf /\ held' = held /\ frame' = frame /\ monitor' = monitor /\ calls' = calls
    BY <1>4 DEF vars
  <2>2. HeapKept' /\ HeldBytesStay'
    BY <2>1 DEF Inv, HeapKept, HeldBytesStay, Whole
  <2>3. /\ calls' \in [Threads -> 0..MaxCalls] /\ held' \subseteq Buffers
        /\ buf' \in [Buffers -> BufferRecord] /\ \A c \in Buffers : buf'[c].pos <= buf'[c].lim
        /\ \A t \in Threads : frame[t].at \in Copying => frame[t].dst \notin held'
    BY <2>1 DEF Inv, TypeOK, BufferRecord, Sound, Own
  <2> QED
    BY <2>1, <2>2, <2>3, NobodysStep
<1> QED
  BY <1>1, <1>2, <1>3, <1>4 DEF Next

LEMMA Invariance == Spec => []Inv
BY InitInv, NextInv, PTL DEF Spec

\* Every buffer and every call keeps its type, and no buffer's position passes
\* its limit.
THEOREM TypeCorrect == Spec => []TypeOK
<1>1. Inv => TypeOK
  BY DEF Inv
<1> QED
  BY <1>1, Invariance, PTL

\* decode gets all the bytes up to the limit of a heap buffer that no other
\* call copies, and all there are of any other.
THEOREM InputIsComplete == Spec => []InputComplete
<1>1. Inv => InputComplete
  BY DEF Inv, Sound, Result, Good, InputComplete
<1> QED
  BY <1>1, Invariance, PTL

\* However many calls copy one buffer, none gets a part of its bytes.
THEOREM NoPartialInput == Spec => []InputWholeOrEmpty
<1>1. Inv => InputWholeOrEmpty
  BY DEF Inv, Sound, Result, Good, InputWholeOrEmpty
<1> QED
  BY <1>1, Invariance, PTL

\* The last call of parseFrom with a buffer leaves it rewound.
THEOREM CallersBufferRewound == Spec => []LeftRewound
<1>1. Inv => LeftRewound
  BY DEF Inv
<1> QED
  BY <1>1, Invariance, PTL

\* The bytes of a buffer the application holds are neither freed nor changed.
THEOREM HeldBytesAreSafe == Spec => []HeldBytesStay
<1>1. Inv => HeldBytesStay
  BY DEF Inv
<1> QED
  BY <1>1, Invariance, PTL
=============================================================================
