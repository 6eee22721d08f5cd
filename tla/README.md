# Verification of bblfsh/scala-client

TLA+ models of the Scala client for Babelfish: the JNI layer that ties Scala
objects to the C++ objects of libuast, the iterators over trees, the trees and
the byte buffers that cross the border, the maps and caches the native code
keeps, and the gRPC client. TLC checks small instances of every model; TLAPS
proves safety properties of each of them for every instance.

Paths below are relative to the repository; `native/` is `src/main/native/`,
`v2/` is `src/main/scala/org/bblfsh/client/v2/`, `Libuast.cc` is
`native/org_bblfsh_client_v2_libuast_Libuast.cc`.

## The system

| Component | State | Operations |
|---|---|---|
| Native lifetime: `ContextExt`, `Context`, `UastIterExt`, `UastIter` (`v2/ContextExt.scala`, `v2/libuast/Libuast.scala`, `Libuast.cc`) | field `nativeContext` of a context, fields `iter`, `ctx`, `node`, `closed` of an iterator, the C++ objects behind them | decode, create, root, load, encode, filter, iterator, hasNext/next, close, dispose, finalize |
| Scala iterator `UastAbstractIter` | `closed`, `nextNode`, `iter` | hasNext, next, close, lookahead, finalize |
| Node store of a JVM `Context` (`Interface`, `Node` in `Libuast.cc`) | `obj2node`, one global reference per `Node` | New*, lookupOrCreate, SetValue/SetKeyValue, destructor |
| JNI caches (`native/jni_utils.*`) | `classCache`, `methodCache`, `exceptionCls`, `exceptToString`, once per translation unit | FindClass, MethodID, checkJvmException, JNI_OnLoad |
| gRPC client (`v2/BblfshClient.scala`) | one channel, two blocking stubs | parse*, version, supportedLanguages, close |
| Node codec and load (`JNode` in `v2/NodeExt.scala`, `Node` and `ContextExt::load` in `Libuast.cc`) | the JNodes of a tree, their global references (one per `Node`), the local references of a native method | load, New*, SetValue, SetKeyValue, encode, kindOf, As*, KeyAt, ValueAt, Size, add |
| Byte buffers (`JNode.parseFrom`, `UastMethods.decode`, `encode`) | position, limit, capacity and memory of a buffer | copy, rewind, flip, decode, encode |
| One-shot helpers (`ResponseMethods.get`, `JNode.decodeFrom`, `toByteBuffer`) | none | decode, root, load, dispose in a row |
| Library loading (`Libuast.loadBinaryLib`) | `loaded`, a file in the temporary directory | once, in a class initialiser |

How they interact. Application threads call native methods, which read a
pointer from a `long` field of the receiver, follow it into C++, and may call
back into the JVM (`hashCode`, `size`, `valueAt`, `add`). A tree comes from the
server as bytes, is decoded into memory of libuast (`ContextExt`), is walked
there by iterators or copied into JNodes (`load`), and goes back through a
`Context`, whose Nodes wrap JNodes while `encode` runs. An iterator keeps its
context reachable through its field `ctx`, a `NodeExt` through its own; when
nothing does, the JVM's finalizer thread calls `dispose()` or `nativeDispose()`
beside the application's threads. Only `BblfshClient.decode` and `filter` take
a lock (the monitor of `Libuast`).

What is hard about it: manual `dispose()` against finalizers in no particular
order; the handle read and the deletion it guards are two steps; an iterator
that closes itself in the middle of a lookahead; native initialisers that
return early; a hash map keyed by mutable objects; unsynchronised caches; objects the
collector may take while C++ builds a tree of them; text and numbers that do
not survive a conversion; a caller's buffer whose position is moved under it;
blocking calls without a deadline. PROJECT.json lists each hazard at its line.

What makes each component correct: no native object is used or deleted after
its end, and each is deleted in the end; the iterator is a Scala iterator; a
JNode has one Node and every Node is freed; a loaded tree is the decoded one
and comes back as it was; a decode reads all the bytes it was given; the caches
do not race and do not leak; a caller of the client gets its control back.

## The modules

**NativeLifetime** models who owns the C++ objects. A context and an iterator
are identities; `nativeContext` and `iter` are Booleans (the field is not 0),
`cxx` tells whether the C++ object is live or deleted, `over` which context an
iterator walks. A JNI method is split where another thread can get in: the read
of the handle (`Borrow`, `Dispose`, `Lookahead`), the use (`UseContext`,
`UseRoot`, `UseForIterator`, `Advance`, `Lookup`), the deletion
(`DeleteContext`, `DeleteIter`) and the clearing of the field (`ClearContext`,
`ZeroIter`); note that `dispose()` deletes before it clears, and
`nativeDispose()` clears before it deletes. `frame[p]` is the stage of thread
`p`; the finalizer thread runs the same deletion steps. `Collect` finds an
object no variable of the application, no running method and no reachable
object refers to. Touching a null or deleted C++ object is undefined behaviour:
the model records it in `fault` and stops. The collector is external; what it
may do is any order of finalizers the reachability rules allow.

The variables `disposed`, `redisposed` and `shared` record what the application
did (disposed of a context, from two threads at once, was in an iterator with
two threads at once). They appear in no guard.

**UastIter** models `UastAbstractIter` with `nativeNext` and `nativeDispose`,
call by call. What the C++ iterator yields is a *script*: nodes, errors and
null nodes in any order. **ScalaIterator** is what an iterator promises:
hasNext() changes nothing, next() takes each element once and in order, an
error is thrown once, null and close() are ends. UastIter implements it under
the mapping *position promised = position of the C++ iterator, less the element
in hand*; *open = not closed*.

**IterHandle** is where the two models of an iterator meet: the C++ iterator and the
flags of its owner, as whoever looks at both sees them. `close()` and the
finalizer give the C++ iterator back in the step that sets `closed` or ends the
finalization, once. UastIter, in which `nativeDispose` is one step, implements
it; so does NativeLifetime for each of its iterators, which clears the handle,
deletes and sets `closed` one after the other. UastIter may therefore take
`nativeDispose` for one step. Where two threads are in one iterator
NativeLifetime allows more (`Overlap`), and UastIter says nothing.

**NodeStore** models `Interface::obj2node`: keys compared by identity and
hashed by contents. The functor `HashByObj` is `noexcept`, so libstdc++ keeps no
hash codes in the map and works with the present hash of each key; one key
that changed can therefore hide others of its chain. The model says: as long as
no key has changed, a find is exact; after that it may find an entry of its key
or miss. `lookupOrCreate` is split between its two finds (`Count`, then `Get` or
`Put`), where another thread may call `add()`. The map itself is used by one
thread at a time: two threads in one context race on it, which is undefined.

If `operator[]` misses what `count()` found, it inserts a null entry whose key
is not the global reference of a Node, as in every other entry, but the caller's
local reference (`Libuast.cc:465`), which `ValueAt` deletes next or the return of
the native method frees. From then on the map has a dead key (a member of
`Refs`), and every lookup may hash and compare it. JNI leaves that undefined; the
model lets a find take such an entry for the one it looks for (another local
reference is in its slot), or miss any entry, its own included. If the process
ends, the behaviour ends. `misled` records the JNodes that were looked up or put
beside a dead key. The comment in `~Interface` that Nodes "own the same object as
used in the map key" does not hold of such an entry.

**JniCache** models the static variables of `jni_utils.h`, which exist once per
translation unit: `classCache` and `methodCache` with the check-then-act of
`FindClass` and `MethodID` (a miss of the second goes through the first),
`exceptToString`, and the monitor `decode` and `filter` take. `JNI_OnLoad` makes
a global reference of RuntimeException (`CLS_RE`), keeps it in `exceptionCls` and
enters class and method in the caches of `Libuast.cc` (`OnLoadClass`,
`OnLoadMethod`, with their JNI_ERR paths); `FindClass`, in `jni_utils.cc`, finds
its own cache empty and makes another one the first time it is asked for
RuntimeException, with no thread beside it. `operator[]` of a
missing key changes the map, so a lookup can be a write. One method per class
stands for the second level of `methodCache`.

**TreeLoad** follows one tree through `load` and `encode`, node by node. Ids
are places: `wire` is the tree on libuast's side, `heap` the JNodes. A JNode is
kept by a global reference (of its Node), a local one (of the native method),
the caller's, or a field of another JNode; `Collect` takes any other, between
any two steps. The order in which libuast visits the nodes is open, but for the
values of one container. Nodes and conversions are **NodeCodec**'s, which
TreeLoad extends: `NewStringUTF`,
which stops at the first nul and does not know four-byte characters;
`GetStringUTFChars`, which makes modified UTF-8; `KindOf`, a chain of class
tests whose last case is an object; `AsNum`, which keeps 32 bits of a JUint;
`SetValue`, which ignores its index. Text is a sequence of character
classes, one for each way the conversions treat a character. `Add` is `add()`
of the application, also from another thread in the middle of an `encode`; one
step of the model, where the code appends to an unsynchronised `ArrayBuffer`
(`NodeExt.scala:169-171`, `184-186`), which is exact as long as one thread adds and
its writes are seen in order.
`load` deletes the Context that made the JNodes before it returns (`DeleteContext`).
`encode` does not: its Context keeps a Node, and a global reference, of each JNode
it sent (`open`) until `Dispose`, which is `dispose()` of `toByteBuffer`, of an
application that called `Context.encode` itself, at any later time or never, or
of the finalizer. Before or after it the application may let go of the tree or
load the bytes; the model then follows the new tree and no longer the old one.
**TreeCodec** is what the two calls promise, over the same nodes: `load` is one
step that brings the whole tree, `encode` begins with one tree and ends with
bytes that have all of it and nothing the tree does not have by then; in between
only `Add` changes what the caller has. TreeLoad implements it under the mapping
*bytes = wire outside of a call; tree = heap while the caller has its root; begun
= the JNodes when the running `encode` began*.

**Buffers** models what goes into `decode` and comes out of `encode`: the bytes,
position and limit of each ByteBuffer and whose memory it is. `parseFrom` of a
heap buffer moves the position of the *caller's* buffer, in three steps (`Put`,
`Advance`, `RewindAndFlip`), so that calls with the same buffer meet. C++ reads
a direct buffer up to its capacity. The memory behind a result of `encode` is
malloc'd and has no owner. Byte *i* of an encoding is the number *i*; 0 is a byte
nobody wrote.

**GrpcClient** models blocking calls with and without deadline over an external
channel. `BblfshClient` adds the deadline, the default timeout and
`shutdownNow()`; answers, network errors, deadlines and cancellation are gRPC's.

Modules named MC* give TLC its symmetry, scripts, trees or buffers; modules
named *_proofs hold the theorems. The models share no variables; they
meet in the objects they are about (the object a handle of NativeLifetime stands for is
the iterator of UastIter, the context of NodeStore and TreeLoad; a `decode` of
Buffers that succeeds is a `NewContext`). The one-shot helpers (`get`, `decodeFrom`,
`toByteBuffer`) are the same calls in a row: their contexts are in
NativeLifetime, their trees in TreeLoad, their bytes in Buffers.

## The runs

| Run | Instance | What it shows |
|---|---|---|
| lifetime_safety | 2 threads, 1 ContextExt, 1 Context, 1 iterator, the finalizer thread | The properties below, the refinement of IterHandle, and that `Inv` holds of every reachable state |
| lifetime_leak | 1 thread, the same objects, fair collector | Everything unreachable is deleted in the end (`NoNativeLeak`) |
| iter | 2 nodes, all scripts of at most 3 items | Refinement of ScalaIterator and of IterHandle, release at the end, termination of a draining caller |
| store | 2 JNodes, 4 C++ nodes, 2 dead keys | Identities, answers and release over trees that change |
| cache | 3 threads, 2 classes with a method each, one of them RuntimeException | Who races in FindClass and MethodID, when a class gets a reference too many |
| load | trees of at most 3 nodes and a leaf that is added, load, encode, load | What survives the way, which references are left before and after dispose(), that nothing is collected early and all is in the end, and the refinement of TreeCodec |
| buffers | 2 threads with a call each, a heap, a direct and a third buffer of 2 bytes | What decode reads, how the caller's buffer is left, whose memory is freed |
| grpc | 2 calls, timeouts 0 and 2 s, clock to 61 s | Parses return; close() releases every caller |
| cache_rethrow, load_roundtrip, grpc_default, grpc_effect | as above | Violations, see *Findings* |

Properties worth reading first:

* `FaultsAreMisuse`: a null or deleted C++ object is touched only if the
  application disposed of the context, was in one iterator with two threads, or
  read an iterator over a null node or a negative order.
* `DoubleDeleteNeedsOverlap`: calling `dispose()` twice in a row is safe
  (as `ContextExtTest` tries); a double deletion takes two threads *inside*
  `dispose()`, or in one iterator, at once.
* `FinalizerNeverFaults`, `OpenIteratorUsable`: whatever the order of
  finalizers, they do no harm, and the tree under an open iterator lives.
* `DeletesUnused`: no step deletes a C++ object while another thread is in a
  method that goes through it, unless the context was disposed of or two threads
  were in the iterator. `FaultsAreMisuse` speaks of
  uses that went wrong; this also of those that returned in time.
* `FinalizedIsFreed`: what the finalizer thread is done with has lost its C++
  object, also where another thread was first to clear the handle.
* `NoNativeLeak`: the early returns of `nativeInit` and an iterator left open
  leak nothing once the collector has run.
* `DisposesAtOnce`, of UastIter and of NativeLifetime: each implements IterHandle.
* `KeepsPromise`, `ReleasedAtEnd`, `CrashesOnlyHollow`, `Drains` of the iterator.
* `NodesReleased`, `OneNodePerJNode`, `LookupAnswers` of the node store: however
  the tree changes *between* lookups, every Node is released and every lookup
  answers a Node of its JNode. It takes a change *in the middle of* one to leak a
  Node or to answer null, for that JNode at once and for others later, if the
  lookup left a dead key.
* `LoadMirrorsWire`: between the deletion of the Context that made the JNodes
  and the caller, no JNode has a global reference any more; the one local
  reference of the root keeps them all. `RefsReleased`, `DroppedTreeCollected`:
  however large the tree, one local reference at a time, and `load` leaves none of
  any kind; `encode` leaves one global reference for each JNode it sent and no
  other, until its Context is disposed of. A tree nobody holds is then collected.
* `SameTree`, `SameBytes`: what exactly is lost on the way from the JVM and back
  (null and JNothing, the upper half of a JUint) and from libuast and back (text
  behind a nul, four-byte characters, again the JUint), beside a thread that
  adds children meanwhile: each container is then encoded with a beginning of
  its children.
* `CallsAreSteps`: to its caller `load` and `encode` are what TreeCodec says.
  The collector takes no JNode the caller, a Node or another JNode holds, and an
  encode that overlaps with `add()` sends a whole tree, no older than the call.
* `InputComplete`, `InputWholeOrEmpty`: a call that shares its heap buffer with
  another may decode zeros in place of the tree, and never half a tree; one that
  does not gets it all. `LeftRewound`, `HeldBytesStay`, `CopiesFreed`.
* `OneRefPerClass`: a second global reference of a class takes two threads that
  were finding it at once; of RuntimeException, which has two from `JNI_OnLoad` and
  the first `FindClass`, a third does. `RaceNeedsUnlockedCall` of the cache; `ParseReturns`,
  `CloseReleasesCallers` of the client.

Bounds. Two threads are enough for every race of NativeLifetime, which are
between two parties (thread/thread or thread/finalizer); the proofs lift the
bound for safety. One iterator per run suffices because iterators do not share
state but their context, and the context has other users (threads, nodes).
Three items let a node, an error and a hole meet in every order around the
element in hand. Two JNodes let one key hide another; four C++ nodes let each be
made twice; two dead keys let one be there while another is made. Three threads let one class be found twice while another is being
hit. A tree of three nodes has a leaf, a container of two, and a container in
another; the leaves take every kind and every class of character the conversions
tell apart, `IntSize` = 2 and `LongSize` = 4 stand for 32 and 64 bits (what
matters is that the first divides the second), and one `encode` between two
loads (`MaxTurns` = 1) is a round trip in both directions. Two threads
with a call each are enough for Buffers, whose races are between two calls;
buffers of two bytes have a position that is neither end; ids of freed buffers
are used again. `LastCall` and `MaxNow` bound the clock: the clock runs past the deadline
of the last call that can be made, which an ASSUME states.

Deadlock checking is off where a system may stop: the process is gone after a
fault, a finalized iterator takes no call, a destroyed context has no operation,
a tree that is dropped and collected is at its end, the calls of Buffers are
bounded, and a client with all its calls ended may be left alone.

Fairness. *NativeLifetime*: the collector sooner or later finds an unreachable
object and the finalizer thread keeps running finalizers; nothing is asked of
the application. This is what finalize() relies on; a JVM that exits leaks
nothing that matters. *UastIter*: the caller keeps calling next(), as `foreach`,
`toList` and `size` do. *TreeLoad*: the collector takes what it can; the calls
themselves are under no fairness. *Buffers*: a call that has begun goes on (it
neither waits for input nor, with bounded calls, for the monitor for ever), and
the collector as before. *GrpcClient*: time passes, deadlines fire, shutdownNow()
cancels; the server and the network may be silent for ever.

## Findings

* `cache_rethrow`: `checkJvmException` (`jni_utils.cc:105`) calls
  `CallObjectMethod` with the `exceptToString` of its own translation unit.
  `JNI_OnLoad` sets the copy of `Libuast.cc`; the one used stays null. With an
  exception pending the helper does not rethrow it, as `jni_utils.h:64-67`
  says, but makes a call through a null method id.
* `load_roundtrip`: `JUint.get` (`NodeExt.scala:154`) keeps the low 32 bits of
  the 64 that `NewUint` stores, and `encode` sends what `get` returns. A tree with
  a larger number does not come back equal, as the test *Decoding, loading &
  encoding to different context should produce the same results*
  (`BblfshClientLoadTest.scala:56`) expects of every tree.
* `grpc_default`: `parse()` waits up to 60 s; its comment
  (`BblfshClient.scala:57`) says 5.
* `grpc_effect`: the timeout documented as without effect
  (`BblfshClient.scala:32-33`) is the deadline of the call.

## What is proved

`NativeLifetime_proofs`: `Spec => []Inv` for any threads, contexts and
iterators, from `IdentitiesDiffer` (the identities are distinct). None of the
properties is inductive alone, because a fault is the last step of a story that
began several steps before. `Inv` tells that story: `FramesOK` (a thread is in a
method of an object of the right kind), `GarbageOK` (what was collected is out
of reach, for ever), `MadeOK` (how objects begin, and that `ctx` of an iterator
is the context it walks or null), `ContextsOK` (a context is deleted only by a
dispose() or a finalizer; one party at a time is about to delete it unless two
called dispose() at once), `IteratorsOK` (the handle is cleared before the
deletion; one thread per unshared iterator; an open one has its handle and its
context) and `FaultsOK`, the properties. `OpenIteratorUsable` follows from it:
an open iterator names its context, so the context was not collected, so it was
not finalized. `FinalizersFree` (`FinalizedIsFreed`) needs more, which `Released`
adds to `Inv`: a context is cleared only after its deletion, and a live C++ iterator
has its handle or a thread about to delete it. The same makes `DisposesOnce` go
through, the refinement of IterHandle action by action: a `nativeDispose` that
finds the handle cleared has nothing left to delete. It needs one fact more, that
a closed, unshared iterator has no C++ iterator (`ClosedIsFreed`); IterHandle's
steps keep it, so it is carried along with the refinement. `NoDeletionInUse` is
the action property `DeletesUnused`: only `DeleteContext` and `DeleteIter` delete (`WhoDeletes`), and
a thread that goes through an object keeps it reachable, itself or through the
`ctx` of its iterator (`WalkersHold`), so that no finalizer is at it.

`UastIter_proofs`: the refinement `Spec => KeepsPromise` step by step, from the
invariant that an element in hand is the last item the C++ iterator yielded; and
`ReleasedAtEnd`, `CrashesOnlyHollow`, and that it implements IterHandle
(`DisposesOnce`). From `ScriptsAreItems`.

`NodeStore_proofs`: `Spec => []Inv`, from `NullIsNeither` and `RefsAreOthers`, for
any number of dead keys. Its core is `EntriesOK` (the Node of a live key is of that
key; there is a dead key only where a lookup was raced, and only misled Nodes are
under it), `TrackedOK` (each Node is in the map, about to be put there, or of a
lookup that was raced or misled) and `FrameOK` (what the lookup under way knows).

`TreeLoad_proofs`: `LoadMirrorsWire`, `RefsReleased` and the types, from
`Constants`, `TreesAreRooted` (a decoded tree, and one the application built,
has a root, is connected and has no holes) and `TurnsBounded`, for any trees and
sizes of integers. The
invariant says in which shape both trees are at every stage: `References` (who
refers to a JNode; the Context of an `encode` to exactly what was sent), `WholeWire` and `WholeHeap` (a tree has no holes below its
root), `Shapes` (only containers have children), `LoadingInv` (a JNode under
construction has the first children of its node), `LoadedInv`, `EncodingInv` (a
node has the first children of its JNode, at most `size`). It is needed because
`LoadMirrorsWire` speaks of a moment when the references that built the tree are
gone: that nothing was lost is known from how it was built. Two theorems on the
conversions: `JavaTextSurvives`, `GoTextSurvives`, strings of any length.

`RoundTrip_proofs`: `SameTree`, `SameBytes` and the refinement `CallsAreSteps`,
from the same assumptions. That a call brings all of a tree, and not just
whatever it was led to, is an induction over depth, and it takes another form
here. A tree is `Connected` when every set that has the root and the children of its
members has all of the tree; the places a call has filled are such a set when it
ends, so they are all places. A cycle of JNodes cut off from the root would
satisfy every local condition, and it is not connected. The invariant `Trip`
carries `Connected` of both sides through every step (`Collect` takes only what no
JNode names, `Add` hangs a leaf below what is there), and remembers the way: `SourceKept`
(the decoded tree until it is encoded again), `EncodeBegun` (encode began with all
that was loaded), `Encoding` (what it has written of a JNode is a beginning, and
what it began with is still there), `Sent` (what was sent, against what there was
before and after). The lemmas on the conversions say what is left of one node on
the way there and back (`Loaded` of what `Encoded` made, and the converse); they rest on
the two text theorems. For the refinement each action is a step of TreeCodec or
stutters: `DeleteContext` and the visits and `Dispose` change nothing the caller sees, `Return`
is `Load`, `EncodeReturns` is `EndEncode`.

`JniCache_proofs`: `RaceNeedsUnlockedCall`, `OneRefPerClass` and the types for
any finite set of threads, from `NullIsNone`, `RuntimeExceptionIsAClass` and
`ThreadsFinite`. `RefsCounted`
counts: references made and threads about to make one are together at most the
threads, as nobody misses again once an entry is written; `OneFinder` says that
without an overlap there is one finder and none after the first write; `LibraryOK`
that `JNI_OnLoad` makes one reference at most.

`Buffers_proofs`: all the invariants for any threads, buffers and capacity, from
`NullIsNone`, `GivenBuffers` and `Bounds`. `Inv` adds what a call knows of its
buffers at each step: its copy is its own (`Own`), nobody joined it unnoticed
(`Alone`), the position of what it copies is at one of two ends (`Source`), its
copy has all the bytes or none (`Input`, `Result`).

`GrpcClient_proofs`: the types, and that no call in flight is past its deadline
and the bound of the clock cuts no deadline off (`DeadlinesFit`), from
`ClockOutlastsDeadlines`.

Only model-checked: the liveness properties (`NoNativeLeak`, `Drains`,
`DroppedTreeCollected`, `CopiesFreed`, `ParseReturns`, `CloseReleasesCallers`),
since the prover has no fairness or ENABLED. Every invariant, action property
and refinement that a passing run checks is a theorem. No module uses a
recursive operator.

## Not modelled, and why

* libuast itself: a separate library. Its iterators go on after an error, it
  throws where the code catches, and deleting an iterator after its context is
  not taken for a fault.
* C++ exceptions where the code does not catch them (`Iterate` in `nativeInit`,
  `encode`, `load`): whether libuast throws there cannot be read here. They end
  the process. An `encode` of a Context as a node is refused before it makes a Node.
* In NativeLifetime the field `ctx` of an iterator whose `nativeInit` returned
  early is NULL; in the code it is the placeholder `ContextExt(0)` or `Context(0)`
  of `Libuast.scala:100` and `116`, which has no C++ object behind it either.
* `copy()` of a context, which would give one C++ object two finalizers: nothing
  in the repository does it.
* `Context.root`, declared `@native` without an implementation: every call is an
  UnsatisfiedLinkError and changes nothing.
* The weak global reference `jCtxExt` of a native ContextExt: a ContextExt whose
  native method runs, or whose iterator is reachable, is reachable itself, so
  the reference is not cleared while it is used.
* `clearClassCache` and `JNI_OnUnLoad`, which nothing calls (the JVM looks for
  `JNI_OnUnload`). `FieldID`, `ObjectField`, `IntField` keep no state.
* Java exceptions inside native code that goes on: they end in
  `checkJvmException`, see `cache_rethrow`. OutOfMemoryError of `allocateDirect`
  and of the New functions.
* In TreeLoad: a Java null inside a JString; keys of an object that become equal
  when cut at a nul; a `NodeExt` used with another context; a copy loaded earlier, which
  shares nothing with a later one. A JNode with two parents keeps one place:
  TreesAreRooted does not exclude it, so the theorems cover it, but the trees TLC
  tries have none, and that lookupOrCreate finds its Node again is NodeStore's;
  whether libuast writes it once or twice cannot be read here.
* In TreeLoad: two threads that add to one tree, and a reader that sees the
  writes of an adder out of order.
* In Buffers: there is no context; that libuast takes the memory of an encoding
  from malloc, and not from the context `toByteBuffer` disposes of, is assumed.
  What libuast's decode makes of bytes behind a tree (the zeros of a copy, the rest
  of a direct buffer) is its own: `InputComplete` says that all of the tree is
  among them.
* In Buffers: an application that moves a heap buffer's position while a call
  copies it, which the buffer's own contract forbids.
* Library loading (`loadBinaryLib`): file input and output in a class initialiser,
  which the JVM runs once and under a lock.
* Generated stubs and headers, build files.

## Plan

Done, in this order: NativeLifetime with its proofs; ScalaIterator, UastIter and
the refinement proof; JniCache; GrpcClient; NodeStore with its proofs; TreeLoad
with its proofs; `methodCache` and the proofs of JniCache; Buffers with its
proofs; the safety of GrpcClient; the round trips, TreeCodec and its refinement;
deletions and finalizers of NativeLifetime; IterHandle, which NativeLifetime and
UastIter both implement.

Left:

1. TreeLoad over NodeStore: which Node a JNode with two parents gets, through
   `lookupOrCreate`.
2. Class initialisers: what a first use sees when the library is not found.
