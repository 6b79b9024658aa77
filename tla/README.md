# A formal model of capnwasm

capnwasm runs the Cap'n Proto C++ library in WebAssembly and puts an RPC
system, code generators and a command line on top of it in JavaScript. These
TLA+ modules model the parts of it whose correctness depends on the order of
events: the RPC session (`js/rpc.mjs`) and the wasm memory its handlers share,
the HTTP batch, HTTP stream and reconnecting transports, the reader slots of the C++
side, the ordinal lock, the chat room and the JSON client of capnweb. TLC
checks them on small instances; TLAPS proves the most important facts for every
value of the constants.

Line numbers below refer to `src/js/rpc.mjs` unless another file is named.

    tlc -workers 2 -config MCRpcCalls_session.cfg MCRpcCalls
    tlapm RpcCalls_proofs.tla

## 1. The system

### Components

| component | state | operations | talks to |
|---|---|---|---|
| RPC session, caller's side | `#questions` (id to deferred), `#streamQuestions`, `#imports`, `#sendQueue`, `#closed` | `bootstrap`, `call`, `callBuilder`/`_completeSend`, `callStream`, `finish`, `close`, abort listeners | peer session by frames; application by promises and iterators |
| RPC session, callee's side | `#answers` (id to record with `readyDeferred`, `resolved`, `caps`), `#localCaps` (id to target and refcount), `#streamCredits`, `#inflight` | `#handleBootstrap`, `#handleCall`, `#handleFinish`, `#handleRelease`, `#handleStreamWindow`, `#runStreamHandler` | application handlers, which are async functions and async generators |
| send queue | `#sendQueue`, one scheduled microtask or timer | `#sendFromOut`, `#scheduleFlush`, `#flush`, `idle` | transport |
| transports | WebSocket, in-memory pair, postMessage, HTTP batch, HTTP stream | `send`, `onMessage`, `onClose`, `close` | the network |
| reconnecting transport (`reconnect.mjs`) | current session, backoff, `ready` promise, callbacks | `loop`, `close`, `onReconnect` | a transport factory; makes sessions |
| HTTP batch and stream servers | one fresh session per POST | `handle(req)` | session, `idle()` |
| reader slots (`cpp/wrapper.cpp`) | 32 slots, active index, mirror of the active slot | acquire, use, release, open | generated and dynamic readers |
| wasm message scratch | one inbound reader, one outbound builder, `cpp_in`, `cpp_out` | decode, build, finalize | every session and handler of the wasm instance |
| ordinal lock (`lock.mjs`) | per scope: member to ordinal, member to signature, `next` | `bootstrapLock`, `updateLock` | the command line, which writes the lock file |
| chat room (`src/chat_room.mjs`) | history, wakers, next id | `postTo`, subscribe stream, `messagesSince` | sessions, HTTP batch handler |
| handoff and sturdy references | token store | `mint`, `redeem`, `forget` | RPC methods |
| capnweb JSON client (`capnweb_wire.mjs`) | `#pending`, next import id | `call`, `close`, resolve/reject/abort | a capnweb server |
| router, client helpers, pipelines | routes; nothing; step results | forwards, wraps, runs steps in order | sessions |
| compiler, generators, compat, manifest, CLI | none besides files | text to text | the lock |
| vendored C++ library, site, benchmarks | - | - | - |

JavaScript is single threaded: concurrency comes from awaits (handlers,
pipelining waits, generators), from microtasks and timers (the flush), from the
two peers and the network between them, and from the garbage collector's
finalizers.

### What is hard here, and what makes each part correct

* **Calls.** A question must stay in the table as long as its promise is
  pending, and leave it exactly once, whichever of Return, abort signal,
  Abort, close and disconnect comes first. A pipelined call waits for another
  handler of the same session, which may fail, be finished early, or never
  answer.
* **Streams.** Two loops, the generator and the reader, coupled by credits that
  travel in frames which bypass the send queue. Either loop may stop (END,
  overflow, abort, close) with frames of the other still on the way.
* **Capabilities.** A distributed reference count: increments travel in
  Returns and Calls, decrements in Releases sent by finalizers at any time, and
  aborts or handlers that ignore their parameters cut the chain.
* **Ordinal lock.** Safety over a long history of edits: no wire ordinal is
  ever moved to a different member.
* **Shared scratch.** One inbound frame and one outbound message per wasm
  instance, under any number of handlers that may stop at each await. What a
  handler reads must be its own parameters, and the answer its peer takes must
  be the one it built.
* **HTTP batches.** A session whose frames are cut into POSTs, each served by a
  session that knows nothing of the others. A call must be answered, or told
  that it never will be; what pipelines on another batch, or uses one of its
  capabilities, must not reach something else.
* **HTTP streams.** One request carries the first burst of frames and the rest
  is dropped; which frames are the first burst is decided by the order of three
  microtasks. The response ends when the server is idle, when the client leaves,
  or never.
* **Reconnecting.** A loop of awaits with a handle that can be closed at each
  of them: one session at a time, no loop and no session left behind,
  `ready` settled.
* **Reader slots.** C++ has one cursor per slot and one active slot, JavaScript
  a mirror of which one that is, a generation number and a count of messages in
  the arena: a reader must read its own message although none of these is
  updated everywhere.
* **Chat room.** Three ways to follow one bounded history, a generator that
  indexes an array that shifts, and a restart that counts ids anew.
* **JSON client.** Client and server number the calls separately; answers, an
  abort and garbage may share a message.

`PROJECT.json` lists every hazard with its line and the properties that would
catch it.

## 2. Modules

| module | models | checked by |
|---|---|---|
| `CallContract` | abstract: issue, start at most once and behind a successful target, settle once | refined by `RpcCalls` and `HttpBatch` |
| `RpcCalls` | question and answer tables, frames, pipelining, handlers, abort, close, faults | `MCRpcCalls` |
| `RpcCalls_proofs` | the proofs about `RpcCalls` | `tlapm` |
| `StreamContract` | abstract: ordered, gapless chunks and one verdict | refined by `RpcStream` |
| `RpcStream` | one stream: send queue, transport, credits, buffer, generator, reader | `MCRpcStream` |
| `RpcStream_proofs` | the proofs about `RpcStream` | `tlapm` |
| `RpcCaps` | exports, handles, finalizers, Release, carriers of capabilities | `MCRpcCaps` |
| `RpcCaps_proofs` | the proofs about `RpcCaps` | `tlapm` |
| `OrdinalLock` | one scope of the lock over a sequence of schemas | `MCOrdinalLock` |
| `RpcScratch` | `cpp_in` and the builder under handlers, awaits and microtasks | `MCRpcScratch` |
| `RpcScratch_proofs` | the proofs about `RpcScratch` | `tlapm` |
| `HttpBatch` | client session, POSTs, one server session per POST, `idle()` | `MCHttpBatch` |
| `HttpBatch_proofs` | the proofs about `HttpBatch` | `tlapm` |
| `HttpStream` | client microtasks, the one request, its server session, the response | `MCHttpStream` |
| `Reconnect` | the loop, its handle, callbacks, sessions and transports | `MCReconnect` |
| `Transports_proofs` | the proofs about `HttpStream` and about `Reconnect` | `tlapm` |
| `ReaderSlots` | slots, arena, heap, generation and mirror under all kinds of readers | `MCReaderSlots` |
| `ReaderSlots_proofs` | the proofs about `ReaderSlots` | `tlapm` |
| `ChatRoom` | history, generators, stubs and pollers, restarts | `MCChatRoom` |
| `JsonWire` | the client's table, lines and messages, the server's table | `MCJsonWire` |
| `Standalone_proofs` | the proofs about `OrdinalLock`, `JsonWire` and `ChatRoom` | `tlapm` |

The three session modules are views of one class. They share the transport's
rules (a FIFO per direction, nothing carried after a close, a closed end is
handed nothing) and the rules of close(); each abstracts what the others
model. They are separate because their state spaces multiply and because the
tables hardly interact: a Return settles a question and, independently,
carries capabilities; a stream's question is in a table of its own.

The invariants of a module that say its state is well formed are gathered in
one formula (`IInv`, `StreamInv`, `CapsInv`, `LockInv`, `SlotsInv`, `BatchInv`,
`ResponseInv`, `ScratchInv`, `JsonInv`, `ReconnectInv`, `RoomInv`), whose conjuncts are the
type invariant and the named parts above it.

Definitions whose comment starts with *Slip* are mutated forms of the
definition that follows: plausible programming errors, none of which the
specification uses. `PROJECT.json` says which property each one violates.

### RpcCalls

A call goes through the *client* session (question table) and the *server*
session (answer table); a real session plays both parts, and the two parts of
one session share only `close()` and the queue. Frames of this module all pass
`#sendQueue`, so queue and wire are one FIFO per direction (`c2s`, `s2c`).

| TLA+ | code |
|---|---|
| `target`, `promise`, `questions` | the call's arguments, its deferred, `#questions` |
| `answers`, `ready` | `#answers`, the state of each record's `readyDeferred` |
| `stash`, `awaits` | the local variables `stash` and `targetAnswer` of a running `#handleCall` |
| `handler` | where that `#handleCall` stands |
| `Bootstrap`, `Call`, `SignalAborts` | `bootstrap` 443, `call` 465, `#wireAbort` 554 |
| `HandleReturn` | `#handleReturn` 1078, with its Finish |
| `HandleCall`, `ResumePipelined`, `HandlerReturns` | `#handleCall` 807, cut where it awaits: the pipelining wait and the method body |
| `HandleFinish`, `HandleAbort` | 1172, 1433 |
| `ClientCloses`, `ServerCloses`, `..LosesPeer` | `close` 693, `transport.onClose` 346 |
| `Disconnect`, `PeerAborts` | environment: the link breaks after a prefix of what is in flight; a foreign peer sends Abort (capnwasm never does) |

A record is identified by the Call frame during whose handling
`#getOrCreateAnswer` made it, because a finished answer can be created again
for a late pipelined call while the old record is still held by a local
variable. Two abstractions: a capability target always exists (RpcCaps models
when it does not), and the answer's capability list is left out, so a
pipelined call whose target succeeded may find its capability or not.

### RpcStream

The Call and the Finish of a stream wait in `#sendQueue` (`sendQueue`), while
WINDOW, CHUNK and END frames are handed to the transport at once (`c2s`,
`s2c`). This is why the initial WINDOW arrives before its Call and is dropped.
The server sends freely until a refill arrives, and counts from then on.
`Circulating` adds up the credits that are held, reserved, on their way, not
yet granted back and still to be consumed; `CreditsConserved` says that no step
changes the sum while the server counts and the stream is open. It does not say
what the sum is: by the comment at 1275 it would be the window, and by the code
it is what had been sent before the first refill. `CallStream` is `callStream` 1189, `Read` the iterator's
`next`, `HandleStreamChunk`, `HandleStreamEnd`, `HandleStreamWindow` the
handlers 1385, 1396, 1328; `GeneratorYields`, `SendGranted` and `GeneratorEnds`
the loop of `#runStreamHandler` 1286, cut at its awaits; `StreamEnd` is how the
end of a generator is encoded. Two kinds of stream leave their reader waiting
until close() (`NeverTold`), and `IteratorSettles` excepts both. One is *refused*
(missing capability, failed pipeline target): the answer is a Return, which the
client ignores since streams are not questions. The other is *stranded*: it is
pipelined on a record that nobody settles (861-868, with 1065 and 1548; which
records those are is the subject of `RpcCalls`, here it is a choice of
`HandleCall`).

### RpcCaps

The *host* exports, the *guest* holds handles. A carrier (a bootstrap
question, a call whose result holds a capability, a call of the host with one
in its parameters) brings at most one capability. A handle goes from live (or
loose, a bootstrap handle before its Return) to garbage when the program drops
it, and its finalizer runs some time later. The variable `lost` records ids
thrown away on their way: Returns of aborted calls, parameters no handler
opened, results that could not be built. `RefcountsAccounted` says that this
and the handles, Returns and Releases explain every reference the host
counts.

### OrdinalLock

One scope; an inventory maps members to signatures (`NoSignature` for members
without one), and its order is arbitrary, which `Fresh` expresses by choosing
any bijection. `Inherited` are the names for which JavaScript's `in` is true
on every object (lock.mjs:200). `UpdateLock` is one call of `updateLock`:
rename detection, new members, signatures, `next`.

### RpcScratch

A call's `stage` says where `#handleCall` 807 and its handler stand; `jobs` is
the microtask queue, so that code runs until it awaits and continues in order.
`inbound` is whose frame `cpp_in` holds (`None`: staged bytes or something
else), `builder` whose message `rpc_builder` holds and who has written in it.

| TLA+ | code |
|---|---|
| `Receive`, `ReceiveOther` | `#dispatch`: a frame is decoded in `cpp_in` |
| `OpenParams`, `BeginResults`, `Fill` | the handler's context 894-966, a generated setter |
| `Await`, `Awaited` | the handler waits; what it waits for arrives |
| `Return`, `Throw`, `RunJob` | a handler that is not async answers at once; an async one answers in a microtask (1015-1057, 1540) |
| `Send`, `CallBuilder`, `CompleteSend` | `call`, `callBuilder`, `CallStarted.send` by user code |

The handlers in `Idiomatic` follow docs/workers.md: parameters before the first
await, results begun after the last one, nothing sent in between. The others
do anything, and sessions on the same wasm instance count as more calls.
`reply` is who wrote in the first Return sent for a call, which is the one the
peer takes. A handler is `Safe` when nothing runs between its last write and
the Return: it is not async, or it returns bytes.

### HttpBatch

The client's `#sendQueue` and the outbox of `httpBatchTransport` are one
`queue`. Each element of `posts` is one POST with the session that serves it:
`frames`, `next` (how far they are dispatched), `exports`, `replies` and the
stage it has reached. `Flush` is `doFlush` 148, `PostFails` its catch,
`Receive` and `HandleReply` the response; `DispatchFrame`, `ResumePipelined`,
`HandlerReturns` and `StreamEnds` are the server session as in `RpcCalls` and
`RpcStream`, and `Respond` is `await session.idle()` in `httpBatchHandler`.
Stateless sessions send no Finish and no Release (`SignalAborts` sends
nothing). `aborted` says that `opts.signal` was aborted before the transport was
made: the constructor then closes it (162), before the session has registered
`onClose` (253), so the session stays open and its frames are dropped (245).
A call may be pipelined on any earlier call, one that is over included. An import id is a number the client got in a Return; the session of
a later POST looks it up in its own `exports` (`LocalCap`).
The module refines `CallContract`, like `RpcCalls`.

### HttpStream

A batch of calls is one turn of the client's code (`turn`), and `jobs` is its
microtask queue: `flush` is the session's (`#flush` 1602, scheduled at 1592),
`start` the transport's (http_stream.mjs:141), `caller` a caller that has
awaited something settled, such as createClient. `EndTurn` returns to the event
loop, behind an await or not. `request` goes from unsent to sent (with `body`,
the outbox at that moment), open (a server session dispatches the body) and
ended. `Receive` and `ResponseEnds` read the response, `RequestFails` is every
way to fail it. `Arrive` and `DispatchFrame` are the handler up to
http_stream.mjs:301, `Finish` its `endOnIdle`, `Cancel` its `cancel`.

The chunks of a stream are counted (`yielded`), not kept: `RpcStream` has their
order. The WINDOW frames that the client sends later are left out, since the
request is made and send() drops them; the initial one is modelled, because
it overtakes its Call and lands in front of it in the body.

### Reconnect

`loop` is the await `loop()` stands at, `current` is `currentSession`, and a
session is numbered by the attempt that opened it; its transport goes from
open to closing (told to close) to closed (has reported). `FactoryOpens`,
`FactoryFails`, `Wake`, `CallbackReturns`, `Reopen` are the segments of the
loop between awaits, `Close`, `Subscribe`, `Unsubscribe` the handle,
`CloseSession` and `TransportEnds` the session and the network. The for loop
over `onReconnectFns` is modelled with its index, since callbacks may be added
and removed while it runs.

### ReaderSlots

`wasm` is the C++ state (`active`, the live cursor, the saved cursors, which
slots are in use); the functions `UseSlot`, `OpenInto`, `OpenAt`,
`AcquireSlot`, `ReleaseSlot`, `OpenFrame` translate those of
`cpp/wrapper.cpp`. `memory`, `used` and `allocated` say which message lies at
an address of the scratch, the arena or the heap. `jsActive`, `inFlight` and
`fresh` are `#activeSlot`, `#arenaInFlight` and the readers whose `_gen` is
`#generation`. A reader is opened in a slot, on slot 0 with its own bytes
(managed, when the pool is full), on slot 0 without (unsafe), or over an RPC
frame, and then reads, also inside nested structs, until it is disposed of or
collected. `misread` records the readers that were shown something that is not
theirs.

### ChatRoom

One `Side`. A capnwasm pane has a `generator` (replaying at an index, holding a
message it has yielded, or parked), a capnweb pane a stub, a REST pane a poll
and a cursor. `burst` says that several frames are being dispatched and no
microtask has run yet. `Post` is `postTo` with `appendAndNotify` 61, `Resume`
the session's loop over the generator, `Poll` and `PollAnswered` the pane's
`pollOnce` and `getSince`, `Restart` a new life of the durable object.
`skipped` records what the generator passes over: a message posted when it has
no waker, and one that shifts under the index of its replay.

### JsonWire

`toClient` holds the lines on their way to the client; one that is `joined` is
in the same message as the line before it. The client handles line by line, and
`InMessage` keeps its other steps back until the message is through, because
`#handleLine` 92-104 goes over the lines without awaiting. A line that cannot be
parsed, or whose rejection cannot be decoded, drops the rest of its message
(`NextMessage`). The server is external: it numbers what it
is pushed (`nextExport`), answers what is pulled, and may abort, send garbage
or hang up. `Undecodable` and `Unencodable` stand for values the expression
codec refuses.

## 3. What the runs check

| run | instance | states | what it shows |
|---|---|---|---|
| `calls_session` | 3 calls, one abortable and with a reply that may not fit, late pipelining, close, Abort, disconnect, fair | 331,380 | the inductive invariant of the proofs; no call falls between the tables; answer records end with their question; an outcome reaches every waiter while the question is open; every call settles unless it is left behind as below; refinement of `CallContract` |
| `stream_window` | window 4, buffer 4, 6 chunks, 2 outstanding reads, refused and stranded streams, abort, close, disconnect, fair | 47,986 | nothing lost or reordered, credits conserved once they are counted, `StreamContract`, the reader gets a verdict unless its stream is refused or stranded |
| `caps_safety` | 1 bootstrap, 2 calls, 1 host call; abort, unread, oversize, close | 1,393,385 | references accounted, imports match handles, calls reach live exports |
| `lock_renames` | 3 names, 2 signatures, one inherited name, any sequence of updates | 4,496 | ordinals distinct and gapless, assignments preserved, renames keep the type |
| `slots_pool` | 3 readers, one dynamic, 2 slots, 2 arena and 2 heap places | 265,354 | slots and bytes have one owner, a pooled reader keeps its cursor and misreads only in the three ways named |
| `scratch_shared` | 3 calls (two idiomatic, one of them not async), 1 outgoing call | 297,171 | own parameters, own results; safe handlers are answered with what they built, always |
| `scratch_results` | the same | violation | the finding below |
| `http_batch` | 3 calls (two return a capability, one is a stream), one abortable; a signal aborted before the session, close, failed POST, fair | 421,367 | pipelining stays in its batch and on the capability returned, sessions share nothing, every call settles unless it is left as below, refinement of `CallContract` |
| `http_stream` | 3 calls, one a stream (window 1, 2 chunks), one abortable; with `endOnIdle` and without; close, failed request, fair | 26,684 | what is called before the first flush goes out; what went out is answered, and told when the response ends |
| `json_wire` | 3 calls, one unencodable, one undecodable; close, hang-up, abort, garbage, fair | 8,632 | no call gets another's answer, every call settles, the server's table is released |
| `reconnect_loop` | 3 callbacks, one enduring and one hanging, 3 sessions, back-off up to 3, fair | 40,852 | one session, everyone told, a lost session is replaced, `close()` ends the loop |
| `chat_room` | 1 pane of each kind, history of 2, 3 messages, 2 lives, fair | 794,629 | who is connected gets everything but what is skipped, in order; pollers catch up |

**Deadlock** checking is off in every run: all of these systems may stop (all
ids used, both ends closed, nothing left to read).

**Bounds.** Three calls are enough for a chain of two pipelined calls plus an
unrelated one, and for an abort in the middle of a chain; every pair of tables,
frames and waiters occurs with them. One of them may be aborted and be too large
to answer: aborts of the others change nothing in it that they do not change in
that one. Six chunks against a window and a buffer of four
allow the start without credits, two refills (the threshold is two), a blocked
generator and an overflow. In `RpcCaps` three carriers of new capabilities plus
the bootstrap allow a Release of one to overtake, or be overtaken by, the
Return of another; calls are symmetric. In `RpcScratch` two calls with one outgoing
message already disturb each other; the third allows a pipelined call whose
target ends while another handler builds. In `HttpBatch` three calls make up to
three batches, so a call can pipeline on, or use the capability of, an earlier
batch while a third is under way. In `HttpStream` three calls let one miss the
request, one be in it, and the third be pipelined on either; two chunks against a
window of one would block a stream that had credits. Two slots and three readers fill the pool,
and two places in the arena fill the arena before the pool. Three sessions are
two losses; the back-off doubles twice before it meets its cap. Three messages
against a history of two shift it once while it is being replayed, and two
lives are one restart. In `OrdinalLock` three names allow a
rename next to an ambiguous one (two candidates with one signature, which must
not be a rename), and there is no bound on the number of updates: the states
are finite because members are never forgotten.

**Fairness.** `RpcCalls!FairSpec` is weak fairness of the frame handlers (an
ordered transport delivers, or reports the close), of the continuation of a
pipelined call (a microtask), and of the method bodies. The last is an
assumption on the application: a handler that never settles leaves its caller
waiting, as it should. `RpcStream!FairSpec` adds the flush microtask, the
generator's progress, and a reader that goes on reading until it has its
verdict. Its `ResumePipelined` is fair for a target whose record the server
still settles; a stream that waits for any other record is stranded and never
resumed. Nothing is assumed of aborts, closes and disconnects.
`RpcScratch` assumes that microtasks run and awaited things arrive (weak), and
that a handler which is resumed again and again ends (strong, since the memory
is free of handlers only between their segments). `HttpBatch` needs one weak
fairness of all its steps together, because each of them can be taken only
finitely often, and so does `HttpStream`, whose methods and generators end
while turns, aborts, closes and failures are not assumed. `JsonWire` assumes delivery in both directions and that methods
end. `Reconnect` assumes that timers fire, that a transport that was told to
close reports it, that callbacks return unless they are in `Hanging`, and that
the factory does not fail for ever. `ChatRoom` assumes that microtasks run,
credits come, and a poll does not fail for ever; the timer of `pollOnce` is set
again by the code, or not, which is the point of `PollsDeliver`.

### Finding

**An answer is lost** (`scratch_results`, 1029). After an async handler has
built its results with `ctx.beginResults`, `#handleCall` continues in a
microtask and finalizes "the rpc_builder's arena", whatever is in it: when
another handler or caller has begun a message in between, that message is sent
instead, and the call is never answered. Handlers that build without awaiting
afterwards are not safe from it, because the end of an async function is itself
a microtask away; only `Safe` handlers are, which is what `scratch_shared`
shows.

### Known behaviours

Where the code does something its comments or a reader would not expect, the
properties say so explicitly. Most of these were met as a counterexample to a
property without its exception.

Sessions (rpc.mjs):

* 1548: `#sendException` looks its waiters up through the answer table. If the
  caller aborted the target, its Finish has removed the record, and when the
  handler then fails nobody rejects the calls pipelined on it (`LeftBehind` in
  `EveryCallSettles`; `OutcomeReachesWaiters`).
* 1065: using the promise capability of a call that has settled and been
  finished makes a fresh record that nothing resolves (`OutcomeReachesWaiters`).
  A stream that waits for such a record, or for one of 1548, is not ended before
  close() (`NeverTold` in `IteratorSettles`).
* 1277: the initial WINDOW overtakes the queued Call and is dropped, so the
  server sends without limit until the first refill, and may have more than the
  window unread ever after. The comment above it says that the grant arrives
  when the server has the question, and test/flow_control.test.mjs:74 that the
  server starts with the window's worth. No property of a passing run assumes
  the one or the other.
* 1175: the Finish of an aborted stream removes the answer record but neither
  the credits nor the generator that waits for them.
* 872: a stream call that is refused is answered with a Return, which the
  client does not match to a stream (`NeverTold` in `IteratorSettles`).
* 1319: the end of a stream carries the message of its error, and an empty
  message has length 0, which the client takes for success (1405): a reader
  whose generator threw `new Error()` is told that it is done (`StreamEnd`).
* 794: two bootstrap handles share one reference; the first that is collected
  frees export 0 under the other (`caps_safety` has one bootstrap).
* 1089: aborted calls leak the capabilities of their results (`lost` in
  `RefcountsAccounted`).
* 862: a pipelined call starts after an await, when `cpp_in` may hold another
  frame, so even a handler that opens its parameters synchronously, as the
  comment at 898 asks, may get those of another call (`OwnParams`). So may a
  handler that has set a text or data field, which goes through `cpp_in`.

Transports:

* http_batch.mjs:8 says that capabilities do not survive a batch. Their import
  ids do: a later batch may use one, and reaches whatever its own session has
  exported under that id (`SessionsIsolated` holds all the same).
* A call that pipelines on an earlier batch waits for ever, and withholds the
  response of its whole batch (`Stuck` in `EveryCallSettles`).
* `close()` of the HTTP transports drops what is queued.
* http_batch.mjs:162: a signal that is aborted already closes the transport before
  the session can be told. Every call of that session is dropped (245) and
  stays pending until `session.close()` (`aborted` in `NoCallLost` and
  `EveryCallSettles`).
* http_stream.mjs:189 drops what is sent after the request was made, as
  docs/transports.md says; the comment at http_stream.mjs:20 speaks of a new
  POST instead. A dropped call is pending until the response ends, which
  without `endOnIdle` may be never (`EveryCallSettles`). client.mjs:71: the
  session that createClient makes with `transport: "stream"` has flushed its
  Bootstrap by the time its caller goes on, and the request is made before the
  caller's own first flush: the first call is dropped. `BurstGoesOut` covers
  what is called before the first flush.
* Over HTTP streams flow control has no effect: the initial WINDOW is ahead of
  its Call and the others are dropped, contrary to the comment at rpc.mjs:1275.
  No property claims it. Were the first put in order, a stream would stop for good at the end of its window, which
  is what the mutant `CallStreamInOrder` shows.
* idle() does not count generators, so `endOnIdle` cuts off a stream that still
  produces; its reader is told by the close.
* reconnect.mjs:47: `close()` while the factory is opening leaves the session
  that then comes up open (`CloseEnds`); `ready` never settles if the factory
  then fails (`ReadySettled`); :79: a callback that hangs holds the loop
  (`Held`); `shouldReconnect` is not asked after the factory fails; a callback
  removed behind the iterator makes it skip another (`EveryoneTold`).
* capnweb_wire.mjs:67: a call whose arguments cannot be encoded uses up an
  import id, and from then on the client pulls answers of the wrong number
  (`OutOfStep`); :130: a rejection that cannot be decoded leaves its promise
  pending, and the rest of the message is dropped: the lines that are lost may
  settle other calls, so `EveryCallSettles` excuses all of them while a call
  with an undecodable rejection is pending.

Readers (wrapper.cpp, cpp_loader.mjs): opening into slot 0 changes the active
slot in C++ only (wrapper.cpp:1169), so a pooled reader whose slot the mirror
thinks active reads slot 0 (cpp_loader.mjs:462), although
test/m3_slot_pool.test.mjs:18 says that it survives unrelated decodes; the
finalizer (cpp_loader.mjs:202) does not update the mirror either;
`ctx.openParams` overwrites the cursor of whichever slot is active
(wrapper.cpp:2957). `PooledReadsOwn` names these three ways and excludes others.

Ordinal lock (lock.mjs:166): a field removed long ago and a new field of the
same signature are taken for a rename, and the retired ordinal moves to the new
field; `RenamesKeepType` says that it goes no further than that.

Chat: a message posted while a woken generator has not parked again, or while a
stream waits for credit, reaches no waker (`skipped`); a restart counts ids
from 1, so messages below the cursor of a poller, or with ids a pane has seen,
are not shown (`Overtaken`); one failed poll ends the loop of a capnwasm pane
(capnwasm-pane.ts:205), not that of a capnweb pane.

## 4. What is proved

All proofs hold for every value of the constants that satisfies the named
assumption of their module (`ConstantsAssumption`; `LoopAssumption` in `Reconnect`,
`RoomAssumption` in `ChatRoom`, `WireAssumption` in `JsonWire`), in particular
for any number of calls or names. The
theorems on invariants whose conjunction a run checks (`IInv`, `LockInv`) are
also stated conjunct by conjunct.

**RpcCalls** (`RpcCalls_proofs`). The theorems `TypeCorrect`, `PendingTracked`,
`Fulfilment` and `Pipelining` follow from `Inductive`, `Spec => []IInv`. The
safety properties are not inductive: that a fulfilled promise means a
successful handler needs to know that a Return with results on the wire is
true (`RepliesAreTrue`); that a handler starts once needs that a Call on the
wire is unhandled, unique and as issued (`RequestsAreFresh`); that a waiter
runs only behind a success needs that the record it holds belongs to the call
it targets, and is resolved only by that call's success, even after the table
has lost it (`RecordsFollowCalls`). `IInv` conjoins these with the type
invariant; there is one lemma per action group, since frames are appended and
removed in the same few ways everywhere.

*Refinement.* `ImplementsContract` proves
`Spec => ContractSpec`: each action maps to one action of the contract or to a
stutter, with `IInv` (and its primed form) as invariant. `Reject` of a set
covers `close()`, which settles all promises in one step.

*Delivery.* `NothingLost` proves `NoCallLost`: while the
client is open, a question that is open has its request, its handler, its answer
or the news of the lost connection somewhere. By itself the statement is not
inductive, since a link that is down takes frames and carries nothing:
`LossIsTold` adds that an open client then has the news on its way.

*The answer table.* `RecordsAreOwned` (`AnswersAreOwned`) and `WaitersAreTold`
(`OutcomeReachesWaiters`) share the invariant `AInv`. A record is owned because
the Call that will make it is of an open question or has the Finish of its
question behind it (`CallsOwned`). An outcome reaches its waiters because a
record stays in the table while its question is open (`AnswersStay`), so the
handler and all who wait for it hold the same one; this needs that a Finish on
its way is of a question that has ended (`FinishesSettle`), and that nothing is
pipelined on a call that was not issued (`TargetsIssued`).

**RpcStream** (`RpcStream_proofs`). `ChunksInOrder` (`StreamInv`),
`CreditsKept` (`CreditsConserved`) and `ImplementsContract`, that a stream
implements `StreamContract`, for every window, buffer and number of chunks. The
order of chunks is inductive once their position is part of it: the i-th frame
on the way to the client, if it is a chunk, has the number `Had + i`
(`InOrder`), and an END is behind all of them (`EndsLast`), which is what lets
the contract accept a success. `CreditsConserved` is a step property: `BalanceStep`
shows action by action that `Circulating` stays what it is. That needs to know
what a WINDOW grants: nothing when it overtakes its Call (`RequestOnce`), the
refill threshold ever after (`RefillsFollow`). The sum counts frames
(`Cardinality(Grants)`), so there is a lemma for each way a queue changes.

**RpcCaps** (`RpcCaps_proofs`). `ReferencesKept` (`RefcountsAccounted`) for any
number of calls and bootstraps: references are counted as positions in queues,
Releases by their place, handles by their holder, and every export but the
bootstrap has one handle at most (`OneHandle`), because each carrier exports
once (`ParamsOnce`, `CallsOnce`) and gets a new id; `IdsLast` shows that the
ids do not run out. `TablesAgree` (`CapsInv`) and `CallsReach`
(`CallsFindTheirTarget`) assume `OneBootstrap`, that a session has one
bootstrap question: with two they are false, which is the behaviour of 794
above. They rest on `CallsAhead`: a call on its way to an export is ahead of
the Release of that export, in one FIFO.

**HttpBatch** (`HttpBatch_proofs`). `NoneLost` (`BatchInv`), `Isolation`
(`SessionsIsolated`) and `ImplementsContract`. Most of the properties speak of
`BatchOf(q)`, the POST that carries a call, so the invariant first says that
there is only one: a call has one frame, in the queue or in one POST
(`SentOnce`). Then it says what a server session knows: frames are dispatched in
order, and the session answers only when all are and no handler waits or runs
(`Served`); a reply is to a call that was made, and true (`RepliesTrue`); what
a session exports are results of its own calls (`ExportsOwn`). `Isolated` is
`SessionsIsolated` POST by POST, and `Kept` says where a pending call of a
session that was not `aborted` is. The
steps of a server session change one POST and the handler of one call in it;
`ServerMove` says so, and one lemma carries the invariant over all of them.

**OrdinalLock** (`Standalone_proofs`). `Sound`, with its parts `TypeCorrect`,
`Gapless` and `Pinned`, and `Preservation` and `RenameSafety`. The invariant is `LockInv`; the core is that `OldName` is an injection from the renamed
names onto names that leave the lock, so replacing them keeps the bijection,
and that the fresh ordinals continue it. Finiteness of the set of names is
the only assumption on their number.

**HttpStream** (`Transports_proofs`). `NothingLost` (`ResponseInv`) and
`BurstOut` (`BurstGoesOut`), with one invariant in three parts. `ClientInv` is
the microtask queue. A frame is dropped by a flush that comes after the request,
so the burst is safe if the request is not made while it waits (`BurstWaits`),
and the request is made by `start`, behind whose back a stream's initial WINDOW
may have filled the outbox: while it holds only windows, a flush is ahead of
`start` and has calls to bring (`CallsFollow`, `FlushFirst`). `ServerInv` is the
request: a handler has its call behind it (`Dispatched`), and a response that
ends while the client listens has waited for the handlers (`EndsIdle`). `Placed` says where each pending call is;
it follows frame by frame, since what leaves a queue, the request or the
response is in the next place or has settled its call.

**Reconnect** (`Transports_proofs`). `OneAtATime` (`ReconnectInv`) and `AllTold`
(`EveryoneTold`). The invariant adds two facts to `ReconnectInv`: the handle
has no session while the loop opens, sleeps or is done (`BetweenSessions`),
without which a new session could be a second one, and the callbacks up to the
loop's index have been told unless one was removed behind it (`ToldSoFar`),
which is what the loop knows when it ends. `Reconnect` names its specification
`LoopSpec`, so that one module can extend it and `HttpStream`.

**JsonWire** (`Standalone_proofs`). `AnswersFind` (`JsonInv`). Client and server
number the calls on their own, and a call that is not sent uses up a number of
the client's only. The client's count is therefore never behind
(`ClientAhead`): a pull finds the entry of the push it came with, or none. A
number is followed from line to line. On the way out (`PullsOwned`), in the server's table once it
is pulled (`ExportsOwned`) and on the way back (`AnswersNamed`), whoever waits
for the number is the call it stands for. An entry that has not been pulled may
have the number of another call that waits; it is never answered. `PushesPaired`
says that a push and its pull stay together, which is what makes the count
meet the pull. An answer that the client takes is then its own, and a rejection
that it cannot decode loses no other call.

**ChatRoom** (`Standalone_proofs`). `RoomKept` (`RoomInv`) and
`SubscribersServed` (`StreamsUpToDate`). The history is a window of consecutive
ids, so a message is at the place its id tells, and a post moves every place by
at most one (`HistoryIsLatest`). A replay is at an index while the history
shifts under it: the message it will read next is newer than all it has sent
(`GeneratorsFollow`), which gives the order, and a shift adds what it passes
over to `skipped`. A poller's cursor is the highest id on its pane, and a
response holds all that the history had behind it (`CursorsFollow`), so that
nothing is below a cursor unseen but what a restart has put there. `PanesKnow`
says that nothing on a pane is from the future, for a message of the same life
has a lower id than the next post.

`OrdinalLock`, `JsonWire` and `ChatRoom` share nothing; one module holds their
proofs, and they name their specifications `Spec`, `WireSpec` and `RoomSpec`.

**RpcScratch** (`RpcScratch_proofs`). `OwnMessage`, `ReadsItsOwn` and
`SafeAnswers`. What a handler reads and sends depends on who ran before it, so
the invariant first says who can run: one handler at a time (`OneRuns`), and a
queued microtask belongs to a call that has something to continue, woken only
after its target is over (`JobsPending`, `BlockedHaveTargets`, `StagesFollow`).
Then an idiomatic handler that runs owns the frame until it awaits
(`FirstOwnsInbound`) and the message from `beginResults` to its end
(`BegunOwnsBuilder`); and the only unfinished message of a safe handler is that
of a synchronous one that runs (`SafeMessages`), so nobody sends it early. All
ways for `#handleCall` to end share one lemma, `CallEnds`.

**ReaderSlots** (`ReaderSlots_proofs`). `SlotsAgree` (`SlotsInv`),
`CursorsKept` (`PooledCursorsKept`) and `ReadsOwn` (`PooledReadsOwn`). A first
group of lemmas says what each function of the C++ part does to the cursors,
whichever slot is active (`Cur`, `SameBut`), and a second one, action by
action, what a step does in these terms. The invariant has two halves. `Owned`
is the books: the arena is rewound only when it is empty because its counter is
the number of pooled messages in it, and a message is nowhere but where it was
put (`Elsewhere`). `Placed` is where the cursors are; it needs `Hidden`: a
typed reader that the mirror sends to slot 0 by mistake, while its own cursor
is inside a struct, does not find its own message there. Otherwise it would be
marked as up to date, read right, and misread later without any of the three
excuses of `PooledReadsOwn` (`FreshRooted`).

**Model-checked only.** Liveness (`EveryCallSettles`, `IteratorSettles`,
`CallsAnswered`, `ExportsReleased`, `Recovers`, `CloseEnds`, `PollsDeliver`),
which the prover does not handle. Every safety property that a run checks,
state or step, is stated by a theorem.

## 5. What is not modelled

* Bytes: message layout, text, staging areas, the frame reader's splitting.
  A reply that does not fit the scratch area is modelled by its effect.
* The wrap of question ids at 2^32 and their reuse (the proofs and runs use
  each id once).
* Frames that remain in a received chunk after a close() in its middle.
* `Resolve` and `Disembargo`: capnwasm answers them and never sends
  them, and a handle's own target is what routes its calls.
* Several streams at once: they share no state except the transport.
* The timer window of `#scheduleFlush`, which only delays a flush.
* postMessage transports: a frame pass-through whose `close()` the peer does not
  hear (postmessage.mjs:83).
* Presence, identities and rate limits of the chat room; typed builders and
  batch reads of the reader runtime.
* Text tools (schema compiler, generators, compatibility, manifest, OpenAPI,
  command line) and request translation (REST adapter, MCP, worker front end):
  sequential code over files, text or one request, whose properties are about
  data. They are most of the repository's lines. The vendored library, the
  site and the benchmarks are out of scope.

`PROJECT.json` has the status of every component.

## 6. Plan

No proof of safety is left. What could be added to the models is in section 5:
ids that wrap and are used again, several streams at once, and the postMessage
transport, whose `close()` the peer does not hear.

There is one run per question. A behaviour of the code that contradicts a
comment but breaks nothing else the model knows of is described above, and is
excepted by name in a property or left open by all of them; it has no run of
its own.
