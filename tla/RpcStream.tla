----------------------------- MODULE RpcStream -----------------------------
(***************************************************************************)
(* One streaming call between two RpcSession objects (js/rpc.mjs).         *)
(*                                                                         *)
(* The Call and Finish frames wait in the client's #sendQueue for the next *)
(* flush, while WINDOW, CHUNK and END frames go straight to the transport: *)
(* c2s is the transport only and sendQueue what waits in front of it.      *)
(* Chunks are numbered in the order the generator yields them.             *)
(***************************************************************************)
EXTENDS Integers, Sequences, FiniteSets

CONSTANTS
    WindowSize,     \* opts.windowSize, 0 when it is not given
    MaxQueueSize,   \* opts.maxQueueSize, MaxChunks or more when not given
    Cancellable,    \* was opts.signal given?
    PromiseTarget,  \* is the stream called on a promise capability?
    MaxChunks,      \* bound: how many chunks the generator yields at most
    MaxReaders,     \* bound: next() calls outstanding at once
    Faults          \* subset of {"refuse", "strand", "close", "disconnect"}

ASSUME ConstantsAssumption ==
    /\ WindowSize \in Nat /\ MaxQueueSize \in Nat
    /\ MaxChunks \in Nat \ {0} /\ MaxReaders \in Nat \ {0}
    /\ Cancellable \in BOOLEAN /\ PromiseTarget \in BOOLEAN
    /\ Faults \subseteq {"refuse", "strand", "close", "disconnect"}

VARIABLES
    called,     \* has callStream() been called?
    tracked,    \* client: the question is in #streamQuestions
    buffer,     \* client: chunks nobody has read yet (queue)
    readers,    \* client: next() calls that wait (waiters.length)
    ended,      \* client: how the stream ended (done, failure), "open" before
    consumed,   \* client: consumedSinceRefill
    sendQueue,  \* client: frames waiting for the flush
    cclosed,    \* client: #closed
    c2s, s2c,   \* frames on the transport
    linkUp,     \* the transport carries frames
    handler,    \* server: where #handleCall and #runStreamHandler stand
    yielded,    \* server: chunks the generator has yielded
    credits,    \* server: the stream's entry in #streamCredits
    sclosed,    \* server: #closed
    received,   \* chunks handed to the reader
    verdict     \* what the reader was told when it got no chunk

clientVars == <<called, tracked, buffer, readers, ended, consumed, cclosed>>
serverVars == <<handler, yielded, credits, sclosed>>
readerVars == <<received, verdict>>
vars == <<clientVars, sendQueue, c2s, s2c, linkUp, serverVars, readerVars>>

Metered(n) == [enabled |-> TRUE, available |-> n]
Unmetered == [enabled |-> FALSE, available |-> 0]

CallFrame == [kind |-> "call"]
Finish    == [kind |-> "finish"]
Fin       == [kind |-> "fin"]
Return    == [kind |-> "return"]
Window(n) == [kind |-> "window", n |-> n]
Chunk(n)  == [kind |-> "chunk", n |-> n]
End(how)  == [kind |-> "end", how |-> how]

Init ==
    /\ called = FALSE /\ tracked = FALSE
    /\ buffer = <<>> /\ readers = 0 /\ ended = "open" /\ consumed = 0
    /\ sendQueue = <<>> /\ cclosed = FALSE
    /\ c2s = <<>> /\ s2c = <<>> /\ linkUp = TRUE
    /\ handler = "none" /\ yielded = 0 /\ credits = Unmetered
    /\ sclosed = FALSE
    /\ received = <<>> /\ verdict = "open"

-----------------------------------------------------------------------------
(* The transport, as in RpcCalls. *)

Carries == linkUp /\ ~cclosed /\ ~sclosed

Sent(channel, m) == IF Carries THEN Append(channel, m) ELSE channel

ClientGets(kind) ==
    /\ ~cclosed
    /\ s2c # <<>> /\ Head(s2c).kind = kind
    /\ s2c' = Tail(s2c)

ServerGets(kind) ==
    /\ ~sclosed
    /\ c2s # <<>> /\ Head(c2s).kind = kind
    /\ c2s' = Tail(c2s)

\* The microtask #scheduleFlush queued, or any later flush().
Flush ==
    /\ sendQueue # <<>> /\ ~cclosed
    /\ c2s' = IF Carries THEN c2s \o sendQueue ELSE c2s
    /\ sendQueue' = <<>>
    /\ UNCHANGED <<clientVars, s2c, linkUp, serverVars, readerVars>>

-----------------------------------------------------------------------------
(* Client *)

\* The Call is queued; the initial grant is sent at once.
CallStream ==
    /\ ~called /\ ~cclosed
    /\ called' = TRUE /\ tracked' = TRUE
    /\ sendQueue' = Append(sendQueue, CallFrame)
    /\ c2s' = IF WindowSize > 0 THEN Sent(c2s, Window(WindowSize)) ELSE c2s
    /\ UNCHANGED <<buffer, readers, ended, consumed, cclosed, s2c, linkUp,
                   serverVars, readerVars>>

RefillThreshold == IF WindowSize \div 2 > 0 THEN WindowSize \div 2 ELSE 1

\* onChunkConsumed: refill once enough chunks have been read.
ChunkConsumed ==
    LET refill == WindowSize > 0 /\ consumed + 1 >= RefillThreshold
    IN  /\ consumed' = IF WindowSize = 0 \/ refill THEN 0 ELSE consumed + 1
        /\ c2s' = IF refill THEN Sent(c2s, Window(consumed + 1)) ELSE c2s

\* The reader calls next(): a buffered chunk, the verdict, or a wait.
Read ==
    /\ called
    /\ \/ /\ buffer # <<>>
          /\ received' = Append(received, Head(buffer))
          /\ buffer' = Tail(buffer)
          /\ ChunkConsumed
          /\ UNCHANGED <<readers, verdict>>
       \/ /\ buffer = <<>> /\ ended # "open"
          /\ verdict' = IF verdict = "open" THEN ended ELSE verdict
          /\ UNCHANGED <<readers, buffer, received, consumed, c2s>>
       \/ /\ buffer = <<>> /\ ended = "open" /\ readers < MaxReaders
          /\ readers' = readers + 1
          /\ UNCHANGED <<buffer, received, verdict, consumed, c2s>>
    /\ UNCHANGED <<called, tracked, ended, sendQueue, cclosed, s2c, linkUp,
                   serverVars>>

\* Slip: a later end replaces an earlier one.
EndStreamLast(how) ==
    /\ ended' = how
    /\ readers' = 0
    /\ verdict' = IF readers > 0 THEN how ELSE verdict

\* stream.end: the first end decides, and answers the waiting readers.
EndStream(how) ==
    IF ended # "open" THEN UNCHANGED <<ended, readers, verdict>>
    ELSE /\ ended' = how
         /\ readers' = 0
         /\ verdict' = IF readers > 0 THEN how ELSE verdict

Full == Len(buffer) >= MaxQueueSize

\* Slip: an overflow empties the buffer and lets the stream go on.
OverflowGoesOn == buffer' = <<>> /\ UNCHANGED ended

Overflow == buffer' = <<>> /\ ended' = "failed"

\* stream.pushChunk: dropped once the stream ended, handed to a waiting
\* reader, or buffered; a full buffer is emptied and ends the stream.
PushChunk(n) ==
    \/ /\ ended # "open"
       /\ UNCHANGED <<buffer, readers, ended, consumed, c2s, readerVars>>
    \/ /\ ended = "open" /\ readers > 0
       /\ readers' = readers - 1
       /\ received' = Append(received, n)
       /\ ChunkConsumed
       /\ UNCHANGED <<buffer, ended, verdict>>
    \/ /\ ended = "open" /\ readers = 0
       /\ IF Full THEN Overflow ELSE buffer' = Append(buffer, n) /\ UNCHANGED ended
       /\ UNCHANGED <<readers, consumed, c2s, readerVars>>

HandleStreamChunk ==
    /\ ClientGets("chunk")
    /\ IF tracked
       THEN PushChunk(Head(s2c).n)
       ELSE UNCHANGED <<buffer, readers, ended, consumed, c2s, readerVars>>
    /\ UNCHANGED <<called, tracked, sendQueue, cclosed, linkUp, serverVars>>

HandleStreamEnd ==
    /\ ClientGets("end")
    /\ tracked' = FALSE
    /\ IF tracked
       THEN EndStream(Head(s2c).how)
       ELSE UNCHANGED <<ended, readers, verdict>>
    /\ UNCHANGED <<called, buffer, consumed, sendQueue, cclosed, c2s, linkUp,
                   serverVars, received>>

\* #handleReturn: a stream's question is not in #questions.
DropReturn ==
    /\ ClientGets("return")
    /\ UNCHANGED <<clientVars, sendQueue, c2s, linkUp, serverVars, readerVars>>

\* The listener of #wireAbort, kind "stream".
SignalAborts ==
    /\ Cancellable /\ tracked
    /\ tracked' = FALSE
    /\ EndStream("failed")
    /\ sendQueue' = Append(sendQueue, Finish)
    /\ UNCHANGED <<called, buffer, consumed, cclosed, c2s, s2c, linkUp,
                   serverVars, received>>

\* Slip: close() forgets the streams without ending them.
CloseClientSilently ==
    /\ ~cclosed
    /\ cclosed' = TRUE
    /\ tracked' = FALSE
    /\ c2s' = IF Carries THEN (c2s \o sendQueue) \o <<Fin>> ELSE c2s
    /\ sendQueue' = <<>>
    /\ UNCHANGED <<called, buffer, readers, ended, consumed, linkUp, serverVars,
                   readerVars>>

\* close(): what was queued is flushed, then the stream ends with an error.
CloseClient ==
    /\ ~cclosed
    /\ cclosed' = TRUE
    /\ tracked' = FALSE
    /\ IF tracked THEN EndStream("failed") ELSE UNCHANGED <<ended, readers, verdict>>
    /\ c2s' = IF Carries THEN (c2s \o sendQueue) \o <<Fin>> ELSE c2s
    /\ sendQueue' = <<>>
    /\ UNCHANGED <<called, buffer, consumed, linkUp, serverVars, received>>

ClientCloses ==
    /\ "close" \in Faults
    /\ CloseClient
    /\ UNCHANGED s2c

ClientLosesPeer ==
    /\ ClientGets("fin")
    /\ CloseClient

-----------------------------------------------------------------------------
(* Server *)

\* What is behind the wait of a pipelined call: a stream handler, or an
\* exception in a regular Return (no capability, unknown method).
DispatchStream ==
    \/ /\ handler' = "running"
       /\ credits' = Unmetered
       /\ UNCHANGED s2c
    \/ /\ "refuse" \in Faults
       /\ handler' = "refused"
       /\ s2c' = Sent(s2c, Return)
       /\ UNCHANGED credits

\* A pipelined call waits for the record of its target.  Nobody will settle
\* that record if it was made for a call that had been finished before, or has
\* left the table with the Finish of a call that then fails.
HandleCall ==
    /\ ServerGets("call")
    /\ IF PromiseTarget
       THEN /\ \/ handler' = "waiting"
               \/ "strand" \in Faults /\ handler' = "stranded"
            /\ UNCHANGED <<credits, s2c>>
       ELSE DispatchStream
    /\ UNCHANGED <<clientVars, sendQueue, linkUp, yielded, sclosed, readerVars>>

\* The target's record was settled.
ResumePipelined ==
    /\ handler = "waiting"
    /\ DispatchStream
    /\ UNCHANGED <<clientVars, sendQueue, c2s, linkUp, yielded, sclosed, readerVars>>

SendStreamChunk(n) == s2c' = Sent(s2c, Chunk(n))

\* The generator yields: free before the first WINDOW, then a credit a chunk.
GeneratorYields ==
    /\ handler = "running" /\ yielded < MaxChunks
    /\ yielded' = yielded + 1
    /\ IF credits.enabled /\ credits.available = 0
       THEN handler' = "blocked" /\ UNCHANGED <<credits, s2c>>
       ELSE /\ SendStreamChunk(yielded + 1)
            /\ credits' = IF credits.enabled THEN Metered(credits.available - 1)
                          ELSE credits
            /\ UNCHANGED handler
    /\ UNCHANGED <<clientVars, sendQueue, c2s, linkUp, sclosed, readerVars>>

\* The continuation of a chunk that waited for its credit.
SendGranted ==
    /\ handler = "granted"
    /\ handler' = "running"
    /\ SendStreamChunk(yielded)
    /\ UNCHANGED <<clientVars, sendQueue, c2s, linkUp, yielded, credits, sclosed,
                   readerVars>>

\* #sendStreamEnd carries the message of the error: an empty one has length 0,
\* which is also how the end of a generator that returned is sent.
StreamEnd(outcome) == End(IF outcome = "threw" THEN "failed" ELSE "done")

GeneratorEnds ==
    /\ handler = "running"
    /\ handler' = "over"
    /\ \E outcome \in {"returned", "threw", "threw without a message"} :
          s2c' = Sent(s2c, StreamEnd(outcome))
    /\ credits' = Unmetered
    /\ UNCHANGED <<clientVars, sendQueue, c2s, linkUp, yielded, sclosed, readerVars>>

\* Slip: waking the generator does not spend the credit.
GrantWithoutSpending(n) ==
    /\ credits' = Metered(credits.available + n)
    /\ handler' = IF handler = "blocked" THEN "granted" ELSE handler

Grant(n) ==
    LET wake == handler = "blocked" /\ credits.available + n > 0
    IN  /\ credits' = Metered(credits.available + n - (IF wake THEN 1 ELSE 0))
        /\ handler' = IF wake THEN "granted" ELSE handler

\* A WINDOW for a question without a running stream is dropped.
HandleStreamWindow ==
    /\ ServerGets("window")
    /\ IF handler \in {"running", "blocked", "granted"}
       THEN Grant(Head(c2s).n)
       ELSE UNCHANGED <<credits, handler>>
    /\ UNCHANGED <<clientVars, sendQueue, s2c, linkUp, yielded, sclosed,
                   readerVars>>

\* A Finish only removes the answer record, which no stream uses.
HandleFinish ==
    /\ ServerGets("finish")
    /\ UNCHANGED <<clientVars, sendQueue, s2c, linkUp, serverVars, readerVars>>

\* close() leaves #streamCredits and the generator alone.
CloseServer ==
    /\ ~sclosed
    /\ sclosed' = TRUE
    /\ s2c' = Sent(s2c, Fin)
    /\ UNCHANGED <<clientVars, sendQueue, linkUp, handler, yielded, credits,
                   readerVars>>

ServerCloses ==
    /\ "close" \in Faults
    /\ CloseServer
    /\ UNCHANGED c2s

ServerLosesPeer ==
    /\ ServerGets("fin")
    /\ CloseServer

\* The connection breaks: what is in flight is lost, both ends are told.
Disconnect ==
    /\ "disconnect" \in Faults /\ linkUp /\ ~cclosed /\ ~sclosed
    /\ linkUp' = FALSE
    /\ c2s' = <<Fin>> /\ s2c' = <<Fin>>
    /\ UNCHANGED <<clientVars, sendQueue, serverVars, readerVars>>

-----------------------------------------------------------------------------
ClientHandles == HandleStreamChunk \/ HandleStreamEnd \/ DropReturn \/ ClientLosesPeer
ServerHandles == HandleCall \/ HandleStreamWindow \/ HandleFinish \/ ServerLosesPeer
Generator == GeneratorYields \/ SendGranted \/ GeneratorEnds

Next == \/ CallStream \/ Read \/ SignalAborts \/ ClientCloses \/ Flush
        \/ ClientHandles \/ ServerHandles
        \/ ResumePipelined \/ Generator \/ ServerCloses
        \/ Disconnect

Spec == Init /\ [][Next]_vars

\* Microtasks run, the transport delivers, a pipeline target whose record the
\* server still settles does end, the generator goes on and the reader reads
\* until it has its verdict.
FairSpec ==
    /\ Spec
    /\ WF_vars(Flush)
    /\ WF_vars(ClientHandles) /\ WF_vars(ServerHandles)
    /\ WF_vars(ResumePipelined)
    /\ WF_vars(Generator)
    /\ WF_vars(Read /\ verdict = "open")

-----------------------------------------------------------------------------
(* Properties *)

ClientFrames == [kind : {"call", "finish", "fin"}] \cup [kind : {"window"}, n : Nat]
ServerFrames == [kind : {"return", "fin"}] \cup [kind : {"chunk"}, n : 1..MaxChunks]
                    \cup [kind : {"end"}, how : {"done", "failed"}]

TypeOK ==
    /\ called \in BOOLEAN /\ tracked \in BOOLEAN
    /\ cclosed \in BOOLEAN /\ sclosed \in BOOLEAN /\ linkUp \in BOOLEAN
    /\ buffer \in Seq(1..MaxChunks) /\ Len(buffer) <= MaxQueueSize
    /\ readers \in 0..MaxReaders
    /\ ended \in {"open", "done", "failed"}
    /\ consumed \in 0..RefillThreshold
    /\ sendQueue \in Seq({CallFrame, Finish})
    /\ c2s \in Seq(ClientFrames) /\ s2c \in Seq(ServerFrames)
    /\ handler \in {"none", "waiting", "stranded", "refused", "running",
                    "blocked", "granted", "over"}
    /\ yielded \in 0..MaxChunks
    /\ credits \in [enabled : BOOLEAN, available : Nat]
    /\ received \in Seq(1..MaxChunks)
    /\ verdict \in {"open", "done", "failed"}

\* The chunks that have left the generator; one may still wait for credit.
Shipped == yielded - (IF handler \in {"blocked", "granted"} THEN 1 ELSE 0)

\* What the reader has, what is buffered and, while the stream is open, what
\* is on the way are consecutive chunks, each at one place only; while frames
\* are carried none of those that were shipped is missing.
NothingLostInside ==
    LET taken == Len(received) + Len(buffer)
    IN  /\ \A i \in 1..Len(received) : received[i] = i
        /\ \A i \in 1..Len(buffer) : buffer[i] = Len(received) + i
        /\ taken <= Shipped
        /\ ended = "open" =>
              /\ \A i \in 1..Len(s2c) :
                    s2c[i].kind = "chunk" => s2c[i].n = taken + i /\ s2c[i].n <= Shipped
              /\ Carries => \A n \in (taken + 1)..Shipped :
                    \E i \in 1..Len(s2c) : s2c[i] = Chunk(n)

Grants == {i \in 1..Len(c2s) : c2s[i].kind = "window"}

\* The credits in circulation: those the server holds, the one it has reserved
\* for a chunk, the refills on their way, those the client has not granted back
\* yet, and one for every chunk that is shipped and still to be consumed.
Circulating ==
    credits.available + (IF handler = "granted" THEN 1 ELSE 0)
        + RefillThreshold * Cardinality(Grants) + consumed
        + (Shipped - Len(received))

\* The server counts the credits of a stream whose frames are carried.
Metering == credits.enabled /\ ended = "open" /\ Carries

\* Credits are conserved: once the server counts them, no step of either side
\* makes one or loses one, however chunks, refills and reads interleave.
CreditsConserved == [][Metering /\ Metering' => Circulating' = Circulating]_vars

\* The reader sees an ordered, gapless stream with one verdict.
Contract == INSTANCE StreamContract WITH produced <- yielded
ContractSpec == Contract!ContractSpec

\* Two streams the client is never told the end of: a refused one is answered
\* with a Return, which the client drops, and a stranded one waits at the server
\* for a record that nobody settles.
NeverTold == handler \in {"refused", "stranded"}

\* Every reader that keeps reading learns how its stream ended, through the
\* blocking of the generator, lost frames, aborts and close() of either side;
\* only the two kinds of NeverTold may be left without an end.
IteratorSettles == called ~> (verdict # "open" \/ NeverTold)

\* The shape of the state, and no hole in what the reader has and will get.
StreamInv ==
    /\ TypeOK
    /\ NothingLostInside
=============================================================================
