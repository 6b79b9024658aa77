-------------------------- MODULE RpcStream_proofs --------------------------
(***************************************************************************)
(* Proofs about RpcStream, for every window, buffer size, number of chunks *)
(* and combination of faults: chunks are neither lost nor reordered while  *)
(* the stream is open, credits are conserved, and the stream implements    *)
(* StreamContract.                                                         *)
(***************************************************************************)
EXTENDS RpcStream, FiniteSetTheorems, SequenceTheorems, TLAPS

Lacks(s, kind) == \A i \in 1..Len(s) : s[i].kind # kind

CallLast(s) ==
    \A i, k \in 1..Len(s) : s[i].kind = "call" /\ s[k].kind \in {"call", "window"} => k <= i

\* The Call goes out once, behind the initial WINDOW, and the server's side of
\* the stream begins with it.
RequestOnce ==
    /\ ~called => sendQueue = <<>> /\ handler = "none" /\ Lacks(c2s, "call") /\ Lacks(c2s, "window")
    /\ ~Lacks(sendQueue, "call") => handler = "none" /\ Lacks(c2s, "call")
    /\ ~Lacks(c2s, "call") => handler = "none"
    /\ CallLast(sendQueue) /\ CallLast(c2s)

Refills(s) == \A i \in 1..Len(s) : s[i].kind = "window" => s[i].n = RefillThreshold

\* Behind the Call every WINDOW is a refill.
RefillsFollow ==
    /\ handler = "waiting" => Lacks(c2s, "window")
    /\ handler \notin {"none", "waiting"} => Refills(c2s)
    /\ WindowSize = 0 => Lacks(c2s, "window") /\ ~credits.enabled /\ consumed = 0
    /\ consumed < RefillThreshold
    /\ yielded = 0 => consumed = 0

\* Who waits has nothing to read, and who was told the end has read it all.
ReaderWaits ==
    /\ tracked => called
    /\ called /\ ~tracked => ended # "open"
    /\ ended # "open" => called
    /\ readers > 0 => buffer = <<>> /\ ended = "open"
    /\ verdict # "open" => verdict = ended /\ buffer = <<>>

\* Where the generator stands, and what the server has sent by then.
GeneratorStands ==
    /\ handler \in {"none", "waiting", "stranded", "refused"} =>
          /\ yielded = 0
          /\ Lacks(s2c, "chunk") /\ Lacks(s2c, "end")
    /\ handler \notin {"running", "blocked", "granted"} => credits = Unmetered
    /\ handler = "blocked" => credits = Metered(0)
    /\ handler = "granted" => credits.enabled
    /\ handler \in {"blocked", "granted"} => yielded > 0
    /\ ~credits.enabled => credits.available = 0
    /\ handler # "refused" => Lacks(s2c, "return")

\* The chunks on the way to the client go on where it stands, and are all
\* there is up to the last one.
Had == Len(received) + Len(buffer)

InOrder(s, had, last) ==
    \A i \in 1..Len(s) : s[i].kind = "chunk" => s[i].n = had + i /\ s[i].n <= last

Complete(s, had, last) ==
    \A n \in (had + 1)..last : \E i \in 1..Len(s) : s[i] = Chunk(n)

ChunksFirst(s) ==
    \A i, j \in 1..Len(s) : i < j /\ s[j].kind = "chunk" => s[i].kind = "chunk"

\* An end is behind all the chunks, and says that they are all there is.
EndsLast ==
    /\ ChunksFirst(s2c)
    /\ ~Lacks(s2c, "end") => handler = "over" /\ (ended = "open" => Complete(s2c, Had, Shipped))
    /\ ended = "done" => handler = "over" /\ Had = yielded

\* News of a closed end, or of a lost connection, stops all traffic.
NoNews == Carries => Lacks(c2s, "fin") /\ Lacks(s2c, "fin")

IInv ==
    /\ TypeOK /\ NothingLostInside
    /\ RequestOnce /\ RefillsFollow /\ ReaderWaits /\ GeneratorStands
    /\ EndsLast /\ NoNews

-----------------------------------------------------------------------------
(* Queues *)

\* Queues stay well typed.
LEMMA QueuesTyped ==
    ASSUME NEW S, NEW s \in Seq(S)
    PROVE  /\ \A m \in S : Append(s, m) \in Seq(S)
           /\ \A t \in Seq(S) : s \o t \in Seq(S)
           /\ s # <<>> => Head(s) \in S /\ Tail(s) \in Seq(S)
  OBVIOUS

\* A frame at the back of a queue.
LEMMA Appended ==
    ASSUME NEW S, NEW s \in Seq(S), NEW m \in S
    PROVE  /\ Append(s, m) \in Seq(S)
           /\ Len(Append(s, m)) = Len(s) + 1 /\ Len(s) \in Nat
           /\ Append(s, m)[Len(s) + 1] = m
           /\ \A i \in 1..Len(s) : Append(s, m)[i] = s[i]
           /\ 1..Len(Append(s, m)) = 1..Len(s) \cup {Len(s) + 1}
  OBVIOUS

\* What is left behind the first frame of a queue.
LEMMA Taken ==
    ASSUME NEW S, NEW s \in Seq(S), s # <<>>
    PROVE  /\ Head(s) = s[1] /\ s[1] \in S /\ Len(s) \in Nat /\ 1 \in 1..Len(s)
           /\ Tail(s) \in Seq(S)
           /\ Len(Tail(s)) = Len(s) - 1
           /\ \A i \in 1..Len(Tail(s)) : Tail(s)[i] = s[i + 1] /\ i + 1 \in 1..Len(s)
           /\ \A i \in 1..Len(s) : i # 1 => i - 1 \in 1..Len(Tail(s)) /\ Tail(s)[i - 1] = s[i]
  OBVIOUS

\* A queue behind a queue.
LEMMA Joined ==
    ASSUME NEW S, NEW s \in Seq(S), NEW t \in Seq(S)
    PROVE  /\ s \o t \in Seq(S)
           /\ Len(s \o t) = Len(s) + Len(t) /\ Len(s) \in Nat /\ Len(t) \in Nat
           /\ \A i \in 1..Len(s) : (s \o t)[i] = s[i]
           /\ \A i \in 1..Len(t) : (s \o t)[Len(s) + i] = t[i]
           /\ \A i \in 1..Len(s \o t) : i \in 1..Len(s) \/ i - Len(s) \in 1..Len(t)
  OBVIOUS

Windows(s) == {i \in 1..Len(s) : s[i].kind = "window"}

\* The windows of a queue can be counted.
LEMMA WindowsCount ==
    ASSUME NEW S, NEW s \in Seq(S)
    PROVE  IsFiniteSet(Windows(s)) /\ Cardinality(Windows(s)) \in Nat
<1>1. IsFiniteSet(1..Len(s)) /\ Windows(s) \in SUBSET (1..Len(s))
  BY FS_Interval DEF Windows
<1> QED
  BY <1>1, FS_Subset, FS_CardinalityType

\* A queue without a window counts none.
LEMMA NoWindows ==
    ASSUME NEW S, NEW s \in Seq(S), Lacks(s, "window")
    PROVE  Cardinality(Windows(s)) = 0
<1>1. Windows(s) = {}
  BY DEF Windows, Lacks
<1> QED
  BY <1>1, FS_EmptySet

\* A frame at the back adds one to the count if it is a window.
LEMMA WindowsAppended ==
    ASSUME NEW S, NEW s \in Seq(S), NEW m \in S
    PROVE  Cardinality(Windows(Append(s, m)))
              = Cardinality(Windows(s)) + (IF m.kind = "window" THEN 1 ELSE 0)
<1>1. Windows(Append(s, m)) = Windows(s) \cup (IF m.kind = "window" THEN {Len(s) + 1} ELSE {})
  BY Appended DEF Windows
<1>2. Len(s) + 1 \notin Windows(s)
  BY Appended DEF Windows
<1>3. IsFiniteSet(Windows(s)) /\ Cardinality(Windows(s)) \in Nat
  BY WindowsCount
<1>4. Cardinality(Windows(s) \cup {Len(s) + 1}) = Cardinality(Windows(s)) + 1
  BY <1>2, <1>3, FS_AddElement
<1>5. CASE m.kind = "window"
  BY <1>1, <1>4, <1>5
<1>6. CASE m.kind # "window"
  BY <1>1, <1>3, <1>6
<1> QED
  BY <1>5, <1>6

\* Frames that are no windows do not count.
LEMMA WindowsJoined ==
    ASSUME NEW S, NEW s \in Seq(S), NEW t \in Seq(S), Lacks(t, "window")
    PROVE  Windows(s \o t) = Windows(s)
  BY Joined DEF Windows, Lacks

\* Taking the first frame takes one from the count if it is a window.
LEMMA WindowsTaken ==
    ASSUME NEW S, NEW s \in Seq(S), s # <<>>
    PROVE  Cardinality(Windows(Tail(s)))
              = Cardinality(Windows(s)) - (IF s[1].kind = "window" THEN 1 ELSE 0)
<1> DEFINE W == Windows(s)
           T == Windows(Tail(s))
           f == [i \in T |-> i + 1]
<1>1. IsFiniteSet(T) /\ IsFiniteSet(W) /\ Cardinality(W) \in Nat
  BY WindowsCount, Taken
<1>2. \A i \in T : i \in Int /\ i + 1 \in W \ {1}
  BY Taken DEF Windows
<1>3. \A j \in W \ {1} : j - 1 \in T /\ j \in Int
  BY Taken DEF Windows
<1>4. f \in Bijection(T, W \ {1})
  <2>1. f \in [T -> W \ {1}]
    BY <1>2
  <2>2. \A a, b \in T : f[a] = f[b] => a = b
    BY <1>2
  <2>3. \A j \in W \ {1} : \E a \in T : f[a] = j
    BY <1>3
  <2> QED
    BY <2>1, <2>2, <2>3 DEF Bijection, Injection, Surjection, IsInjective
<1>5. Cardinality(W \ {1}) = Cardinality(T)
  BY <1>1, <1>4, FS_Bijection DEF ExistsBijection
<1>6. 1 \in W <=> s[1].kind = "window"
  BY Taken DEF Windows
<1>7. Cardinality(W \ {1}) = IF 1 \in W THEN Cardinality(W) - 1 ELSE Cardinality(W)
  BY <1>1, FS_RemoveElement
<1> HIDE DEF W, T
<1> QED
  BY <1>1, <1>5, <1>6, <1>7 DEF W, T

-----------------------------------------------------------------------------
(* Type correctness *)

USE ConstantsAssumption DEF clientVars, serverVars, readerVars

\* The threshold is positive, and does not exceed a positive window.
LEMMA Threshold ==
    /\ RefillThreshold \in Nat \ {0}
    /\ WindowSize \in Nat
  BY DEF RefillThreshold

\* The frames each constructor yields.
LEMMA FramesTyped ==
    /\ CallFrame \in ClientFrames /\ Finish \in ClientFrames /\ Fin \in ClientFrames
    /\ \A n \in Nat : Window(n) \in ClientFrames
    /\ Return \in ServerFrames /\ Fin \in ServerFrames
    /\ \A n \in 1..MaxChunks : Chunk(n) \in ServerFrames
    /\ \A how \in {"done", "failed"} : End(how) \in ServerFrames
  BY DEF ClientFrames, ServerFrames, CallFrame, Finish, Fin, Window, Return, Chunk, End

\* The kind of a frame tells what it carries.
LEMMA FrameKinds ==
    /\ \A m \in ClientFrames : /\ m.kind \in {"call", "finish", "fin", "window"}
                               /\ m.kind = "window" => m.n \in Nat
    /\ \A m \in ServerFrames : /\ m.kind \in {"return", "fin", "chunk", "end"}
                               /\ m.kind = "chunk" => m.n \in 1..MaxChunks
                               /\ m.kind = "end" => m.how \in {"done", "failed"}
  BY DEF ClientFrames, ServerFrames

\* Sending keeps the transport well typed.
LEMMA SentTyped ==
    ASSUME NEW S, NEW s \in Seq(S), NEW m \in S
    PROVE  Sent(s, m) \in Seq(S)
  BY QueuesTyped DEF Sent

\* Reading a chunk keeps the client's refills well typed.
LEMMA ConsumedTyped ==
    ASSUME TypeOK, consumed < RefillThreshold, ChunkConsumed
    PROVE  /\ consumed' \in 0..RefillThreshold
           /\ c2s' \in Seq(ClientFrames)
<1>1. consumed + 1 \in 0..RefillThreshold /\ consumed + 1 \in Nat
  BY Threshold DEF TypeOK
<1>2. Sent(c2s, Window(consumed + 1)) \in Seq(ClientFrames)
  BY <1>1, SentTyped, FramesTyped DEF TypeOK
<1> QED
  BY <1>1, <1>2, Threshold DEF ChunkConsumed, TypeOK

\* Closing the client keeps the types.
LEMMA CloseClientTyped ==
    ASSUME TypeOK, CloseClient, s2c' \in Seq(ServerFrames)
    PROVE  TypeOK'
<1>1. sendQueue \in Seq(ClientFrames) /\ c2s \in Seq(ClientFrames)
  <2>1. {CallFrame, Finish} \subseteq ClientFrames
    BY FramesTyped
  <2>2. sendQueue \in Seq({CallFrame, Finish}) /\ c2s \in Seq(ClientFrames)
    BY DEF TypeOK
  <2> QED
    BY <2>1, <2>2, SeqMonotonic
<1>2. <<Fin>> \in Seq(ClientFrames)
  BY FramesTyped
<1>3. c2s' \in Seq(ClientFrames)
  <2>1. c2s' = (c2s \o sendQueue) \o <<Fin>> \/ c2s' = c2s
    BY DEF CloseClient
  <2>2. (c2s \o sendQueue) \o <<Fin>> \in Seq(ClientFrames)
    BY <1>1, <1>2, QueuesTyped
  <2> QED
    BY <1>1, <2>1, <2>2
<1>4. sendQueue' \in Seq({CallFrame, Finish})
  BY DEF CloseClient
<1>5. /\ ended' \in {"open", "done", "failed"} /\ verdict' \in {"open", "done", "failed"}
      /\ readers' \in 0..MaxReaders
  <2>1. ended' \in {ended, "failed"} /\ verdict' \in {verdict, "failed"} /\ readers' \in {readers, 0}
    BY DEF CloseClient, EndStream
  <2> QED
    BY <2>1 DEF TypeOK
<1>6. RefillThreshold' = RefillThreshold
  BY DEF RefillThreshold
<1> QED
  BY <1>3, <1>4, <1>5, <1>6 DEF CloseClient, TypeOK

\* Closing the server keeps the types.
LEMMA CloseServerTyped ==
    ASSUME TypeOK, CloseServer, c2s' \in Seq(ClientFrames)
    PROVE  TypeOK'
  BY SentTyped, FramesTyped DEF CloseServer, TypeOK, RefillThreshold

\* Every step keeps the types.
LEMMA TypeStep ==
    ASSUME TypeOK, RefillsFollow, GeneratorStands, [Next]_vars
    PROVE  TypeOK'
<1> RefillThreshold' = RefillThreshold /\ consumed < RefillThreshold
  BY DEF RefillThreshold, RefillsFollow
<1>0. /\ c2s \in Seq(ClientFrames) /\ s2c \in Seq(ServerFrames)
      /\ sendQueue \in Seq({CallFrame, Finish})
      /\ buffer \in Seq(1..MaxChunks) /\ received \in Seq(1..MaxChunks)
  BY DEF TypeOK
<1>f. /\ s2c # <<>> => Head(s2c) \in ServerFrames /\ Tail(s2c) \in Seq(ServerFrames)
      /\ c2s # <<>> => Head(c2s) \in ClientFrames /\ Tail(c2s) \in Seq(ClientFrames)
  BY <1>0, QueuesTyped
<1>1. CASE CallStream
  <2>1. c2s' \in Seq(ClientFrames)
    BY <1>0, <1>1, SentTyped, FramesTyped DEF CallStream
  <2>2. sendQueue' \in Seq({CallFrame, Finish})
    BY <1>0, <1>1, QueuesTyped DEF CallStream
  <2> QED
    BY <1>1, <2>1, <2>2 DEF CallStream, TypeOK
<1>2. CASE Read
  <2>1. CASE /\ buffer # <<>> /\ received' = Append(received, Head(buffer))
             /\ buffer' = Tail(buffer) /\ ChunkConsumed /\ UNCHANGED <<readers, verdict>>
    <3>1. /\ Head(buffer) \in 1..MaxChunks /\ Tail(buffer) \in Seq(1..MaxChunks)
          /\ Len(Tail(buffer)) <= MaxQueueSize
      BY <2>1, QueuesTyped, Taken DEF TypeOK
    <3>2. Append(received, Head(buffer)) \in Seq(1..MaxChunks)
      BY <1>0, <3>1, QueuesTyped
    <3>3. consumed' \in 0..RefillThreshold /\ c2s' \in Seq(ClientFrames)
      BY <2>1, ConsumedTyped
    <3> QED
      BY <1>2, <2>1, <3>1, <3>2, <3>3 DEF Read, TypeOK
  <2>2. CASE UNCHANGED <<buffer, received, consumed, c2s>>
    BY <1>2, <2>2 DEF Read, TypeOK
  <2> QED
    BY <1>2, <2>1, <2>2 DEF Read
<1>3. CASE SignalAborts
  <2>1. sendQueue' \in Seq({CallFrame, Finish})
    BY <1>0, <1>3, QueuesTyped DEF SignalAborts
  <2>2. /\ ended' \in {"open", "done", "failed"} /\ verdict' \in {"open", "done", "failed"}
        /\ readers' \in 0..MaxReaders
    BY <1>3 DEF SignalAborts, EndStream, TypeOK
  <2> QED
    BY <1>3, <2>1, <2>2 DEF SignalAborts, TypeOK
<1>4. CASE ClientCloses \/ ClientLosesPeer
  <2>1. s2c' \in Seq(ServerFrames)
    BY <1>0, <1>f, <1>4 DEF ClientCloses, ClientLosesPeer, ClientGets
  <2> QED
    BY <1>4, <2>1, CloseClientTyped DEF ClientCloses, ClientLosesPeer
<1>5. CASE Flush
  <2>1. sendQueue \in Seq(ClientFrames)
    <3>1. {CallFrame, Finish} \subseteq ClientFrames
      BY FramesTyped
    <3>2. sendQueue \in Seq({CallFrame, Finish})
      BY <1>0
    <3> QED
      BY <3>1, <3>2, SeqMonotonic
  <2>2. c2s' \in Seq(ClientFrames) /\ sendQueue' \in Seq({CallFrame, Finish})
    BY <1>0, <1>5, <2>1, QueuesTyped DEF Flush
  <2> QED
    BY <1>5, <2>2 DEF Flush, TypeOK
<1>6. CASE HandleStreamChunk
  <2> DEFINE n == Head(s2c).n
  <2>1. n \in 1..MaxChunks /\ s2c' \in Seq(ServerFrames)
    BY <1>f, <1>6, FrameKinds DEF HandleStreamChunk, ClientGets
  <2> HIDE DEF n
  <2>2. Append(received, n) \in Seq(1..MaxChunks) /\ Append(buffer, n) \in Seq(1..MaxChunks)
        /\ <<>> \in Seq(1..MaxChunks)
    BY <1>0, <2>1, QueuesTyped
  <2>3. (~Full => Len(Append(buffer, n)) <= MaxQueueSize) /\ Len(<<>>) <= MaxQueueSize
    BY <1>0, <2>1, Appended DEF Full
  <2>4. CASE UNCHANGED <<buffer, readers, ended, consumed, c2s, readerVars>>
    BY <1>6, <2>1, <2>4 DEF HandleStreamChunk, TypeOK
  <2>5. CASE readers > 0 /\ readers' = readers - 1 /\ received' = Append(received, n)
             /\ ChunkConsumed /\ UNCHANGED <<buffer, ended, verdict>>
    <3>1. consumed' \in 0..RefillThreshold /\ c2s' \in Seq(ClientFrames)
      BY <2>5, ConsumedTyped
    <3>2. readers' \in 0..MaxReaders
      BY <2>5 DEF TypeOK
    <3> QED
      BY <1>6, <2>1, <2>2, <2>5, <3>1, <3>2 DEF HandleStreamChunk, TypeOK
  <2>6. CASE /\ IF Full THEN Overflow ELSE buffer' = Append(buffer, n) /\ UNCHANGED ended
             /\ UNCHANGED <<readers, consumed, c2s, readerVars>>
    <3>1. buffer' \in Seq(1..MaxChunks) /\ Len(buffer') <= MaxQueueSize /\ ended' \in {"open", "done", "failed"}
      BY <2>2, <2>3, <2>6 DEF Overflow, TypeOK
    <3> QED
      BY <1>6, <2>1, <2>6, <3>1 DEF HandleStreamChunk, TypeOK
  <2> QED
    BY <1>6, <2>4, <2>5, <2>6 DEF HandleStreamChunk, PushChunk, n
<1>7. CASE HandleStreamEnd
  <2>1. Head(s2c).how \in {"done", "failed"} /\ s2c' \in Seq(ServerFrames)
    BY <1>f, <1>7, FrameKinds DEF HandleStreamEnd, ClientGets
  <2>2. /\ ended' \in {ended, Head(s2c).how} /\ verdict' \in {verdict, Head(s2c).how}
        /\ readers' \in {readers, 0}
    BY <1>7 DEF HandleStreamEnd, EndStream
  <2>3. /\ ended' \in {"open", "done", "failed"} /\ verdict' \in {"open", "done", "failed"}
        /\ readers' \in 0..MaxReaders
    BY <2>1, <2>2 DEF TypeOK
  <2> QED
    BY <1>7, <2>1, <2>3 DEF HandleStreamEnd, TypeOK
<1>8. CASE DropReturn
  <2>1. s2c' \in Seq(ServerFrames)
    BY <1>f, <1>8 DEF DropReturn, ClientGets
  <2> QED
    BY <1>8, <2>1 DEF DropReturn, TypeOK
<1>9. CASE HandleCall \/ ResumePipelined
  <2>1. c2s' \in Seq(ClientFrames)
    BY <1>0, <1>f, <1>9 DEF HandleCall, ResumePipelined, ServerGets
  <2>2. Sent(s2c, Return) \in Seq(ServerFrames)
    BY <1>0, SentTyped, FramesTyped
  <2>3. /\ s2c' \in Seq(ServerFrames) /\ credits' \in {credits, Unmetered}
        /\ handler' \in {"waiting", "stranded", "refused", "running"}
    BY <1>0, <1>9, <2>2 DEF HandleCall, ResumePipelined, DispatchStream
  <2>4. Unmetered \in [enabled : BOOLEAN, available : Nat]
    BY DEF Unmetered
  <2>5. credits' \in [enabled : BOOLEAN, available : Nat]
    BY <2>3, <2>4 DEF TypeOK
  <2>6. UNCHANGED <<clientVars, sendQueue, yielded, sclosed, linkUp, readerVars>>
    BY <1>9 DEF HandleCall, ResumePipelined
  <2> QED
    BY <2>1, <2>3, <2>5, <2>6 DEF TypeOK
<1>10. CASE GeneratorYields
  <2>1. yielded + 1 \in 1..MaxChunks
    BY <1>10 DEF GeneratorYields, TypeOK
  <2>2. Sent(s2c, Chunk(yielded + 1)) \in Seq(ServerFrames)
    BY <1>0, <2>1, SentTyped, FramesTyped
  <2>3. credits' \in [enabled : BOOLEAN, available : Nat]
    <3>1. CASE UNCHANGED credits
      BY <3>1 DEF TypeOK
    <3>2. CASE credits.available # 0 /\ credits' = Metered(credits.available - 1)
      <4>1. credits.available - 1 \in Nat
        BY <3>2 DEF TypeOK
      <4> QED
        BY <3>2, <4>1 DEF Metered
    <3> QED
      BY <1>10, <3>1, <3>2 DEF GeneratorYields
  <2>5. s2c' \in Seq(ServerFrames) /\ handler' \in {"running", "blocked"}
    BY <1>0, <1>10, <2>2 DEF GeneratorYields, SendStreamChunk
  <2> QED
    BY <1>10, <2>1, <2>3, <2>5 DEF GeneratorYields, TypeOK
<1>11. CASE SendGranted
  <2>1. yielded \in 1..MaxChunks
    BY <1>11 DEF SendGranted, GeneratorStands, TypeOK
  <2>2. s2c' \in Seq(ServerFrames)
    BY <1>0, <1>11, <2>1, SentTyped, FramesTyped DEF SendGranted, SendStreamChunk
  <2> QED
    BY <1>11, <2>1, <2>2 DEF SendGranted, TypeOK
<1>12. CASE GeneratorEnds
  <2>1. s2c' \in Seq(ServerFrames)
    BY <1>0, <1>12, SentTyped, FramesTyped DEF GeneratorEnds, StreamEnd
  <2>2. credits' \in [enabled : BOOLEAN, available : Nat]
    BY <1>12 DEF GeneratorEnds, Unmetered
  <2> QED
    BY <1>12, <2>1, <2>2 DEF GeneratorEnds, TypeOK
<1>13. CASE HandleStreamWindow
  <2> DEFINE n == Head(c2s).n
  <2>1. c2s' \in Seq(ClientFrames) /\ n \in Nat
    BY <1>f, <1>13, FrameKinds DEF HandleStreamWindow, ServerGets
  <2> HIDE DEF n
  <2>u. UNCHANGED <<clientVars, sendQueue, s2c, linkUp, yielded, sclosed, readerVars>>
    BY <1>13 DEF HandleStreamWindow
  <2>2. CASE UNCHANGED <<credits, handler>>
    BY <2>1, <2>2, <2>u DEF TypeOK
  <2>3. CASE Grant(n)
    <3> DEFINE m == credits.available + n - (IF handler = "blocked" /\ credits.available + n > 0 THEN 1 ELSE 0)
    <3>1. m \in Nat /\ credits' = Metered(m)
      <4>1. credits.available \in Nat
        BY DEF TypeOK
      <4>2. m \in Nat
        BY <2>1, <4>1
      <4> QED
        BY <2>3, <4>2 DEF Grant
    <3> HIDE DEF m
    <3>2. credits' \in [enabled : BOOLEAN, available : Nat]
      BY <3>1 DEF Metered
    <3>3. handler' \in {"granted", handler}
      BY <2>3 DEF Grant
    <3> QED
      BY <2>1, <2>u, <3>2, <3>3 DEF TypeOK
  <2> QED
    BY <1>13, <2>2, <2>3 DEF HandleStreamWindow, n
<1>14. CASE HandleFinish
  <2>1. c2s' \in Seq(ClientFrames)
    BY <1>f, <1>14 DEF HandleFinish, ServerGets
  <2> QED
    BY <1>14, <2>1 DEF HandleFinish, TypeOK
<1>15. CASE ServerCloses \/ ServerLosesPeer
  <2>1. c2s' \in Seq(ClientFrames)
    BY <1>0, <1>f, <1>15 DEF ServerCloses, ServerLosesPeer, ServerGets
  <2> QED
    BY <1>15, <2>1, CloseServerTyped DEF ServerCloses, ServerLosesPeer
<1>16. CASE Disconnect
  <2>1. <<Fin>> \in Seq(ClientFrames) /\ <<Fin>> \in Seq(ServerFrames)
    BY FramesTyped
  <2> QED
    BY <1>16, <2>1 DEF Disconnect, TypeOK
<1>17. CASE UNCHANGED vars
  BY <1>17 DEF vars, TypeOK
<1> QED
  BY <1>1, <1>2, <1>3, <1>4, <1>5, <1>6, <1>7, <1>8, <1>9, <1>10, <1>11, <1>12, <1>13,
     <1>14, <1>15, <1>16, <1>17
     DEF Next, ClientHandles, ServerHandles, Generator

\* What the queues hold, the one in front of the transport included.
LEMMA Queues ==
    ASSUME TypeOK
    PROVE  /\ c2s \in Seq(ClientFrames) /\ s2c \in Seq(ServerFrames) /\ sendQueue \in Seq(ClientFrames)
           /\ \A i \in 1..Len(sendQueue) : sendQueue[i] \in {CallFrame, Finish}
<1>1. c2s \in Seq(ClientFrames) /\ s2c \in Seq(ServerFrames) /\ sendQueue \in Seq({CallFrame, Finish})
  BY DEF TypeOK
<1>2. {CallFrame, Finish} \subseteq ClientFrames
  BY FramesTyped
<1>3. sendQueue \in Seq(ClientFrames)
  BY <1>1, <1>2, SeqMonotonic
<1>4. ASSUME NEW i \in 1..Len(sendQueue) PROVE sendQueue[i] \in {CallFrame, Finish}
  BY <1>1, ElementOfSeq
<1> QED
  BY <1>1, <1>3, <1>4

-----------------------------------------------------------------------------
(* What a step does to the two directions of the transport *)

\* The frames in front of the queues, and behind them.
LEMMA Fronts ==
    ASSUME TypeOK
    PROVE  /\ Len(c2s) \in Nat /\ Len(s2c) \in Nat /\ Len(sendQueue) \in Nat
           /\ c2s # <<>> => /\ Head(c2s) = c2s[1] /\ 1 \in 1..Len(c2s)
                            /\ c2s[1].kind \in {"call", "finish", "fin", "window"}
                            /\ c2s[1].kind = "window" => c2s[1].n \in Nat
           /\ s2c # <<>> => /\ Head(s2c) = s2c[1] /\ 1 \in 1..Len(s2c)
                            /\ s2c[1].kind \in {"return", "fin", "chunk", "end"}
                            /\ s2c[1].kind = "chunk" => s2c[1].n \in 1..MaxChunks
                            /\ s2c[1].kind = "end" => s2c[1].how \in {"done", "failed"}
<1>1. c2s \in Seq(ClientFrames) /\ s2c \in Seq(ServerFrames) /\ sendQueue \in Seq({CallFrame, Finish})
  BY DEF TypeOK
<1>2. c2s # <<>> => Head(c2s) = c2s[1] /\ 1 \in 1..Len(c2s) /\ c2s[1] \in ClientFrames
  BY <1>1, Taken
<1>3. s2c # <<>> => Head(s2c) = s2c[1] /\ 1 \in 1..Len(s2c) /\ s2c[1] \in ServerFrames
  BY <1>1, Taken
<1> QED
  BY <1>1, <1>2, <1>3, FrameKinds, LenProperties

\* While frames are carried, nobody has closed and the link was up before.
LEMMA CarriesStays ==
    ASSUME TypeOK, [Next]_vars, Carries'
    PROVE  /\ Carries /\ ~ClientCloses /\ ~ClientLosesPeer /\ ~ServerCloses /\ ~ServerLosesPeer
           /\ ~Disconnect /\ UNCHANGED <<linkUp, cclosed, sclosed>>
<1>1. UNCHANGED <<linkUp, cclosed, sclosed>> \/ ~Carries'
  BY DEF Next, ClientHandles, ServerHandles, Generator, CallStream, Read, SignalAborts, ClientCloses, Flush,
         HandleStreamChunk, HandleStreamEnd, DropReturn, ClientLosesPeer, HandleCall, HandleStreamWindow,
         HandleFinish, ServerLosesPeer, ResumePipelined, GeneratorYields, SendGranted, GeneratorEnds,
         ServerCloses, Disconnect, CloseClient, CloseServer, Carries, vars
<1>2. /\ ClientCloses => cclosed' = TRUE
      /\ ClientLosesPeer => cclosed' = TRUE
      /\ ServerCloses => sclosed' = TRUE
      /\ ServerLosesPeer => sclosed' = TRUE
      /\ Disconnect => linkUp' = FALSE
  BY DEF ClientCloses, ClientLosesPeer, ServerCloses, ServerLosesPeer, Disconnect, CloseClient, CloseServer
<1>3. /\ ~ClientCloses /\ ~ClientLosesPeer /\ ~ServerCloses /\ ~ServerLosesPeer /\ ~Disconnect
  BY <1>2 DEF Carries
<1>4. UNCHANGED <<linkUp, cclosed, sclosed>>
  BY <1>1
<1>5. Carries
  BY <1>4 DEF Carries
<1> QED
  BY <1>3, <1>4, <1>5

-----------------------------------------------------------------------------
(* Closing and losing the connection *)

\* A frame at the back brings no other kind.
LEMMA LacksAppended ==
    ASSUME NEW S, NEW s \in Seq(S), NEW m \in S, NEW kind, Lacks(s, kind), m.kind # kind
    PROVE  Lacks(Append(s, m), kind) /\ Lacks(Sent(s, m), kind)
<1>1. Lacks(Append(s, m), kind)
  BY Appended DEF Lacks
<1> QED
  BY <1>1 DEF Sent

\* Taking the first message off a queue brings no kind of message into it.
LEMMA LacksTaken ==
    ASSUME NEW S, NEW s \in Seq(S), s # <<>>, NEW kind, Lacks(s, kind)
    PROVE  Lacks(Tail(s), kind)
  BY Taken DEF Lacks

\* Two queues without a kind of message, joined, are a queue without it.
LEMMA LacksJoined ==
    ASSUME NEW S, NEW s \in Seq(S), NEW t \in Seq(S), NEW kind, Lacks(s, kind), Lacks(t, kind)
    PROVE  Lacks(s \o t, kind)
  BY Joined DEF Lacks

\* What the server may send besides its Fin.
Answers == {Return} \cup {Chunk(n) : n \in 1..MaxChunks} \cup {End(how) : how \in {"done", "failed"}}

\* Every answer is a frame of the server, and none is its Fin.
LEMMA AnswersTyped == \A m \in Answers : m \in ServerFrames /\ m.kind # "fin"
  BY FramesTyped DEF Answers, Return, Chunk, End

\* What a step does to the transport while it carries frames.
LEMMA Moves ==
    ASSUME TypeOK, GeneratorStands, [Next]_vars, Carries'
    PROVE  /\ \/ c2s' = c2s
              \/ c2s # <<>> /\ c2s' = Tail(c2s)
              \/ c2s' = c2s \o sendQueue
              \/ \E n \in Nat : c2s' = Append(c2s, Window(n))
           /\ \/ s2c' = s2c
              \/ s2c # <<>> /\ s2c' = Tail(s2c)
              \/ \E m \in Answers : s2c' = Append(s2c, m)
<1> DEFINE A == \/ c2s' = c2s
                \/ c2s # <<>> /\ c2s' = Tail(c2s)
                \/ c2s' = c2s \o sendQueue
                \/ \E n \in Nat : c2s' = Append(c2s, Window(n))
           B == \/ s2c' = s2c
                \/ s2c # <<>> /\ s2c' = Tail(s2c)
                \/ \E m \in Answers : s2c' = Append(s2c, m)
<1>1. WindowSize \in Nat /\ consumed + 1 \in Nat
  BY DEF TypeOK, RefillThreshold
<1>2. ~ClientCloses /\ ~ClientLosesPeer /\ ~ServerCloses /\ ~ServerLosesPeer /\ ~Disconnect
  BY CarriesStays
<1>3. CASE CallStream
  BY <1>1, <1>3 DEF CallStream, Sent
<1>4. CASE Read
  BY <1>1, <1>4 DEF Read, ChunkConsumed, Sent
<1>5. CASE HandleStreamChunk
  BY <1>1, <1>5 DEF HandleStreamChunk, ClientGets, PushChunk, ChunkConsumed, Sent
<1>6. CASE SignalAborts \/ Flush
  BY <1>6 DEF SignalAborts, Flush
<1>7. CASE HandleStreamEnd \/ DropReturn
  BY <1>7 DEF HandleStreamEnd, DropReturn, ClientGets
<1>8. CASE HandleCall \/ ResumePipelined
  <2>1. s2c' \in {s2c, Append(s2c, Return)} /\ Return \in Answers
    BY <1>8 DEF HandleCall, ResumePipelined, DispatchStream, Sent, Answers
  <2> QED
    BY <1>8, <2>1 DEF HandleCall, ResumePipelined, ServerGets
<1>9. CASE GeneratorYields
  <2>1. yielded + 1 \in 1..MaxChunks
    BY <1>9 DEF GeneratorYields, TypeOK
  <2>. Chunk(yielded + 1) \in Answers
    BY <2>1 DEF Answers
  <2>2. s2c' \in {s2c, Append(s2c, Chunk(yielded + 1))} /\ c2s' = c2s
    BY <1>9 DEF GeneratorYields, SendStreamChunk, Sent
  <2> QED
    BY <2>1, <2>2
<1>10. CASE SendGranted
  <2>1. yielded \in 1..MaxChunks
    BY <1>10 DEF SendGranted, GeneratorStands, TypeOK
  <2>2. Chunk(yielded) \in Answers
    BY <2>1 DEF Answers
  <2>3. s2c' \in {s2c, Append(s2c, Chunk(yielded))} /\ c2s' = c2s
    BY <1>10 DEF SendGranted, SendStreamChunk, Sent
  <2> QED
    BY <2>2, <2>3
<1>11. CASE GeneratorEnds
  BY <1>11 DEF GeneratorEnds, StreamEnd, Sent, Answers
<1>12. CASE HandleStreamWindow \/ HandleFinish
  BY <1>12 DEF HandleStreamWindow, HandleFinish, ServerGets
<1>13. CASE UNCHANGED vars
  BY <1>13 DEF vars
<1> QED
  BY <1>2, <1>3, <1>4, <1>5, <1>6, <1>7, <1>8, <1>9, <1>10, <1>11, <1>12, <1>13
     DEF Next, ClientHandles, ServerHandles, Generator

\* While frames are carried no news of an end is on the way.
LEMMA NoNewsStep ==
    ASSUME TypeOK, GeneratorStands, NoNews, [Next]_vars
    PROVE  NoNews'
<1> SUFFICES ASSUME Carries' PROVE Lacks(c2s, "fin")' /\ Lacks(s2c, "fin")'
  BY DEF NoNews
<1>1. Lacks(c2s, "fin") /\ Lacks(s2c, "fin")
  BY CarriesStays DEF NoNews
<1>2. c2s \in Seq(ClientFrames) /\ s2c \in Seq(ServerFrames) /\ sendQueue \in Seq(ClientFrames)
  BY Queues
<1>3. Lacks(sendQueue, "fin")
  BY Queues DEF Lacks, CallFrame, Finish
<1>4. Lacks(c2s', "fin")
  <2>1. CASE c2s' = c2s
    BY <1>1, <2>1
  <2>2. CASE c2s # <<>> /\ c2s' = Tail(c2s)
    BY <1>1, <1>2, <2>2, LacksTaken
  <2>3. CASE c2s' = c2s \o sendQueue
    BY <1>1, <1>2, <1>3, <2>3, LacksJoined
  <2>4. ASSUME NEW n \in Nat, c2s' = Append(c2s, Window(n)) PROVE Lacks(c2s', "fin")
    <3>1. Window(n) \in ClientFrames /\ Window(n).kind # "fin"
      BY FramesTyped DEF Window
    <3> QED
      BY <1>1, <1>2, <2>4, <3>1, LacksAppended
  <2> QED
    BY <2>1, <2>2, <2>3, <2>4, Moves
<1>5. Lacks(s2c', "fin")
  <2>1. CASE s2c' = s2c
    BY <1>1, <2>1
  <2>2. CASE s2c # <<>> /\ s2c' = Tail(s2c)
    BY <1>1, <1>2, <2>2, LacksTaken
  <2>3. ASSUME NEW m \in Answers, s2c' = Append(s2c, m) PROVE Lacks(s2c', "fin")
    BY <1>1, <1>2, <2>3, AnswersTyped, LacksAppended
  <2> QED
    BY <2>1, <2>2, <2>3, Moves
<1> QED
  BY <1>4, <1>5 DEF Lacks

-----------------------------------------------------------------------------
(* The request *)

\* A message other than the Call, and no WINDOW behind the Call, keeps the Call last.
LEMMA CallLastAppended ==
    ASSUME NEW S, NEW s \in Seq(S), NEW m \in S, CallLast(s), m.kind # "call",
           m.kind # "window" \/ Lacks(s, "call")
    PROVE  CallLast(Append(s, m))
  BY Appended DEF CallLast, Lacks

\* Past the Call nothing of the stream's setup is left.
LEMMA CallLastTaken ==
    ASSUME NEW S, NEW s \in Seq(S), s # <<>>, CallLast(s)
    PROVE  /\ CallLast(Tail(s))
           /\ s[1].kind = "call" => Lacks(Tail(s), "call") /\ Lacks(Tail(s), "window")
<1>1. CallLast(Tail(s))
  BY Taken DEF CallLast
<1>2. ASSUME s[1].kind = "call" PROVE Lacks(Tail(s), "call") /\ Lacks(Tail(s), "window")
  BY <1>2, Taken DEF CallLast, Lacks
<1> QED
  BY <1>1, <1>2

\* What waits for the flush goes behind what is on the transport.
LEMMA CallLastJoined ==
    ASSUME NEW S, NEW s \in Seq(S), NEW t \in Seq(S), CallLast(s), CallLast(t),
           Lacks(s, "call") \/ Lacks(t, "call"), Lacks(t, "window")
    PROVE  CallLast(s \o t)
<1>1. CASE Lacks(t, "call")
  BY <1>1, Joined DEF CallLast, Lacks
<1>2. ASSUME Lacks(s, "call"), NEW i \in 1..Len(s \o t), (s \o t)[i].kind = "call",
             NEW k \in 1..Len(s \o t), (s \o t)[k].kind \in {"call", "window"}
      PROVE  k <= i
  <2>1. i - Len(s) \in 1..Len(t) /\ (s \o t)[i] = t[i - Len(s)]
    <3>1. i \in 1..Len(s) => s[i].kind = "call"
      BY <1>2, Joined
    <3>2. i - Len(s) \in 1..Len(t)
      BY <1>2, <3>1, Joined DEF Lacks
    <3> QED
      BY <3>2, Joined
  <2>2. CASE k \in 1..Len(s)
    BY <2>1, <2>2, Joined
  <2>3. CASE k - Len(s) \in 1..Len(t)
    <3>1. (s \o t)[k] = t[k - Len(s)]
      BY <2>3, Joined
    <3>2. k - Len(s) <= i - Len(s)
      BY <1>2, <2>1, <2>3, <3>1 DEF CallLast
    <3> QED
      BY <2>1, <3>2, Joined
  <2> QED
    BY <1>2, <2>2, <2>3, Joined
<1>3. CASE Lacks(s, "call")
  BY <1>2, <1>3 DEF CallLast
<1> QED
  BY <1>1, <1>3

\* A chunk that is buffered or on the way comes from a running generator.
LEMMA ChunkFromHandler ==
    ASSUME TypeOK, NothingLostInside, GeneratorStands,
           buffer # <<>> \/ \E i \in 1..Len(s2c) : s2c[i].kind = "chunk"
    PROVE  /\ handler \notin {"none", "waiting", "stranded", "refused"}
           /\ buffer # <<>> \/ ended = "open" => yielded > 0
<1>1. ASSUME buffer # <<>> PROVE handler \notin {"none", "waiting", "stranded", "refused"} /\ yielded > 0
  <2>1. Len(buffer) > 0 /\ Len(received) \in Nat
    BY <1>1, EmptySeq, LenProperties DEF TypeOK
  <2> QED
    BY <2>1 DEF NothingLostInside, GeneratorStands, Shipped, TypeOK
<1>2. ASSUME NEW i \in 1..Len(s2c), s2c[i].kind = "chunk"
      PROVE  /\ handler \notin {"none", "waiting", "stranded", "refused"}
             /\ ended = "open" => yielded > 0
  <2>1. handler \notin {"none", "waiting", "stranded", "refused"}
    BY <1>2 DEF GeneratorStands, Lacks
  <2>2. i \in Nat \ {0} /\ Len(received) \in Nat /\ Len(buffer) \in Nat
    BY LenProperties DEF TypeOK
  <2>3. ASSUME ended = "open" PROVE yielded > 0
    <3>1. s2c[i].n = Len(received) + Len(buffer) + i /\ s2c[i].n <= Shipped
      BY <1>2, <2>3 DEF NothingLostInside
    <3>2. yielded \in Nat /\ (Shipped = yielded \/ Shipped = yielded - 1)
      BY DEF Shipped, TypeOK
    <3> QED
      BY <2>2, <3>1, <3>2
  <2> QED
    BY <2>1, <2>3
<1> QED
  BY <1>1, <1>2

\* A refill comes from a running generator, and counts a chunk more.
LEMMA RefillFromHandler ==
    ASSUME TypeOK, NothingLostInside, GeneratorStands,
           Read \/ HandleStreamChunk, c2s' # c2s \/ consumed' # consumed
    PROVE  /\ ChunkConsumed /\ handler \notin {"none", "waiting", "stranded", "refused"} /\ yielded > 0
           /\ UNCHANGED <<handler, yielded, sendQueue, called>>
<1>1. CASE Read
  <2>1. buffer # <<>> /\ ChunkConsumed
    BY <1>1 DEF Read
  <2> QED
    BY <1>1, <2>1, ChunkFromHandler DEF Read
<1>2. CASE HandleStreamChunk
  <2>1. ended = "open" /\ ChunkConsumed /\ s2c # <<>> /\ Head(s2c).kind = "chunk"
    BY <1>2 DEF HandleStreamChunk, ClientGets, PushChunk
  <2>2. 1 \in 1..Len(s2c) /\ s2c[1].kind = "chunk"
    BY <2>1, Fronts
  <2> QED
    BY <1>2, <2>1, <2>2, ChunkFromHandler DEF HandleStreamChunk
<1> QED
  BY <1>1, <1>2

\* Every step keeps the request sent once, its WINDOW in front of its Call.
LEMMA RequestOnceStep ==
    ASSUME TypeOK, NothingLostInside, GeneratorStands, RequestOnce, ReaderWaits, [Next]_vars
    PROVE  RequestOnce'
<1>1. /\ c2s \in Seq(ClientFrames) /\ s2c \in Seq(ServerFrames) /\ sendQueue \in Seq(ClientFrames)
      /\ Lacks(sendQueue, "window")
  BY Queues DEF Lacks, CallFrame, Finish
<1>2. <<>> \in Seq(ClientFrames) /\ CallLast(<<>>) /\ \A kind : Lacks(<<>>, kind)
  BY DEF CallLast, Lacks
<1>3. CASE CallStream
  <2>1. /\ sendQueue' = <<CallFrame>> /\ handler = "none" /\ handler' = "none" /\ called' = TRUE
        /\ Lacks(c2s, "call")
    BY <1>3 DEF CallStream, RequestOnce
  <2>2. c2s' \in {c2s, Append(c2s, Window(WindowSize))}
    BY <1>3 DEF CallStream, Sent
  <2>3. Window(WindowSize) \in ClientFrames /\ Window(WindowSize).kind # "call"
    BY FramesTyped DEF Window
  <2>4. Lacks(c2s', "call")
    BY <1>1, <2>1, <2>2, <2>3, LacksAppended
  <2>5. CallLast(c2s') /\ CallLast(sendQueue')
    BY <2>1, <2>4 DEF CallLast, Lacks
  <2> QED
    BY <2>1, <2>4, <2>5 DEF RequestOnce
<1>4. CASE Read \/ HandleStreamChunk
  <2>1. CASE c2s' = c2s
    BY <1>4, <2>1 DEF RequestOnce, Read, HandleStreamChunk
  <2>2. CASE c2s' # c2s
    <3>1. /\ ChunkConsumed /\ handler \notin {"none", "waiting", "stranded", "refused"}
          /\ UNCHANGED <<handler, sendQueue, called>>
      BY <1>4, <2>2, RefillFromHandler
    <3>2. c2s' = Append(c2s, Window(consumed + 1)) /\ consumed + 1 \in Nat
      BY <2>2, <3>1 DEF ChunkConsumed, Sent, TypeOK, RefillThreshold
    <3>3. Window(consumed + 1) \in ClientFrames /\ Window(consumed + 1).kind # "call"
      BY <3>2, FramesTyped DEF Window
    <3>4. called /\ Lacks(c2s, "call") /\ Lacks(sendQueue, "call")
      BY <3>1 DEF RequestOnce
    <3>5. Lacks(c2s', "call")
      BY <1>1, <3>2, <3>3, <3>4, LacksAppended
    <3>6. CallLast(c2s')
      BY <3>5 DEF CallLast, Lacks
    <3> QED
      BY <3>1, <3>4, <3>5, <3>6 DEF RequestOnce
  <2> QED
    BY <2>1, <2>2
<1>5. CASE SignalAborts
  <2>1. sendQueue' = Append(sendQueue, Finish) /\ UNCHANGED <<called, handler, c2s>> /\ called
    BY <1>5 DEF SignalAborts, ReaderWaits
  <2>2. Finish \in ClientFrames /\ Finish.kind \notin {"call", "window"}
    BY FramesTyped DEF Finish
  <2>3. CallLast(sendQueue')
    BY <1>1, <2>1, <2>2, CallLastAppended DEF RequestOnce
  <2>4. Lacks(sendQueue, "call") => Lacks(sendQueue', "call")
    BY <1>1, <2>1, <2>2, LacksAppended
  <2> QED
    BY <2>1, <2>3, <2>4 DEF RequestOnce
<1>6. CASE ClientCloses \/ ClientLosesPeer
  <2>1. /\ sendQueue' = <<>> /\ UNCHANGED <<called, handler>>
        /\ c2s' \in {c2s, (c2s \o sendQueue) \o <<Fin>>}
    BY <1>6 DEF ClientCloses, ClientLosesPeer, CloseClient
  <2>2. c2s \o sendQueue \in Seq(ClientFrames) /\ <<Fin>> \in Seq(ClientFrames)
    BY <1>1, FramesTyped, QueuesTyped
  <2>3. \A kind : kind # "fin" => Lacks(<<Fin>>, kind)
    BY DEF Lacks, Fin
  <2>4. CallLast(<<Fin>>)
    BY DEF CallLast, Fin
  <2>5. CallLast(c2s \o sendQueue)
    BY <1>1, CallLastJoined DEF RequestOnce
  <2>6. CallLast(c2s')
    <3>1. Lacks(<<Fin>>, "call") /\ Lacks(<<Fin>>, "window")
      BY <2>3
    <3>2. CallLast((c2s \o sendQueue) \o <<Fin>>)
      BY <2>2, <2>4, <2>5, <3>1, CallLastJoined
    <3> QED
      BY <2>1, <3>2 DEF RequestOnce
  <2>7. Lacks(c2s, "call") /\ Lacks(sendQueue, "call") => Lacks(c2s', "call")
    <3> SUFFICES ASSUME Lacks(c2s, "call"), Lacks(sendQueue, "call") PROVE Lacks(c2s', "call")
      OBVIOUS
    <3>1. Lacks(c2s \o sendQueue, "call")
      BY <1>1, LacksJoined
    <3>2. Lacks((c2s \o sendQueue) \o <<Fin>>, "call")
      BY <2>2, <2>3, <3>1, LacksJoined
    <3> QED
      BY <2>1, <3>2
  <2>8. ASSUME ~called PROVE Lacks(c2s', "call") /\ Lacks(c2s', "window")
    <3>1. Lacks(c2s, "call") /\ Lacks(c2s, "window") /\ Lacks(sendQueue, "call")
      BY <1>2, <2>8 DEF RequestOnce
    <3>2. Lacks(c2s \o sendQueue, "window")
      BY <1>1, <3>1, LacksJoined
    <3>3. Lacks((c2s \o sendQueue) \o <<Fin>>, "window")
      BY <2>2, <2>3, <3>2, LacksJoined
    <3> QED
      BY <2>1, <2>7, <3>1, <3>3
  <2> QED
    BY <1>2, <2>1, <2>6, <2>7, <2>8 DEF RequestOnce
<1>7. CASE Flush
  <2>1. sendQueue # <<>> /\ sendQueue' = <<>> /\ UNCHANGED <<called, handler>> /\ c2s' \in {c2s, c2s \o sendQueue}
    BY <1>7 DEF Flush
  <2>2. CallLast(c2s')
    BY <1>1, <2>1, CallLastJoined DEF RequestOnce
  <2>3. Lacks(c2s, "call") /\ Lacks(sendQueue, "call") => Lacks(c2s', "call")
    BY <1>1, <2>1, LacksJoined
  <2> QED
    BY <1>2, <2>1, <2>2, <2>3 DEF RequestOnce
<1>8. CASE HandleCall
  <2>1. /\ c2s # <<>> /\ c2s' = Tail(c2s) /\ UNCHANGED <<called, sendQueue>>
        /\ 1 \in 1..Len(c2s) /\ c2s[1].kind = "call"
    BY <1>8, Fronts DEF HandleCall, ServerGets
  <2>2. Lacks(c2s', "call") /\ Lacks(c2s', "window") /\ CallLast(c2s')
    BY <1>1, <2>1, CallLastTaken DEF RequestOnce
  <2>3. called /\ Lacks(sendQueue, "call")
    BY <2>1 DEF RequestOnce, Lacks
  <2> QED
    BY <2>1, <2>2, <2>3 DEF RequestOnce
<1>9. CASE HandleStreamWindow \/ HandleFinish \/ ServerLosesPeer
  <2>1. c2s # <<>> /\ c2s' = Tail(c2s) /\ UNCHANGED <<called, sendQueue>>
    BY <1>9 DEF HandleStreamWindow, HandleFinish, ServerLosesPeer, ServerGets, CloseServer
  <2>2. handler' = "none" <=> handler = "none"
    BY <1>9 DEF HandleStreamWindow, HandleFinish, ServerLosesPeer, CloseServer, Grant
  <2>3. CallLast(c2s')
    BY <1>1, <2>1, CallLastTaken DEF RequestOnce
  <2>4. \A kind : Lacks(c2s, kind) => Lacks(c2s', kind)
    BY <1>1, <2>1, LacksTaken
  <2> QED
    BY <2>1, <2>2, <2>3, <2>4 DEF RequestOnce
<1>10. CASE Disconnect
  <2>1. c2s' = <<Fin>> /\ UNCHANGED <<called, sendQueue, handler>>
    BY <1>10 DEF Disconnect
  <2>2. /\ \A kind : kind # "fin" => Lacks(<<Fin>>, kind)
        /\ CallLast(<<Fin>>)
    BY DEF Lacks, CallLast, Fin
  <2> QED
    BY <2>1, <2>2 DEF RequestOnce
<1>11. CASE UNCHANGED <<called, sendQueue, c2s>> /\ (handler' = "none" <=> handler = "none")
  BY <1>11 DEF RequestOnce
<1>12. CASE HandleStreamEnd \/ DropReturn \/ ResumePipelined \/ Generator \/ ServerCloses \/ UNCHANGED vars
  <2>1. UNCHANGED <<called, sendQueue, c2s>>
    BY <1>12 DEF HandleStreamEnd, DropReturn, ResumePipelined, Generator, GeneratorYields, SendGranted,
                 GeneratorEnds, ServerCloses, CloseServer, vars
  <2>2. handler' = "none" <=> handler = "none"
    BY <1>12 DEF HandleStreamEnd, DropReturn, ResumePipelined, DispatchStream, Generator, GeneratorYields,
                 SendGranted, GeneratorEnds, ServerCloses, CloseServer, vars
  <2> QED
    BY <1>11, <2>1, <2>2
<1> QED
  BY <1>3, <1>4, <1>5, <1>6, <1>7, <1>8, <1>9, <1>10, <1>12
     DEF Next, ClientHandles, ServerHandles

-----------------------------------------------------------------------------
(* The windows *)

\* A queue of refills stays one when a refill, or no WINDOW at all, is appended.
LEMMA RefillsAppended ==
    ASSUME NEW S, NEW s \in Seq(S), NEW m \in S, Refills(s), m.kind = "window" => m.n = RefillThreshold
    PROVE  Refills(Append(s, m))
  BY Appended DEF Refills

\* A queue of refills without its first message is a queue of refills.
LEMMA RefillsTaken ==
    ASSUME NEW S, NEW s \in Seq(S), s # <<>>, Refills(s)
    PROVE  Refills(Tail(s))
  BY Taken DEF Refills

\* A queue of refills stays one when messages that are no WINDOWs follow.
LEMMA RefillsJoined ==
    ASSUME NEW S, NEW s \in Seq(S), NEW t \in Seq(S), Refills(s), Lacks(t, "window")
    PROVE  Refills(s \o t)
  BY Joined DEF Refills, Lacks

\* The chunk that fills the threshold is granted back with the others.
LEMMA Consumed ==
    ASSUME TypeOK, RefillsFollow, ChunkConsumed
    PROVE  /\ consumed' \in Nat /\ consumed' < RefillThreshold
           /\ WindowSize = 0 => consumed' = 0 /\ c2s' = c2s
           /\ c2s' \in {c2s, Append(c2s, Window(RefillThreshold))}
           /\ WindowSize > 0 /\ Carries =>
                 \/ consumed' = consumed + 1 /\ c2s' = c2s
                 \/ consumed' = 0 /\ consumed + 1 = RefillThreshold /\ c2s' = Append(c2s, Window(RefillThreshold))
<1>1. consumed \in Nat /\ RefillThreshold \in Nat \ {0} /\ WindowSize \in Nat /\ consumed < RefillThreshold
  BY Threshold DEF TypeOK, RefillsFollow
<1>2. CASE WindowSize > 0 /\ consumed + 1 >= RefillThreshold
  <2>1. consumed + 1 = RefillThreshold
    BY <1>1, <1>2
  <2>2. consumed' = 0 /\ c2s' = Sent(c2s, Window(RefillThreshold))
    BY <1>1, <1>2, <2>1 DEF ChunkConsumed
  <2> QED
    BY <1>1, <1>2, <2>1, <2>2 DEF Sent
<1>3. CASE ~(WindowSize > 0 /\ consumed + 1 >= RefillThreshold)
  <2>1. c2s' = c2s /\ consumed' = IF WindowSize = 0 THEN 0 ELSE consumed + 1
    BY <1>1, <1>3 DEF ChunkConsumed
  <2> QED
    BY <1>1, <1>3, <2>1
<1> QED
  BY <1>2, <1>3

\* What leaves the windows and the client's count as they are.
LEMMA RefillsKept ==
    ASSUME TypeOK, RefillsFollow, UNCHANGED consumed, yielded <= yielded', yielded' \in Nat,
           handler' = "waiting" => Lacks(c2s', "window"),
           handler' \notin {"none", "waiting"} => Refills(c2s'),
           WindowSize = 0 => Lacks(c2s', "window") /\ ~credits'.enabled
    PROVE  RefillsFollow'
<1>1. RefillThreshold' = RefillThreshold
  BY DEF RefillThreshold
<1>2. yielded' = 0 => yielded = 0
  BY DEF TypeOK
<1> QED
  BY <1>1, <1>2 DEF RefillsFollow, Refills

\* Every step keeps the first WINDOW the grant and every later one a refill
\* of the threshold.
LEMMA RefillsFollowStep ==
    ASSUME TypeOK, NothingLostInside, GeneratorStands, RequestOnce, ReaderWaits, RefillsFollow, [Next]_vars
    PROVE  RefillsFollow'
<1>1. /\ c2s \in Seq(ClientFrames) /\ s2c \in Seq(ServerFrames) /\ sendQueue \in Seq(ClientFrames)
      /\ Lacks(sendQueue, "window")
  BY Queues DEF Lacks, CallFrame, Finish
<1>2. <<Fin>> \in Seq(ClientFrames) /\ Lacks(<<Fin>>, "window") /\ Refills(<<Fin>>)
  BY FramesTyped DEF Lacks, Fin, Refills
<1>t. TypeOK' /\ yielded' \in Nat /\ yielded \in Nat
  BY TypeStep DEF TypeOK
<1>3. CASE CallStream
  <2>1. handler = "none" /\ UNCHANGED <<handler, credits, consumed, yielded>>
    BY <1>3 DEF CallStream, RequestOnce
  <2>2. WindowSize = 0 => c2s' = c2s
    BY <1>3 DEF CallStream
  <2>3. WindowSize = 0 => Lacks(c2s', "window") /\ ~credits'.enabled
    BY <2>1, <2>2 DEF RefillsFollow
  <2> QED
    BY <1>t, <2>1, <2>3, RefillsKept
<1>4. CASE Read \/ HandleStreamChunk
  <2>1. UNCHANGED <<handler, credits, yielded>>
    BY <1>4 DEF Read, HandleStreamChunk
  <2>2. CASE UNCHANGED <<c2s, consumed>>
    BY <1>t, <2>1, <2>2, RefillsKept DEF RefillsFollow
  <2>3. CASE ~UNCHANGED <<c2s, consumed>>
    <3>1. /\ ChunkConsumed /\ handler \notin {"none", "waiting", "stranded", "refused"} /\ yielded > 0
      BY <1>4, <2>3, RefillFromHandler
    <3>2. /\ consumed' < RefillThreshold
          /\ WindowSize = 0 => consumed' = 0 /\ c2s' = c2s
          /\ c2s' \in {c2s, Append(c2s, Window(RefillThreshold))}
      BY <3>1, Consumed
    <3>3. Window(RefillThreshold) \in ClientFrames /\ Window(RefillThreshold).n = RefillThreshold
      BY Threshold, FramesTyped DEF Window
    <3>4. Refills(c2s')
      BY <1>1, <3>1, <3>2, <3>3, RefillsAppended DEF RefillsFollow
    <3>5. RefillThreshold' = RefillThreshold
      BY DEF RefillThreshold
    <3> QED
      BY <2>1, <3>1, <3>2, <3>4, <3>5 DEF RefillsFollow, Refills
  <2> QED
    BY <2>2, <2>3
<1>5. CASE SignalAborts \/ HandleStreamEnd \/ DropReturn \/ ServerCloses \/ UNCHANGED vars
  <2>1. UNCHANGED <<handler, credits, consumed, yielded, c2s>>
    BY <1>5 DEF SignalAborts, HandleStreamEnd, DropReturn, ServerCloses, CloseServer, vars
  <2> QED
    BY <1>t, <2>1, RefillsKept DEF RefillsFollow
<1>6. CASE ClientCloses \/ ClientLosesPeer \/ Flush
  <2>1. /\ UNCHANGED <<handler, credits, consumed, yielded>>
        /\ c2s' \in {c2s, c2s \o sendQueue, (c2s \o sendQueue) \o <<Fin>>}
    BY <1>6 DEF ClientCloses, ClientLosesPeer, CloseClient, Flush
  <2>2. c2s \o sendQueue \in Seq(ClientFrames)
    BY <1>1, QueuesTyped
  <2>3. Lacks(c2s, "window") => Lacks(c2s', "window")
    <3> SUFFICES ASSUME Lacks(c2s, "window") PROVE Lacks(c2s', "window")
      OBVIOUS
    <3>1. Lacks(c2s \o sendQueue, "window")
      BY <1>1, LacksJoined
    <3>2. Lacks((c2s \o sendQueue) \o <<Fin>>, "window")
      BY <1>2, <2>2, <3>1, LacksJoined
    <3> QED
      BY <2>1, <3>1, <3>2
  <2>4. Refills(c2s) => Refills(c2s')
    <3> SUFFICES ASSUME Refills(c2s) PROVE Refills(c2s')
      OBVIOUS
    <3>1. Refills(c2s \o sendQueue)
      BY <1>1, RefillsJoined
    <3>2. Refills((c2s \o sendQueue) \o <<Fin>>)
      BY <1>2, <2>2, <3>1, RefillsJoined
    <3> QED
      BY <2>1, <3>1, <3>2
  <2> QED
    BY <1>t, <2>1, <2>3, <2>4, RefillsKept DEF RefillsFollow
<1>7. CASE HandleCall
  <2>1. /\ c2s # <<>> /\ c2s' = Tail(c2s) /\ UNCHANGED <<consumed, yielded>> /\ credits' \in {credits, Unmetered}
        /\ c2s[1].kind = "call"
    BY <1>7, Fronts DEF HandleCall, ServerGets, DispatchStream
  <2>2. Lacks(c2s', "window")
    BY <1>1, <2>1, CallLastTaken DEF RequestOnce
  <2>3. Refills(c2s')
    BY <2>2 DEF Refills, Lacks
  <2>4. WindowSize = 0 => ~credits'.enabled
    BY <2>1 DEF RefillsFollow, Unmetered
  <2> QED
    BY <1>t, <2>1, <2>2, <2>3, <2>4, RefillsKept
<1>8. CASE ResumePipelined
  <2>1. /\ UNCHANGED <<c2s, consumed, yielded>> /\ credits' \in {credits, Unmetered}
        /\ handler = "waiting"
    BY <1>8 DEF ResumePipelined, DispatchStream
  <2>2. Lacks(c2s', "window")
    BY <2>1 DEF RefillsFollow
  <2>3. Refills(c2s')
    BY <2>2 DEF Refills, Lacks
  <2>4. WindowSize = 0 => ~credits'.enabled
    BY <2>1 DEF RefillsFollow, Unmetered
  <2> QED
    BY <1>t, <2>1, <2>2, <2>3, <2>4, RefillsKept
<1>9. CASE Generator
  <2>1. UNCHANGED <<c2s, consumed>>
    BY <1>9 DEF Generator, GeneratorYields, SendGranted, GeneratorEnds
  <2>2. /\ handler \in {"running", "granted"} /\ handler' \in {"running", "blocked", "over"}
        /\ yielded' \in {yielded, yielded + 1}
    BY <1>9 DEF Generator, GeneratorYields, SendGranted, GeneratorEnds
  <2>3. yielded <= yielded'
    BY <1>t, <2>2
  <2>4. ~credits.enabled => ~credits'.enabled
    <3>1. CASE GeneratorYields
      BY <3>1 DEF GeneratorYields
    <3>2. CASE SendGranted
      BY <3>2 DEF SendGranted
    <3>3. CASE GeneratorEnds
      BY <3>3 DEF GeneratorEnds, Unmetered
    <3> QED
      BY <1>9, <3>1, <3>2, <3>3 DEF Generator
  <2> QED
    BY <1>t, <2>1, <2>2, <2>3, <2>4, RefillsKept DEF RefillsFollow
<1>10. CASE HandleStreamWindow \/ HandleFinish \/ ServerLosesPeer
  <2>1. c2s # <<>> /\ c2s' = Tail(c2s) /\ UNCHANGED <<consumed, yielded>>
    BY <1>10 DEF HandleStreamWindow, HandleFinish, ServerLosesPeer, ServerGets, CloseServer
  <2>2. handler' = handler \/ (handler' = "granted" /\ handler = "blocked")
    BY <1>10 DEF HandleStreamWindow, HandleFinish, ServerLosesPeer, CloseServer, Grant
  <2>3. Lacks(c2s, "window") => Lacks(c2s', "window")
    BY <1>1, <2>1, LacksTaken
  <2>4. Refills(c2s) => Refills(c2s')
    BY <1>1, <2>1, RefillsTaken
  <2>5. Lacks(c2s, "window") => UNCHANGED credits
    BY <1>10, Fronts DEF Lacks, HandleStreamWindow, HandleFinish, ServerLosesPeer, CloseServer, ServerGets
  <2> QED
    BY <1>t, <2>1, <2>2, <2>3, <2>4, <2>5, RefillsKept DEF RefillsFollow
<1>11. CASE Disconnect
  <2>1. c2s' = <<Fin>> /\ UNCHANGED <<handler, credits, consumed, yielded>>
    BY <1>11 DEF Disconnect
  <2> QED
    BY <1>2, <1>t, <2>1, RefillsKept DEF RefillsFollow
<1> QED
  BY <1>3, <1>4, <1>5, <1>6, <1>7, <1>8, <1>9, <1>10, <1>11 DEF Next, ClientHandles, ServerHandles

-----------------------------------------------------------------------------
(* The reader *)

\* The first end answers whoever waits, and only those.
LEMMA EndAnswers ==
    ASSUME TypeOK, ReaderWaits, NEW how \in {"done", "failed"}, EndStream(how), UNCHANGED buffer
    PROVE  /\ ended # "open" => ended' = ended
           /\ ended = "open" => ended' = how
           /\ readers' = 0
           /\ verdict' # "open" => verdict' = ended' /\ buffer' = <<>>
  BY DEF EndStream, ReaderWaits, TypeOK

\* Every step keeps readers waiting only at an empty buffer of a stream that
\* has not ended.
LEMMA ReaderWaitsStep ==
    ASSUME TypeOK, ReaderWaits, [Next]_vars
    PROVE  ReaderWaits'
<1>1. CASE CallStream
  BY <1>1 DEF CallStream, ReaderWaits
<1>2. CASE Read
  <2>1. CASE buffer # <<>> /\ UNCHANGED <<readers, verdict>>
    BY <1>2, <2>1 DEF Read, ReaderWaits
  <2>2. CASE /\ buffer = <<>> /\ ended # "open" /\ verdict' = IF verdict = "open" THEN ended ELSE verdict
             /\ UNCHANGED <<readers, buffer>>
    BY <1>2, <2>2 DEF Read, ReaderWaits
  <2>3. CASE buffer = <<>> /\ ended = "open" /\ UNCHANGED <<buffer, verdict>>
    BY <1>2, <2>3 DEF Read, ReaderWaits
  <2> QED
    BY <1>2, <2>1, <2>2, <2>3 DEF Read
<1>3. CASE HandleStreamChunk
  <2>1. UNCHANGED <<called, tracked>>
    BY <1>3 DEF HandleStreamChunk
  <2>2. CASE UNCHANGED <<buffer, readers, ended, verdict>>
    BY <2>1, <2>2 DEF ReaderWaits
  <2>3. CASE readers > 0 /\ ended = "open" /\ readers' = readers - 1 /\ UNCHANGED <<buffer, ended, verdict>>
    BY <2>1, <2>3 DEF ReaderWaits, TypeOK
  <2>4. CASE tracked /\ ended = "open" /\ readers = 0 /\ ended' \in {"open", "failed"} /\ UNCHANGED <<readers, verdict>>
    BY <2>1, <2>4 DEF ReaderWaits, TypeOK
  <2> QED
    BY <1>3, <2>2, <2>3, <2>4 DEF HandleStreamChunk, PushChunk, Overflow
<1>4. CASE HandleStreamEnd
  <2>1. /\ tracked' = FALSE /\ UNCHANGED <<called, buffer>>
        /\ IF tracked THEN EndStream(Head(s2c).how) ELSE UNCHANGED <<ended, readers, verdict>>
        /\ Head(s2c).how \in {"done", "failed"}
    BY <1>4, Fronts DEF HandleStreamEnd, ClientGets
  <2>2. CASE tracked
    BY <2>1, <2>2, EndAnswers DEF ReaderWaits
  <2>3. CASE ~tracked
    BY <2>1, <2>3 DEF ReaderWaits
  <2> QED
    BY <2>2, <2>3
<1>5. CASE SignalAborts \/ ClientCloses \/ ClientLosesPeer
  <2>1. /\ tracked' = FALSE /\ UNCHANGED <<called, buffer>>
        /\ IF tracked THEN EndStream("failed") ELSE UNCHANGED <<ended, readers, verdict>>
    BY <1>5 DEF SignalAborts, ClientCloses, ClientLosesPeer, CloseClient
  <2>2. CASE tracked
    BY <2>1, <2>2, EndAnswers DEF ReaderWaits
  <2>3. CASE ~tracked
    BY <2>1, <2>3 DEF ReaderWaits
  <2> QED
    BY <2>2, <2>3
<1>6. CASE UNCHANGED <<called, tracked, buffer, readers, ended, verdict>>
  BY <1>6 DEF ReaderWaits
<1>7. CASE Flush \/ DropReturn \/ ServerHandles \/ ResumePipelined \/ Generator \/ ServerCloses \/ Disconnect \/ UNCHANGED vars
  BY <1>6, <1>7 DEF Flush, DropReturn, ServerHandles, HandleCall, HandleStreamWindow, HandleFinish, ServerLosesPeer,
     ResumePipelined, Generator, GeneratorYields, SendGranted, GeneratorEnds, ServerCloses, CloseServer, Disconnect, vars
<1> QED
  BY <1>1, <1>2, <1>3, <1>4, <1>5, <1>7 DEF Next, ClientHandles

-----------------------------------------------------------------------------
(* The generator *)

\* What leaves the server's side as it is, and sends no chunk, end or Return.
LEMMA GeneratorKept ==
    ASSUME GeneratorStands, UNCHANGED <<handler, yielded, credits>>,
           \A kind \in {"chunk", "end", "return"} : Lacks(s2c, kind) => Lacks(s2c', kind)
    PROVE  GeneratorStands'
  BY DEF GeneratorStands, Shipped

\* Every step keeps where the generator is, what it has yielded and what
\* it may send together.
LEMMA GeneratorStandsStep ==
    ASSUME TypeOK, GeneratorStands, RequestOnce, [Next]_vars
    PROVE  GeneratorStands'
<1>1. s2c \in Seq(ServerFrames) /\ yielded \in Nat
  BY DEF TypeOK
<1>2. CASE CallStream \/ Read \/ SignalAborts \/ ClientCloses \/ Flush \/ HandleFinish \/ UNCHANGED vars
  <2>1. UNCHANGED <<handler, yielded, credits, s2c>>
    BY <1>2 DEF CallStream, Read, SignalAborts, ClientCloses, CloseClient, Flush, HandleFinish, vars
  <2> QED
    BY <2>1, GeneratorKept
<1>3. CASE ClientHandles
  <2>1. UNCHANGED <<handler, yielded, credits>> /\ s2c # <<>> /\ s2c' = Tail(s2c)
    BY <1>3 DEF ClientHandles, HandleStreamChunk, HandleStreamEnd, DropReturn, ClientLosesPeer, CloseClient, ClientGets
  <2>2. \A kind : Lacks(s2c, kind) => Lacks(s2c', kind)
    BY <1>1, <2>1, LacksTaken
  <2> QED
    BY <2>1, <2>2, GeneratorKept
<1>4. CASE ServerCloses \/ ServerLosesPeer \/ Disconnect
  <2>1. UNCHANGED <<handler, yielded, credits>> /\ s2c' \in {Sent(s2c, Fin), <<Fin>>}
    BY <1>4 DEF ServerCloses, ServerLosesPeer, CloseServer, Disconnect
  <2>2. \A kind \in {"chunk", "end", "return"} : /\ Lacks(s2c, kind) => Lacks(Sent(s2c, Fin), kind)
                                             /\ Lacks(<<Fin>>, kind)
    <3>1. Fin \in ServerFrames /\ Fin.kind = "fin"
      BY FramesTyped DEF Fin
    <3>2. \A kind \in {"chunk", "end", "return"} : Lacks(<<Fin>>, kind)
      BY DEF Lacks, Fin
    <3> QED
      BY <1>1, <3>1, <3>2, LacksAppended
  <2> QED
    BY <2>1, <2>2, GeneratorKept
<1>5. CASE HandleCall \/ ResumePipelined
  <2>1. /\ handler \in {"none", "waiting"} /\ UNCHANGED yielded
    <3>1. CASE HandleCall
      BY <3>1, Fronts DEF HandleCall, ServerGets, RequestOnce, Lacks
    <3>2. CASE ResumePipelined
      BY <3>2 DEF ResumePipelined
    <3> QED
      BY <1>5, <3>1, <3>2
  <2>2. \/ handler' \in {"waiting", "stranded", "running"} /\ credits' \in {credits, Unmetered} /\ s2c' = s2c
        \/ handler' = "refused" /\ credits' = credits /\ s2c' = Sent(s2c, Return)
    BY <1>5 DEF HandleCall, ResumePipelined, DispatchStream
  <2>3. Return \in ServerFrames /\ Return.kind = "return"
    BY FramesTyped DEF Return
  <2>4. \A kind \in {"chunk", "end"} : Lacks(s2c, kind) => Lacks(Sent(s2c, Return), kind)
    BY <1>1, <2>3, LacksAppended
  <2>5. /\ yielded = 0 /\ Lacks(s2c, "chunk") /\ Lacks(s2c, "end") /\ Lacks(s2c, "return")
        /\ credits = Unmetered
    BY <2>1 DEF GeneratorStands
  <2>6. Unmetered.enabled = FALSE /\ Unmetered.available = 0
    BY DEF Unmetered
  <2> QED
    BY <2>1, <2>2, <2>4, <2>5, <2>6 DEF GeneratorStands, Shipped
<1>6. CASE GeneratorYields
  <2>1. handler = "running" /\ yielded' = yielded + 1
    BY <1>1, <1>6 DEF GeneratorYields, GeneratorStands, Shipped
  <2>2. CASE credits.enabled /\ credits.available = 0 /\ handler' = "blocked" /\ UNCHANGED <<credits, s2c>>
    <3>1. credits = Metered(0)
      BY <2>2 DEF Metered, TypeOK
    <3> QED
      BY <1>1, <2>1, <2>2, <3>1 DEF GeneratorStands, Shipped
  <2>3. CASE /\ ~(credits.enabled /\ credits.available = 0)
             /\ SendStreamChunk(yielded + 1)
             /\ credits' = IF credits.enabled THEN Metered(credits.available - 1) ELSE credits
             /\ UNCHANGED handler
    <3>1. yielded + 1 \in 1..MaxChunks
      BY <1>6 DEF GeneratorYields, TypeOK
    <3>2. Chunk(yielded + 1) \in ServerFrames /\ Chunk(yielded + 1).kind = "chunk"
      BY <3>1, FramesTyped DEF Chunk
    <3>3. Lacks(s2c', "return")
      BY <1>1, <2>1, <2>3, <3>2, LacksAppended DEF GeneratorStands, SendStreamChunk
    <3>5. ~credits'.enabled => credits'.available = 0
      BY <2>3 DEF GeneratorStands, Metered
    <3> QED
      BY <2>1, <2>3, <3>3, <3>5 DEF GeneratorStands, Shipped
  <2> QED
    BY <1>6, <2>2, <2>3 DEF GeneratorYields
<1>7. CASE SendGranted
  <2>1. /\ handler = "granted" /\ handler' = "running" /\ UNCHANGED <<yielded, credits>>
        /\ yielded > 0 /\ credits.enabled
    BY <1>7 DEF SendGranted, SendStreamChunk, GeneratorStands, Shipped
  <2>2. yielded \in 1..MaxChunks
    BY <2>1 DEF TypeOK
  <2>3. Chunk(yielded) \in ServerFrames /\ Chunk(yielded).kind = "chunk"
    BY <2>2, FramesTyped DEF Chunk
  <2>4. Lacks(s2c', "return")
    BY <1>1, <1>7, <2>3, LacksAppended DEF SendGranted, SendStreamChunk, GeneratorStands
  <2> QED
    BY <1>1, <2>1, <2>4 DEF GeneratorStands, Shipped
<1>8. CASE GeneratorEnds
  <2>1. PICK how \in {"done", "failed"} : s2c' = Sent(s2c, End(how))
    BY <1>8 DEF GeneratorEnds, StreamEnd
  <2>2. End(how) \in ServerFrames /\ End(how).kind = "end"
    BY FramesTyped DEF End
  <2>3. Lacks(s2c', "return")
    BY <1>1, <1>8, <2>1, <2>2, LacksAppended DEF GeneratorEnds, GeneratorStands
  <2>4. Unmetered.enabled = FALSE /\ Unmetered.available = 0
    BY DEF Unmetered
  <2> QED
    BY <1>8, <2>3, <2>4 DEF GeneratorEnds, GeneratorStands, Shipped
<1>9. CASE HandleStreamWindow
  <2>1. UNCHANGED <<s2c, yielded>>
    BY <1>9 DEF HandleStreamWindow
  <2>2. CASE UNCHANGED <<credits, handler>>
    BY <2>1, <2>2, GeneratorKept
  <2>3. ASSUME NEW n \in Nat, Grant(n), handler \in {"running", "blocked", "granted"} PROVE GeneratorStands'
    <3>1. CASE handler = "blocked" /\ n = 0
      <4>1. handler' = "blocked" /\ credits' = Metered(0)
        <5>1. credits.available = 0
          BY <3>1 DEF GeneratorStands, Metered
        <5>2. credits.available + n = 0 /\ credits.available + n - 0 = 0
          BY <3>1, <5>1
        <5> QED
          BY <2>3, <3>1, <5>2 DEF Grant
      <4> QED
        BY <2>1, <3>1, <4>1 DEF GeneratorStands, Shipped, Metered
    <3>2. CASE ~(handler = "blocked" /\ n = 0)
      <4>1. handler' \in {"running", "granted"} /\ credits'.enabled
        BY <2>3, <3>2 DEF Grant, GeneratorStands, Metered
      <4>2. handler' = "granted" <=> handler \in {"blocked", "granted"}
        BY <2>3, <3>2 DEF Grant, GeneratorStands, Metered
      <4> QED
        BY <2>1, <2>3, <4>1, <4>2 DEF GeneratorStands, Shipped
    <3> QED
      BY <3>1, <3>2
  <2>4. Head(c2s).n \in Nat
    BY <1>9, Fronts DEF HandleStreamWindow, ServerGets
  <2> QED
    BY <1>9, <2>2, <2>3, <2>4 DEF HandleStreamWindow
<1> QED
  BY <1>2, <1>3, <1>4, <1>5, <1>6, <1>7, <1>8, <1>9 DEF Next, ServerHandles, Generator

-----------------------------------------------------------------------------
(* The chunks *)

\* NothingLostInside, in the words of the lemmas below.
LEMMA NothingLostMeans ==
    NothingLostInside <=>
        /\ \A i \in 1..Len(received) : received[i] = i
        /\ \A i \in 1..Len(buffer) : buffer[i] = Len(received) + i
        /\ Had <= Shipped
        /\ ended = "open" => InOrder(s2c, Had, Shipped)
        /\ ended = "open" /\ Carries => Complete(s2c, Had, Shipped)
  BY DEF NothingLostInside, Had, InOrder, Complete

\* The client takes the next chunk.
LEMMA ChunkTaken ==
    ASSUME NEW s \in Seq(ServerFrames), s # <<>>, s[1].kind = "chunk", NEW had \in Nat, NEW last \in Nat,
           InOrder(s, had, last)
    PROVE  /\ s[1].n = had + 1 /\ had + 1 <= last
           /\ InOrder(Tail(s), had + 1, last)
           /\ Complete(s, had, last) => Complete(Tail(s), had + 1, last)
<1>1. s[1].n = had + 1 /\ had + 1 <= last
  BY Taken DEF InOrder
<1>2. InOrder(Tail(s), had + 1, last)
  <2> SUFFICES ASSUME NEW i \in 1..Len(Tail(s)), Tail(s)[i].kind = "chunk"
               PROVE  Tail(s)[i].n = had + 1 + i /\ Tail(s)[i].n <= last
    BY DEF InOrder
  <2>1. Tail(s)[i] = s[i + 1] /\ i + 1 \in 1..Len(s) /\ i \in Nat
    BY Taken
  <2>2. s[i + 1].n = had + (i + 1) /\ s[i + 1].n <= last
    BY <2>1 DEF InOrder
  <2> QED
    BY <2>1, <2>2
<1>3. ASSUME Complete(s, had, last), NEW n \in (had + 1 + 1)..last PROVE \E i \in 1..Len(Tail(s)) : Tail(s)[i] = Chunk(n)
  <2>1. PICK i \in 1..Len(s) : s[i] = Chunk(n)
    BY <1>3 DEF Complete
  <2>2. s[i].n = n
    BY <2>1 DEF Chunk
  <2>3. i # 1
    BY <1>1, <2>2
  <2>4. i - 1 \in 1..Len(Tail(s)) /\ Tail(s)[i - 1] = s[i]
    BY <2>3, Taken
  <2> QED
    BY <2>1, <2>4
<1> QED
  BY <1>1, <1>2, <1>3 DEF Complete

\* Behind a frame that is no chunk there is none.
LEMMA OtherTaken ==
    ASSUME NEW s \in Seq(ServerFrames), s # <<>>, s[1].kind # "chunk", ChunksFirst(s)
    PROVE  /\ Lacks(s, "chunk") /\ Lacks(Tail(s), "chunk")
           /\ \A had, last \in Nat : Complete(s, had, last) => last <= had
<1>1. Lacks(s, "chunk")
  BY Taken DEF Lacks, ChunksFirst
<1>2. Lacks(Tail(s), "chunk")
  BY <1>1, LacksTaken
<1>3. ASSUME NEW had \in Nat, NEW last \in Nat, Complete(s, had, last) PROVE last <= had
  <2> SUFFICES ASSUME had < last PROVE FALSE
    OBVIOUS
  <2>1. PICK i \in 1..Len(s) : s[i] = Chunk(had + 1)
    BY <1>3 DEF Complete
  <2>2. s[i].kind = "chunk"
    BY <2>1 DEF Chunk
  <2> QED
    BY <1>1, <2>2 DEF Lacks
<1> QED
  BY <1>1, <1>2, <1>3

\* Without chunks on the way all is in order, and complete at the last one.
LEMMA NoChunks ==
    ASSUME NEW s, Lacks(s, "chunk")
    PROVE  /\ ChunksFirst(s)
           /\ \A had, last : InOrder(s, had, last)
           /\ \A had, last \in Nat : last <= had => Complete(s, had, last)
  BY DEF Lacks, ChunksFirst, InOrder, Complete

\* Taking the first message keeps the End and the Return behind the chunks.
LEMMA ChunksFirstTaken ==
    ASSUME NEW s \in Seq(ServerFrames), s # <<>>, ChunksFirst(s)
    PROVE  ChunksFirst(Tail(s))
  BY Taken DEF ChunksFirst

\* The server sends the next chunk behind nothing but chunks.
LEMMA ChunkSent ==
    ASSUME NEW s \in Seq(ServerFrames), NEW had \in Nat, NEW last \in Nat, had <= last, last + 1 \in 1..MaxChunks,
           Lacks(s, "end"), Lacks(s, "return"), Lacks(s, "fin")
    PROVE  /\ ChunksFirst(Append(s, Chunk(last + 1)))
           /\ InOrder(s, had, last) /\ Complete(s, had, last) =>
                 /\ InOrder(Append(s, Chunk(last + 1)), had, last + 1)
                 /\ Complete(Append(s, Chunk(last + 1)), had, last + 1)
<1> DEFINE c == Chunk(last + 1)
           t == Append(s, c)
<1>1. c \in ServerFrames /\ c.kind = "chunk" /\ c.n = last + 1
  BY FramesTyped DEF Chunk
<1>2. \A i \in 1..Len(s) : s[i].kind = "chunk"
  <2> TAKE i \in 1..Len(s)
  <2>1. s[i] \in ServerFrames
    BY ElementOfSeq
  <2> QED
    BY <2>1, FrameKinds DEF Lacks
<1> HIDE DEF c
<1>3. /\ t[Len(s) + 1] = c /\ Len(s) \in Nat /\ Len(t) = Len(s) + 1
      /\ \A i \in 1..Len(s) : t[i] = s[i]
      /\ 1..Len(t) = 1..Len(s) \cup {Len(s) + 1}
  BY <1>1, Appended
<1> HIDE DEF t
<1>4. ChunksFirst(t)
  BY <1>1, <1>2, <1>3 DEF ChunksFirst
<1>5. ASSUME InOrder(s, had, last), Complete(s, had, last)
      PROVE  InOrder(t, had, last + 1) /\ Complete(t, had, last + 1)
  <2>1. Len(s) = last - had
    <3>1. CASE Len(s) > 0
      <4>1. s[Len(s)].n = had + Len(s) /\ s[Len(s)].n <= last
        BY <1>2, <1>3, <1>5, <3>1 DEF InOrder
      <4>2. PICK i \in 1..Len(s) : s[i] = Chunk(last)
        BY <1>3, <1>5, <4>1, <3>1 DEF Complete
      <4>3. s[i].n = last /\ s[i].n = had + i
        BY <1>2, <1>5, <4>2 DEF InOrder, Chunk
      <4> QED
        BY <1>3, <4>1, <4>3
    <3>2. CASE Len(s) = 0
      <4>1. last <= had
        BY <1>5, <3>2 DEF Complete
      <4> QED
        BY <3>2, <4>1
    <3> QED
      BY <1>3, <3>1, <3>2
  <2>2. InOrder(t, had, last + 1)
    <3>1. \A i \in 1..Len(s) : t[i].n = had + i /\ t[i].n <= last + 1
      <4> TAKE i \in 1..Len(s)
      <4>1. t[i].n = had + i /\ had + i <= last
        BY <1>2, <1>3, <1>5 DEF InOrder
      <4> QED
        BY <4>1
    <3>2. t[Len(s) + 1].n = had + (Len(s) + 1) /\ t[Len(s) + 1].n <= last + 1
      BY <1>1, <1>3, <2>1
    <3> QED
      BY <1>3, <3>1, <3>2 DEF InOrder
  <2>3. ASSUME NEW n \in (had + 1)..(last + 1) PROVE \E i \in 1..Len(t) : t[i] = Chunk(n)
    <3>1. CASE n = last + 1
      BY <1>3, <3>1 DEF c
    <3>2. CASE n # last + 1
      <4>1. PICK i \in 1..Len(s) : s[i] = Chunk(n)
        BY <1>5, <3>2 DEF Complete
      <4> QED
        BY <1>3, <4>1
    <3> QED
      BY <3>1, <3>2
  <2> QED
    BY <2>2, <2>3 DEF Complete
<1> QED
  BY <1>4, <1>5 DEF t, c

\* Another frame at the back changes nothing of the chunks.
LEMMA OtherSent ==
    ASSUME NEW s \in Seq(ServerFrames), NEW m \in ServerFrames, m.kind # "chunk"
    PROVE  /\ ChunksFirst(s) => ChunksFirst(Append(s, m))
           /\ \A had, last : InOrder(s, had, last) => InOrder(Append(s, m), had, last)
           /\ \A had, last : Complete(s, had, last) => Complete(Append(s, m), had, last)
<1> DEFINE t == Append(s, m)
<1>1. /\ t[Len(s) + 1] = m /\ Len(s) \in Nat /\ Len(t) = Len(s) + 1
      /\ \A i \in 1..Len(s) : t[i] = s[i]
      /\ 1..Len(t) = 1..Len(s) \cup {Len(s) + 1}
  BY Appended
<1> HIDE DEF t
<1>2. ChunksFirst(s) => ChunksFirst(t)
  BY <1>1 DEF ChunksFirst
<1>3. \A had, last : InOrder(s, had, last) => InOrder(t, had, last)
  BY <1>1 DEF InOrder
<1>4. \A had, last : Complete(s, had, last) => Complete(t, had, last)
  BY <1>1 DEF Complete
<1> QED
  BY <1>2, <1>3, <1>4 DEF t

Chunks == NothingLostInside /\ EndsLast

\* Steps that neither send a chunk nor hand one over.
LEMMA ChunksKept ==
    ASSUME TypeOK, Chunks, UNCHANGED <<received, buffer, yielded>>, Shipped' = Shipped,
           ended' \in {ended, "failed"}, Carries' => Carries, handler = "over" => handler' = "over",
           ChunksFirst(s2c'),
           ended = "open" => /\ InOrder(s2c', Had, Shipped)
                             /\ Complete(s2c, Had, Shipped) /\ Carries' => Complete(s2c', Had, Shipped),
           Lacks(s2c', "end") \/ (~Lacks(s2c, "end") /\ (ended = "open" => Complete(s2c', Had, Shipped)))
    PROVE  Chunks'
<1>1. Had' = Had
  BY DEF Had
<1>2. ended \in {"open", "done", "failed"}
  BY DEF TypeOK
<1>3. /\ \A i \in 1..Len(received) : received[i] = i
      /\ \A i \in 1..Len(buffer) : buffer[i] = Len(received) + i
      /\ Had <= Shipped
      /\ ended = "open" /\ Carries => Complete(s2c, Had, Shipped)
  BY NothingLostMeans DEF Chunks
<1>4. NothingLostInside'
  <2>1. ended' = "open" => ended = "open"
    BY <1>2
  <2>2. ended' = "open" => InOrder(s2c', Had, Shipped)
    BY <2>1
  <2>3. ended' = "open" /\ Carries' => Complete(s2c', Had, Shipped)
    BY <1>3, <2>1
  <2>4. Had' <= Shipped'
    BY <1>1, <1>3
  <2>5. ended' = "open" => InOrder(s2c', Had', Shipped')
    BY <1>1, <2>2
  <2>6. ended' = "open" /\ Carries' => Complete(s2c', Had', Shipped')
    BY <1>1, <2>3
  <2>7. /\ \A i \in 1..Len(received') : received'[i] = i
        /\ \A i \in 1..Len(buffer') : buffer'[i] = Len(received') + i
    BY <1>3
  <2> QED
    BY <2>4, <2>5, <2>6, <2>7 DEF NothingLostInside, Had, InOrder, Complete
<1>5. EndsLast'
  <2>1. ended' = "done" => handler' = "over" /\ Had' = yielded'
    BY <1>1, <1>2 DEF Chunks, EndsLast
  <2>2. ~Lacks(s2c', "end") => handler' = "over"
    BY DEF Chunks, EndsLast
  <2>3. ~Lacks(s2c', "end") /\ ended' = "open" => Complete(s2c', Had', Shipped')
    BY <1>1, <1>2
  <2> QED
    BY <2>1, <2>2, <2>3 DEF EndsLast
<1> QED
  BY <1>4, <1>5 DEF Chunks

\* How far the client has got, and how far the generator.
LEMMA Counts ==
    ASSUME TypeOK, GeneratorStands
    PROVE  /\ Len(received) \in Nat /\ Len(buffer) \in Nat /\ Had \in Nat
           /\ Shipped \in Nat /\ Shipped <= yielded /\ yielded \in Nat
           /\ s2c \in Seq(ServerFrames)
<1>1. received \in Seq(1..MaxChunks) /\ buffer \in Seq(1..MaxChunks) /\ s2c \in Seq(ServerFrames)
  BY DEF TypeOK
<1>2. Len(received) \in Nat /\ Len(buffer) \in Nat
  BY <1>1, LenProperties
<1>3. Shipped \in Nat /\ Shipped <= yielded /\ yielded \in Nat
  BY DEF Shipped, GeneratorStands, TypeOK
<1> QED
  BY <1>1, <1>2, <1>3 DEF Had

\* A frame that is no chunk leaves, or joins, the way to the client.
LEMMA OthersMove ==
    ASSUME TypeOK, GeneratorStands, Chunks
    PROVE  /\ ChunksFirst(s2c)
           /\ ended = "open" => InOrder(s2c, Had, Shipped)
           /\ \A m \in {Return, Fin} :
                 /\ ChunksFirst(Sent(s2c, m))
                 /\ Lacks(s2c, "end") => Lacks(Sent(s2c, m), "end")
                 /\ ended = "open" => InOrder(Sent(s2c, m), Had, Shipped)
                 /\ Complete(s2c, Had, Shipped) => Complete(Sent(s2c, m), Had, Shipped)
           /\ s2c # <<>> /\ s2c[1].kind # "chunk" =>
                 /\ ChunksFirst(Tail(s2c))
                 /\ Lacks(s2c, "end") => Lacks(Tail(s2c), "end")
                 /\ InOrder(Tail(s2c), Had, Shipped)
                 /\ Complete(s2c, Had, Shipped) => Complete(Tail(s2c), Had, Shipped) /\ Shipped <= Had
<1>1. ChunksFirst(s2c) /\ (ended = "open" => InOrder(s2c, Had, Shipped))
  BY NothingLostMeans DEF Chunks, EndsLast
<1>2. ASSUME NEW m \in {Return, Fin}
      PROVE  /\ ChunksFirst(Sent(s2c, m))
             /\ Lacks(s2c, "end") => Lacks(Sent(s2c, m), "end")
             /\ ended = "open" => InOrder(Sent(s2c, m), Had, Shipped)
             /\ Complete(s2c, Had, Shipped) => Complete(Sent(s2c, m), Had, Shipped)
  <2>1. m \in ServerFrames /\ m.kind \in {"return", "fin"}
    BY FramesTyped DEF Return, Fin
  <2>2. Lacks(s2c, "end") => Lacks(Sent(s2c, m), "end")
    BY <2>1, Counts, LacksAppended
  <2>3. /\ ChunksFirst(Append(s2c, m))
        /\ InOrder(s2c, Had, Shipped) => InOrder(Append(s2c, m), Had, Shipped)
        /\ Complete(s2c, Had, Shipped) => Complete(Append(s2c, m), Had, Shipped)
    BY <1>1, <2>1, Counts, OtherSent
  <2> QED
    BY <1>1, <2>2, <2>3 DEF Sent
<1>3. ASSUME s2c # <<>>, s2c[1].kind # "chunk"
      PROVE  /\ ChunksFirst(Tail(s2c))
             /\ Lacks(s2c, "end") => Lacks(Tail(s2c), "end")
             /\ InOrder(Tail(s2c), Had, Shipped)
             /\ Complete(s2c, Had, Shipped) => Complete(Tail(s2c), Had, Shipped) /\ Shipped <= Had
  <2>1. Lacks(s2c, "chunk") /\ Lacks(Tail(s2c), "chunk")
    BY <1>1, <1>3, Counts, OtherTaken
  <2>2. Complete(s2c, Had, Shipped) => Shipped <= Had
    BY <1>1, <1>3, Counts, OtherTaken
  <2>3. Lacks(s2c, "end") => Lacks(Tail(s2c), "end")
    BY <1>3, Counts, LacksTaken
  <2>4. /\ ChunksFirst(Tail(s2c)) /\ InOrder(Tail(s2c), Had, Shipped)
        /\ Shipped <= Had => Complete(Tail(s2c), Had, Shipped)
    BY <2>1, Counts, NoChunks
  <2> QED
    BY <2>2, <2>3, <2>4
<1> QED
  BY <1>1, <1>2, <1>3

\* The reader takes a buffered chunk.
LEMMA ReadChunks ==
    ASSUME TypeOK, GeneratorStands, Chunks, Read, buffer # <<>>, TypeOK'
    PROVE  Chunks'
<1>1. /\ received' = Append(received, Head(buffer)) /\ buffer' = Tail(buffer)
      /\ UNCHANGED <<ended, s2c, handler, yielded, linkUp, cclosed, sclosed>>
  BY DEF Read
<1>2. received \in Seq(1..MaxChunks) /\ buffer \in Seq(1..MaxChunks)
  BY DEF TypeOK
<1>3. /\ Head(buffer) = buffer[1] /\ buffer[1] \in 1..MaxChunks /\ Len(buffer) \in Nat /\ 1 \in 1..Len(buffer)
      /\ Len(buffer') = Len(buffer) - 1
      /\ \A i \in 1..Len(buffer') : buffer'[i] = buffer[i + 1] /\ i + 1 \in 1..Len(buffer)
  BY <1>1, <1>2, Taken
<1>4. /\ Len(received') = Len(received) + 1 /\ Len(received) \in Nat
      /\ received'[Len(received) + 1] = Head(buffer)
      /\ \A i \in 1..Len(received) : received'[i] = received[i]
      /\ 1..Len(received') = 1..Len(received) \cup {Len(received) + 1}
  BY <1>1, <1>2, <1>3, Appended
<1>5. Had' = Had /\ Shipped' = Shipped /\ (Carries' <=> Carries)
  BY <1>1, <1>3, <1>4 DEF Had, Shipped, Carries
<1>6. /\ \A i \in 1..Len(received) : received[i] = i
      /\ \A i \in 1..Len(buffer) : buffer[i] = Len(received) + i
      /\ Had <= Shipped
      /\ ended = "open" => InOrder(s2c, Had, Shipped)
      /\ ended = "open" /\ Carries => Complete(s2c, Had, Shipped)
  BY NothingLostMeans DEF Chunks
<1>7. \A i \in 1..Len(received') : received'[i] = i
  BY <1>3, <1>4, <1>6
<1>8. \A i \in 1..Len(buffer') : buffer'[i] = Len(received') + i
  <2> TAKE i \in 1..Len(buffer')
  <2>1. buffer'[i] = Len(received) + (i + 1) /\ i \in Nat
    BY <1>3, <1>6
  <2> QED
    BY <1>4, <2>1
<1>9. NothingLostInside'
  <2>1. ended' = "open" => InOrder(s2c', Had', Shipped')
    BY <1>1, <1>5, <1>6
  <2>2. ended' = "open" /\ Carries' => Complete(s2c', Had', Shipped')
    BY <1>1, <1>5, <1>6
  <2>3. Had' <= Shipped'
    BY <1>5, <1>6
  <2> QED
    BY <1>7, <1>8, <2>1, <2>2, <2>3 DEF NothingLostInside, Had, InOrder, Complete
<1>10. EndsLast'
  BY <1>1, <1>5 DEF Chunks, EndsLast
<1> QED
  BY <1>9, <1>10 DEF Chunks

\* A chunk arrives.
LEMMA HandleChunkChunks ==
    ASSUME TypeOK, GeneratorStands, RequestOnce, ReaderWaits, Chunks, HandleStreamChunk
    PROVE  Chunks'
<1> DEFINE n == Head(s2c).n
<1>1. /\ s2c # <<>> /\ s2c' = Tail(s2c) /\ Head(s2c) = s2c[1] /\ 1 \in 1..Len(s2c)
      /\ s2c[1].kind = "chunk" /\ n = s2c[1].n /\ n \in 1..MaxChunks
  BY Fronts DEF HandleStreamChunk, ClientGets
<1>2. UNCHANGED <<called, tracked, handler, yielded, linkUp, cclosed, sclosed, verdict>>
  BY DEF HandleStreamChunk, PushChunk
<1>3. Shipped' = Shipped /\ (Carries' <=> Carries)
  BY <1>2 DEF Shipped, Carries
<1>4. /\ \A i \in 1..Len(received) : received[i] = i
      /\ \A i \in 1..Len(buffer) : buffer[i] = Len(received) + i
      /\ Had <= Shipped /\ ChunksFirst(s2c)
      /\ ended = "open" => InOrder(s2c, Had, Shipped)
      /\ ended = "open" /\ Carries => Complete(s2c, Had, Shipped)
  BY NothingLostMeans DEF Chunks, EndsLast
<1>5. ChunksFirst(s2c') /\ (Lacks(s2c, "end") => Lacks(s2c', "end"))
  BY <1>1, <1>4, Counts, ChunksFirstTaken, LacksTaken
<1>6. received \in Seq(1..MaxChunks) /\ buffer \in Seq(1..MaxChunks)
  BY DEF TypeOK
<1> HIDE DEF n
<1>7. CASE ended # "open" /\ UNCHANGED <<received, buffer, ended>>
  <2>1. Had' = Had
    BY <1>7 DEF Had
  <2>2. NothingLostInside'
    BY <1>3, <1>4, <1>7, <2>1 DEF NothingLostInside, Had
  <2>3. EndsLast'
    BY <1>2, <1>5, <1>7, <2>1 DEF Chunks, EndsLast
  <2> QED
    BY <2>2, <2>3 DEF Chunks
<1>8. ASSUME ended = "open", Had' = Had + 1, UNCHANGED ended,
             \A i \in 1..Len(received') : received'[i] = i,
             \A i \in 1..Len(buffer') : buffer'[i] = Len(received') + i
      PROVE  Chunks'
  <2>1. /\ Had + 1 <= Shipped
        /\ InOrder(s2c', Had + 1, Shipped)
        /\ Complete(s2c, Had, Shipped) => Complete(s2c', Had + 1, Shipped)
    BY <1>1, <1>4, <1>8, Counts, ChunkTaken
  <2>2. /\ Had' <= Shipped' /\ InOrder(s2c', Had', Shipped')
        /\ Carries' => Complete(s2c', Had', Shipped')
    BY <1>3, <1>4, <1>8, <2>1
  <2>3. NothingLostInside'
    BY <1>8, <2>2 DEF NothingLostInside, Had, InOrder, Complete
  <2>4. ~Lacks(s2c', "end") => handler' = "over" /\ Complete(s2c', Had', Shipped')
    BY <1>2, <1>3, <1>5, <1>8, <2>1 DEF Chunks, EndsLast
  <2>5. EndsLast'
    BY <1>5, <1>8, <2>4 DEF EndsLast
  <2> QED
    BY <2>3, <2>5 DEF Chunks
<1>9. ended = "open" => n = Had + 1
  BY <1>1, <1>4, Counts, ChunkTaken
<1>10. CASE ended = "open" /\ readers > 0 /\ received' = Append(received, n) /\ UNCHANGED <<buffer, ended>>
  <2>1. buffer = <<>> /\ Len(buffer) = 0
    BY <1>10 DEF ReaderWaits
  <2>2. /\ Len(received') = Len(received) + 1 /\ Len(received) \in Nat
        /\ received'[Len(received) + 1] = n
        /\ \A i \in 1..Len(received) : received'[i] = received[i]
        /\ 1..Len(received') = 1..Len(received) \cup {Len(received) + 1}
    <3>1. n \in 1..MaxChunks /\ received' = Append(received, n)
      BY <1>1, <1>10
    <3> QED
      BY <1>6, <3>1, Appended
  <2>3. n = Len(received) + 1 /\ Had' = Had + 1
    BY <1>9, <1>10, <2>1, <2>2 DEF Had
  <2>4. \A i \in 1..Len(received') : received'[i] = i
    BY <1>4, <2>2, <2>3
  <2>5. \A i \in 1..Len(buffer') : buffer'[i] = Len(received') + i
    BY <1>10, <2>1
  <2> QED
    BY <1>8, <1>10, <2>3, <2>4, <2>5
<1>11. CASE ended = "open" /\ buffer' = Append(buffer, n) /\ UNCHANGED <<received, ended>>
  <2>1. /\ Len(buffer') = Len(buffer) + 1 /\ Len(buffer) \in Nat /\ Len(received) \in Nat
        /\ buffer'[Len(buffer) + 1] = n
        /\ \A i \in 1..Len(buffer) : buffer'[i] = buffer[i]
        /\ 1..Len(buffer') = 1..Len(buffer) \cup {Len(buffer) + 1}
    <3>1. n \in 1..MaxChunks /\ buffer' = Append(buffer, n)
      BY <1>1, <1>11
    <3> QED
      BY <1>6, <3>1, Appended, Counts
  <2>2. n = Len(received) + (Len(buffer) + 1) /\ Had' = Had + 1
    BY <1>9, <1>11, <2>1 DEF Had
  <2>3. \A i \in 1..Len(buffer') : buffer'[i] = Len(received') + i
    BY <1>4, <1>11, <2>1, <2>2
  <2>4. \A i \in 1..Len(received') : received'[i] = i
    BY <1>4, <1>11
  <2> QED
    BY <1>8, <1>11, <2>2, <2>3, <2>4
<1>12. CASE Overflow /\ UNCHANGED received
  <2>1. Had' <= Had
    BY <1>12, Counts DEF Overflow, Had
  <2>2. Len(buffer') = 0 /\ Had' \in Nat
    BY <1>12, Counts DEF Overflow, Had
  <2>3. Had' <= Shipped'
    BY <1>3, <1>4, <2>1, <2>2, Counts
  <2>4. NothingLostInside'
    BY <1>4, <1>12, <2>2, <2>3 DEF NothingLostInside, Overflow, Had
  <2>5. EndsLast'
    BY <1>2, <1>5, <1>12 DEF Chunks, EndsLast, Overflow
  <2> QED
    BY <2>4, <2>5 DEF Chunks
<1>13. CASE ~tracked
  <2>1. called
    BY <1>1 DEF RequestOnce, GeneratorStands, Lacks
  <2>2. ended # "open"
    BY <1>13, <2>1 DEF ReaderWaits
  <2> QED
    BY <1>7, <1>13, <2>2 DEF HandleStreamChunk
<1>14. CASE tracked
  <2>1. PushChunk(n)
    BY <1>14 DEF HandleStreamChunk, n
  <2> QED
    BY <1>7, <1>10, <1>11, <1>12, <2>1 DEF PushChunk
<1> QED
  BY <1>13, <1>14

\* The end arrives: if it says "done", the client has every chunk.
LEMMA HandleEndChunks ==
    ASSUME TypeOK, GeneratorStands, Chunks, HandleStreamEnd
    PROVE  Chunks'
<1>1. /\ s2c # <<>> /\ s2c' = Tail(s2c) /\ 1 \in 1..Len(s2c) /\ s2c[1].kind = "end" /\ Head(s2c) = s2c[1]
      /\ s2c[1].how \in {"done", "failed"}
  BY Fronts DEF HandleStreamEnd, ClientGets
<1>2. UNCHANGED <<received, buffer, handler, yielded, linkUp, cclosed, sclosed>>
  BY DEF HandleStreamEnd
<1>3. Had' = Had /\ Shipped' = Shipped /\ (Carries' <=> Carries)
  BY <1>2 DEF Had, Shipped, Carries
<1>4. /\ ~Lacks(s2c, "end")
      /\ ChunksFirst(s2c')
      /\ InOrder(s2c', Had, Shipped)
      /\ Complete(s2c, Had, Shipped) => Complete(s2c', Had, Shipped) /\ Shipped <= Had
  BY <1>1, OthersMove DEF Lacks
<1>5. handler = "over" /\ (ended = "open" => Complete(s2c, Had, Shipped))
  BY <1>4 DEF Chunks, EndsLast
<1>6. CASE ended' \in {ended, "failed"}
  BY <1>2, <1>3, <1>4, <1>5, <1>6, ChunksKept
<1>7. CASE ended' \notin {ended, "failed"}
  <2>1. ended = "open" /\ ended' = "done"
    BY <1>1, <1>7 DEF HandleStreamEnd, EndStream
  <2>2. Had <= Shipped /\ Shipped <= Had
    BY <1>4, <1>5, <2>1, NothingLostMeans DEF Chunks
  <2>3. Had = yielded
    BY <1>5, <2>2, Counts DEF Shipped
  <2>4. /\ \A i \in 1..Len(received') : received'[i] = i
        /\ \A i \in 1..Len(buffer') : buffer'[i] = Len(received') + i
    BY <1>2, NothingLostMeans DEF Chunks
  <2>5. NothingLostInside'
    BY <1>3, <2>1, <2>2, <2>4 DEF NothingLostInside, Had
  <2>6. EndsLast'
    BY <1>2, <1>3, <1>4, <1>5, <2>1, <2>3 DEF EndsLast
  <2> QED
    BY <2>5, <2>6 DEF Chunks
<1> QED
  BY <1>6, <1>7

\* The generator's chunk goes out, at once or when its credit has come.
LEMMA SendChunks ==
    ASSUME TypeOK, GeneratorStands, NoNews, Chunks, SendStreamChunk(Shipped + 1), Shipped + 1 <= MaxChunks,
           Shipped' = Shipped + 1, handler \in {"running", "granted"}, handler' \in {"running", "granted"},
           UNCHANGED <<received, buffer, ended, linkUp, cclosed, sclosed>>
    PROVE  Chunks'
<1>1. Had' = Had /\ (Carries' <=> Carries)
  BY DEF Had, Carries
<1>2. /\ \A i \in 1..Len(received) : received[i] = i
      /\ \A i \in 1..Len(buffer) : buffer[i] = Len(received) + i
      /\ Had <= Shipped /\ ChunksFirst(s2c)
      /\ ended = "open" => InOrder(s2c, Had, Shipped)
      /\ ended = "open" /\ Carries => Complete(s2c, Had, Shipped)
  BY NothingLostMeans DEF Chunks, EndsLast
<1>3. Lacks(s2c, "end") /\ Lacks(s2c, "return") /\ ended # "done"
  BY DEF Chunks, EndsLast, GeneratorStands
<1>4. Had' <= Shipped' /\ Shipped + 1 \in 1..MaxChunks
  BY <1>1, <1>2, Counts
<1>5. CASE Carries
  <2>1. s2c' = Append(s2c, Chunk(Shipped + 1)) /\ Lacks(s2c, "fin")
    BY <1>5 DEF SendStreamChunk, Sent, NoNews
  <2>2. /\ ChunksFirst(s2c')
        /\ InOrder(s2c, Had, Shipped) /\ Complete(s2c, Had, Shipped) =>
              /\ InOrder(s2c', Had, Shipped + 1)
              /\ Complete(s2c', Had, Shipped + 1)
    BY <1>2, <1>3, <1>4, <2>1, Counts, ChunkSent
  <2>3. ended' = "open" => InOrder(s2c', Had', Shipped') /\ Complete(s2c', Had', Shipped')
    BY <1>1, <1>2, <1>5, <2>2
  <2>4. Lacks(s2c', "end")
    <3>1. Chunk(Shipped + 1) \in ServerFrames /\ Chunk(Shipped + 1).kind # "end"
      BY <1>4, FramesTyped DEF Chunk
    <3> QED
      BY <1>3, <2>1, <3>1, Counts, LacksAppended
  <2>5. NothingLostInside'
    BY <1>2, <1>4, <2>3 DEF NothingLostInside, Had, InOrder, Complete
  <2>6. EndsLast'
    BY <1>3, <2>2, <2>4 DEF EndsLast
  <2> QED
    BY <2>5, <2>6 DEF Chunks
<1>6. CASE ~Carries
  <2>1. s2c' = s2c
    BY <1>6 DEF SendStreamChunk, Sent
  <2>2. ended' = "open" => InOrder(s2c', Had', Shipped')
    <3>1. Shipped \in Nat /\ Shipped' = Shipped + 1
      BY Counts
    <3>2. \A i \in 1..Len(s2c) : s2c[i].kind = "chunk" => s2c[i].n \in Nat
      BY Counts, ElementOfSeq, FrameKinds
    <3> QED
      BY <1>1, <1>2, <2>1, <3>1, <3>2 DEF InOrder
  <2>3. NothingLostInside'
    BY <1>1, <1>2, <1>4, <1>6, <2>2 DEF NothingLostInside, Had, InOrder
  <2>4. EndsLast'
    BY <1>2, <1>3, <2>1 DEF EndsLast
  <2> QED
    BY <2>3, <2>4 DEF Chunks
<1> QED
  BY <1>5, <1>6

\* The end goes out behind every chunk.
LEMMA EndChunks ==
    ASSUME TypeOK, GeneratorStands, Chunks, GeneratorEnds
    PROVE  Chunks'
<1>1. PICK how \in {"done", "failed"} : s2c' = Sent(s2c, End(how))
  BY DEF GeneratorEnds, StreamEnd
<1>2. End(how) \in ServerFrames /\ End(how).kind = "end"
  BY FramesTyped DEF End
<1>3. /\ UNCHANGED <<received, buffer, ended, yielded, linkUp, cclosed, sclosed>>
      /\ handler = "running" /\ handler' = "over"
  BY DEF GeneratorEnds
<1>4. Shipped' = Shipped /\ (Carries' <=> Carries)
  BY <1>3 DEF Shipped, Carries
<1>5. /\ ChunksFirst(s2c) /\ Lacks(s2c, "end")
      /\ ended = "open" => InOrder(s2c, Had, Shipped)
      /\ ended = "open" /\ Carries => Complete(s2c, Had, Shipped)
  BY <1>3, NothingLostMeans DEF Chunks, EndsLast
<1>6. /\ ChunksFirst(Append(s2c, End(how)))
      /\ InOrder(s2c, Had, Shipped) => InOrder(Append(s2c, End(how)), Had, Shipped)
      /\ Complete(s2c, Had, Shipped) => Complete(Append(s2c, End(how)), Had, Shipped)
  BY <1>2, <1>5, Counts, OtherSent
<1>7. CASE Carries
  <2>1. s2c' = Append(s2c, End(how))
    BY <1>1, <1>7 DEF Sent
  <2>2. /\ \A i \in 1..Len(received') : received'[i] = i
        /\ \A i \in 1..Len(buffer') : buffer'[i] = Len(received') + i
        /\ Had' = Had /\ Had <= Shipped
    BY <1>3, NothingLostMeans DEF Chunks, Had
  <2>3. ended' = "open" => InOrder(s2c', Had', Shipped') /\ Complete(s2c', Had', Shipped')
    BY <1>3, <1>4, <1>5, <1>6, <1>7, <2>1, <2>2
  <2>4. NothingLostInside'
    BY <1>4, <2>2, <2>3 DEF NothingLostInside, Had, InOrder, Complete
  <2>5. EndsLast'
    BY <1>3, <1>6, <2>1, <2>3 DEF EndsLast, Chunks
  <2> QED
    BY <2>4, <2>5 DEF Chunks
<1>8. CASE ~Carries
  <2>1. s2c' = s2c
    BY <1>1, <1>8 DEF Sent
  <2> QED
    BY <1>3, <1>4, <1>5, <1>8, <2>1, ChunksKept
<1> QED
  BY <1>7, <1>8

\* Every step keeps the chunks had and on the way consecutive, and the End
\* behind them.
LEMMA ChunksStep ==
    ASSUME TypeOK, GeneratorStands, RequestOnce, ReaderWaits, RefillsFollow, NoNews, Chunks, [Next]_vars
    PROVE  Chunks'
<1>1. TypeOK'
  BY TypeStep
<1>2. /\ ChunksFirst(s2c)
      /\ ended = "open" => InOrder(s2c, Had, Shipped)
      /\ ~Lacks(s2c, "end") /\ ended = "open" => Complete(s2c, Had, Shipped)
  BY OthersMove DEF Chunks, EndsLast
<1>3. CASE CallStream \/ SignalAborts \/ ClientCloses \/ Flush \/ HandleFinish \/ UNCHANGED vars
  <2>1. UNCHANGED <<received, buffer, yielded, handler, s2c, linkUp, sclosed>> /\ (~cclosed' => ~cclosed)
    BY <1>3 DEF CallStream, SignalAborts, ClientCloses, CloseClient, Flush, HandleFinish, vars
  <2>2. ended' \in {ended, "failed"}
    BY <1>3 DEF CallStream, SignalAborts, ClientCloses, CloseClient, Flush, HandleFinish, EndStream, vars
  <2>3. Shipped' = Shipped /\ (Carries' => Carries)
    BY <2>1 DEF Shipped, Carries
  <2> QED
    BY <1>2, <2>1, <2>2, <2>3, ChunksKept
<1>4. CASE Read
  <2>1. CASE buffer # <<>>
    BY <1>1, <1>4, <2>1, ReadChunks
  <2>2. CASE buffer = <<>>
    <3>1. UNCHANGED <<received, buffer, yielded, handler, s2c, ended, linkUp, cclosed, sclosed>>
      BY <1>4, <2>2 DEF Read
    <3>2. Shipped' = Shipped /\ (Carries' => Carries)
      BY <3>1 DEF Shipped, Carries
    <3> QED
      BY <1>2, <3>1, <3>2, ChunksKept
  <2> QED
    BY <2>1, <2>2
<1>5. CASE HandleStreamChunk
  BY <1>5, HandleChunkChunks
<1>6. CASE HandleStreamEnd
  BY <1>6, HandleEndChunks
<1>7. CASE DropReturn \/ ClientLosesPeer
  <2>1. /\ s2c # <<>> /\ s2c' = Tail(s2c) /\ s2c[1].kind \in {"return", "fin"}
        /\ UNCHANGED <<received, buffer, yielded, handler, linkUp, sclosed>> /\ (~cclosed' => ~cclosed)
    BY <1>7, Fronts DEF DropReturn, ClientLosesPeer, CloseClient, ClientGets
  <2>2. ended' \in {ended, "failed"}
    BY <1>7 DEF DropReturn, ClientLosesPeer, CloseClient, EndStream
  <2>3. Shipped' = Shipped /\ (Carries' => Carries)
    BY <2>1 DEF Shipped, Carries
  <2>4. /\ ChunksFirst(s2c')
        /\ Lacks(s2c, "end") => Lacks(s2c', "end")
        /\ InOrder(s2c', Had, Shipped)
        /\ Complete(s2c, Had, Shipped) => Complete(s2c', Had, Shipped)
    BY <2>1, OthersMove
  <2> QED
    BY <1>2, <2>1, <2>2, <2>3, <2>4, ChunksKept
<1>8. CASE HandleCall \/ ResumePipelined
  <2>1. /\ UNCHANGED <<received, buffer, yielded, ended, linkUp, cclosed, sclosed>>
        /\ s2c' \in {s2c, Sent(s2c, Return)} /\ handler' \in {"waiting", "stranded", "running", "refused"}
    BY <1>8 DEF HandleCall, ResumePipelined, DispatchStream
  <2>2. handler \in {"none", "waiting"}
    <3>1. CASE HandleCall
      BY <3>1, Fronts DEF HandleCall, ServerGets, RequestOnce, Lacks
    <3>2. CASE ResumePipelined
      BY <3>2 DEF ResumePipelined
    <3> QED
      BY <1>8, <3>1, <3>2
  <2>3. Shipped' = Shipped /\ (Carries' => Carries)
    BY <2>1, <2>2 DEF Shipped, Carries
  <2> QED
    BY <1>2, <2>1, <2>2, <2>3, ChunksKept, OthersMove
<1>9. CASE GeneratorYields
  <2>1. /\ UNCHANGED <<received, buffer, ended, linkUp, cclosed, sclosed>>
        /\ handler = "running" /\ yielded' = yielded + 1 /\ yielded < MaxChunks
    BY <1>9 DEF GeneratorYields
  <2>2. Shipped = yielded
    BY <2>1, Counts DEF Shipped
  <2>3. CASE handler' = "blocked" /\ s2c' = s2c
    <3>1. Shipped' = Shipped /\ (Carries' <=> Carries) /\ Had' = Had
      BY <2>1, <2>2, <2>3, Counts DEF Shipped, Carries, Had
    <3>2. ended # "done" /\ Lacks(s2c, "end")
      BY <2>1 DEF Chunks, EndsLast
    <3>3. /\ \A i \in 1..Len(received) : received[i] = i
          /\ \A i \in 1..Len(buffer) : buffer[i] = Len(received) + i
          /\ Had <= Shipped
          /\ ended = "open" /\ Carries => Complete(s2c, Had, Shipped)
      BY NothingLostMeans DEF Chunks
    <3>4. NothingLostInside'
      BY <1>2, <2>1, <2>3, <3>1, <3>3 DEF NothingLostInside, Had, InOrder, Complete
    <3>5. EndsLast'
      BY <1>2, <2>1, <2>3, <3>2 DEF EndsLast
    <3> QED
      BY <3>4, <3>5 DEF Chunks
  <2>4. CASE handler' = "running" /\ SendStreamChunk(yielded + 1)
    <3>1. Shipped' = Shipped + 1 /\ Shipped + 1 <= MaxChunks
      BY <2>1, <2>2, <2>4, Counts DEF Shipped
    <3> QED
      BY <2>1, <2>2, <2>4, <3>1, SendChunks
  <2> QED
    BY <1>9, <2>1, <2>3, <2>4 DEF GeneratorYields
<1>10. CASE SendGranted
  <2>1. /\ UNCHANGED <<received, buffer, ended, linkUp, cclosed, sclosed, yielded>>
        /\ handler = "granted" /\ handler' = "running" /\ SendStreamChunk(yielded)
    BY <1>10 DEF SendGranted, SendStreamChunk
  <2>2. Shipped + 1 = yielded /\ Shipped' = Shipped + 1 /\ Shipped + 1 <= MaxChunks
    BY <2>1, Counts DEF Shipped, TypeOK
  <2> QED
    BY <2>1, <2>2, SendChunks
<1>11. CASE GeneratorEnds
  BY <1>11, EndChunks
<1>12. CASE HandleStreamWindow
  <2>1. UNCHANGED <<received, buffer, yielded, s2c, ended, linkUp, cclosed, sclosed>>
    BY <1>12 DEF HandleStreamWindow
  <2>2. handler' = handler \/ (handler' = "granted" /\ handler = "blocked")
    BY <1>12 DEF HandleStreamWindow, Grant
  <2>3. Shipped' = Shipped /\ (Carries' => Carries) /\ (handler = "over" => handler' = "over")
    BY <2>1, <2>2 DEF Shipped, Carries
  <2> QED
    BY <1>2, <2>1, <2>3, ChunksKept
<1>13. CASE ServerCloses \/ ServerLosesPeer
  <2>1. /\ UNCHANGED <<received, buffer, yielded, ended, linkUp, cclosed, handler>> /\ sclosed' = TRUE
        /\ s2c' = Sent(s2c, Fin)
    BY <1>13 DEF ServerCloses, ServerLosesPeer, CloseServer
  <2>2. Shipped' = Shipped /\ ~Carries'
    BY <2>1 DEF Shipped, Carries
  <2> QED
    BY <1>2, <2>1, <2>2, ChunksKept, OthersMove
<1>14. CASE Disconnect
  <2>1. /\ UNCHANGED <<received, buffer, yielded, ended, cclosed, sclosed, handler>> /\ linkUp' = FALSE
        /\ s2c' = <<Fin>>
    BY <1>14 DEF Disconnect
  <2>2. Shipped' = Shipped /\ ~Carries'
    BY <2>1 DEF Shipped, Carries
  <2>3. Lacks(s2c', "chunk") /\ Lacks(s2c', "end")
    BY <2>1 DEF Lacks, Fin
  <2>4. ChunksFirst(s2c') /\ InOrder(s2c', Had, Shipped)
    BY <2>3, NoChunks
  <2> QED
    BY <2>1, <2>2, <2>3, <2>4, ChunksKept
<1> QED
  BY <1>3, <1>4, <1>5, <1>6, <1>7, <1>8, <1>9, <1>10, <1>11, <1>12, <1>13, <1>14
     DEF Next, ClientHandles, ServerHandles, Generator

-----------------------------------------------------------------------------
(* The credits *)

Runs == handler \in {"running", "blocked", "granted"}

InTransit == RefillThreshold * Cardinality(Windows(c2s))

Reserved == IF handler = "granted" THEN 1 ELSE 0

\* Circulating, in the words of the lemmas below, now and in the next state.
LEMMA CirculatingMeans ==
    /\ Circulating = credits.available + Reserved + InTransit + consumed + (Shipped - Len(received))
    /\ Circulating' = credits'.available + Reserved' + InTransit' + consumed' + (Shipped' - Len(received'))
  BY DEF Circulating, InTransit, Reserved, Grants, Windows

\* One WINDOW more, or one less, is one refill more, or one less.
LEMMA OneRefill ==
    ASSUME NEW t \in Nat, NEW c \in Nat
    PROVE  t * c \in Nat /\ t * (c + 1) = t * c + t /\ t * (c - 1) = t * c - t
  OBVIOUS

\* The terms of the balance are numbers.
LEMMA CreditsTyped ==
    ASSUME TypeOK
    PROVE  /\ Cardinality(Windows(c2s)) \in Nat /\ RefillThreshold \in Nat /\ InTransit \in Nat
           /\ credits.available \in Nat /\ consumed \in Nat /\ Reserved \in {0, 1}
<1>1. c2s \in Seq(ClientFrames)
  BY DEF TypeOK
<1>2. Cardinality(Windows(c2s)) \in Nat /\ RefillThreshold \in Nat
  BY <1>1, WindowsCount, Threshold
<1>3. InTransit \in Nat
  BY <1>2, OneRefill DEF InTransit
<1> QED
  BY <1>2, <1>3 DEF TypeOK, Reserved

\* A refill on its way, and a refill that has arrived.
LEMMA InTransitMoves ==
    ASSUME TypeOK
    PROVE  /\ c2s' = c2s => InTransit' = InTransit
           /\ c2s' = Append(c2s, Window(RefillThreshold)) => InTransit' = InTransit + RefillThreshold
           /\ c2s' = c2s \o sendQueue => InTransit' = InTransit
           /\ c2s # <<>> /\ c2s' = Tail(c2s) =>
                 InTransit' = InTransit - (IF c2s[1].kind = "window" THEN RefillThreshold ELSE 0)
<1> DEFINE c == Cardinality(Windows(c2s))
           t == RefillThreshold
<1>1. /\ c2s \in Seq(ClientFrames) /\ sendQueue \in Seq(ClientFrames) /\ Lacks(sendQueue, "window")
  BY Queues DEF Lacks, CallFrame, Finish
<1>2. c \in Nat /\ t \in Nat /\ t' = t
  BY CreditsTyped DEF RefillThreshold
<1>3. t * (c + 1) = t * c + t /\ t * (c - 1) = t * c - t
  BY <1>2, OneRefill
<1>4. InTransit = t * c /\ InTransit' = t * Cardinality(Windows(c2s'))
  BY <1>2 DEF InTransit, Windows
<1>5. ASSUME c2s' = Append(c2s, Window(t)) PROVE InTransit' = InTransit + t
  <2>1. Window(t) \in ClientFrames /\ Window(t).kind = "window"
    BY <1>2, FramesTyped DEF Window
  <2>2. Cardinality(Windows(c2s')) = c + 1
    BY <1>1, <1>5, <2>1, WindowsAppended
  <2> QED
    BY <1>3, <1>4, <2>2
<1>6. ASSUME c2s' = c2s \o sendQueue PROVE InTransit' = InTransit
  BY <1>1, <1>4, <1>6, WindowsJoined
<1>7. ASSUME c2s # <<>>, c2s' = Tail(c2s)
      PROVE  InTransit' = InTransit - (IF c2s[1].kind = "window" THEN t ELSE 0)
  <2>1. Cardinality(Windows(c2s')) = c - (IF c2s[1].kind = "window" THEN 1 ELSE 0)
    BY <1>1, <1>7, WindowsTaken
  <2>2. CASE c2s[1].kind = "window"
    <3>1. Cardinality(Windows(c2s')) = c - 1
      BY <2>1, <2>2
    <3> QED
      BY <1>3, <1>4, <2>2, <3>1
  <2>3. CASE c2s[1].kind # "window"
    <3>1. Cardinality(Windows(c2s')) = c
      BY <1>2, <2>1, <2>3
    <3>2. InTransit' = InTransit /\ InTransit \in Int
      BY <1>4, <3>1, CreditsTyped
    <3> QED
      BY <2>3, <3>2
  <2> QED
    BY <2>2, <2>3
<1>8. c2s' = c2s => InTransit' = InTransit
  BY <1>4
<1> QED
  BY <1>5, <1>6, <1>7, <1>8

\* The reader has a chunk more: it is granted back, at once or later.
LEMMA ReceivedBalance ==
    ASSUME TypeOK, RefillsFollow, GeneratorStands, ChunkConsumed, WindowSize > 0, Runs, Carries,
           UNCHANGED <<handler, yielded, credits>>, Len(received') = Len(received) + 1,
           NEW U,
           credits.available + Reserved + InTransit + consumed + (Shipped - Len(received)) = U
    PROVE  credits'.available + Reserved' + InTransit' + consumed' + (Shipped' - Len(received')) = U
<1>1. credits.available + Reserved + InTransit + consumed + (Shipped - Len(received)) = U
  OBVIOUS
<1>2. Reserved' = Reserved /\ Shipped' = Shipped
  BY DEF Reserved, Shipped
<1>3. \/ consumed' = consumed + 1 /\ InTransit' = InTransit
      \/ consumed' = 0 /\ consumed + 1 = RefillThreshold /\ InTransit' = InTransit + RefillThreshold
  BY Consumed, InTransitMoves
<1>4. /\ credits.available \in Nat /\ Reserved \in Nat /\ InTransit \in Nat /\ consumed \in Nat
      /\ Shipped \in Nat /\ Len(received) \in Nat /\ RefillThreshold \in Nat
  <2>1. /\ credits.available \in Nat /\ Reserved \in Nat /\ InTransit \in Nat
        /\ consumed \in Nat /\ RefillThreshold \in Nat
    BY CreditsTyped
  <2>2. Shipped \in Nat /\ Len(received) \in Nat
    BY Counts
  <2> QED
    BY <2>1, <2>2
<1>5. credits'.available = credits.available /\ Len(received') = Len(received) + 1
  OBVIOUS
<1>6. CASE consumed' = consumed + 1 /\ InTransit' = InTransit
  <2>1. credits.available + Reserved + InTransit + (consumed + 1) + (Shipped - (Len(received) + 1)) = U
    <3> DEFINE a == credits.available  rs == Reserved  t == InTransit  sh == Shipped  l == Len(received)
    <3>1. /\ a \in Nat /\ rs \in Nat /\ t \in Nat /\ consumed \in Nat /\ sh \in Nat /\ l \in Nat
          /\ a + rs + t + consumed + (sh - l) = U
      BY <1>1, <1>4
    <3> HIDE DEF a, rs, t, sh, l
    <3>2. a + rs + t + (consumed + 1) + (sh - (l + 1)) = U
      BY <3>1
    <3> QED
      BY <3>2 DEF a, rs, t, sh, l
  <2> QED
    BY <1>2, <1>5, <1>6, <2>1
<1>7. CASE consumed' = 0 /\ consumed + 1 = RefillThreshold /\ InTransit' = InTransit + RefillThreshold
  <2>1. credits.available + Reserved + (InTransit + (consumed + 1)) + 0 + (Shipped - (Len(received) + 1)) = U
    <3> DEFINE a == credits.available  rs == Reserved  t == InTransit  sh == Shipped  l == Len(received)
    <3>1. /\ a \in Nat /\ rs \in Nat /\ t \in Nat /\ consumed \in Nat /\ sh \in Nat /\ l \in Nat
          /\ a + rs + t + consumed + (sh - l) = U
      BY <1>1, <1>4
    <3> HIDE DEF a, rs, t, sh, l
    <3>2. a + rs + (t + (consumed + 1)) + 0 + (sh - (l + 1)) = U
      BY <3>1
    <3> QED
      BY <3>2 DEF a, rs, t, sh, l
  <2>2. InTransit' = InTransit + (consumed + 1) /\ consumed' = 0
    BY <1>7
  <2> QED
    BY <1>2, <1>5, <2>1, <2>2
<1> QED
  BY <1>3, <1>6, <1>7

\* Every step keeps the credits in circulation.
LEMMA BalanceStep ==
    ASSUME TypeOK, GeneratorStands, RequestOnce, ReaderWaits, RefillsFollow, NoNews, Chunks, [Next]_vars,
           Metering, Metering'
    PROVE  Circulating' = Circulating
<1> PICK U : U = Circulating
  OBVIOUS
<1> SUFFICES credits'.available + Reserved' + InTransit' + consumed' + (Shipped' - Len(received')) = U
  BY CirculatingMeans
<1>0. credits.enabled /\ credits'.enabled /\ ended = "open" /\ ended' = "open" /\ Carries'
  BY DEF Metering
<1>1. /\ Carries /\ ~ClientCloses /\ ~ClientLosesPeer /\ ~ServerCloses /\ ~ServerLosesPeer
      /\ ~Disconnect
  BY <1>0, CarriesStays
<1>r. Runs /\ WindowSize > 0
  <2>1. Runs
    BY <1>0 DEF GeneratorStands, Runs, Unmetered
  <2> QED
    BY <1>0, <2>1 DEF RefillsFollow
<1>2. credits.available + Reserved + InTransit + consumed + (Shipped - Len(received)) = U
  BY CirculatingMeans
<1>3. /\ credits.available \in Nat /\ Reserved \in {0, 1} /\ InTransit \in Nat /\ consumed \in Nat
      /\ Shipped \in Nat /\ Len(received) \in Nat /\ yielded \in Nat /\ RefillThreshold \in Nat
  BY CreditsTyped, Counts
<1>4. ASSUME UNCHANGED <<handler, yielded, credits, consumed, received>>, InTransit' = InTransit
      PROVE  credits'.available + Reserved' + InTransit' + consumed' + (Shipped' - Len(received')) = U
  BY <1>2, <1>4 DEF Reserved, Shipped
<1>5. CASE CallStream
  BY <1>r, <1>5 DEF CallStream, RequestOnce, Runs
<1>6. CASE Read
  <2>1. UNCHANGED <<handler, yielded, credits, ended>>
    BY <1>6 DEF Read
  <2>3. CASE buffer # <<>>
    <3>1. ChunkConsumed /\ received' = Append(received, Head(buffer))
      BY <1>6, <2>3 DEF Read
    <3>2. Len(received') = Len(received) + 1
      <4>1. received \in Seq(1..MaxChunks) /\ Head(buffer) \in 1..MaxChunks
        BY <2>3, QueuesTyped DEF TypeOK
      <4> QED
        BY <3>1, <4>1, Appended
    <3> QED
      BY <1>1, <1>r, <1>2, <2>1, <3>1, <3>2, ReceivedBalance
  <2>4. CASE buffer = <<>>
    <3>1. UNCHANGED <<consumed, received, c2s>>
      BY <1>6, <2>4 DEF Read
    <3> QED
      BY <1>4, <2>1, <3>1, InTransitMoves
  <2> QED
    BY <2>3, <2>4
<1>7. CASE HandleStreamChunk
  <2>1. UNCHANGED <<handler, yielded, credits>>
    BY <1>7 DEF HandleStreamChunk
  <2>3. CASE UNCHANGED <<consumed, received, c2s>>
    BY <1>4, <2>1, <2>3, InTransitMoves
  <2>4. CASE ~UNCHANGED <<consumed, received, c2s>>
    <3>1. ChunkConsumed /\ received' = Append(received, Head(s2c).n)
      BY <1>7, <2>4 DEF HandleStreamChunk, PushChunk
    <3>2. Len(received') = Len(received) + 1
      <4>1. received \in Seq(1..MaxChunks) /\ Head(s2c).n \in 1..MaxChunks
        BY <1>7, Fronts DEF TypeOK, HandleStreamChunk, ClientGets
      <4> QED
        BY <3>1, <4>1, Appended
    <3> QED
      BY <1>1, <1>r, <1>2, <2>1, <3>1, <3>2, ReceivedBalance
  <2> QED
    BY <2>3, <2>4
<1>8. CASE SignalAborts
  BY <1>0, <1>8 DEF SignalAborts, EndStream
<1>9. CASE HandleStreamEnd
  <2>1. handler = "over"
    BY <1>9, Fronts DEF HandleStreamEnd, ClientGets, Lacks, Chunks, EndsLast
  <2> QED
    BY <1>r, <2>1 DEF Runs
<1>10. CASE DropReturn \/ Flush \/ HandleFinish \/ UNCHANGED vars
  <2>1. UNCHANGED <<handler, yielded, credits, consumed, received, ended>>
    BY <1>10 DEF DropReturn, Flush, HandleFinish, vars
  <2>2. \/ c2s' = c2s \/ c2s' = c2s \o sendQueue
        \/ c2s # <<>> /\ c2s' = Tail(c2s) /\ c2s[1].kind # "window"
    BY <1>10, Fronts DEF DropReturn, Flush, HandleFinish, ServerGets, vars
  <2>3. InTransit' = InTransit
    BY <1>3, <2>2, InTransitMoves
  <2> QED
    BY <1>4, <2>1, <2>3
<1>11. CASE HandleCall \/ ResumePipelined
  <2>1. handler \in {"none", "waiting"}
    <3>1. CASE HandleCall
      <4>1. c2s # <<>> /\ c2s[1].kind = "call" /\ 1 \in 1..Len(c2s)
        BY <3>1, Fronts DEF HandleCall, ServerGets
      <4> QED
        BY <4>1 DEF RequestOnce, Lacks
    <3>2. CASE ResumePipelined
      BY <3>2 DEF ResumePipelined
    <3> QED
      BY <1>11, <3>1, <3>2
  <2> QED
    BY <1>r, <2>1 DEF Runs
<1>12. CASE GeneratorYields
  <2>1. /\ UNCHANGED <<c2s, consumed, received, ended>> /\ handler = "running" /\ yielded' = yielded + 1
    BY <1>12 DEF GeneratorYields
  <2>2. /\ InTransit' = InTransit /\ Reserved = 0 /\ Shipped = yielded /\ Runs
    BY <1>3, <2>1, InTransitMoves DEF Reserved, Shipped, Runs
  <2>s. (credits.available - 1) + 0 + InTransit + consumed + ((yielded + 1) - Len(received)) = U
    <3> DEFINE a == credits.available  rs == Reserved  t == InTransit  sh == Shipped  l == Len(received)
    <3>1. /\ a \in Nat /\ rs = 0 /\ t \in Nat /\ consumed \in Nat /\ sh = yielded /\ l \in Nat
          /\ yielded \in Nat /\ a + rs + t + consumed + (sh - l) = U
      BY <1>2, <1>3, <2>1, <2>2
    <3> HIDE DEF a, rs, t, sh, l
    <3>2. (a - 1) + 0 + t + consumed + ((yielded + 1) - l) = U
      BY <3>1
    <3> QED
      BY <3>2 DEF a, t, l
  <2>3. CASE handler' = "blocked" /\ UNCHANGED <<credits>>
    <3>1. Reserved' = 0 /\ Shipped' = yielded
      BY <1>3, <2>1, <2>3 DEF Reserved, Shipped
    <3> QED
      BY <1>2, <2>1, <2>2, <2>3, <3>1
  <2>4. CASE handler' = "running" /\ credits' = Metered(credits.available - 1)
    <3>1. Reserved' = 0 /\ Shipped' = yielded + 1
      BY <1>3, <2>1, <2>4 DEF Reserved, Shipped
    <3>2. credits'.available = credits.available - 1
      BY <2>4 DEF Metered
    <3> QED
      BY <2>1, <2>2, <2>s, <3>1, <3>2
  <2> QED
    BY <1>0, <1>12, <2>1, <2>3, <2>4 DEF GeneratorYields
<1>13. CASE SendGranted
  <2>1. /\ UNCHANGED <<c2s, consumed, received, ended, yielded, credits>> /\ handler = "granted" /\ handler' = "running"
    BY <1>13 DEF SendGranted
  <2>3. InTransit' = InTransit /\ Reserved = 1 /\ Reserved' = 0 /\ Shipped = yielded - 1 /\ Shipped' = yielded /\ Runs
    BY <1>3, <2>1, InTransitMoves DEF Reserved, Shipped, Runs
  <2> QED
    BY <1>2, <1>3, <2>1, <2>3
<1>14. CASE GeneratorEnds
  BY <1>0, <1>14 DEF GeneratorEnds, Unmetered
<1>15. CASE HandleStreamWindow
  <2>1. /\ UNCHANGED <<yielded, consumed, received, ended>> /\ c2s # <<>> /\ c2s' = Tail(c2s)
        /\ c2s[1].kind = "window" /\ Head(c2s) = c2s[1] /\ 1 \in 1..Len(c2s)
    BY <1>15, Fronts DEF HandleStreamWindow, ServerGets
  <2>3. c2s[1].n = RefillThreshold
    BY <1>r, <2>1 DEF RefillsFollow, Refills, Runs
  <2>4. Grant(RefillThreshold)
    BY <1>15, <1>r, <2>1, <2>3 DEF HandleStreamWindow, Runs
  <2>u. UNCHANGED <<yielded, consumed, received>>
    BY <2>1
  <2>5. InTransit' = InTransit - RefillThreshold
    BY <2>1, InTransitMoves
  <2>6. RefillThreshold > 0
    BY Threshold
  <2>s. /\ (credits.available + RefillThreshold - 1) + (Reserved + 1) + (InTransit - RefillThreshold)
             + consumed + (Shipped - Len(received)) = U
        /\ (credits.available + RefillThreshold) + Reserved + (InTransit - RefillThreshold)
             + consumed + (Shipped - Len(received)) = U
    <3> DEFINE a == credits.available  rs == Reserved  t == InTransit  sh == Shipped  l == Len(received)
               x == RefillThreshold
    <3>1. /\ a \in Nat /\ rs \in Nat /\ t \in Nat /\ consumed \in Nat /\ sh \in Nat /\ l \in Nat /\ x \in Nat
          /\ a + rs + t + consumed + (sh - l) = U
      BY <1>2, <1>3
    <3> HIDE DEF a, rs, t, sh, l, x
    <3>2. /\ (a + x - 1) + (rs + 1) + (t - x) + consumed + (sh - l) = U
          /\ (a + x) + rs + (t - x) + consumed + (sh - l) = U
      BY <3>1
    <3> QED
      BY <3>2 DEF a, rs, t, sh, l, x
  <2>7. CASE handler = "blocked"
    <3>1. handler' = "granted" /\ credits' = Metered(credits.available + RefillThreshold - 1)
      BY <1>3, <2>4, <2>6, <2>7 DEF Grant
    <3>2. credits'.available = credits.available + RefillThreshold - 1
      BY <3>1 DEF Metered
    <3>3. Reserved = 0 /\ Reserved' = 1 /\ Shipped' = Shipped
      BY <2>1, <2>7, <3>1 DEF Reserved, Shipped
    <3>4. Reserved' = Reserved + 1
      BY <3>3
    <3> QED
      BY <2>s, <2>u, <2>5, <3>2, <3>3, <3>4
  <2>8. CASE handler # "blocked"
    <3>1. handler' = handler /\ credits' = Metered(credits.available + RefillThreshold - 0)
      BY <2>4, <2>8 DEF Grant
    <3>2. credits'.available = credits.available + RefillThreshold
      BY <1>3, <3>1 DEF Metered
    <3>3. Reserved' = Reserved /\ Shipped' = Shipped
      BY <2>1, <3>1 DEF Reserved, Shipped
    <3> QED
      BY <2>s, <2>u, <2>5, <3>2, <3>3
  <2> QED
    BY <2>7, <2>8
<1> QED
  BY <1>1, <1>5, <1>6, <1>7, <1>8, <1>9, <1>10, <1>11, <1>12, <1>13, <1>14, <1>15
     DEF Next, ClientHandles, ServerHandles, Generator

-----------------------------------------------------------------------------
(* The inductive invariant *)

\* Before the call nothing is sent and nothing is owed.
LEMMA InitIInv == Init => IInv
<1> SUFFICES ASSUME Init PROVE IInv
  OBVIOUS
<1>1. TypeOK
  <2>1. /\ \A S : <<>> \in Seq(S)
        /\ Len(<<>>) = 0
    OBVIOUS
  <2>2. /\ buffer \in Seq(1..MaxChunks) /\ received \in Seq(1..MaxChunks) /\ sendQueue \in Seq({CallFrame, Finish})
        /\ c2s \in Seq(ClientFrames) /\ s2c \in Seq(ServerFrames) /\ Len(buffer) <= MaxQueueSize
    BY <2>1 DEF Init
  <2>3. credits \in [enabled : BOOLEAN, available : Nat]
    BY DEF Init, Unmetered
  <2>4. consumed \in 0..RefillThreshold /\ yielded \in 0..MaxChunks /\ readers \in 0..MaxReaders
    BY Threshold DEF Init
  <2> QED
    BY <2>2, <2>3, <2>4 DEF Init, TypeOK
<1>2. NothingLostInside
  BY DEF Init, NothingLostInside, Shipped
<1>3. RequestOnce
  BY DEF Init, RequestOnce, Lacks, CallLast
<1>4. RefillsFollow
  BY Threshold DEF Init, RefillsFollow, Lacks, Unmetered
<1>5. ReaderWaits
  BY DEF Init, ReaderWaits
<1>6. GeneratorStands
  BY DEF Init, GeneratorStands, Shipped, Lacks, Unmetered
<1>7. EndsLast
  BY DEF Init, EndsLast, ChunksFirst, Lacks
<1>8. NoNews
  BY DEF Init, NoNews, Lacks
<1> QED
  BY <1>1, <1>2, <1>3, <1>4, <1>5, <1>6, <1>7, <1>8 DEF IInv

\* Every step preserves the invariant.
LEMMA NextIInv == IInv /\ [Next]_vars => IInv'
<1> SUFFICES ASSUME IInv, [Next]_vars PROVE IInv'
  OBVIOUS
<1> USE DEF IInv
<1>1. TypeOK'
  BY TypeStep
<1>2. NothingLostInside' /\ EndsLast'
  BY ChunksStep DEF Chunks
<1>3. RequestOnce'
  BY RequestOnceStep
<1>4. RefillsFollow'
  BY RefillsFollowStep
<1>5. ReaderWaits'
  BY ReaderWaitsStep
<1>6. GeneratorStands'
  BY GeneratorStandsStep
<1>7. NoNews'
  BY NoNewsStep
<1> QED
  BY <1>1, <1>2, <1>3, <1>4, <1>5, <1>6, <1>7

\* The invariant is inductive: handlers, transports and timers of either side
\* keep every one of its parts.
THEOREM Inductive == Spec => []IInv
  BY InitIInv, NextIInv, PTL DEF Spec

\* Whatever the window, the buffer, the number of chunks and the faults, what
\* the reader has, what is buffered and what is on the way are consecutive
\* chunks, and none that was sent is missing while frames are carried.
THEOREM ChunksInOrder == Spec => []StreamInv
<1>1. IInv => StreamInv
  BY DEF IInv, StreamInv
<1> QED
  BY <1>1, Inductive, PTL

\* Once the server counts the credits of a stream, no step of either side makes
\* one or loses one.
THEOREM CreditsKept == Spec => CreditsConserved
<1>1. IInv /\ [Next]_vars => [Metering /\ Metering' => Circulating' = Circulating]_vars
  BY BalanceStep DEF IInv, Chunks
<1> QED
  BY <1>1, Inductive, PTL DEF Spec, CreditsConserved

-----------------------------------------------------------------------------
(* The contract *)

\* Each step of the stream is a step of the contract or a stutter.
LEMMA ContractStep ==
    ASSUME IInv, IInv', [Next]_vars
    PROVE  [Contract!ContractNext]_(Contract!contractVars)
<1> USE DEF Contract!contractVars
<1>1. ASSUME Contract!Produce PROVE [Contract!ContractNext]_(Contract!contractVars)
  BY <1>1 DEF Contract!ContractNext
<1>2. ASSUME Contract!Receive PROVE [Contract!ContractNext]_(Contract!contractVars)
  BY <1>2 DEF Contract!ContractNext
<1>3. ASSUME NEW v \in {"done", "failed"}, Contract!Conclude(v) PROVE [Contract!ContractNext]_(Contract!contractVars)
  BY <1>3 DEF Contract!ContractNext
<1>4. ASSUME UNCHANGED <<yielded, received, verdict>> PROVE [Contract!ContractNext]_(Contract!contractVars)
  BY <1>4
<1>5. /\ \A i \in 1..Len(buffer) : buffer[i] = Len(received) + i
      /\ Had <= Shipped
      /\ Len(received) \in Nat /\ Len(buffer) \in Nat /\ Shipped \in Nat /\ Shipped <= yielded /\ yielded \in Nat
  BY NothingLostMeans, Counts DEF IInv
<1>6. CASE Read
  <2>1. CASE buffer # <<>> /\ received' = Append(received, Head(buffer)) /\ UNCHANGED <<yielded, verdict>>
    <3>1. verdict = "open"
      BY <2>1 DEF IInv, ReaderWaits
    <3>2. Head(buffer) = buffer[1] /\ 1 \in 1..Len(buffer)
      BY <2>1, Taken DEF IInv, TypeOK
    <3>3. Head(buffer) = Len(received) + 1 /\ Len(received) < yielded
      BY <1>5, <3>2 DEF Had
    <3> QED
      BY <1>2, <2>1, <3>1, <3>3 DEF Contract!Receive
  <2>2. CASE buffer = <<>> /\ ended # "open" /\ verdict = "open" /\ verdict' = ended /\ UNCHANGED <<yielded, received>>
    <3>1. ended \in {"done", "failed"}
      BY <2>2 DEF IInv, TypeOK
    <3>2. ended = "done" => Len(received) = yielded
      BY <1>5, <2>2 DEF IInv, EndsLast, Had
    <3> QED
      BY <1>3, <2>2, <3>1, <3>2 DEF Contract!Conclude
  <2> QED
    BY <1>4, <1>6, <2>1, <2>2 DEF Read
<1>7. CASE HandleStreamChunk
  <2>1. CASE /\ ended = "open" /\ readers > 0 /\ received' = Append(received, Head(s2c).n) /\ UNCHANGED verdict
    <3>1. verdict = "open" /\ buffer = <<>> /\ UNCHANGED yielded
      BY <1>7, <2>1 DEF IInv, ReaderWaits, HandleStreamChunk
    <3>2. s2c # <<>> /\ s2c[1].kind = "chunk" /\ Head(s2c) = s2c[1]
      BY <1>7, Fronts DEF IInv, HandleStreamChunk, ClientGets
    <3>3. InOrder(s2c, Had, Shipped)
      BY <2>1, NothingLostMeans DEF IInv
    <3>4. s2c[1].n = Had + 1 /\ Had + 1 <= Shipped
      BY <3>2, <3>3, Counts, ChunkTaken DEF IInv
    <3>5. Head(s2c).n = Len(received) + 1 /\ Len(received) < yielded
      BY <1>5, <3>1, <3>2, <3>4 DEF Had
    <3> QED
      BY <1>2, <2>1, <3>1, <3>5 DEF Contract!Receive
  <2>2. CASE UNCHANGED <<received, verdict>>
    BY <1>4, <1>7, <2>2 DEF HandleStreamChunk
  <2> QED
    BY <1>7, <2>1, <2>2 DEF HandleStreamChunk, PushChunk
<1>8. CASE HandleStreamEnd \/ SignalAborts \/ ClientCloses \/ ClientLosesPeer
  <2>1. UNCHANGED <<yielded, received, buffer>>
    BY <1>8 DEF HandleStreamEnd, SignalAborts, ClientCloses, ClientLosesPeer, CloseClient
  <2>2. \/ verdict' = verdict
        \/ ended = "open" /\ readers > 0 /\ verdict' = ended'
    BY <1>8 DEF HandleStreamEnd, SignalAborts, ClientCloses, ClientLosesPeer, CloseClient, EndStream
  <2>3. CASE verdict' = verdict
    BY <1>4, <2>1, <2>3
  <2>4. CASE ended = "open" /\ readers > 0 /\ verdict' = ended' /\ verdict' # verdict
    <3>1. verdict = "open" /\ buffer = <<>>
      BY <2>4 DEF IInv, ReaderWaits
    <3>2. ended' \in {"done", "failed"}
      BY <2>4, <3>1 DEF IInv, TypeOK
    <3>3. ended' = "done" => Had' = yielded'
      BY DEF IInv, EndsLast
    <3>4. Had' = Len(received)
      BY <1>5, <2>1, <3>1 DEF Had
    <3> QED
      BY <1>3, <2>1, <2>4, <3>1, <3>2, <3>3, <3>4 DEF Contract!Conclude
  <2> QED
    BY <2>2, <2>3, <2>4
<1>9. CASE GeneratorYields
  <2>1. yielded' = yielded + 1 /\ UNCHANGED <<received, verdict>> /\ handler = "running"
    BY <1>9 DEF GeneratorYields
  <2>2. verdict # "done"
    BY <2>1 DEF IInv, ReaderWaits, EndsLast
  <2> QED
    BY <1>1, <2>1, <2>2 DEF Contract!Produce
<1>10. CASE \/ CallStream \/ Flush \/ DropReturn \/ ServerHandles \/ ResumePipelined \/ SendGranted \/ GeneratorEnds
            \/ ServerCloses \/ Disconnect \/ UNCHANGED vars
  <2>1. UNCHANGED <<yielded, received, verdict>>
    BY <1>10 DEF CallStream, Flush, DropReturn, ServerHandles, HandleCall, HandleStreamWindow, HandleFinish, ServerLosesPeer,
       ResumePipelined, SendGranted, GeneratorEnds, ServerCloses, CloseServer, Disconnect, vars
  <2> QED
    BY <1>4, <2>1
<1> QED
  BY <1>6, <1>7, <1>8, <1>9, <1>10 DEF Next, ClientHandles, Generator

\* The two sessions keep callStream()'s promise: the chunks the generator
\* yielded, in order and without a gap, then one verdict, and the verdict is
\* "done" only if the reader has had every chunk.
THEOREM ImplementsContract == Spec => ContractSpec
<1>1. Init => Contract!ContractInit
  BY DEF Init, Contract!ContractInit
<1>2. IInv /\ IInv' /\ [Next]_vars => [Contract!ContractNext]_(Contract!contractVars)
  BY ContractStep
<1> QED
  BY <1>1, <1>2, Inductive, PTL DEF Spec, ContractSpec, Contract!ContractSpec
=============================================================================
