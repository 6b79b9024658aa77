-------------------------- MODULE Transports_proofs --------------------------
(***************************************************************************)
(* Proofs about the two transports that make a request or a connection of  *)
(* their own accord.  HttpStream, for any number of calls: what is called  *)
(* before the session's first flush is in the one request, and no pending  *)
(* call falls between the queues, the request and its response.            *)
(* Reconnect, for any callbacks and any number of sessions: one session at *)
(* a time, a `ready` that is not left behind, and every callback told.     *)
(***************************************************************************)
EXTENDS HttpStream, Reconnect, TLAPS

USE ConstantsAssumption

-----------------------------------------------------------------------------
(* Frames *)

Kinds == {"call", "window"}
Frames == [kind : Kinds, q : Questions]

LEMMA FrameTyped ==
    /\ \A k \in Kinds, q \in Questions :
          Frame(k, q) \in Frames /\ Frame(k, q).kind = k /\ Frame(k, q).q = q
    /\ \A f \in Frames : f.kind \in Kinds /\ f.q \in Questions /\ f = Frame(f.kind, f.q)
    /\ \A q, c \in Questions : Frame("call", q) = Frame("call", c) => q = c
    /\ \A q, c \in Questions : Frame("call", q) # Frame("window", c)
  BY DEF Frame, Frames, Kinds

LEMMA CallsOf ==
    ASSUME NEW s \in Seq(Frames)
    PROVE  CallsIn(s) = {q \in Questions : \E i \in 1..Len(s) : s[i] = Frame("call", q)}
<1>1. \A i \in 1..Len(s) : s[i] \in Frames
  OBVIOUS
<1>2. \A q \in Questions : (\E i \in 1..Len(s) : s[i] = Frame("call", q)) => q \in CallsIn(s)
  <2> SUFFICES ASSUME NEW q \in Questions, NEW i \in 1..Len(s), s[i] = Frame("call", q)
               PROVE  q \in CallsIn(s)
    OBVIOUS
  <2>1. s[i].kind = "call" /\ s[i].q = q
    BY FrameTyped DEF Kinds
  <2>2. s[i] \in ToSet(s)
    BY DEF ToSet
  <2> QED
    BY <2>1, <2>2 DEF CallsIn
<1>3. \A q \in CallsIn(s) : q \in Questions /\ \E i \in 1..Len(s) : s[i] = Frame("call", q)
  <2> SUFFICES ASSUME NEW q \in CallsIn(s)
               PROVE  q \in Questions /\ \E i \in 1..Len(s) : s[i] = Frame("call", q)
    OBVIOUS
  <2>1. PICK f \in ToSet(s) : f.kind = "call" /\ q = f.q
    BY DEF CallsIn
  <2>2. PICK i \in 1..Len(s) : f = s[i]
    BY DEF ToSet
  <2> QED
    BY <1>1, <2>1, <2>2, FrameTyped
<1> QED
  BY <1>2, <1>3

LEMMA CallsJoin ==
    ASSUME NEW s \in Seq(Frames), NEW t \in Seq(Frames)
    PROVE  s \o t \in Seq(Frames) /\ CallsIn(s \o t) = CallsIn(s) \cup CallsIn(t)
<1>1. PICK u : u = s \o t
  OBVIOUS
<1>2. /\ u \in Seq(Frames) /\ Len(u) = Len(s) + Len(t)
      /\ \A i \in 1..Len(u) : u[i] = IF i <= Len(s) THEN s[i] ELSE t[i - Len(s)]
  BY <1>1
<1>3. \A f : (\E i \in 1..Len(u) : u[i] = f)
             <=> (\E i \in 1..Len(s) : s[i] = f) \/ (\E i \in 1..Len(t) : t[i] = f)
  <2> TAKE f
  <2>1. ASSUME NEW i \in 1..Len(s), s[i] = f PROVE \E j \in 1..Len(u) : u[j] = f
    <3>1. i \in 1..Len(u) /\ u[i] = f
      BY <1>2, <2>1
    <3> QED
      BY <3>1
  <2>2. ASSUME NEW i \in 1..Len(t), t[i] = f PROVE \E j \in 1..Len(u) : u[j] = f
    <3>1. PICK j : j = i + Len(s)
      OBVIOUS
    <3>2. j \in 1..Len(u) /\ u[j] = f
      BY <1>2, <2>2, <3>1
    <3> QED
      BY <3>2
  <2>3. ASSUME NEW j \in 1..Len(u), u[j] = f
        PROVE  (\E i \in 1..Len(s) : s[i] = f) \/ (\E i \in 1..Len(t) : t[i] = f)
    <3>1. CASE j <= Len(s)
      BY <1>2, <2>3, <3>1
    <3>2. CASE ~(j <= Len(s))
      <4>1. PICK i : i = j - Len(s)
        OBVIOUS
      <4>2. i \in 1..Len(t) /\ t[i] = f
        BY <1>2, <2>3, <3>2, <4>1
      <4> QED
        BY <4>2
    <3> QED
      BY <3>1, <3>2
  <2> QED
    BY <2>1, <2>2, <2>3
<1> QED
  BY <1>1, <1>2, <1>3, CallsOf

LEMMA CallsOfFew ==
    /\ <<>> \in Seq(Frames) /\ CallsIn(<<>>) = {}
    /\ \A q \in Questions :
          /\ <<Frame("call", q)>> \in Seq(Frames) /\ CallsIn(<<Frame("call", q)>>) = {q}
          /\ <<Frame("window", q)>> \in Seq(Frames) /\ CallsIn(<<Frame("window", q)>>) = {}
<1>1. <<>> \in Seq(Frames) /\ CallsIn(<<>>) = {}
  <2>1. PICK s : s = <<>>
    OBVIOUS
  <2>2. s \in Seq(Frames) /\ \A i : i \notin 1..Len(s)
    BY <2>1
  <2>3. CallsIn(s) = {q \in Questions : \E i \in 1..Len(s) : s[i] = Frame("call", q)}
    BY <2>2, CallsOf
  <2> QED
    BY <2>1, <2>2, <2>3
<1>2. ASSUME NEW f \in Frames
      PROVE  /\ <<f>> \in Seq(Frames)
             /\ CallsIn(<<f>>) = {q \in Questions : f = Frame("call", q)}
  <2>1. PICK s : s = <<f>>
    OBVIOUS
  <2>2. s \in Seq(Frames) /\ Len(s) = 1 /\ s[1] = f
    BY <2>1
  <2>3. CallsIn(s) = {q \in Questions : \E i \in 1..Len(s) : s[i] = Frame("call", q)}
    BY <2>2, CallsOf
  <2> QED
    BY <2>1, <2>2, <2>3
<1>3. ASSUME NEW q \in Questions
      PROVE  /\ <<Frame("call", q)>> \in Seq(Frames) /\ CallsIn(<<Frame("call", q)>>) = {q}
             /\ <<Frame("window", q)>> \in Seq(Frames) /\ CallsIn(<<Frame("window", q)>>) = {}
  <2>1. Frame("call", q) \in Frames /\ Frame("window", q) \in Frames
    BY FrameTyped DEF Kinds
  <2>2. CallsIn(<<Frame("call", q)>>) = {q}
    BY <1>2, <2>1, FrameTyped
  <2>3. CallsIn(<<Frame("window", q)>>) = {}
    BY <1>2, <2>1, FrameTyped
  <2> QED
    BY <1>2, <2>1, <2>2, <2>3
<1> QED
  BY <1>1, <1>3

-----------------------------------------------------------------------------
(* The microtask queue *)

Jobs == {"caller", "flush", "start"}
Queues == {s \in Seq(Jobs) : IsInjective(s)}

\* Wherever start is, flush is ahead of it.
FlushFirst(s) ==
    \A i \in 1..Len(s) : s[i] = "start" => \E j \in 1..(i - 1) : s[j] = "flush"

LEMMA Scheduled ==
    ASSUME NEW s \in Queues, NEW job \in Jobs
    PROVE  /\ Schedule(s, job) \in Queues
           /\ \A k \in Jobs : Contains(Schedule(s, job), k) <=> Contains(s, k) \/ k = job
           /\ FlushFirst(s) /\ (job = "start" => Contains(s, "flush"))
              => FlushFirst(Schedule(s, job))
<1>1. CASE Contains(s, job)
  <2>1. Schedule(s, job) = s
    BY <1>1 DEF Schedule
  <2> QED
    BY <1>1, <2>1
<1>2. CASE ~Contains(s, job)
  <2>1. PICK t : t = Append(s, job)
    OBVIOUS
  <2>2. Schedule(s, job) = t
    BY <1>2, <2>1 DEF Schedule
  <2>3. s \in Seq(Jobs) /\ Len(s) \in Nat
    BY DEF Queues
  <2>4. /\ t \in Seq(Jobs) /\ Len(t) = Len(s) + 1 /\ t[Len(s) + 1] = job
        /\ \A i \in 1..Len(s) : t[i] = s[i]
    BY <2>1, <2>3
  <2>5. IsInjective(t)
    <3>1. \A i, j \in 1..Len(s) : s[i] = s[j] => i = j
      BY <2>3 DEF Queues, IsInjective
    <3>2. \A i \in 1..Len(s) : s[i] # job
      BY <1>2 DEF Contains
    <3>3. \A i \in 1..Len(t) : i \in 1..Len(s) \/ i = Len(s) + 1
      BY <2>3, <2>4
    <3>4. \A i, j \in 1..Len(t) : t[i] = t[j] => i = j
      BY <2>4, <3>1, <3>2, <3>3
    <3> QED
      BY <2>4, <3>4 DEF IsInjective
  <2>6. \A k \in Jobs : Contains(t, k) <=> Contains(s, k) \/ k = job
    <3> TAKE k \in Jobs
    <3>1. ASSUME NEW i \in 1..Len(s), s[i] = k PROVE Contains(t, k)
      <4>1. i \in 1..Len(t) /\ t[i] = k
        BY <2>3, <2>4, <3>1
      <4> QED
        BY <4>1 DEF Contains
    <3>2. k = job => Contains(t, k)
      <4>1. Len(s) + 1 \in 1..Len(t)
        BY <2>3, <2>4
      <4> QED
        BY <2>4, <4>1 DEF Contains
    <3>3. ASSUME NEW i \in 1..Len(t), t[i] = k PROVE Contains(s, k) \/ k = job
      BY <2>3, <2>4, <3>3 DEF Contains
    <3> QED
      BY <3>1, <3>2, <3>3 DEF Contains
  <2>7. FlushFirst(s) /\ (job = "start" => Contains(s, "flush")) => FlushFirst(t)
    <3> SUFFICES ASSUME FlushFirst(s), job = "start" => Contains(s, "flush"),
                        NEW i \in 1..Len(t), t[i] = "start"
                 PROVE  \E j \in 1..(i - 1) : t[j] = "flush"
      BY DEF FlushFirst
    <3>1. CASE i \in 1..Len(s)
      <4>1. PICK j \in 1..(i - 1) : s[j] = "flush"
        BY <2>4, <3>1 DEF FlushFirst
      <4>2. j \in 1..Len(s)
        BY <2>3, <3>1
      <4> QED
        BY <2>4, <4>1, <4>2
    <3>2. CASE i = Len(s) + 1
      <4>1. job = "start"
        BY <2>4, <3>2
      <4>2. PICK j \in 1..Len(s) : s[j] = "flush"
        BY <4>1 DEF Contains
      <4>3. j \in 1..(i - 1)
        BY <2>3, <3>2
      <4> QED
        BY <2>4, <4>2, <4>3
    <3> QED
      BY <2>3, <2>4, <3>1, <3>2
  <2> QED
    BY <2>2, <2>4, <2>5, <2>6, <2>7 DEF Queues
<1> QED
  BY <1>1, <1>2

LEMMA Taken ==
    ASSUME NEW s \in Queues, s # <<>>
    PROVE  /\ Tail(s) \in Queues /\ Contains(s, Head(s)) /\ Head(s) \in Jobs
           /\ \A k \in Jobs : Contains(Tail(s), k) <=> Contains(s, k) /\ k # Head(s)
           /\ FlushFirst(s) => Head(s) # "start"
           /\ FlushFirst(s) /\ Head(s) # "flush" => FlushFirst(Tail(s))
<1>1. s \in Seq(Jobs) /\ Len(s) \in Nat /\ Len(s) > 0
  BY DEF Queues
<1>2. PICK t : t = Tail(s)
  OBVIOUS
<1>3. /\ t \in Seq(Jobs) /\ Len(t) = Len(s) - 1 /\ Head(s) = s[1] /\ Head(s) \in Jobs
      /\ \A i \in 1..Len(t) : t[i] = s[i + 1]
  BY <1>1, <1>2
<1>4. \A i, j \in 1..Len(s) : s[i] = s[j] => i = j
  BY <1>1 DEF Queues, IsInjective
<1>5. IsInjective(t)
  <2>1. \A i \in 1..Len(t) : i + 1 \in 1..Len(s)
    BY <1>1, <1>3
  <2>2. \A i, j \in 1..Len(t) : t[i] = t[j] => i = j
    <3> SUFFICES ASSUME NEW i \in 1..Len(t), NEW j \in 1..Len(t), t[i] = t[j]
                 PROVE  i = j
      OBVIOUS
    <3>1. i + 1 = j + 1
      BY <1>3, <1>4, <2>1
    <3> QED
      BY <3>1
  <2> QED
    BY <1>3, <2>2 DEF IsInjective
<1>6. Contains(s, Head(s))
  <2>1. 1 \in 1..Len(s)
    BY <1>1
  <2> QED
    BY <1>3, <2>1 DEF Contains
<1>7. \A k \in Jobs : Contains(t, k) <=> Contains(s, k) /\ k # Head(s)
  <2> TAKE k \in Jobs
  <2>1. ASSUME NEW i \in 1..Len(t), t[i] = k PROVE Contains(s, k) /\ k # Head(s)
    <3>1. i + 1 \in 1..Len(s) /\ s[i + 1] = k /\ 1 \in 1..Len(s) /\ i + 1 # 1
      BY <1>1, <1>3, <2>1
    <3> QED
      BY <1>3, <1>4, <3>1 DEF Contains
  <2>2. ASSUME NEW i \in 1..Len(s), s[i] = k, k # Head(s) PROVE Contains(t, k)
    <3>1. PICK j : j = i - 1
      OBVIOUS
    <3>2. j \in 1..Len(t) /\ t[j] = k
      BY <1>1, <1>3, <2>2, <3>1
    <3> QED
      BY <3>2 DEF Contains
  <2> QED
    BY <2>1, <2>2 DEF Contains
<1>8. FlushFirst(s) => Head(s) # "start"
  <2> SUFFICES ASSUME FlushFirst(s), Head(s) = "start" PROVE FALSE
    OBVIOUS
  <2>1. 1 \in 1..Len(s) /\ s[1] = "start"
    BY <1>1, <1>3
  <2>2. PICK j \in 1..(1 - 1) : s[j] = "flush"
    BY <2>1 DEF FlushFirst
  <2> QED
    BY <2>2
<1>9. FlushFirst(s) /\ Head(s) # "flush" => FlushFirst(t)
  <2> SUFFICES ASSUME FlushFirst(s), Head(s) # "flush", NEW i \in 1..Len(t), t[i] = "start"
               PROVE  \E j \in 1..(i - 1) : t[j] = "flush"
    BY DEF FlushFirst
  <2>1. i + 1 \in 1..Len(s) /\ s[i + 1] = "start" /\ (i + 1) - 1 = i
    BY <1>1, <1>3
  <2>2. PICK j \in 1..i : s[j] = "flush"
    BY <2>1 DEF FlushFirst
  <2>3. PICK k : k = j - 1
    OBVIOUS
  <2>4. j # 1
    BY <1>3, <2>2
  <2>5. k \in 1..(i - 1) /\ k \in 1..Len(t) /\ k + 1 = j
    BY <1>1, <1>3, <2>3, <2>4
  <2> QED
    BY <1>3, <2>2, <2>5
<1> QED
  BY <1>2, <1>3, <1>5, <1>6, <1>7, <1>8, <1>9 DEF Queues

-----------------------------------------------------------------------------
(* Queues of frames *)

CallFrames == [kind : {"call"}, q : Questions]

LEMMA CallFrameTyped ==
    /\ \A q \in Questions : Frame("call", q) \in CallFrames
    /\ \A f \in CallFrames : f \in Frames /\ f.q \in Questions /\ f = Frame("call", f.q)
    /\ \A s \in Seq(CallFrames) : s \in Seq(Frames)
<1>1. \A q \in Questions : Frame("call", q) \in CallFrames
  BY DEF Frame, CallFrames
<1>2. \A f \in CallFrames : f \in Frames /\ f.q \in Questions /\ f = Frame("call", f.q)
  BY DEF Frame, Frames, CallFrames, Kinds
<1>3. CallFrames \subseteq Frames
  BY <1>2
<1>4. \A s \in Seq(CallFrames) : s \in Seq(Frames)
  BY <1>3
<1> QED
  BY <1>1, <1>2, <1>4

LEMMA SomeCalls ==
    ASSUME NEW s \in Seq(CallFrames), s # <<>>
    PROVE  CallsIn(s) # {}
<1>1. 1 \in 1..Len(s) /\ s[1] \in CallFrames
  OBVIOUS
<1>2. s[1].q \in Questions /\ s[1] = Frame("call", s[1].q) /\ s \in Seq(Frames)
  BY <1>1, CallFrameTyped
<1>3. s[1].q \in CallsIn(s)
  BY <1>1, <1>2, CallsOf
<1> QED
  BY <1>3

LEMMA CallAppended ==
    ASSUME NEW s \in Seq(CallFrames), NEW q \in Questions
    PROVE  LET t == Append(s, Frame("call", q))
           IN  t \in Seq(CallFrames) /\ t # <<>> /\ CallsIn(t) = CallsIn(s) \cup {q}
<1>1. PICK f \in CallFrames : f = Frame("call", q)
  BY CallFrameTyped
<1>2. PICK u : u = <<f>>
  OBVIOUS
<1>3. u \in Seq(CallFrames) /\ Append(s, f) = s \o u /\ s \o u \in Seq(CallFrames) /\ s \o u # <<>>
  BY <1>2
<1>4. CallsIn(s \o u) = CallsIn(s) \cup CallsIn(u)
  BY <1>3, CallFrameTyped, CallsJoin
<1>5. CallsIn(u) = {q}
  BY <1>1, <1>2, CallsOfFew
<1> QED
  BY <1>1, <1>3, <1>4, <1>5

-----------------------------------------------------------------------------
(* The invariant *)

ClientTyped ==
    /\ target \in [Questions -> Questions \cup {ImportedCap, BootstrapCap, None}]
    /\ promise \in [Questions -> {"unused", "pending", "ok", "err"}]
    /\ closed \in BOOLEAN /\ turn \in BOOLEAN /\ jobs \in Queues
    /\ sendQueue \in Seq(CallFrames) /\ outbox \in Seq(Frames)
    /\ burst \subseteq Questions /\ dropped \subseteq Questions

\* Only a transport that has yet to make its request holds frames back.
HeldBack == outbox # <<>> => request = "unsent" /\ ~closed

\* What has a frame has been called.
Known ==
    \A q \in Questions : promise[q] = "unused" =>
        q \notin CallsIn(sendQueue) \cup CallsIn(outbox) \cup dropped \cup burst

\* While the burst waits, the request has not been made, nor has a call
\* reached the transport.
BurstWaits ==
    ~closed => \/ burst \cap CallsIn(sendQueue) = {}
               \/ request = "unsent" /\ CallsIn(outbox) = {}

\* Windows alone do not make the request: a flush is ahead of it.
CallsFollow ==
    ~closed /\ outbox # <<>> /\ CallsIn(outbox) = {} => sendQueue # <<>> /\ FlushFirst(jobs)

StartHasFrames ==
    ~closed /\ request = "unsent" /\ Contains(jobs, "start") => outbox # <<>>

ClientInv ==
    /\ ClientTyped /\ SendsAreScheduled /\ HeldBack /\ Known
    /\ BurstWaits /\ CallsFollow /\ StartHasFrames /\ BurstGoesOut

Replies == [q : Questions, how : {"ok", "err"}]
Stands == {"none", "waiting", "running", "streaming", "done", "failed", "refused"}

ServerTyped ==
    /\ body \in Seq(Frames) /\ request \in {"unsent", "sent", "open", "ended"}
    /\ endOnIdle \in BOOLEAN /\ next \in 1..(Len(body) + 1)
    /\ handler \in [Questions -> Stands]
    /\ credits \in [Streams -> Nat \cup {None}] /\ yielded \in [Streams -> 0..MaxChunks]
    /\ response \in Seq(Replies)

\* No frame has been dispatched before the request arrives.
Undispatched ==
    /\ request = "unsent" => body = <<>>
    /\ request \in {"unsent", "sent"} => next = 1 /\ \A q \in Questions : handler[q] = "none"

\* A handler has its call behind it.
Dispatched ==
    \A q \in Questions : handler[q] # "none" => \E i \in 1..(next - 1) : body[i] = Frame("call", q)

\* A response that ends while the client listens has waited for the handlers.
EndsIdle ==
    request = "ended" /\ ~closed =>
        AllDispatched /\ \A q \in Questions : handler[q] \notin {"waiting", "running"}

ServerInv ==
    ServerTyped /\ Undispatched /\ Dispatched /\ EndsIdle

\* The places of NoCallLost.
Place(q) ==
    \/ q \in CallsIn(sendQueue) \cup CallsIn(outbox) \cup dropped
    \/ \E i \in next..Len(body) : body[i] = Frame("call", q)
    \/ handler[q] \in {"waiting", "running", "streaming"}
    \/ \E i \in 1..Len(response) : response[i].q = q
    \/ q \in Streams /\ (handler[q] = "refused" \/ request = "ended")

Placed == \A q \in Questions : promise[q] = "pending" /\ ~closed => Place(q)

IInv == ClientInv /\ ServerInv /\ Placed

-----------------------------------------------------------------------------
(* The client's steps *)

LEMMA ClientTypes ==
    ASSUME ClientInv
    PROVE  /\ target \in [Questions -> Questions \cup {ImportedCap, BootstrapCap, None}]
           /\ promise \in [Questions -> {"unused", "pending", "ok", "err"}]
           /\ closed \in BOOLEAN /\ turn \in BOOLEAN /\ jobs \in Queues
           /\ sendQueue \in Seq(CallFrames) /\ sendQueue \in Seq(Frames) /\ outbox \in Seq(Frames)
           /\ burst \subseteq Questions /\ dropped \subseteq Questions
  BY CallFrameTyped DEF ClientInv, ClientTyped

\* What the caller's code finds in the queue when it goes on.
Ahead == IF turn \/ jobs = <<>> THEN jobs ELSE Tail(jobs)

LEMMA AheadKeeps ==
    ASSUME jobs \in Queues, CallerRuns
    PROVE  /\ Ahead \in Queues
           /\ \A k \in {"flush", "start"} : Contains(Ahead, k) <=> Contains(jobs, k)
           /\ FlushFirst(jobs) => FlushFirst(Ahead)
<1>1. CASE turn \/ jobs = <<>>
  BY <1>1 DEF Ahead
<1>2. CASE ~(turn \/ jobs = <<>>)
  <2>1. Ahead = Tail(jobs) /\ Head(jobs) = "caller" /\ jobs # <<>>
    BY <1>2 DEF Ahead, CallerRuns
  <2>2. /\ Tail(jobs) \in Queues
        /\ \A k \in Jobs : Contains(Tail(jobs), k) <=> Contains(jobs, k) /\ k # Head(jobs)
        /\ FlushFirst(jobs) /\ Head(jobs) # "flush" => FlushFirst(Tail(jobs))
    BY <2>1, Taken
  <2>3. \A k \in {"flush", "start"} : k \in Jobs /\ k # "caller"
    BY DEF Jobs
  <2> QED
    BY <2>1, <2>2, <2>3
<1> QED
  BY <1>1, <1>2

\* A call q is made, behind whose back direct goes to the transport.
Issued(q, direct) ==
    /\ promise[q] = "unused" /\ promise' = [promise EXCEPT ![q] = "pending"]
    /\ target' \in [Questions -> Questions \cup {ImportedCap, BootstrapCap, None}]
    /\ turn' = TRUE /\ UNCHANGED <<closed, dropped, request, body, serverVars, response>>
    /\ sendQueue' = Append(sendQueue, Frame("call", q))
    /\ burst' = IF CallsIn(outbox) = {} /\ request = "unsent" THEN burst \cup {q} ELSE burst
    /\ CallerRuns
    /\ IF direct = <<>> \/ closed \/ request # "unsent"
       THEN jobs' = Schedule(Ahead, "flush") /\ outbox' = outbox
       ELSE /\ jobs' = Schedule(Schedule(Ahead, "flush"), "start")
            /\ outbox' = outbox \o direct
    /\ direct \in {<<>>, <<Frame("window", q)>>}

LEMMA IssueDoes ==
    ASSUME ClientInv, NEW q \in Questions,
           \/ Bootstrap(q)
           \/ \E t \in Questions \cup {ImportedCap} : Call(q, t) \/ CallStream(q, t)
    PROVE  \E direct : Issued(q, direct)
<1>1. PICK t \in Questions \cup {ImportedCap, BootstrapCap},
           direct \in {<<>>, <<Frame("window", q)>>} : Issue(q, t, direct)
  <2>1. CASE Bootstrap(q)
    BY <2>1 DEF Bootstrap
  <2>2. ASSUME NEW t \in Questions \cup {ImportedCap}, Call(q, t)
        PROVE  Issue(q, t, <<>>)
    BY <2>2 DEF Call
  <2>3. ASSUME NEW t \in Questions \cup {ImportedCap}, CallStream(q, t)
        PROVE  \E direct \in {<<>>, <<Frame("window", q)>>} : Issue(q, t, direct)
    BY <2>3 DEF CallStream
  <2> QED
    BY <2>1, <2>2, <2>3
<1>2. target' \in [Questions -> Questions \cup {ImportedCap, BootstrapCap, None}]
  <2>1. target' = [target EXCEPT ![q] = t]
    BY <1>1 DEF Issue
  <2> QED
    BY <2>1, ClientTypes
<1>3. /\ promise[q] = "unused" /\ promise' = [promise EXCEPT ![q] = "pending"]
      /\ turn' = TRUE /\ UNCHANGED <<closed, dropped, request, body, serverVars, response>>
      /\ sendQueue' = Append(sendQueue, Frame("call", q))
      /\ burst' = IF CallsIn(outbox) = {} /\ request = "unsent" THEN burst \cup {q} ELSE burst
      /\ CallerRuns
  BY <1>1 DEF Issue
<1>4. IF direct = <<>> \/ closed \/ request # "unsent"
      THEN jobs' = Schedule(Ahead, "flush") /\ outbox' = outbox
      ELSE /\ jobs' = Schedule(Schedule(Ahead, "flush"), "start")
           /\ outbox' = outbox \o direct
  BY <1>1 DEF Issue, Ahead
<1>5. Issued(q, direct)
  BY <1>1, <1>2, <1>3, <1>4 DEF Issued
<1> QED
  BY <1>5

\* What becomes of the queues when a call is made.
LEMMA IssuedQueues ==
    ASSUME ClientInv, NEW q \in Questions, NEW direct, Issued(q, direct)
    PROVE  /\ sendQueue' \in Seq(CallFrames) /\ sendQueue' # <<>>
           /\ CallsIn(sendQueue') = CallsIn(sendQueue) \cup {q}
           /\ outbox' \in Seq(Frames) /\ CallsIn(outbox') = CallsIn(outbox)
           /\ jobs' \in Queues /\ Contains(jobs', "flush")
           /\ Contains(jobs, "start") => Contains(jobs', "start")
           /\ FlushFirst(jobs) \/ ~Contains(jobs, "start") => FlushFirst(jobs')
           /\ \/ outbox' = outbox /\ (Contains(jobs', "start") => Contains(jobs, "start"))
              \/ /\ outbox' # <<>> /\ Contains(jobs', "start")
                 /\ request = "unsent" /\ ~closed
<1>1. /\ promise[q] = "unused" /\ CallerRuns
      /\ sendQueue' = Append(sendQueue, Frame("call", q))
      /\ direct \in {<<>>, <<Frame("window", q)>>}
  BY DEF Issued
<1>2. /\ sendQueue' \in Seq(CallFrames) /\ sendQueue' # <<>>
      /\ CallsIn(sendQueue') = CallsIn(sendQueue) \cup {q}
  BY <1>1, ClientTypes, CallAppended
<1>3. /\ Ahead \in Queues
      /\ \A k \in {"flush", "start"} : Contains(Ahead, k) <=> Contains(jobs, k)
      /\ FlushFirst(jobs) => FlushFirst(Ahead)
  BY <1>1, ClientTypes, AheadKeeps
<1>4. PICK u : u = Schedule(Ahead, "flush")
  OBVIOUS
<1>5. /\ u \in Queues /\ Contains(u, "flush")
      /\ Contains(u, "start") <=> Contains(jobs, "start")
      /\ FlushFirst(Ahead) => FlushFirst(u)
  BY <1>3, <1>4, Scheduled DEF Jobs
<1>6. FlushFirst(jobs) \/ ~Contains(jobs, "start") => FlushFirst(u)
  BY <1>3, <1>5 DEF FlushFirst, Contains
<1>7. CASE direct = <<>> \/ closed \/ request # "unsent"
  <2>1. jobs' = u /\ outbox' = outbox
    BY <1>4, <1>7 DEF Issued
  <2>2. outbox' \in Seq(Frames) /\ CallsIn(outbox') = CallsIn(outbox)
    BY <2>1, ClientTypes
  <2> QED
    BY <1>2, <1>5, <1>6, <2>1, <2>2
<1>8. CASE ~(direct = <<>> \/ closed \/ request # "unsent")
  <2>1. jobs' = Schedule(u, "start") /\ outbox' = outbox \o direct
    BY <1>4, <1>8 DEF Issued
  <2>2. direct = <<Frame("window", q)>>
    BY <1>1, <1>8
  <2>3. PICK f : f = Frame("window", q)
    OBVIOUS
  <2>4. f \in Frames /\ direct = <<f>>
    BY <2>2, <2>3, FrameTyped DEF Kinds
  <2>5. outbox' # <<>>
    BY <2>1, <2>4, ClientTypes
  <2>6. /\ direct \in Seq(Frames) /\ CallsIn(direct) = {}
    BY <2>2, CallsOfFew
  <2>7. outbox' \in Seq(Frames) /\ CallsIn(outbox') = CallsIn(outbox)
    <3>1. outbox \in Seq(Frames)
      BY ClientTypes
    <3>2. /\ outbox \o direct \in Seq(Frames)
          /\ CallsIn(outbox \o direct) = CallsIn(outbox) \cup CallsIn(direct)
      BY <2>6, <3>1, CallsJoin
    <3> QED
      BY <2>1, <2>6, <3>2
  <2>8. /\ jobs' \in Queues /\ Contains(jobs', "start") /\ Contains(jobs', "flush")
        /\ FlushFirst(u) => FlushFirst(jobs')
    BY <1>5, <2>1, Scheduled DEF Jobs
  <2> QED
    BY <1>2, <1>6, <1>8, <2>5, <2>7, <2>8
<1> QED
  BY <1>7, <1>8

LEMMA IssuedClient ==
    ASSUME ClientInv, NEW q \in Questions, NEW direct, Issued(q, direct)
    PROVE  ClientInv'
<1>1. /\ promise[q] = "unused" /\ promise' = [promise EXCEPT ![q] = "pending"]
      /\ target' \in [Questions -> Questions \cup {ImportedCap, BootstrapCap, None}]
      /\ turn' = TRUE /\ closed' = closed /\ dropped' = dropped /\ request' = request
      /\ burst' = IF CallsIn(outbox) = {} /\ request = "unsent" THEN burst \cup {q} ELSE burst
  BY DEF Issued
<1>2. /\ sendQueue' \in Seq(CallFrames) /\ sendQueue' # <<>>
      /\ CallsIn(sendQueue') = CallsIn(sendQueue) \cup {q}
      /\ outbox' \in Seq(Frames) /\ CallsIn(outbox') = CallsIn(outbox)
      /\ jobs' \in Queues /\ Contains(jobs', "flush")
      /\ Contains(jobs, "start") => Contains(jobs', "start")
      /\ FlushFirst(jobs) \/ ~Contains(jobs, "start") => FlushFirst(jobs')
  BY IssuedQueues
<1>3. \/ outbox' = outbox /\ (Contains(jobs', "start") => Contains(jobs, "start"))
      \/ outbox' # <<>> /\ Contains(jobs', "start") /\ request = "unsent" /\ ~closed
  BY IssuedQueues
<1>4. /\ q \notin CallsIn(sendQueue) \cup CallsIn(outbox) \cup dropped \cup burst
      /\ SendsAreScheduled /\ HeldBack /\ Known /\ BurstWaits /\ CallsFollow /\ StartHasFrames
      /\ BurstGoesOut
  BY <1>1 DEF ClientInv, Known
<1>5. /\ promise' \in [Questions -> {"unused", "pending", "ok", "err"}]
      /\ \A c \in Questions : promise'[c] = IF c = q THEN "pending" ELSE promise[c]
  BY <1>1, ClientTypes
<1>6. ClientTyped'
  <2>1. burst' \subseteq Questions /\ dropped' \subseteq Questions /\ closed' \in BOOLEAN
    BY <1>1, ClientTypes
  <2> QED
    BY <1>1, <1>2, <1>5, <2>1 DEF ClientTyped
<1>7. SendsAreScheduled'
  BY <1>2, <1>3, <1>4 DEF SendsAreScheduled
<1>8. HeldBack'
  BY <1>1, <1>3, <1>4 DEF HeldBack
<1>9. Known'
  BY <1>1, <1>2, <1>4, <1>5 DEF Known
<1>10. BurstWaits'
  BY <1>1, <1>2, <1>4 DEF BurstWaits
<1>11. CallsFollow'
  <2> SUFFICES ASSUME ~closed, outbox' # <<>>, CallsIn(outbox) = {}
               PROVE  FlushFirst(jobs')
    BY <1>1, <1>2 DEF CallsFollow
  <2>1. CASE outbox # <<>>
    BY <1>2, <1>4, <2>1 DEF CallsFollow
  <2>2. CASE outbox = <<>>
    BY <1>2, <1>3, <1>4, <2>2 DEF StartHasFrames
  <2> QED
    BY <2>1, <2>2
<1>12. StartHasFrames'
  BY <1>1, <1>3, <1>4 DEF StartHasFrames
<1>13. BurstGoesOut'
  BY <1>1, <1>4 DEF BurstGoesOut
<1> QED
  BY <1>6, <1>7, <1>8, <1>9, <1>10, <1>11, <1>12, <1>13 DEF ClientInv

\* #flush: what is dropped was not of the burst, and what is taken ends it.
LEMMA FlushClient ==
    ASSUME ClientInv, Flush
    PROVE  ClientInv'
<1>1. /\ jobs # <<>> /\ Head(jobs) = "flush" /\ sendQueue' = <<>>
      /\ UNCHANGED <<target, promise, closed, turn, burst, request>>
  BY DEF Flush, NextJob
<1>2. /\ Tail(jobs) \in Queues
      /\ \A k \in Jobs : Contains(Tail(jobs), k) <=> Contains(jobs, k) /\ k # Head(jobs)
  BY <1>1, ClientTypes, Taken
<1>3. /\ SendsAreScheduled /\ HeldBack /\ Known /\ BurstWaits /\ CallsFollow /\ StartHasFrames
      /\ BurstGoesOut
  BY DEF ClientInv
<1>4. sendQueue' \in Seq(CallFrames) /\ CallsIn(sendQueue') = {}
  BY <1>1, CallsOfFew
<1>5. CASE sendQueue = <<>> \/ closed \/ request # "unsent"
  <2>1. /\ jobs' = Tail(jobs) /\ outbox' = outbox
        /\ dropped' = IF closed THEN dropped ELSE dropped \cup CallsIn(sendQueue)
    BY <1>5 DEF Flush
  <2>2. CallsIn(sendQueue) \subseteq Questions /\ (sendQueue = <<>> => CallsIn(sendQueue) = {})
    BY ClientTypes, CallsOf, CallsOfFew
  <2>3. ClientTyped'
    BY <1>1, <1>2, <1>4, <2>1, <2>2, ClientTypes DEF ClientTyped
  <2>4. SendsAreScheduled' /\ StartHasFrames'
    BY <1>1, <1>2, <1>3, <2>1 DEF SendsAreScheduled, StartHasFrames, Jobs
  <2>5. HeldBack' /\ Known' /\ BurstWaits'
    BY <1>1, <1>3, <1>4, <2>1 DEF HeldBack, Known, BurstWaits
  <2>6. CallsFollow'
    BY <1>1, <1>3, <1>5, <2>1 DEF HeldBack, CallsFollow
  <2>7. BurstGoesOut'
    BY <1>1, <1>3, <1>5, <2>1, <2>2 DEF BurstWaits, BurstGoesOut
  <2> QED
    BY <2>3, <2>4, <2>5, <2>6, <2>7 DEF ClientInv
<1>6. CASE ~(sendQueue = <<>> \/ closed \/ request # "unsent")
  <2>1. /\ jobs' = Schedule(Tail(jobs), "start") /\ outbox' = outbox \o sendQueue
        /\ dropped' = dropped
    BY <1>6 DEF Flush
  <2>2. /\ jobs' \in Queues /\ Contains(jobs', "start")
    BY <1>2, <2>1, Scheduled DEF Jobs
  <2>3. /\ outbox' \in Seq(Frames) /\ CallsIn(outbox') = CallsIn(outbox) \cup CallsIn(sendQueue)
        /\ outbox' # <<>>
    <3>1. outbox \o sendQueue # <<>>
      BY <1>6, ClientTypes
    <3> QED
      BY <2>1, <3>1, ClientTypes, CallsJoin
  <2>4. CallsIn(sendQueue) # {}
    BY <1>6, ClientTypes, SomeCalls
  <2>5. ClientTyped'
    BY <1>1, <1>4, <2>1, <2>2, <2>3, ClientTypes DEF ClientTyped
  <2>6. SendsAreScheduled' /\ StartHasFrames'
    BY <1>1, <2>2, <2>3 DEF SendsAreScheduled, StartHasFrames
  <2>7. HeldBack' /\ Known' /\ BurstWaits'
    BY <1>1, <1>3, <1>4, <1>6, <2>1, <2>3 DEF HeldBack, Known, BurstWaits
  <2>8. CallsFollow' /\ BurstGoesOut'
    BY <1>1, <1>3, <2>1, <2>3, <2>4 DEF CallsFollow, BurstGoesOut
  <2> QED
    BY <2>5, <2>6, <2>7, <2>8 DEF ClientInv
<1> QED
  BY <1>5, <1>6

\* start(): a request carries calls.
LEMMA StartClient ==
    ASSUME ClientInv, Start
    PROVE  ClientInv'
<1>1. /\ jobs # <<>> /\ Head(jobs) = "start" /\ jobs' = Tail(jobs)
      /\ UNCHANGED <<target, promise, closed, turn, sendQueue, burst, dropped>>
  BY DEF Start, NextJob
<1>2. /\ jobs' \in Queues
      /\ \A k \in Jobs : Contains(jobs', k) <=> Contains(jobs, k) /\ k # Head(jobs)
      /\ FlushFirst(jobs) => Head(jobs) # "start"
  BY <1>1, ClientTypes, Taken
<1>3. /\ SendsAreScheduled /\ HeldBack /\ Known /\ BurstWaits /\ CallsFollow /\ StartHasFrames
      /\ BurstGoesOut
  BY DEF ClientInv
<1>4. \/ request' = "sent" /\ outbox' = <<>> /\ request = "unsent" /\ ~closed /\ outbox # <<>>
      \/ request' = request /\ outbox' = outbox /\ outbox = <<>>
  BY <1>3 DEF Start, HeldBack
<1>5. outbox' \in Seq(Frames) /\ CallsIn(outbox') \subseteq CallsIn(outbox)
  BY <1>4, ClientTypes, CallsOfFew
<1>6. ClientTyped'
  BY <1>1, <1>2, <1>5, ClientTypes DEF ClientTyped
<1>7. SendsAreScheduled' /\ StartHasFrames'
  BY <1>1, <1>2, <1>3, <1>4 DEF SendsAreScheduled, StartHasFrames, Jobs
<1>8. HeldBack' /\ Known' /\ CallsFollow'
  BY <1>1, <1>3, <1>4, <1>5 DEF HeldBack, Known, CallsFollow
<1>9. BurstWaits'
  BY <1>1, <1>2, <1>3, <1>4 DEF BurstWaits, CallsFollow
<1>10. BurstGoesOut'
  BY <1>1, <1>3 DEF BurstGoesOut
<1> QED
  BY <1>6, <1>7, <1>8, <1>9, <1>10 DEF ClientInv

\* The end of a turn, and an await that no call follows.
LEMMA TurnClient ==
    ASSUME ClientInv, EndTurn \/ Resume
    PROVE  ClientInv'
<1>1. /\ turn' \in BOOLEAN
      /\ UNCHANGED <<target, promise, closed, sendQueue, outbox, burst, dropped, request>>
  BY ClientTypes DEF EndTurn, Resume
<1>2. /\ jobs' \in Queues
      /\ FlushFirst(jobs) => FlushFirst(jobs')
      /\ \A k \in {"flush", "start"} : Contains(jobs', k) <=> Contains(jobs, k)
  <2>1. CASE EndTurn
    <3>1. jobs' = jobs \/ jobs' = Schedule(jobs, "caller")
      BY <2>1 DEF EndTurn
    <3> QED
      BY <3>1, ClientTypes, Scheduled DEF Jobs
  <2>2. CASE Resume
    <3>1. jobs # <<>> /\ Head(jobs) = "caller" /\ jobs' = Tail(jobs)
      BY <2>2 DEF Resume, NextJob
    <3> QED
      BY <3>1, ClientTypes, Taken DEF Jobs
  <2> QED
    BY <2>1, <2>2
<1>3. ClientTyped'
  BY <1>1, <1>2, ClientTypes DEF ClientTyped
<1>4. SendsAreScheduled' /\ HeldBack' /\ Known' /\ BurstWaits'
  BY <1>1, <1>2 DEF ClientInv, SendsAreScheduled, HeldBack, Known, BurstWaits
<1>5. CallsFollow' /\ StartHasFrames' /\ BurstGoesOut'
  BY <1>1, <1>2 DEF ClientInv, CallsFollow, StartHasFrames, BurstGoesOut
<1> QED
  BY <1>3, <1>4, <1>5 DEF ClientInv

LEMMA CloseClients ==
    ASSUME ClientInv, CloseClient
    PROVE  ClientInv'
<1>1. /\ closed' = TRUE /\ sendQueue' = <<>> /\ outbox' = <<>>
      /\ promise' = [q \in Questions |-> IF promise[q] = "pending" THEN "err" ELSE promise[q]]
      /\ UNCHANGED <<target, turn, jobs, burst, dropped>>
  BY DEF CloseClient
<1>2. /\ promise' \in [Questions -> {"unused", "pending", "ok", "err"}]
      /\ \A q \in Questions : promise'[q] = "unused" <=> promise[q] = "unused"
  BY <1>1, ClientTypes
<1>3. ClientTyped'
  BY <1>1, <1>2, ClientTypes DEF ClientTyped
<1>4. Known'
  BY <1>1, <1>2, CallsOfFew DEF ClientInv, Known
<1>5. SendsAreScheduled' /\ HeldBack' /\ BurstWaits' /\ CallsFollow' /\ StartHasFrames' /\ BurstGoesOut'
  BY <1>1 DEF ClientInv, SendsAreScheduled, HeldBack, BurstWaits, CallsFollow, StartHasFrames,
              BurstGoesOut
<1> QED
  BY <1>3, <1>4, <1>5 DEF ClientInv

\* All else that happens to the client is that calls settle.
LEMMA SettleClient ==
    ASSUME ClientInv,
           UNCHANGED <<target, closed, turn, jobs, sendQueue, outbox, burst, dropped>>,
           request' = "unsent" <=> request = "unsent",
           promise' \in [Questions -> {"unused", "pending", "ok", "err"}],
           \A q \in Questions : promise'[q] = "unused" <=> promise[q] = "unused"
    PROVE  ClientInv'
<1>1. ClientTyped'
  BY ClientTypes DEF ClientTyped
<1>2. SendsAreScheduled' /\ HeldBack' /\ Known' /\ BurstWaits'
  BY DEF ClientInv, SendsAreScheduled, HeldBack, Known, BurstWaits
<1>3. CallsFollow' /\ StartHasFrames' /\ BurstGoesOut'
  BY DEF ClientInv, CallsFollow, StartHasFrames, BurstGoesOut
<1> QED
  BY <1>1, <1>2, <1>3 DEF ClientInv

-----------------------------------------------------------------------------
(* The server's steps *)

LEMMA ServerTypes ==
    ASSUME ServerInv
    PROVE  /\ body \in Seq(Frames) /\ request \in {"unsent", "sent", "open", "ended"}
           /\ endOnIdle \in BOOLEAN /\ next \in 1..(Len(body) + 1) /\ Len(body) \in Nat
           /\ handler \in [Questions -> Stands]
           /\ credits \in [Streams -> Nat \cup {None}] /\ yielded \in [Streams -> 0..MaxChunks]
           /\ response \in Seq(Replies)
  BY DEF ServerInv, ServerTyped

\* The client's own steps leave the server as it is.
LEMMA ClientsServer ==
    ASSUME ServerInv, UNCHANGED <<request, body, serverVars>>,
           response' \in Seq(Replies), closed => closed'
    PROVE  ServerInv'
<1>1. UNCHANGED <<request, body, endOnIdle, next, handler, credits, yielded>>
  BY DEF serverVars
<1>2. ServerTyped'
  BY <1>1 DEF ServerInv, ServerTyped
<1>3. Undispatched' /\ Dispatched'
  BY <1>1 DEF ServerInv, Undispatched, Dispatched
<1>4. EndsIdle'
  BY <1>1 DEF ServerInv, EndsIdle, AllDispatched
<1> QED
  BY <1>2, <1>3, <1>4 DEF ServerInv

LEMMA StartServer ==
    ASSUME ClientInv, ServerInv, Start
    PROVE  ServerInv'
<1>1. UNCHANGED <<closed, serverVars, response>>
  BY DEF Start
<1>2. CASE request = "unsent" /\ ~closed /\ outbox # <<>>
  <2>1. request' = "sent" /\ body' = outbox /\ outbox' = <<>>
    BY <1>2 DEF Start
  <2>2. UNCHANGED <<closed, endOnIdle, next, handler, credits, yielded, response>>
    BY <1>1 DEF serverVars
  <2>3. body' \in Seq(Frames) /\ Len(body') \in Nat
    BY <2>1, ClientTypes
  <2>4. next' = 1 /\ \A q \in Questions : handler'[q] = "none"
    BY <1>2, <2>2 DEF ServerInv, Undispatched
  <2>5. ServerTyped'
    BY <2>1, <2>2, <2>3, <2>4, ServerTypes DEF ServerTyped
  <2>6. Undispatched' /\ Dispatched' /\ EndsIdle'
    BY <2>1, <2>4 DEF Undispatched, Dispatched, EndsIdle
  <2> QED
    BY <2>5, <2>6 DEF ServerInv
<1>3. CASE ~(request = "unsent" /\ ~closed /\ outbox # <<>>)
  <2>1. UNCHANGED <<request, body, outbox>>
    BY <1>3 DEF Start
  <2> QED
    BY <1>1, <2>1, ClientsServer, ServerTypes DEF ServerInv
<1> QED
  BY <1>2, <1>3

\* An answer joins those of the response, and is there to be read.
LEMMA Replied ==
    ASSUME response \in Seq(Replies), NEW q \in Questions,
           response' = response \/ \E how \in {"ok", "err"} : Reply(q, how)
    PROVE  /\ response' \in Seq(Replies)
           /\ \A c : (\E i \in 1..Len(response) : response[i].q = c)
                     => \E i \in 1..Len(response') : response'[i].q = c
           /\ request = "open" /\ (\E how \in {"ok", "err"} : Reply(q, how))
              => \E i \in 1..Len(response') : response'[i].q = q
<1>1. CASE response' = response /\ ~(request = "open" /\ \E how \in {"ok", "err"} : Reply(q, how))
  BY <1>1
<1>2. ASSUME request = "open", NEW how \in {"ok", "err"}, Reply(q, how)
      PROVE  /\ response' \in Seq(Replies)
             /\ \A c : (\E i \in 1..Len(response) : response[i].q = c)
                       => \E i \in 1..Len(response') : response'[i].q = c
             /\ \E i \in 1..Len(response') : response'[i].q = q
  <2>1. PICK r : r = [q |-> q, how |-> how]
    OBVIOUS
  <2>2. r \in Replies /\ r.q = q
    BY <2>1 DEF Replies
  <2>3. response' = Append(response, r)
    BY <1>2, <2>1 DEF Reply
  <2>4. PICK s : s = Append(response, r)
    OBVIOUS
  <2>5. /\ s \in Seq(Replies) /\ Len(response) \in Nat
        /\ Len(s) = Len(response) + 1 /\ s[Len(response) + 1] = r
        /\ \A i \in 1..Len(response) : s[i] = response[i]
    BY <2>2, <2>4
  <2>6. ASSUME NEW c, NEW i \in 1..Len(response), response[i].q = c
        PROVE  \E j \in 1..Len(s) : s[j].q = c
    <3>1. i \in 1..Len(s) /\ s[i] = response[i]
      BY <2>5
    <3> QED
      BY <2>6, <3>1
  <2>7. \E i \in 1..Len(s) : s[i].q = q
    <3>1. Len(response) + 1 \in 1..Len(s)
      BY <2>5
    <3> QED
      BY <2>2, <2>5, <3>1
  <2>8. response' = s
    BY <2>3, <2>4
  <2>9. \A c : (\E i \in 1..Len(response) : response[i].q = c) => \E i \in 1..Len(s) : s[i].q = c
    BY <2>6
  <2> QED
    BY <2>5, <2>7, <2>8, <2>9
<1>3. CASE request # "open" /\ \E how \in {"ok", "err"} : Reply(q, how)
  <2>1. response' = response
    BY <1>3 DEF Reply
  <2> QED
    BY <1>3, <2>1
<1> QED
  BY <1>1, <1>2, <1>3

\* Where an answer or a method leaves a call: nowhere but in a place.
Left(q) ==
    \/ handler'[q] \in {"waiting", "running", "streaming"}
    \/ \E i \in 1..Len(response') : response'[i].q = q
    \/ q \in Streams /\ (handler'[q] = "refused" \/ request = "ended")
    \/ closed

\* What a step does for the call q, to the handlers and the response.
Handled(q) ==
    /\ handler' \in [Questions -> Stands]
    /\ \A c \in Questions \ {q} : handler'[c] = handler[c]
    /\ response' \in Seq(Replies)
    /\ \A c : (\E i \in 1..Len(response) : response[i].q = c)
              => \E i \in 1..Len(response') : response'[i].q = c
    /\ Left(q)

LEMMA RefuseDoes ==
    ASSUME ServerInv, request = "open" \/ closed, NEW q \in Questions, Refuse(q)
    PROVE  Handled(q)
<1>1. handler' = [handler EXCEPT ![q] = "refused"]
  BY DEF Refuse
<1>2. /\ handler' \in [Questions -> Stands] /\ handler'[q] = "refused"
      /\ \A c \in Questions \ {q} : handler'[c] = handler[c]
  BY <1>1, ServerTypes DEF Stands
<1>3. (q \in Streams /\ response' = response) \/ (q \notin Streams /\ Reply(q, "err"))
  BY DEF Refuse
<1>4. /\ response' \in Seq(Replies)
      /\ \A c : (\E i \in 1..Len(response) : response[i].q = c)
                => \E i \in 1..Len(response') : response'[i].q = c
      /\ request = "open" => q \in Streams \/ \E i \in 1..Len(response') : response'[i].q = q
  BY <1>3, ServerTypes, Replied
<1> QED
  BY <1>2, <1>4 DEF Handled, Left

LEMMA DispatchDoes ==
    ASSUME ServerInv, request = "open" \/ closed, NEW q \in Questions, Dispatch(q)
    PROVE  Handled(q)
<1>1. CASE Refuse(q)
  BY <1>1, RefuseDoes
<1>2. CASE ~Refuse(q)
  <2>1. PICK h \in {"running", "streaming"} :
            handler' = [handler EXCEPT ![q] = h] /\ response' = response
    BY <1>2 DEF Dispatch
  <2>2. /\ handler' \in [Questions -> Stands] /\ handler'[q] = h
        /\ \A c \in Questions \ {q} : handler'[c] = handler[c]
    BY <2>1, ServerTypes DEF Stands
  <2> QED
    BY <2>1, <2>2, ServerTypes DEF Handled, Left
<1> QED
  BY <1>1, <1>2

LEMMA SettlesDoes ==
    ASSUME ServerInv, NEW q \in Questions, request = "open" \/ closed \/ q \in Streams,
           handler[q] # "none", Succeed(q) \/ Fail(q)
    PROVE  Handled(q)
<1>1. PICK h \in {"done", "failed"} :
          handler' = [handler EXCEPT ![q] = h] /\ \E how \in {"ok", "err"} : Reply(q, how)
  BY DEF Succeed, Fail
<1>2. /\ handler' \in [Questions -> Stands]
      /\ \A c \in Questions \ {q} : handler'[c] = handler[c]
  BY <1>1, ServerTypes DEF Stands
<1>3. request \in {"open", "ended"}
  BY ServerTypes DEF ServerInv, Undispatched
<1>4. /\ response' \in Seq(Replies)
      /\ \A c : (\E i \in 1..Len(response) : response[i].q = c)
                => \E i \in 1..Len(response') : response'[i].q = c
      /\ request = "open" => \E i \in 1..Len(response') : response'[i].q = q
  BY <1>1, ServerTypes, Replied
<1> QED
  BY <1>2, <1>3, <1>4 DEF Handled, Left

\* A frame of the body: a window, which only adds credits, or a call.
LEMMA DispatchFrameDoes ==
    ASSUME ServerInv, DispatchFrame
    PROVE  /\ request = "open" /\ next <= Len(body) /\ next' = next + 1
           /\ UNCHANGED <<clientVars, request, body, endOnIdle, yielded>>
           /\ credits' \in [Streams -> Nat \cup {None}]
           /\ \/ \E q \in Questions :
                     body[next] = Frame("window", q) /\ UNCHANGED <<handler, response>>
              \/ \E q \in Questions : body[next] = Frame("call", q) /\ Handled(q)
<1>1. /\ request = "open" /\ next <= Len(body) /\ next' = next + 1
      /\ UNCHANGED <<clientVars, request, body, endOnIdle, yielded>>
      /\ next \in 1..Len(body)
  <2>1. /\ request = "open" /\ ~(next > Len(body)) /\ next' = next + 1
        /\ UNCHANGED <<clientVars, request, body, endOnIdle, yielded>>
    BY DEF DispatchFrame, AllDispatched
  <2> QED
    BY <2>1, ServerTypes
<1>2. PICK f \in Frames : f = body[next]
  BY <1>1, ServerTypes
<1>3. IF f.kind = "call" THEN DispatchCall(f.q) /\ UNCHANGED credits
      ELSE DispatchWindow(f.q) /\ UNCHANGED <<handler, response>>
  BY <1>2 DEF DispatchFrame
<1>4. PICK q \in Questions : f.q = q
  BY FrameTyped
<1>5. CASE f.kind = "call"
  <2>1. body[next] = Frame("call", q)
    BY <1>2, <1>4, <1>5, FrameTyped
  <2>2. Handled(q)
    <3>1. CASE target[q] = BootstrapCap /\ Reply(q, "ok") /\ UNCHANGED handler
      <4>1. /\ response' \in Seq(Replies)
            /\ \A c : (\E i \in 1..Len(response) : response[i].q = c)
                      => \E i \in 1..Len(response') : response'[i].q = c
            /\ \E i \in 1..Len(response') : response'[i].q = q
        BY <1>1, <3>1, ServerTypes, Replied
      <4> QED
        BY <3>1, <4>1, ServerTypes DEF Handled, Left
    <3>2. CASE Dispatch(q)
      BY <1>1, <3>2, DispatchDoes
    <3>3. CASE handler' = [handler EXCEPT ![q] = "waiting"] /\ UNCHANGED response
      <4>1. /\ handler' \in [Questions -> Stands] /\ handler'[q] = "waiting"
            /\ \A c \in Questions \ {q} : handler'[c] = handler[c]
        BY <3>3, ServerTypes DEF Stands
      <4> QED
        BY <3>3, <4>1, ServerTypes DEF Handled, Left
    <3> QED
      BY <1>3, <1>4, <1>5, <3>1, <3>2, <3>3 DEF DispatchCall
  <2> QED
    BY <1>1, <1>3, <1>5, <2>1, <2>2, ServerTypes
<1>6. CASE f.kind # "call"
  <2>1. body[next] = Frame("window", q)
    BY <1>2, <1>4, <1>6, FrameTyped DEF Kinds
  <2>2. DispatchWindow(q) /\ UNCHANGED <<handler, response>>
    BY <1>3, <1>4, <1>6
  <2>3. credits' \in [Streams -> Nat \cup {None}]
    <3>1. CASE credits' = credits
      BY <3>1, ServerTypes
    <3>2. CASE credits' = [credits EXCEPT ![q] = Window + IF @ = None THEN 0 ELSE @]
      <4>1. credits \in [Streams -> Nat \cup {None}] /\ Window \in Nat
        BY ServerTypes, ConstantsAssumption
      <4>2. CASE q \in Streams
        <5>1. Window + (IF credits[q] = None THEN 0 ELSE credits[q]) \in Nat
          BY <4>1, <4>2
        <5> QED
          BY <3>2, <4>1, <5>1
      <4>3. CASE q \notin Streams
        BY <3>2, <4>1, <4>3
      <4> QED
        BY <4>2, <4>3
    <3> QED
      BY <2>2, <3>1, <3>2 DEF DispatchWindow
  <2> QED
    BY <1>1, <2>1, <2>2, <2>3
<1> QED
  BY <1>5, <1>6

\* What a handler or a generator does, once its call has been dispatched.
Served(q) ==
    /\ Handled(q) /\ handler[q] # "none"
    /\ UNCHANGED <<clientVars, request, body, endOnIdle, next, yielded, credits>>
    /\ request = "ended" /\ ~closed => handler'[q] \notin {"waiting", "running"}

LEMMA HandlerServes ==
    ASSUME ServerInv, NEW q \in Questions, HandlerStep(q)
    PROVE  Served(q)
<1>1. UNCHANGED <<clientVars, request, body, endOnIdle, next, yielded, credits>>
  BY DEF HandlerStep, ResumePipelined, HandlerReturns
<1>2. handler[q] \in {"waiting", "running"}
  BY DEF HandlerStep, ResumePipelined, HandlerReturns
<1>3. request = "open" \/ closed
  <2>1. request \notin {"unsent", "sent"}
    BY <1>2 DEF ServerInv, Undispatched
  <2>2. request = "ended" => closed
    BY <1>2 DEF ServerInv, EndsIdle
  <2> QED
    BY <2>1, <2>2, ServerTypes
<1>4. Refuse(q) \/ Dispatch(q) \/ Succeed(q) \/ Fail(q)
  BY DEF HandlerStep, ResumePipelined, HandlerReturns
<1>5. Handled(q)
  BY <1>2, <1>3, <1>4, RefuseDoes, DispatchDoes, SettlesDoes
<1> QED
  BY <1>1, <1>2, <1>3, <1>5 DEF Served

LEMMA GeneratorServes ==
    ASSUME ServerInv, NEW q \in Streams, GeneratorEnds(q) \/ GeneratorThrows(q)
    PROVE  Served(q)
<1>1. UNCHANGED <<clientVars, request, body, endOnIdle, next, yielded, credits>>
  BY DEF GeneratorEnds, GeneratorThrows
<1>2. handler[q] = "streaming" /\ (Succeed(q) \/ Fail(q)) /\ q \in Questions
  BY DEF GeneratorEnds, GeneratorThrows
<1>3. Handled(q)
  BY <1>2, SettlesDoes
<1>4. handler'[q] \in {"done", "failed"}
  <2>1. PICK h \in {"done", "failed"} : handler' = [handler EXCEPT ![q] = h]
    BY <1>2 DEF Succeed, Fail
  <2> QED
    BY <1>2, <2>1, ServerTypes
<1> QED
  BY <1>1, <1>2, <1>3, <1>4 DEF Served

LEMMA ServedServer ==
    ASSUME ServerInv, NEW q \in Questions, Served(q)
    PROVE  ServerInv'
<1>1. UNCHANGED <<closed, outbox, request, body, endOnIdle, next, yielded, credits>>
  BY DEF Served, clientVars
<1>2. /\ handler' \in [Questions -> Stands] /\ response' \in Seq(Replies)
      /\ \A c \in Questions \ {q} : handler'[c] = handler[c]
      /\ handler[q] # "none"
      /\ request = "ended" /\ ~closed => handler'[q] \notin {"waiting", "running"}
  BY DEF Served, Handled
<1>3. ServerTyped'
  BY <1>1, <1>2, ServerTypes DEF ServerTyped
<1>4. Undispatched' /\ Dispatched'
  BY <1>1, <1>2 DEF ServerInv, Undispatched, Dispatched
<1>5. EndsIdle'
  BY <1>1, <1>2 DEF ServerInv, EndsIdle, AllDispatched
<1> QED
  BY <1>3, <1>4, <1>5 DEF ServerInv

LEMMA YieldsServer ==
    ASSUME ServerInv, NEW q \in Streams, GeneratorYields(q)
    PROVE  ServerInv' /\ UNCHANGED <<clientVars, request, body, next, handler, response>>
<1>1. /\ UNCHANGED <<clientVars, request, body, endOnIdle, next, handler, response>>
      /\ yielded[q] < MaxChunks /\ credits[q] # 0
      /\ yielded' = [yielded EXCEPT ![q] = @ + 1]
      /\ credits' = [credits EXCEPT ![q] = IF @ = None THEN None ELSE @ - 1]
  BY DEF GeneratorYields, Blocked
<1>2. credits' \in [Streams -> Nat \cup {None}]
  BY <1>1, ServerTypes
<1>3. yielded' \in [Streams -> 0..MaxChunks]
  BY <1>1, ServerTypes
<1>4. UNCHANGED <<closed, outbox>>
  BY <1>1 DEF clientVars
<1>5. ServerTyped'
  BY <1>1, <1>2, <1>3, ServerTypes DEF ServerTyped
<1>6. Undispatched' /\ Dispatched'
  BY <1>1 DEF ServerInv, Undispatched, Dispatched
<1>7. EndsIdle'
  BY <1>1, <1>4 DEF ServerInv, EndsIdle, AllDispatched
<1> QED
  BY <1>1, <1>5, <1>6, <1>7 DEF ServerInv

LEMMA DispatchServer ==
    ASSUME ServerInv, DispatchFrame
    PROVE  ServerInv'
<1>1. /\ request = "open" /\ next <= Len(body) /\ next' = next + 1
      /\ UNCHANGED <<clientVars, request, body, endOnIdle, yielded>>
      /\ credits' \in [Streams -> Nat \cup {None}]
      /\ \/ \E q \in Questions :
                body[next] = Frame("window", q) /\ UNCHANGED <<handler, response>>
         \/ \E q \in Questions : body[next] = Frame("call", q) /\ Handled(q)
  BY DispatchFrameDoes
<1>2. UNCHANGED <<closed, outbox>>
  BY <1>1 DEF clientVars
<1>3. next' \in 1..(Len(body) + 1) /\ next \in 1..(next' - 1)
  BY <1>1, ServerTypes
<1>4. handler' \in [Questions -> Stands] /\ response' \in Seq(Replies)
  BY <1>1, ServerTypes DEF Handled
<1>5. ServerTyped'
  BY <1>1, <1>3, <1>4, ServerTypes DEF ServerTyped
<1>6. Undispatched' /\ EndsIdle'
  BY <1>1 DEF Undispatched, EndsIdle
<1>7. Dispatched'
  <2> SUFFICES ASSUME NEW c \in Questions, handler'[c] # "none"
               PROVE  \E i \in 1..(next' - 1) : body[i] = Frame("call", c)
    BY <1>1 DEF Dispatched
  <2>1. CASE handler[c] # "none"
    <3>1. PICK i \in 1..(next - 1) : body[i] = Frame("call", c)
      BY <2>1 DEF ServerInv, Dispatched
    <3>2. i \in 1..(next' - 1)
      BY <1>1, ServerTypes
    <3> QED
      BY <3>1, <3>2
  <2>2. CASE handler[c] = "none"
    <3>1. body[next] = Frame("call", c)
      BY <1>1, <2>2 DEF Handled
    <3> QED
      BY <1>3, <3>1
  <2> QED
    BY <2>1, <2>2
<1> QED
  BY <1>5, <1>6, <1>7 DEF ServerInv

\* The request arrives, and its response ends.
LEMMA RequestServer ==
    ASSUME ServerInv, Arrive \/ Finish \/ Cancel
    PROVE  /\ ServerInv' /\ UNCHANGED <<clientVars, body, next, handler, response>>
           /\ request' \in {"open", "ended"} /\ request # "unsent"
           /\ request = "ended" => request' = "ended"
<1>1. /\ UNCHANGED <<clientVars, body, serverVars, response>>
      /\ \/ request = "sent" /\ request' = "open"
         \/ request = "open" /\ request' = "ended" /\ AllDispatched
            /\ (closed \/ \A q \in Questions : handler[q] \notin {"waiting", "running"})
  BY DEF Arrive, Finish, Cancel, Drained
<1>2. UNCHANGED <<closed, outbox, body, endOnIdle, next, handler, credits, yielded, response>>
  BY <1>1 DEF clientVars, serverVars
<1>3. ServerTyped'
  BY <1>1, <1>2, ServerTypes DEF ServerTyped
<1>4. Undispatched' /\ Dispatched'
  BY <1>1, <1>2 DEF ServerInv, Undispatched, Dispatched
<1>5. EndsIdle'
  BY <1>1, <1>2 DEF ServerInv, EndsIdle, AllDispatched
<1> QED
  BY <1>1, <1>2, <1>3, <1>4, <1>5 DEF ServerInv

-----------------------------------------------------------------------------
(* A pending call is in a place *)

LEMMA IssuedPlaces ==
    ASSUME ClientInv, Placed, NEW q \in Questions, NEW direct, Issued(q, direct)
    PROVE  Placed'
<1>1. /\ promise' = [promise EXCEPT ![q] = "pending"]
      /\ UNCHANGED <<closed, dropped, request, body, next, handler, response>>
  BY DEF Issued, serverVars
<1>2. /\ CallsIn(sendQueue') = CallsIn(sendQueue) \cup {q}
      /\ CallsIn(outbox') = CallsIn(outbox)
  BY IssuedQueues
<1>3. Place(q)'
  BY <1>2 DEF Place
<1>4. \A c \in Questions : Place(c) => Place(c)'
  BY <1>1, <1>2 DEF Place
<1>5. \A c \in Questions \ {q} : promise'[c] = promise[c]
  BY <1>1, ClientTypes
<1> QED
  BY <1>1, <1>3, <1>4, <1>5 DEF Placed

LEMMA FlushPlaces ==
    ASSUME ClientInv, Placed, Flush
    PROVE  Placed'
<1>1. UNCHANGED <<promise, closed, request, body, next, handler, response>>
  BY DEF Flush, serverVars
<1>2. ~closed => CallsIn(sendQueue) \cup CallsIn(outbox) \cup dropped \subseteq
                 CallsIn(sendQueue') \cup CallsIn(outbox') \cup dropped'
  <2>1. CASE sendQueue = <<>> \/ closed \/ request # "unsent"
    <3>1. ~closed => dropped' = dropped \cup CallsIn(sendQueue)
      BY <2>1 DEF Flush
    <3>2. outbox' = outbox
      BY <2>1 DEF Flush
    <3> QED
      BY <3>1, <3>2
  <2>2. CASE ~(sendQueue = <<>> \/ closed \/ request # "unsent")
    <3>1. outbox' = outbox \o sendQueue /\ dropped' = dropped
      BY <2>2 DEF Flush
    <3>2. CallsIn(outbox') = CallsIn(outbox) \cup CallsIn(sendQueue)
      BY <3>1, ClientTypes, CallsJoin
    <3> QED
      BY <3>1, <3>2
  <2> QED
    BY <2>1, <2>2
<1>3. ~closed => \A q \in Questions : Place(q) => Place(q)'
  BY <1>1, <1>2 DEF Place
<1> QED
  BY <1>1, <1>3 DEF Placed

LEMMA StartPlaces ==
    ASSUME ClientInv, ServerInv, Placed, Start
    PROVE  Placed'
<1>1. UNCHANGED <<promise, closed, sendQueue, dropped, next, handler, response>>
  BY DEF Start, serverVars
<1>2. CASE request = "unsent" /\ ~closed /\ outbox # <<>>
  <2>1. request' = "sent" /\ body' = outbox
    BY <1>2 DEF Start
  <2>2. next = 1 /\ body = <<>>
    BY <1>2 DEF ServerInv, Undispatched
  <2>3. \A q \in CallsIn(outbox) : \E i \in 1..Len(outbox) : outbox[i] = Frame("call", q)
    BY ClientTypes, CallsOf
  <2>4. \A q \in CallsIn(outbox) : \E i \in next'..Len(body') : body'[i] = Frame("call", q)
    BY <1>1, <2>1, <2>2, <2>3
  <2>5. Len(body) = 0
    BY <2>2
  <2>6. \A i : i \notin next..Len(body)
    BY <2>2, <2>5
  <2>7. ASSUME NEW q \in Questions, Place(q) PROVE Place(q)'
    <3>1. CASE q \in CallsIn(outbox)
      BY <2>4, <3>1 DEF Place
    <3>2. CASE q \in CallsIn(sendQueue) \cup dropped
      BY <1>1, <3>2 DEF Place
    <3>3. CASE handler[q] \in {"waiting", "running", "streaming"}
      BY <1>1, <3>3 DEF Place
    <3>4. CASE \E i \in 1..Len(response) : response[i].q = q
      BY <1>1, <3>4 DEF Place
    <3>5. CASE q \in Streams /\ handler[q] = "refused"
      BY <1>1, <3>5 DEF Place
    <3> QED
      BY <1>2, <2>6, <2>7, <3>1, <3>2, <3>3, <3>4, <3>5 DEF Place
  <2> QED
    BY <1>1, <2>7 DEF Placed
<1>3. CASE ~(request = "unsent" /\ ~closed /\ outbox # <<>>)
  <2>1. UNCHANGED <<request, body, outbox>>
    BY <1>3 DEF Start
  <2> QED
    BY <1>1, <2>1 DEF Placed, Place
<1> QED
  BY <1>2, <1>3

\* The end of the request adds to the places.
LEMMA RequestPlaces ==
    ASSUME Placed, UNCHANGED <<clientVars, body, next, handler, response>>,
           request = "ended" => request' = "ended"
    PROVE  Placed'
<1>1. UNCHANGED <<promise, closed, sendQueue, outbox, dropped>>
  BY DEF clientVars
<1> QED
  BY <1>1 DEF Placed, Place

LEMMA ServedPlaces ==
    ASSUME Placed, NEW q \in Questions, Served(q)
    PROVE  Placed'
<1>1. /\ UNCHANGED <<promise, closed, sendQueue, outbox, dropped, request, body, next>>
      /\ Left(q) /\ \A c \in Questions \ {q} : handler'[c] = handler[c]
      /\ \A c : (\E i \in 1..Len(response) : response[i].q = c)
                => \E i \in 1..Len(response') : response'[i].q = c
  BY DEF Served, Handled, clientVars
<1>2. ~closed => Place(q)'
  BY <1>1 DEF Left, Place
<1>3. \A c \in Questions \ {q} : Place(c) => Place(c)'
  BY <1>1 DEF Place
<1> QED
  BY <1>1, <1>2, <1>3 DEF Placed

LEMMA DispatchPlaces ==
    ASSUME ServerInv, Placed, DispatchFrame
    PROVE  Placed'
<1>1. /\ request = "open" /\ next <= Len(body) /\ next' = next + 1
      /\ UNCHANGED <<clientVars, request, body>>
      /\ \/ \E q \in Questions :
                body[next] = Frame("window", q) /\ UNCHANGED <<handler, response>>
         \/ \E q \in Questions : body[next] = Frame("call", q) /\ Handled(q)
  BY DispatchFrameDoes
<1>2. UNCHANGED <<promise, closed, sendQueue, outbox, dropped>>
  BY <1>1 DEF clientVars
<1>3. \A i \in next..Len(body) : i = next \/ i \in next'..Len(body')
  BY <1>1, ServerTypes
<1>4. ASSUME NEW q \in Questions, body[next] = Frame("window", q), UNCHANGED <<handler, response>>
      PROVE  Placed'
  <2>1. \A c \in Questions : body[next] # Frame("call", c)
    BY <1>4, FrameTyped
  <2>2. \A c \in Questions : (\E i \in next..Len(body) : body[i] = Frame("call", c))
                             => \E i \in next'..Len(body') : body'[i] = Frame("call", c)
    BY <1>1, <1>3, <2>1
  <2>3. \A c \in Questions : Place(c) => Place(c)'
    BY <1>1, <1>2, <1>4, <2>2 DEF Place
  <2> QED
    BY <1>2, <2>3 DEF Placed
<1>5. ASSUME NEW q \in Questions, body[next] = Frame("call", q), Handled(q)
      PROVE  Placed'
  <2>1. /\ Left(q) /\ \A c \in Questions \ {q} : handler'[c] = handler[c]
        /\ \A c : (\E i \in 1..Len(response) : response[i].q = c)
                  => \E i \in 1..Len(response') : response'[i].q = c
    BY <1>5 DEF Handled
  <2>2. \A c \in Questions \ {q} : body[next] # Frame("call", c)
    BY <1>5, FrameTyped
  <2>3. \A c \in Questions \ {q} : (\E i \in next..Len(body) : body[i] = Frame("call", c))
                                   => \E i \in next'..Len(body') : body'[i] = Frame("call", c)
    BY <1>1, <1>3, <2>2
  <2>4. \A c \in Questions \ {q} : Place(c) => Place(c)'
    BY <1>1, <1>2, <2>1, <2>3 DEF Place
  <2>5. ~closed => Place(q)'
    BY <1>1, <2>1 DEF Left, Place
  <2> QED
    BY <1>2, <2>4, <2>5 DEF Placed
<1> QED
  BY <1>1, <1>4, <1>5

\* What has been read of the response has settled its call.
LEMMA ReceivePlaces ==
    ASSUME ClientInv, ServerInv, Placed, Receive
    PROVE  /\ Placed' /\ response' \in Seq(Replies)
           /\ promise' \in [Questions -> {"unused", "pending", "ok", "err"}]
           /\ \A q \in Questions : promise'[q] = "unused" <=> promise[q] = "unused"
<1>1. /\ response # <<>> /\ response' = Tail(response)
      /\ UNCHANGED <<closed, sendQueue, outbox, dropped, request, body, next, handler>>
  BY DEF Receive, serverVars
<1>2. PICK r : r = Head(response)
  OBVIOUS
<1>3. /\ response' \in Seq(Replies) /\ Len(response') = Len(response) - 1
      /\ r \in Replies /\ response[1] = r /\ Len(response) \in Nat
      /\ \A i \in 1..Len(response') : response'[i] = response[i + 1]
  BY <1>1, <1>2, ServerTypes
<1>4. r.q \in Questions /\ r.how \in {"ok", "err"}
  BY <1>3 DEF Replies
<1>5. promise' = IF promise[r.q] = "pending" THEN [promise EXCEPT ![r.q] = r.how] ELSE promise
  BY <1>2 DEF Receive
<1>6. /\ promise' \in [Questions -> {"unused", "pending", "ok", "err"}]
      /\ \A q \in Questions : promise'[q] = "unused" <=> promise[q] = "unused"
      /\ \A q \in Questions : promise'[q] = "pending" => promise[q] = "pending" /\ q # r.q
  BY <1>4, <1>5, ClientTypes
<1>7. ASSUME NEW q \in Questions, q # r.q, NEW i \in 1..Len(response), response[i].q = q
      PROVE  \E j \in 1..Len(response') : response'[j].q = q
  <2>1. i # 1
    BY <1>3, <1>7
  <2>2. PICK j : j = i - 1
    OBVIOUS
  <2>3. j \in 1..Len(response') /\ j + 1 = i
    BY <1>3, <2>1, <2>2
  <2> QED
    BY <1>3, <1>7, <2>3
<1>8. \A q \in Questions : q # r.q /\ Place(q) => Place(q)'
  BY <1>1, <1>7 DEF Place
<1> QED
  BY <1>1, <1>3, <1>6, <1>8 DEF Placed

-----------------------------------------------------------------------------
(* The invariant is inductive *)

LEMMA InitInv == Init => IInv
<1> SUFFICES ASSUME Init PROVE IInv
  OBVIOUS
<1>1. jobs \in Queues
  <2>1. PICK s : s = <<>>
    OBVIOUS
  <2>2. s \in Seq(Jobs) /\ Len(s) = 0 /\ \A i : i \notin DOMAIN s
    BY <2>1
  <2>3. IsInjective(s)
    BY <2>2 DEF IsInjective
  <2> QED
    BY <2>1, <2>2, <2>3 DEF Init, Queues
<1>2. /\ sendQueue \in Seq(CallFrames) /\ outbox \in Seq(Frames) /\ body \in Seq(Frames)
      /\ response \in Seq(Replies) /\ CallsIn(sendQueue) = {} /\ CallsIn(outbox) = {}
      /\ Len(body) = 0
  BY CallsOfFew DEF Init
<1>3. ~Contains(jobs, "start")
  <2>1. PICK s : s = <<>>
    OBVIOUS
  <2>2. ~Contains(s, "start")
    BY <2>1 DEF Contains
  <2> QED
    BY <2>1, <2>2 DEF Init
<1>4. ClientTyped
  BY <1>1, <1>2 DEF Init, ClientTyped
<1>5. /\ SendsAreScheduled /\ HeldBack /\ Known /\ BurstWaits /\ CallsFollow /\ StartHasFrames
      /\ BurstGoesOut
  BY <1>2, <1>3
  DEF Init, SendsAreScheduled, HeldBack, Known, BurstWaits, CallsFollow, StartHasFrames, BurstGoesOut
<1>6. ServerTyped
  BY <1>2 DEF Init, ServerTyped, Stands
<1>7. Undispatched /\ Dispatched /\ EndsIdle
  BY DEF Init, Undispatched, Dispatched, EndsIdle
<1>8. Placed
  BY DEF Init, Placed
<1> QED
  BY <1>4, <1>5, <1>6, <1>7, <1>8 DEF IInv, ClientInv, ServerInv

LEMMA CallerInv ==
    ASSUME IInv, NEW q \in Questions,
           \/ Bootstrap(q)
           \/ \E t \in Questions \cup {ImportedCap} : Call(q, t) \/ CallStream(q, t)
    PROVE  IInv'
<1>1. ClientInv /\ ServerInv /\ Placed
  BY DEF IInv
<1>2. PICK direct : Issued(q, direct)
  BY <1>1, IssueDoes
<1>3. UNCHANGED <<closed, request, body, serverVars, response>>
  BY <1>2 DEF Issued
<1>4. ServerInv'
  BY <1>1, <1>3, ServerTypes, ClientsServer
<1> QED
  BY <1>1, <1>2, <1>4, IssuedClient, IssuedPlaces DEF IInv

LEMMA CloseInv ==
    ASSUME IInv, ClientCloses \/ RequestFails \/ ResponseEnds
    PROVE  IInv'
<1>1. ClientInv /\ ServerInv
  BY DEF IInv
<1>2. CloseClient /\ request' = request
  BY DEF ClientCloses, RequestFails, ResponseEnds
<1>3. closed' = TRUE /\ outbox' = <<>> /\ UNCHANGED <<body, serverVars, response>>
  BY <1>2 DEF CloseClient
<1>4. ServerInv'
  BY <1>1, <1>2, <1>3, ServerTypes, ClientsServer
<1>5. Placed'
  BY <1>3 DEF Placed
<1> QED
  BY <1>1, <1>2, <1>4, <1>5, CloseClients DEF IInv

LEMMA MicrotaskInv ==
    ASSUME IInv, EndTurn \/ Microtask
    PROVE  IInv'
<1>1. ClientInv /\ ServerInv /\ Placed
  BY DEF IInv
<1>2. CASE EndTurn \/ Resume
  <2>1. UNCHANGED <<promise, closed, sendQueue, outbox, dropped, request, body, serverVars,
                    response>>
    BY <1>2 DEF EndTurn, Resume
  <2>2. ServerInv'
    BY <1>1, <2>1, ServerTypes, ClientsServer DEF ServerInv
  <2>3. Placed'
    BY <1>1, <2>1 DEF Placed, Place, serverVars
  <2> QED
    BY <1>1, <1>2, <2>2, <2>3, TurnClient DEF IInv
<1>3. CASE Flush
  <2>1. UNCHANGED <<closed, request, body, serverVars, response>>
    BY <1>3 DEF Flush
  <2>2. ServerInv'
    BY <1>1, <2>1, ServerTypes, ClientsServer
  <2> QED
    BY <1>1, <1>3, <2>2, FlushClient, FlushPlaces DEF IInv
<1>4. CASE Start
  BY <1>1, <1>4, StartClient, StartServer, StartPlaces DEF IInv
<1> QED
  BY <1>2, <1>3, <1>4 DEF Microtask

LEMMA SettlesInv ==
    ASSUME IInv, Receive \/ \E q \in Questions : SignalAborts(q)
    PROVE  IInv'
<1>1. ClientInv /\ ServerInv /\ Placed
  BY DEF IInv
<1>2. /\ UNCHANGED <<target, closed, turn, jobs, sendQueue, outbox, burst, dropped>>
      /\ UNCHANGED <<request, body, serverVars>>
  BY DEF Receive, SignalAborts
<1>3. /\ Placed' /\ response' \in Seq(Replies)
      /\ promise' \in [Questions -> {"unused", "pending", "ok", "err"}]
      /\ \A q \in Questions : promise'[q] = "unused" <=> promise[q] = "unused"
  <2>1. CASE Receive
    BY <1>1, <2>1, ReceivePlaces
  <2>2. ASSUME NEW q \in Questions, SignalAborts(q)
        PROVE  /\ Placed' /\ response' \in Seq(Replies)
               /\ promise' \in [Questions -> {"unused", "pending", "ok", "err"}]
               /\ \A c \in Questions : promise'[c] = "unused" <=> promise[c] = "unused"
    <3>1. /\ promise[q] = "pending" /\ promise' = [promise EXCEPT ![q] = "err"]
          /\ response' = response
      BY <2>2 DEF SignalAborts
    <3>2. /\ promise' \in [Questions -> {"unused", "pending", "ok", "err"}]
          /\ \A c \in Questions : promise'[c] = "unused" <=> promise[c] = "unused"
          /\ \A c \in Questions : promise'[c] = "pending" => promise[c] = "pending"
      BY <1>1, <3>1, ClientTypes
    <3>3. Placed'
      BY <1>1, <1>2, <3>1, <3>2 DEF Placed, Place, serverVars
    <3> QED
      BY <1>1, <3>1, <3>2, <3>3, ServerTypes
  <2> QED
    BY <2>1, <2>2
<1>4. ClientInv'
  BY <1>1, <1>2, <1>3, SettleClient
<1>5. ServerInv'
  BY <1>1, <1>2, <1>3, ClientsServer DEF ServerInv
<1> QED
  BY <1>3, <1>4, <1>5 DEF IInv

\* The server does nothing to the client.
LEMMA ClientStays ==
    ASSUME ClientInv, UNCHANGED clientVars, (request' = "unsent") <=> (request = "unsent")
    PROVE  ClientInv'
  BY SettleClient, ClientTypes DEF clientVars

LEMMA ServesInv ==
    ASSUME IInv,
           \/ \E q \in Questions : HandlerStep(q)
           \/ \E q \in Streams : GeneratorEnds(q) \/ GeneratorThrows(q)
    PROVE  IInv'
<1>1. ClientInv /\ ServerInv /\ Placed
  BY DEF IInv
<1>2. PICK q \in Questions : Served(q)
  BY <1>1, HandlerServes, GeneratorServes
<1>3. UNCHANGED <<clientVars, request>>
  BY <1>2 DEF Served
<1>4. ClientInv'
  BY <1>1, <1>3, ClientStays
<1> QED
  BY <1>1, <1>2, <1>4, ServedServer, ServedPlaces DEF IInv

LEMMA RequestInv ==
    ASSUME IInv, ServerStep \/ \E q \in Streams : GeneratorYields(q)
    PROVE  IInv'
<1>1. ClientInv /\ ServerInv /\ Placed
  BY DEF IInv
<1>2. CASE Arrive \/ Finish \/ Cancel
  <2>1. /\ ServerInv' /\ UNCHANGED <<clientVars, body, next, handler, response>>
        /\ request' \in {"open", "ended"} /\ request # "unsent"
        /\ request = "ended" => request' = "ended"
    BY <1>1, <1>2, RequestServer
  <2>2. ClientInv'
    BY <1>1, <2>1, ClientStays
  <2>3. Placed'
    BY <1>1, <2>1, RequestPlaces
  <2> QED
    BY <2>1, <2>2, <2>3 DEF IInv
<1>3. CASE DispatchFrame
  <2>1. UNCHANGED <<clientVars, request>>
    BY <1>3 DEF DispatchFrame
  <2>2. ClientInv'
    BY <1>1, <2>1, ClientStays
  <2> QED
    BY <1>1, <1>3, <2>2, DispatchServer, DispatchPlaces DEF IInv
<1>4. ASSUME NEW q \in Streams, GeneratorYields(q) PROVE IInv'
  <2>1. ServerInv' /\ UNCHANGED <<clientVars, request, body, next, handler, response>>
    BY <1>1, <1>4, YieldsServer
  <2>2. ClientInv'
    BY <1>1, <2>1, ClientStays
  <2>3. Placed'
    BY <1>1, <2>1, RequestPlaces
  <2> QED
    BY <2>1, <2>2, <2>3 DEF IInv
<1> QED
  BY <1>2, <1>3, <1>4 DEF ServerStep

LEMMA StepInv == IInv /\ [Next]_vars => IInv'
<1> SUFFICES ASSUME IInv, [Next]_vars PROVE IInv'
  OBVIOUS
<1>1. CASE \E q \in Questions : \/ Bootstrap(q)
                                \/ \E t \in Questions \cup {ImportedCap} :
                                      Call(q, t) \/ CallStream(q, t)
  BY <1>1, CallerInv
<1>2. CASE ClientCloses \/ RequestFails \/ ResponseEnds
  BY <1>2, CloseInv
<1>3. CASE EndTurn \/ Microtask
  BY <1>3, MicrotaskInv
<1>4. CASE Receive \/ \E q \in Questions : SignalAborts(q)
  BY <1>4, SettlesInv
<1>5. CASE \/ \E q \in Questions : HandlerStep(q)
           \/ \E q \in Streams : GeneratorEnds(q) \/ GeneratorThrows(q)
  BY <1>5, ServesInv
<1>6. CASE ServerStep \/ \E q \in Streams : GeneratorYields(q)
  BY <1>6, RequestInv
<1>7. CASE UNCHANGED vars
  <2>1. UNCHANGED <<clientVars, request, body, serverVars, response>>
    BY <1>7 DEF vars
  <2>2. ClientInv /\ ServerInv /\ Placed
    BY DEF IInv
  <2>3. UNCHANGED <<target, promise, closed, turn, jobs, sendQueue, outbox, burst, dropped>>
    BY <2>1 DEF clientVars
  <2>4. ClientInv'
    BY <2>1, <2>2, ClientStays
  <2>5. ServerInv'
    BY <2>1, <2>2, <2>3, ServerTypes, ClientsServer DEF ServerInv
  <2>6. Placed'
    BY <2>1, <2>2, RequestPlaces DEF serverVars
  <2> QED
    BY <2>4, <2>5, <2>6 DEF IInv
<1> QED
  BY <1>1, <1>2, <1>3, <1>4, <1>5, <1>6, <1>7 DEF Next

LEMMA InvImplies == IInv => ResponseInv /\ BurstGoesOut
<1> SUFFICES ASSUME IInv PROVE ResponseInv /\ BurstGoesOut
  OBVIOUS
<1>1. ClientInv /\ ServerInv /\ Placed
  BY DEF IInv
<1>2. TypeOK
  <2>1. /\ target \in [Questions -> Questions \cup {ImportedCap, BootstrapCap, None}]
        /\ promise \in [Questions -> {"unused", "pending", "ok", "err"}]
        /\ closed \in BOOLEAN /\ turn \in BOOLEAN
        /\ burst \subseteq Questions /\ dropped \subseteq Questions
    BY <1>1, ClientTypes
  <2>2. jobs \in Seq({"caller", "flush", "start"}) /\ IsInjective(jobs)
    BY <1>1, ClientTypes DEF Queues, Jobs
  <2>3. /\ sendQueue \in Seq([kind : {"call"}, q : Questions])
        /\ outbox \in Seq([kind : {"call", "window"}, q : Questions])
        /\ body \in Seq([kind : {"call", "window"}, q : Questions])
    BY <1>1, ClientTypes, ServerTypes DEF Frames, CallFrames, Kinds
  <2>4. /\ request \in {"unsent", "sent", "open", "ended"} /\ endOnIdle \in BOOLEAN
        /\ next \in 1..(Len(body) + 1)
        /\ handler \in [Questions ->
               {"none", "waiting", "running", "streaming", "done", "failed", "refused"}]
        /\ credits \in [Streams -> Nat \cup {None}] /\ yielded \in [Streams -> 0..MaxChunks]
        /\ response \in Seq([q : Questions, how : {"ok", "err"}])
    BY <1>1, ServerTypes DEF Stands, Replies
  <2> QED
    BY <2>1, <2>2, <2>3, <2>4 DEF TypeOK
<1>3. NoCallLost
  <2>1. CallsIn(sendQueue \o outbox) = CallsIn(sendQueue) \cup CallsIn(outbox)
    BY <1>1, ClientTypes, CallsJoin
  <2> QED
    BY <1>1, <2>1 DEF Placed, Place, NoCallLost
<1> QED
  BY <1>1, <1>2, <1>3 DEF ClientInv, ServerInv, ResponseInv

LEMMA SpecInv == Spec => []IInv
  BY InitInv, StepInv, PTL DEF Spec

\* The shape of the state; what is to be sent has a microtask that sends it, and
\* no pending call is lost between the queues, the request and its response,
\* whatever credit the streams are given.
THEOREM NothingLost == Spec => []ResponseInv
  BY SpecInv, InvImplies, PTL

\* What was called before the session's first flush is in the request.
THEOREM BurstOut == Spec => []BurstGoesOut
  BY SpecInv, InvImplies, PTL

-----------------------------------------------------------------------------
(* Reconnect: the loop that opens a session over one transport after the   *)
(* other                                                                   *)

\* Between sessions the handle has none.
BetweenSessions == loop \in {"opening", "sleeping", "done"} => current = 0

\* While the for loop runs, all callbacks up to its index have been told, as
\* long as none of them was removed.
ToldSoFar ==
    loop = "telling" /\ ~shifted =>
        at \in 1..Len(fns) /\ \A i \in 1..at : fns[i] \in told

LoopInv == ReconnectInv /\ BetweenSessions /\ ToldSoFar

\* Removing one callback leaves those before it where they were.
LEMMA Removal ==
    ASSUME NEW S, NEW s \in Seq(S), NEW i \in 1..Len(s)
    PROVE  /\ RemoveAt(s, i) \in Seq(S)
           /\ Len(RemoveAt(s, i)) = Len(s) - 1
           /\ \A j \in 1..(i - 1) : RemoveAt(s, i)[j] = s[j]
<1>1. PICK front : front = SubSeq(s, 1, i - 1)
      OBVIOUS
<1>2. PICK rest : rest = SubSeq(s, i + 1, Len(s))
      OBVIOUS
<1>3. front \in Seq(S) /\ Len(front) = i - 1 /\ \A j \in 1..(i - 1) : front[j] = s[j]
      BY <1>1
<1>4. rest \in Seq(S) /\ Len(rest) = Len(s) - i
      BY <1>2
<1>5. PICK joined : joined = front \o rest
      OBVIOUS
<1>6. /\ joined \in Seq(S) /\ Len(joined) = Len(front) + Len(rest)
      /\ \A j \in 1..Len(joined) :
            joined[j] = IF j <= Len(front) THEN front[j] ELSE rest[j - Len(front)]
  <2>1. front \in Seq(S) /\ rest \in Seq(S)
        BY <1>3, <1>4
  <2> QED BY <1>5, <2>1
<1>7. RemoveAt(s, i) = joined
      BY <1>1, <1>2, <1>5 DEF RemoveAt
<1>8. PICK n \in Nat : n = Len(s)
      OBVIOUS
<1>9. Len(joined) = (i - 1) + (n - i) /\ Len(front) = i - 1
      BY <1>3, <1>4, <1>6, <1>8
<1>10. i \in 1..n /\ (i - 1) + (n - i) = n - 1
      BY <1>8
<1>11. \A j \in 1..(i - 1) : joined[j] = s[j]
  <2>1. \A j \in 1..(i - 1) : j \in 1..Len(joined) /\ j <= Len(front)
        BY <1>9, <1>10
  <2> QED BY <1>3, <1>6, <2>1
<1> QED BY <1>6, <1>7, <1>8, <1>9, <1>10, <1>11

\* What the loop is about after a callback: the next one, or the transport.
LEMMA Telling ==
    ASSUME LoopTypeOK, NEW i \in Nat \ {0}, NEW known \in SUBSET Callbacks,
           TellFrom(i, known), UNCHANGED fns
    PROVE  /\ loop' \in {"telling", "watching"}
           /\ at' \in Nat /\ running' \in Callbacks \cup {NoCallback}
           /\ told' \in SUBSET Callbacks /\ known \subseteq told'
           /\ loop' = "telling" => at' = i /\ i <= Len(fns) /\ fns[i] \in told'
           /\ loop' = "watching" => i > Len(fns)
<1>1. fns \in Seq(Callbacks) /\ Len(fns) \in Nat
      BY DEF LoopTypeOK
<1>2. CASE i <= Len(fns)
  <2>1. fns[i] \in Callbacks
        BY <1>1, <1>2
  <2> QED BY <1>2, <2>1 DEF TellFrom
<1>3. CASE ~(i <= Len(fns))
      BY <1>1, <1>3 DEF TellFrom
<1> QED BY <1>2, <1>3

LEMMA LoopBegins == LoopInit => LoopInv
<1> SUFFICES ASSUME LoopInit PROVE LoopInv
    OBVIOUS
<1>1. 0 \in 0..MaxSessions /\ 1 \in 1..MaxBackoff /\ <<>> \in Seq(Callbacks)
      BY LoopAssumption
<1>2. LoopTypeOK
      BY <1>1 DEF LoopInit, LoopTypeOK, Sessions
<1>3. OneSession /\ ReadySettled /\ BetweenSessions /\ ToldSoFar
      BY DEF LoopInit, OneSession, ReadySettled, BetweenSessions, ToldSoFar
<1> QED BY <1>2, <1>3 DEF LoopInv, ReconnectInv

\* transportFactory() settles.
LEMMA FactorySettles ==
    ASSUME LoopInv, FactoryFails \/ FactoryOpens
    PROVE  LoopInv'
<1> USE DEF LoopInv, ReconnectInv
<1>1. CASE FactoryFails
  <2>1. Doubled \in 1..MaxBackoff
        BY LoopAssumption DEF Doubled, LoopTypeOK
  <2>2. LoopTypeOK'
        BY <1>1, <2>1 DEF FactoryFails, ReadyAfterFailure, LoopTypeOK, handle, telling
  <2>3. OneSession'
        BY <1>1 DEF FactoryFails, OneSession, handle
  <2>4. ReadySettled'
        BY <1>1 DEF FactoryFails, ReadyAfterFailure, ReadySettled, handle
  <2>5. BetweenSessions' /\ ToldSoFar'
        BY <1>1 DEF FactoryFails, BetweenSessions, ToldSoFar, handle
  <2> QED BY <2>2, <2>3, <2>4, <2>5
<1>2. CASE FactoryOpens
  <2>1. TellFrom(1, {}) /\ UNCHANGED fns
        BY <1>2 DEF FactoryOpens
  <2>2. /\ loop' \in {"telling", "watching"}
        /\ at' \in Nat /\ running' \in Callbacks \cup {NoCallback} /\ told' \in SUBSET Callbacks
        /\ loop' = "telling" => at' = 1 /\ 1 <= Len(fns) /\ fns[1] \in told'
        BY <2>1, Telling
  <2>3. attempt + 1 \in Sessions /\ attempt + 1 \in 0..MaxSessions
        BY <1>2, LoopAssumption DEF FactoryOpens, LoopTypeOK, Sessions
  <2>4. LoopTypeOK'
    <3>1. transport' \in [Sessions -> {"none", "open", "closing", "closed"}]
          BY <1>2 DEF FactoryOpens, LoopTypeOK
    <3>2. /\ stopped' \in BOOLEAN /\ fns' \in Seq(Callbacks) /\ shifted' \in BOOLEAN
          /\ ready' \in {"pending", "resolved", "rejected"}
          /\ attempt' = attempt + 1 /\ current' = attempt + 1 /\ backoff' = 1
          BY <1>2 DEF FactoryOpens, LoopTypeOK
    <3>3. 1 \in 1..MaxBackoff
          BY LoopAssumption
    <3> QED BY <2>2, <2>3, <3>1, <3>2, <3>3 DEF LoopTypeOK
  <2>5. OneSession'
    <3>1. \A s \in Sessions : transport[s] \notin {"open", "closing"}
          BY <1>2 DEF FactoryOpens, BetweenSessions, OneSession, Sessions
    <3> QED BY <1>2, <2>3, <3>1 DEF FactoryOpens, OneSession, LoopTypeOK
  <2>6. ReadySettled'
        BY <1>2 DEF FactoryOpens, ReadySettled
  <2>7. BetweenSessions' /\ ToldSoFar'
        BY <1>2, <2>1, <2>2 DEF BetweenSessions, ToldSoFar, LoopTypeOK
  <2> QED BY <2>4, <2>5, <2>6, <2>7
<1> QED BY <1>1, <1>2

\* The loop goes on after a callback or a closed session.
LEMMA LoopGoesOn ==
    ASSUME LoopInv, Wake \/ CallbackReturns \/ Reopen
    PROVE  LoopInv'
<1> USE DEF LoopInv, ReconnectInv
<1>1. CASE Wake
  <2>1. LoopTypeOK'
        BY <1>1 DEF Wake, Again, LoopTypeOK, handle, progress, telling
  <2> QED BY <1>1, <2>1 DEF Wake, Again, OneSession, ReadySettled, BetweenSessions,
                              ToldSoFar, LoopTypeOK, handle, progress
<1>2. CASE CallbackReturns
  <2>1. at + 1 \in Nat \ {0} /\ told \in SUBSET Callbacks
        /\ TellFrom(at + 1, told) /\ UNCHANGED fns
        BY <1>2 DEF CallbackReturns, LoopTypeOK
  <2>2. /\ loop' \in {"telling", "watching"}
        /\ at' \in Nat /\ running' \in Callbacks \cup {NoCallback}
        /\ told' \in SUBSET Callbacks /\ told \subseteq told'
        /\ loop' = "telling" => at' = at + 1 /\ at + 1 <= Len(fns) /\ fns[at + 1] \in told'
        BY <2>1, Telling
  <2>3. LoopTypeOK'
        BY <1>2, <2>2 DEF CallbackReturns, LoopTypeOK, handle, progress
  <2>4. OneSession' /\ ReadySettled'
        BY <1>2 DEF CallbackReturns, OneSession, ReadySettled, handle, progress
  <2>5. BetweenSessions'
        BY <2>2 DEF BetweenSessions
  <2>6. ToldSoFar'
    <3> SUFFICES ASSUME loop' = "telling", ~shifted'
                 PROVE  at' \in 1..Len(fns) /\ \A i \in 1..at' : fns[i] \in told'
        BY <2>1 DEF ToldSoFar
    <3>1. at \in 1..Len(fns) /\ \A i \in 1..at : fns[i] \in told
          BY <1>2 DEF CallbackReturns, ToldSoFar
    <3>2. fns \in Seq(Callbacks) /\ Len(fns) \in Nat
          BY DEF LoopTypeOK
    <3>3. \A i \in 1..(at + 1) : i \in 1..at \/ i = at + 1
          BY <3>1
    <3> QED BY <2>2, <3>1, <3>2, <3>3
  <2> QED BY <2>3, <2>4, <2>5, <2>6
<1>3. CASE Reopen
  <2>1. LoopTypeOK'
        BY <1>3 DEF Reopen, Again, LoopTypeOK, progress, telling
  <2>2. OneSession'
        BY <1>3 DEF Reopen, Closed, OneSession, progress
  <2>3. ReadySettled' /\ BetweenSessions' /\ ToldSoFar'
        BY <1>3 DEF Reopen, Again, ReadySettled, BetweenSessions, ToldSoFar, progress
  <2> QED BY <2>1, <2>2, <2>3
<1> QED BY <1>1, <1>2, <1>3

\* The handle, the session and the network.
LEMMA SessionEnds ==
    ASSUME LoopInv,
           Close \/ CloseSession \/ \E s \in Sessions : TransportEnds(s)
    PROVE  LoopInv'
<1> USE DEF LoopInv, ReconnectInv
<1>1. /\ transport' \in [Sessions -> {"none", "open", "closing", "closed"}]
      /\ \A s \in Sessions : transport'[s] \in {"open", "closing"}
                                => transport[s] \in {"open", "closing"}
      BY DEF Close, CloseSession, TransportEnds, Closing, LoopTypeOK
<1>2. /\ UNCHANGED <<loop, current, progress, fns, telling>>
      /\ stopped' \in BOOLEAN /\ (stopped => stopped')
      BY DEF Close, CloseSession, TransportEnds, handle, LoopTypeOK
<1>3. LoopTypeOK'
      BY <1>1, <1>2 DEF LoopTypeOK, progress, telling
<1>4. OneSession'
      BY <1>1, <1>2 DEF OneSession, progress
<1>5. ReadySettled' /\ BetweenSessions' /\ ToldSoFar'
      BY <1>2 DEF ReadySettled, BetweenSessions, ToldSoFar, progress, telling
<1> QED BY <1>3, <1>4, <1>5

\* Callbacks come and go.
LEMMA CallbacksChange ==
    ASSUME LoopInv, NEW f \in Callbacks, Subscribe(f) \/ Unsubscribe(f)
    PROVE  LoopInv'
<1> USE DEF LoopInv, ReconnectInv
<1>0. fns \in Seq(Callbacks) /\ Len(fns) \in Nat /\ at \in Nat
      BY DEF LoopTypeOK
<1>1. /\ UNCHANGED <<loop, handle, progress, transport, at, running, told>>
      /\ fns' \in Seq(Callbacks) /\ shifted' \in BOOLEAN
      /\ ~shifted' => ~shifted /\
            (at \in 1..Len(fns) =>
                at \in 1..Len(fns') /\ \A i \in 1..at : fns'[i] = fns[i])
  <2>1. CASE Subscribe(f)
    <3>1. fns' = Append(fns, f)
          BY <2>1 DEF Subscribe
    <3>2. /\ fns' \in Seq(Callbacks) /\ Len(fns') = Len(fns) + 1
          /\ \A i \in 1..Len(fns) : fns'[i] = fns[i]
          BY <1>0, <3>1
    <3> QED BY <1>0, <2>1, <3>2 DEF Subscribe, telling, LoopTypeOK
  <2>2. CASE Unsubscribe(f)
    <3>1. PICK i \in 1..Len(fns) :
             /\ fns' = RemoveAt(fns, i)
             /\ shifted' = (shifted \/ i <= at)
             /\ UNCHANGED <<loop, handle, progress, transport, at, running, told>>
          BY <2>2 DEF Unsubscribe
    <3>2. /\ fns' \in Seq(Callbacks) /\ Len(fns') = Len(fns) - 1
          /\ \A j \in 1..(i - 1) : fns'[j] = fns[j]
          BY <1>0, <3>1, Removal
    <3>3. shifted' \in BOOLEAN
          BY <3>1 DEF LoopTypeOK
    <3>4. ASSUME ~shifted', at \in 1..Len(fns)
          PROVE  ~shifted /\ at \in 1..Len(fns') /\ \A j \in 1..at : fns'[j] = fns[j]
      <4>1. ~(shifted \/ i <= at)
            BY <3>1, <3>4
      <4>2. ~shifted /\ i > at
            BY <1>0, <4>1
      <4> QED BY <1>0, <3>2, <3>4, <4>2
    <3>5. ~shifted' => ~shifted
          BY <3>1
    <3> QED BY <3>1, <3>2, <3>3, <3>4, <3>5
  <2> QED BY <2>1, <2>2
<1>2. LoopTypeOK'
      BY <1>1 DEF LoopTypeOK, handle, progress
<1>3. OneSession' /\ ReadySettled' /\ BetweenSessions'
      BY <1>1 DEF OneSession, ReadySettled, BetweenSessions, handle, progress
<1>4. ToldSoFar'
      BY <1>1 DEF ToldSoFar
<1> QED BY <1>2, <1>3, <1>4

LEMMA LoopKeeps == LoopInv /\ [LoopNext]_loopVars => LoopInv'
<1> SUFFICES ASSUME LoopInv, [LoopNext]_loopVars PROVE LoopInv'
    OBVIOUS
<1>1. CASE FactoryFails \/ FactoryOpens
      BY <1>1, FactorySettles
<1>2. CASE Wake \/ CallbackReturns \/ Reopen
      BY <1>2, LoopGoesOn
<1>3. CASE Close \/ CloseSession \/ \E s \in Sessions : TransportEnds(s)
      BY <1>3, SessionEnds
<1>4. CASE \E f \in Callbacks : Subscribe(f) \/ Unsubscribe(f)
      BY <1>4, CallbacksChange
<1>5. CASE UNCHANGED loopVars
      BY <1>5 DEF loopVars, handle, progress, telling, LoopInv, ReconnectInv, LoopTypeOK,
                  OneSession, ReadySettled, BetweenSessions, ToldSoFar
<1> QED BY <1>1, <1>2, <1>3, <1>4, <1>5 DEF LoopNext

LEMMA LoopInductive == LoopSpec => []LoopInv
<1> QED BY LoopBegins, LoopKeeps, PTL DEF LoopSpec

\* Whatever close(), the factory, the network and the callbacks do, there is
\* one session at a time, the handle has it, and `ready` is pending only
\* until the first open settles.
THEOREM OneAtATime == LoopSpec => []ReconnectInv
<1>1. LoopInv => ReconnectInv
      BY DEF LoopInv
<1> QED BY <1>1, LoopInductive, PTL

\* The for loop over onReconnectFns ends only when every callback in the list
\* has been told, or one was removed behind its index.
THEOREM AllTold == LoopSpec => EveryoneTold
<1> DEFINE A == loop # "watching" /\ loop' = "watching" =>
                    ToSet(fns') \subseteq told' \/ shifted'
<1>1. LoopInv /\ [LoopNext]_loopVars => [A]_loopVars
  <2> SUFFICES ASSUME LoopInv, LoopNext, loop # "watching", loop' = "watching", ~shifted'
               PROVE  ToSet(fns') \subseteq told'
      OBVIOUS
  <2>0. LoopTypeOK /\ fns \in Seq(Callbacks) /\ Len(fns) \in Nat /\ DOMAIN fns = 1..Len(fns)
        BY DEF LoopInv, ReconnectInv, LoopTypeOK
  <2>1. CASE FactoryOpens
    <3>1. TellFrom(1, {}) /\ UNCHANGED fns
          BY <2>1 DEF FactoryOpens
    <3>2. 1 > Len(fns)
          BY <2>0, <3>1, Telling
    <3> QED BY <2>0, <3>1, <3>2 DEF ToSet
  <2>2. CASE CallbackReturns
    <3>1. at + 1 \in Nat \ {0} /\ told \in SUBSET Callbacks
          /\ TellFrom(at + 1, told) /\ UNCHANGED fns
          BY <2>0, <2>2 DEF CallbackReturns, LoopTypeOK
    <3>2. at + 1 > Len(fns) /\ told \subseteq told'
          BY <2>0, <3>1, Telling
    <3>3. at \in 1..Len(fns) /\ \A i \in 1..at : fns[i] \in told
          BY <2>2 DEF CallbackReturns, LoopInv, ToldSoFar
    <3> QED BY <2>0, <3>1, <3>2, <3>3 DEF ToSet
  <2> QED BY <2>1, <2>2 DEF LoopNext, FactoryFails, Wake, Again, Reopen, Close,
                          CloseSession, TransportEnds, Subscribe, Unsubscribe
<1> QED BY <1>1, LoopInductive, PTL DEF LoopSpec, EveryoneTold
=============================================================================
