-------------------------- MODULE HttpBatch_proofs --------------------------
(***************************************************************************)
(* Proofs about HttpBatch, for every set of calls and under every fault:   *)
(* no call falls between the client and the POSTs, the sessions that serve *)
(* the POSTs share nothing, and calls over batches keep the contract of a  *)
(* call.                                                                   *)
(***************************************************************************)
EXTENDS HttpBatch, TLAPS

Replies  == [q : Questions, how : {"ok", "err"}, id : Nat]
Stages   == {"sent", "serving", "answered", "receiving", "over"}
Posts    == [frames : Seq(Questions), next : Nat, exports : Seq(Exporters),
             stage : Stages, replies : Seq(Replies)]
Handlers == {"none", "waiting", "running", "streaming", "done", "failed"}
Found    == Exporters \cup {BootstrapCap, None}

Has(b, q) == Contains(posts[b].frames, q)

\* A call has one frame, in the queue or in one POST.
SentOnce ==
    /\ \A q \in Questions : promise[q] = "unused" => ~Contains(queue, q) /\ ~Posted(q)
    /\ \A i, k \in 1..Len(queue) : queue[i] = queue[k] => i = k
    /\ \A q \in Questions : Contains(queue, q) => ~Posted(q)
    /\ \A b, c \in Batches :
          \A i \in 1..Len(posts[b].frames), k \in 1..Len(posts[c].frames) :
              posts[b].frames[i] = posts[c].frames[k] => b = c /\ i = k

\* A session dispatches its frames in order, and answers when all of them
\* are dispatched and no handler waits or runs.
Served ==
    \A b \in Batches :
        /\ posts[b].next \in 1..(Len(posts[b].frames) + 1)
        /\ posts[b].stage = "sent" => posts[b].next = 1
        /\ \A i \in 1..Len(posts[b].frames) :
              /\ posts[b].next <= i => handler[posts[b].frames[i]] = "none"
              /\ posts[b].stage \notin {"sent", "serving"} =>
                    /\ i < posts[b].next
                    /\ handler[posts[b].frames[i]] \notin {"waiting", "running"}

\* Only calls in a POST are handled, only those that run got a capability, and
\* only streams produce.
HandlersPosted ==
    \A q \in Questions :
        /\ handler[q] # "none" => Posted(q)
        /\ ranOn[q] # None => handler[q] \notin {"none", "waiting"}
        /\ handler[q] = "streaming" => q \in Streams

\* A reply on its way is to a call that was made, and what it says is so.
RepliesTrue ==
    \A b \in Batches : \A i \in 1..Len(posts[b].replies) :
        /\ promise[posts[b].replies[i].q] # "unused"
        /\ posts[b].replies[i].how = "ok" =>
              \/ target[posts[b].replies[i].q] = BootstrapCap
              \/ handler[posts[b].replies[i].q] = "done"
        /\ posts[b].replies[i].id # 0 => posts[b].replies[i].q \in Exporters

\* Import ids come from calls that export.
ImportsExported == \A q \in Questions : importId[q] # 0 => q \in Exporters

\* A session exports the results of its own calls.
ExportsOwn ==
    \A b \in Batches : \A i \in 1..Len(posts[b].exports) : Has(b, posts[b].exports[i])

\* The call still is to be dispatched, is at its handler, was answered, or is
\* a stream, of which nothing may be left.
AtServer(b, q) ==
    \/ \E i \in posts[b].next..Len(posts[b].frames) : posts[b].frames[i] = q
    \/ handler[q] \in {"waiting", "running"}
    \/ \E i \in 1..Len(posts[b].replies) : posts[b].replies[i].q = q
    \/ q \in Streams /\ handler[q] # "none"

\* What is pending on an open session with a transport is queued or at the
\* server.
Kept ==
    ~closed /\ ~aborted =>
        \A q \in Questions : promise[q] = "pending" =>
            Contains(queue, q) \/ \E b \in Batches : Has(b, q) /\ AtServer(b, q)

\* SessionsIsolated, batch by batch.
Isolated ==
    \A b \in Batches : \A q \in Questions : Has(b, q) =>
        /\ target[q] \in Questions /\ ranOn[q] # None =>
              /\ Has(b, target[q]) /\ handler[target[q]] = "done"
              /\ ranOn[q] = PipelineTarget(target[q])
        /\ ranOn[q] \in Exporters => Has(b, ranOn[q])

\* The inductive invariant.
IInv ==
    /\ TypeOK
    /\ SentOnce
    /\ Served
    /\ HandlersPosted
    /\ RepliesTrue
    /\ ImportsExported
    /\ ExportsOwn
    /\ Kept
    /\ Isolated

USE ConstantsAssumption DEF clientVars

-----------------------------------------------------------------------------
(* Sequences and POSTs *)

\* An element at the back of a sequence.
LEMMA Appended ==
    ASSUME NEW S, NEW s \in Seq(S), NEW e \in S
    PROVE  /\ Append(s, e) \in Seq(S)
           /\ Len(Append(s, e)) = Len(s) + 1 /\ Len(s) \in Nat
           /\ Append(s, e)[Len(s) + 1] = e
           /\ \A i \in 1..Len(s) : Append(s, e)[i] = s[i]
           /\ 1..Len(Append(s, e)) = 1..Len(s) \cup {Len(s) + 1}
           /\ \A x : Contains(Append(s, e), x) <=> Contains(s, x) \/ x = e
<1>1. /\ Append(s, e) \in Seq(S)
      /\ Len(Append(s, e)) = Len(s) + 1 /\ Len(s) \in Nat
      /\ Append(s, e)[Len(s) + 1] = e
      /\ \A i \in 1..Len(s) : Append(s, e)[i] = s[i]
      /\ 1..Len(Append(s, e)) = 1..Len(s) \cup {Len(s) + 1}
  OBVIOUS
<1>2. ASSUME NEW x PROVE Contains(Append(s, e), x) <=> Contains(s, x) \/ x = e
  BY <1>1 DEF Contains
<1> QED
  BY <1>1, <1>2

\* What is left behind the first element.
LEMMA Taken ==
    ASSUME NEW S, NEW s \in Seq(S), s # <<>>
    PROVE  /\ Head(s) = s[1] /\ s[1] \in S /\ Len(s) \in Nat /\ 1 \in 1..Len(s)
           /\ Tail(s) \in Seq(S)
           /\ \A i \in 1..Len(Tail(s)) : Tail(s)[i] = s[i + 1] /\ i + 1 \in 1..Len(s)
           /\ \A i \in 1..Len(s) : i # 1 => i - 1 \in 1..Len(Tail(s)) /\ Tail(s)[i - 1] = s[i]
  OBVIOUS

\* What a sequence contains is of its type.
LEMMA ContainsTyped ==
    ASSUME NEW S, NEW s \in Seq(S), NEW x, Contains(s, x)
    PROVE  x \in S
  BY DEF Contains

\* The fields of a POST.
LEMMA PostTyped ==
    ASSUME TypeOK, NEW b \in Batches
    PROVE  /\ posts \in Seq(Posts) /\ posts[b] \in Posts
           /\ posts[b].frames \in Seq(Questions) /\ posts[b].next \in Nat
           /\ posts[b].exports \in Seq(Exporters) /\ posts[b].stage \in Stages
           /\ posts[b].replies \in Seq(Replies)
<1>1. posts \in Seq(Posts)
  BY DEF TypeOK, Posts, Stages, Replies
<1>2. posts[b] \in Posts
  BY <1>1 DEF Batches
<1> QED
  BY <1>1, <1>2 DEF Posts

\* The fields of a reply.
LEMMA ReplyTyped ==
    ASSUME TypeOK, NEW b \in Batches, NEW i \in 1..Len(posts[b].replies)
    PROVE  /\ posts[b].replies[i] \in Replies /\ posts[b].replies[i].q \in Questions
           /\ posts[b].replies[i].how \in {"ok", "err"} /\ posts[b].replies[i].id \in Nat
<1>1. posts[b].replies \in Seq(Replies)
  BY PostTyped
<1>2. posts[b].replies[i] \in Replies
  BY <1>1
<1> QED
  BY <1>2 DEF Replies

\* One POST changes, all keep their frames.
LEMMA Replaced ==
    ASSUME TypeOK, NEW b \in Batches, NEW p \in Posts, p.frames = posts[b].frames,
           posts' = [posts EXCEPT ![b] = p]
    PROVE  /\ posts' \in Seq(Posts) /\ Batches' = Batches
           /\ posts'[b] = p
           /\ \A c \in Batches : c # b => posts'[c] = posts[c]
           /\ \A c \in Batches : posts'[c].frames = posts[c].frames
           /\ \A c \in Batches, q \in Questions : Has(c, q)' <=> Has(c, q)
           /\ \A q \in Questions : Posted(q)' <=> Posted(q)
<1>1. posts \in Seq(Posts)
  BY PostTyped
<1>2. /\ posts' \in Seq(Posts) /\ Batches' = Batches
      /\ posts'[b] = p
      /\ \A c \in Batches : c # b => posts'[c] = posts[c]
  BY <1>1 DEF Batches
<1>3. \A c \in Batches : posts'[c].frames = posts[c].frames
  BY <1>2
<1>4. \A c \in Batches, q \in Questions : Has(c, q)' <=> Has(c, q)
  BY <1>3 DEF Has
<1>5. \A q \in Questions : Posted(q)' <=> Posted(q)
  BY <1>2, <1>3 DEF Posted
<1> QED
  BY <1>2, <1>3, <1>4, <1>5

\* A call is in one POST.
LEMMA OneBatch ==
    ASSUME TypeOK, SentOnce, NEW b \in Batches, NEW c \in Batches, NEW q, Has(b, q), Has(c, q)
    PROVE  b = c
<1>1. PICK i \in 1..Len(posts[b].frames) : posts[b].frames[i] = q
  BY DEF Has, Contains
<1>2. PICK k \in 1..Len(posts[c].frames) : posts[c].frames[k] = q
  BY DEF Has, Contains
<1> QED
  BY <1>1, <1>2 DEF SentOnce

\* Calls in a POST were made.
LEMMA PostedMade ==
    ASSUME TypeOK, SentOnce, NEW b \in Batches, NEW q, Has(b, q)
    PROVE  q \in Questions /\ promise[q] # "unused" /\ Posted(q)
<1>1. q \in Questions
  BY PostTyped, ContainsTyped DEF Has
<1> QED
  BY <1>1 DEF Has, Posted, SentOnce

\* As long as frames stay where they are, each is sent once.
LEMMA SentOnceKept ==
    ASSUME SentOnce, Batches' = Batches, \A b \in Batches : posts'[b].frames = posts[b].frames,
           \A q \in Questions : Posted(q)' <=> Posted(q),
           queue' = queue \/ queue' = <<>>,
           \A q \in Questions : promise'[q] = "unused" => promise[q] = "unused"
    PROVE  SentOnce'
<1>1. \A q \in Questions : Contains(queue', q) => Contains(queue, q)
  BY DEF Contains
<1>2. \A i, k \in 1..Len(queue') : queue'[i] = queue'[k] => i = k
  <2>1. CASE queue' = queue
    BY <2>1 DEF SentOnce
  <2>2. CASE queue' = <<>>
    BY <2>2
  <2> QED
    BY <2>1, <2>2
<1>3. \A q \in Questions : promise'[q] = "unused" => ~Contains(queue', q) /\ ~Posted(q)'
  BY <1>1 DEF SentOnce
<1>4. \A q \in Questions : Contains(queue', q) => ~Posted(q)'
  BY <1>1 DEF SentOnce
<1>5. \A b, c \in Batches' :
          \A i \in 1..Len(posts'[b].frames), k \in 1..Len(posts'[c].frames) :
              posts'[b].frames[i] = posts'[c].frames[k] => b = c /\ i = k
  <2> SUFFICES ASSUME NEW b \in Batches, NEW c \in Batches,
                      NEW i \in 1..Len(posts'[b].frames), NEW k \in 1..Len(posts'[c].frames),
                      posts'[b].frames[i] = posts'[c].frames[k]
               PROVE  b = c /\ i = k
    OBVIOUS
  <2>1. posts'[b].frames = posts[b].frames /\ posts'[c].frames = posts[c].frames
    OBVIOUS
  <2>2. /\ i \in 1..Len(posts[b].frames) /\ k \in 1..Len(posts[c].frames)
        /\ posts[b].frames[i] = posts[c].frames[k]
    BY <2>1
  <2> QED
    BY <2>2 DEF SentOnce
<1> QED
  BY <1>2, <1>3, <1>4, <1>5 DEF SentOnce

-----------------------------------------------------------------------------
(* The client *)

\* A call is made: its id was not used, so nothing of it is anywhere yet.
LEMMA IssueStep ==
    ASSUME IInv, NEW q \in Questions, NEW t \in Questions \cup {ImportedCap, BootstrapCap},
           NEW c \in Exporters \cup {None}, Issue(q, t, c)
    PROVE  IInv'
<1>1. /\ promise[q] = "unused"
      /\ target' = [target EXCEPT ![q] = t] /\ capOf' = [capOf EXCEPT ![q] = c]
      /\ promise' = [promise EXCEPT ![q] = "pending"]
      /\ queue' = Append(queue, q)
      /\ UNCHANGED <<importId, aborted, closed, posts, handler, ranOn>>
  BY DEF Issue
<1>2. TypeOK
  BY DEF IInv
<1>3. /\ queue \in Seq(Questions) /\ queue' \in Seq(Questions)
      /\ \A x : Contains(queue', x) <=> Contains(queue, x) \/ x = q
  BY <1>1, <1>2, Appended DEF TypeOK
<1>4. ~Contains(queue, q) /\ ~Posted(q)
  BY <1>1 DEF IInv, SentOnce
<1>5. handler[q] = "none" /\ ranOn[q] = None
  BY <1>4 DEF IInv, HandlersPosted
<1>6. \A p \in Questions \ {q} : target'[p] = target[p] /\ promise'[p] = promise[p]
  BY <1>1, <1>2 DEF TypeOK
<1>7. promise'[q] = "pending"
  BY <1>1, <1>2 DEF TypeOK
<1>8. Batches' = Batches /\ \A p : Posted(p)' <=> Posted(p)
  BY <1>1 DEF Batches, Posted
<1>9. TypeOK'
  BY <1>1, <1>2, <1>3 DEF TypeOK
<1>10. SentOnce'
  <2>1. \A i, k \in 1..Len(queue') : queue'[i] = queue'[k] => i = k
    <3>1. \A i \in 1..Len(queue) : queue[i] # q
      BY <1>4 DEF Contains
    <3> QED
      BY <1>1, <1>3, <3>1, Appended DEF IInv, SentOnce
  <2>2. \A p \in Questions : promise'[p] = "unused" => ~Contains(queue', p) /\ ~Posted(p)'
    BY <1>3, <1>6, <1>7, <1>8 DEF IInv, SentOnce
  <2>3. \A p \in Questions : Contains(queue', p) => ~Posted(p)'
    BY <1>3, <1>4, <1>8 DEF IInv, SentOnce
  <2>4. \A b, d \in Batches' :
          \A i \in 1..Len(posts'[b].frames), k \in 1..Len(posts'[d].frames) :
              posts'[b].frames[i] = posts'[d].frames[k] => b = d /\ i = k
    BY <1>1, <1>8 DEF IInv, SentOnce
  <2> QED
    BY <2>1, <2>2, <2>3, <2>4 DEF SentOnce
<1>11. Served' /\ HandlersPosted' /\ ImportsExported' /\ ExportsOwn'
  BY <1>1, <1>8 DEF IInv, Served, HandlersPosted, ImportsExported, ExportsOwn, Has
<1>12. RepliesTrue'
  <2> SUFFICES ASSUME NEW b \in Batches, NEW i \in 1..Len(posts[b].replies)
               PROVE  /\ promise'[posts[b].replies[i].q] # "unused"
                      /\ posts[b].replies[i].how = "ok" =>
                            \/ target'[posts[b].replies[i].q] = BootstrapCap
                            \/ handler[posts[b].replies[i].q] = "done"
                      /\ posts[b].replies[i].id # 0 => posts[b].replies[i].q \in Exporters
    BY <1>1, <1>8 DEF RepliesTrue
  <2>1. posts[b].replies[i].q \in Questions
    BY <1>2, ReplyTyped
  <2>2. posts[b].replies[i].q # q
    BY <1>1 DEF IInv, RepliesTrue
  <2> QED
    BY <1>6, <2>1, <2>2 DEF IInv, RepliesTrue
<1>13. Kept'
  <2> SUFFICES ASSUME ~closed, ~aborted, NEW p \in Questions, promise'[p] = "pending"
               PROVE  Contains(queue', p) \/ \E b \in Batches : Has(b, p) /\ AtServer(b, p)
    BY <1>1, <1>8 DEF Kept, Has, AtServer
  <2> QED
    BY <1>3, <1>6 DEF IInv, Kept
<1>14. Isolated'
  <2> SUFFICES ASSUME NEW b \in Batches, NEW p \in Questions, Has(b, p)
               PROVE  /\ target'[p] \in Questions /\ ranOn[p] # None =>
                            /\ Has(b, target'[p]) /\ handler[target'[p]] = "done"
                            /\ ranOn[p] = PipelineTarget(target'[p])
                      /\ ranOn[p] \in Exporters => Has(b, ranOn[p])
    BY <1>1, <1>8 DEF Isolated, Has, PipelineTarget
  <2>1. CASE p = q
    BY <1>5, <2>1
  <2>2. CASE p # q
    BY <1>6, <2>2 DEF IInv, Isolated
  <2> QED
    BY <2>1, <2>2
<1> QED
  BY <1>9, <1>10, <1>11, <1>12, <1>13, <1>14 DEF IInv

\* Some or all pending promises are rejected, and a session that closes, or has
\* no transport, may lose its queue.
LEMMA SettleStep ==
    ASSUME IInv, UNCHANGED <<target, capOf, importId, aborted, posts, handler, ranOn>>,
           promise' \in [Questions -> {"unused", "pending", "ok", "err"}],
           closed' \in BOOLEAN,
           (closed' = closed /\ queue' = queue) \/ ((closed' \/ aborted) /\ queue' = <<>>),
           \A q \in Questions : promise'[q] # promise[q] => promise[q] = "pending" /\ promise'[q] = "err"
    PROVE  IInv'
<1>1. Batches' = Batches /\ \A q : Posted(q)' <=> Posted(q)
  BY DEF Batches, Posted
<1>2. TypeOK'
  <2>1. queue \in Seq(Questions) /\ <<>> \in Seq(Questions) /\ aborted' \in BOOLEAN
    BY DEF IInv, TypeOK
  <2>2. queue' \in Seq(Questions)
    BY <2>1
  <2> QED
    BY <2>1, <2>2 DEF IInv, TypeOK
<1>3. SentOnce'
  <2>1. \A q \in Questions : promise'[q] = "unused" => promise[q] = "unused"
    OBVIOUS
  <2> QED
    BY <1>1, <2>1, SentOnceKept DEF IInv
<1>4. Served' /\ HandlersPosted' /\ ImportsExported' /\ ExportsOwn' /\ Isolated'
  BY <1>1 DEF IInv, Served, HandlersPosted, ImportsExported, ExportsOwn, Isolated, Has, PipelineTarget
<1>5. RepliesTrue'
  <2> SUFFICES ASSUME NEW b \in Batches, NEW i \in 1..Len(posts[b].replies)
               PROVE  promise'[posts[b].replies[i].q] # "unused"
    BY <1>1 DEF IInv, RepliesTrue
  <2>1. posts[b].replies[i].q \in Questions
    BY ReplyTyped DEF IInv
  <2>2. promise[posts[b].replies[i].q] # "unused"
    BY DEF IInv, RepliesTrue
  <2> QED
    BY <2>1, <2>2
<1>6. Kept'
  <2>1. CASE closed' \/ aborted
    BY <2>1 DEF Kept
  <2>2. CASE closed' = closed /\ queue' = queue
    BY <1>1, <2>2 DEF IInv, Kept, Has, AtServer
  <2> QED
    BY <2>1, <2>2
<1> QED
  BY <1>2, <1>3, <1>4, <1>5, <1>6 DEF IInv

\* What is in the queue becomes a POST, or is dropped.
LEMMA FlushStep ==
    ASSUME IInv, Flush
    PROVE  IInv'
<1>1. /\ queue' = <<>> /\ UNCHANGED <<target, capOf, promise, importId, aborted, closed, handler, ranOn>>
      /\ posts' = IF closed \/ aborted THEN posts ELSE Append(posts, Post(queue))
  BY DEF Flush
<1>2. TypeOK
  BY DEF IInv
<1>3. CASE closed \/ aborted
  BY <1>1, <1>2, <1>3, SettleStep DEF TypeOK
<1>4. CASE ~(closed \/ aborted)
  <2>u. /\ promise' = promise /\ target' = target /\ importId' = importId /\ closed' = closed /\ aborted' = aborted
        /\ handler' = handler /\ ranOn' = ranOn /\ queue' = <<>>
    BY <1>1
  <2>1. /\ posts \in Seq(Posts) /\ queue \in Seq(Questions) /\ Len(posts) \in Nat
    BY <1>2 DEF TypeOK, Posts, Stages, Replies
  <2>n. PICK n \in Nat : n = Len(posts) + 1
    BY <2>1
  <2>2. Post(queue) \in Posts
    BY <2>1 DEF Post, Posts, Stages
  <2>3. /\ posts' \in Seq(Posts) /\ Batches' = Batches \cup {n} /\ n \notin Batches
        /\ posts'[n] = Post(queue)
        /\ \A b \in Batches : posts'[b] = posts[b]
    <3>1. posts' = Append(posts, Post(queue))
      BY <1>1, <1>4
    <3>2. /\ posts' \in Seq(Posts) /\ posts'[n] = Post(queue)
          /\ 1..Len(posts') = 1..Len(posts) \cup {n}
          /\ \A b \in Batches : posts'[b] = posts[b]
      BY <2>1, <2>2, <2>n, <3>1, Appended DEF Batches
    <3> QED
      BY <2>1, <2>n, <3>2 DEF Batches
  <2>4. /\ posts'[n].frames = queue /\ posts'[n].stage = "sent" /\ posts'[n].next = 1
        /\ posts'[n].exports = <<>> /\ posts'[n].replies = <<>>
    BY <2>3 DEF Post
  <2>5. /\ \A b \in Batches : \A q : Has(b, q)' <=> Has(b, q)
        /\ \A q : Has(n, q)' <=> Contains(queue, q)
        /\ \A q : Posted(q)' <=> Posted(q) \/ Contains(queue, q)
        /\ \A q : Posted(q) <=> \E b \in Batches : Has(b, q)
    <3>1. \A b \in Batches : \A q : Has(b, q)' <=> Has(b, q)
      BY <2>3 DEF Has
    <3>2. \A q : Has(n, q)' <=> Contains(queue, q)
      BY <2>4 DEF Has
    <3>3. \A q : Posted(q)' <=> \E b \in Batches' : Has(b, q)'
      BY DEF Posted, Has
    <3>4. \A q : Posted(q) <=> \E b \in Batches : Has(b, q)
      BY DEF Posted, Has
    <3> QED
      BY <2>3, <3>1, <3>2, <3>3, <3>4
  <2>6. \A q \in Questions : Contains(queue, q) => ~Posted(q) /\ promise[q] # "unused" /\ handler[q] = "none" /\ ranOn[q] = None
    BY DEF IInv, SentOnce, HandlersPosted
  <2>7. \A i \in 1..Len(queue) : queue[i] \in Questions /\ Contains(queue, queue[i])
    BY <2>1 DEF Contains
  <2>8. TypeOK'
    <3>1. queue' \in Seq(Questions)
      BY <1>1
    <3>2. posts' \in Seq([frames : Seq(Questions), next : Nat, exports : Seq(Exporters),
                          stage : {"sent", "serving", "answered", "receiving", "over"},
                          replies : Seq([q : Questions, how : {"ok", "err"}, id : Nat])])
      BY <2>3 DEF Posts, Stages, Replies
    <3> QED
      BY <1>1, <1>2, <3>1, <3>2 DEF TypeOK
  <2>9. SentOnce'
    <3>1. \A q : ~Contains(queue', q)
      BY <2>u DEF Contains
    <3>2. \A q \in Questions : promise'[q] = "unused" => ~Contains(queue', q) /\ ~Posted(q)'
      BY <2>u, <2>5, <2>6, <3>1 DEF IInv, SentOnce
    <3>3. ASSUME NEW b \in Batches', NEW c \in Batches',
                 NEW i \in 1..Len(posts'[b].frames), NEW k \in 1..Len(posts'[c].frames),
                 posts'[b].frames[i] = posts'[c].frames[k]
          PROVE  b = c /\ i = k
      <4>1. CASE b \in Batches /\ c \in Batches
        <5>1. posts'[b].frames = posts[b].frames /\ posts'[c].frames = posts[c].frames
          BY <2>3, <4>1
        <5>2. /\ i \in 1..Len(posts[b].frames) /\ k \in 1..Len(posts[c].frames)
              /\ posts[b].frames[i] = posts[c].frames[k]
          BY <3>3, <5>1
        <5> QED
          BY <4>1, <5>2 DEF IInv, SentOnce
      <4>2. CASE b = n /\ c = n
        BY <2>4, <3>3, <4>2 DEF IInv, SentOnce
      <4>3. CASE b \in Batches /\ c = n
        <5>1. Has(b, queue[k]) /\ Contains(queue, queue[k]) /\ queue[k] \in Questions
          BY <2>3, <2>4, <2>7, <3>3, <4>3 DEF Has, Contains
        <5> QED
          BY <2>5, <2>6, <4>3, <5>1
      <4>4. CASE b = n /\ c \in Batches
        <5>1. Has(c, queue[i]) /\ Contains(queue, queue[i]) /\ queue[i] \in Questions
          BY <2>3, <2>4, <2>7, <3>3, <4>4 DEF Has, Contains
        <5> QED
          BY <2>5, <2>6, <4>4, <5>1
      <4> QED
        BY <2>3, <4>1, <4>2, <4>3, <4>4
    <3>4. \A i, k \in 1..Len(queue') : queue'[i] = queue'[k] => i = k
      BY <2>u
    <3>5. \A q \in Questions : Contains(queue', q) => ~Posted(q)'
      BY <3>1
    <3> QED
      BY <3>2, <3>3, <3>4, <3>5 DEF SentOnce
  <2>10. Served'
    <3>0. ASSUME NEW b \in Batches
          PROVE  /\ posts[b].next \in 1..(Len(posts[b].frames) + 1)
                 /\ posts[b].stage = "sent" => posts[b].next = 1
                 /\ \A i \in 1..Len(posts[b].frames) :
                       /\ posts[b].next <= i => handler[posts[b].frames[i]] = "none"
                       /\ posts[b].stage \notin {"sent", "serving"} =>
                             /\ i < posts[b].next
                             /\ handler[posts[b].frames[i]] \notin {"waiting", "running"}
      BY DEF IInv, Served
    <3>1. ASSUME NEW b \in Batches
          PROVE  /\ posts'[b].next \in 1..(Len(posts'[b].frames) + 1)
                 /\ posts'[b].stage = "sent" => posts'[b].next = 1
                 /\ \A i \in 1..Len(posts'[b].frames) :
                       /\ posts'[b].next <= i => handler'[posts'[b].frames[i]] = "none"
                       /\ posts'[b].stage \notin {"sent", "serving"} =>
                             /\ i < posts'[b].next
                             /\ handler'[posts'[b].frames[i]] \notin {"waiting", "running"}
      <4>1. posts'[b] = posts[b] /\ handler' = handler
        BY <2>u, <2>3
      <4> QED
        BY <3>0, <4>1
    <3>2. /\ posts'[n].next \in 1..(Len(posts'[n].frames) + 1)
          /\ posts'[n].stage = "sent" /\ posts'[n].next = 1
          /\ \A i \in 1..Len(posts'[n].frames) : handler'[posts'[n].frames[i]] = "none"
      <4>1. Len(queue) \in Nat /\ 1 \in 1..(Len(queue) + 1)
        BY <2>1
      <4>2. \A i \in 1..Len(queue) : handler[queue[i]] = "none"
        BY <2>6, <2>7
      <4> QED
        BY <2>u, <2>4, <4>1, <4>2
    <3> QED
      BY <2>3, <3>1, <3>2 DEF Served
  <2>11. HandlersPosted' /\ ImportsExported'
    BY <2>u, <2>5 DEF IInv, HandlersPosted, ImportsExported
  <2>12. RepliesTrue'
    <3>1. \A b \in Batches' : b # n => b \in Batches /\ posts'[b].replies = posts[b].replies
      BY <2>3
    <3>2. Len(posts'[n].replies) = 0
      BY <2>4
    <3>3. ASSUME NEW b \in Batches', NEW i \in 1..Len(posts'[b].replies)
          PROVE  b \in Batches /\ i \in 1..Len(posts[b].replies) /\ posts'[b].replies[i] = posts[b].replies[i]
      BY <3>1, <3>2
    <3> SUFFICES ASSUME NEW b \in Batches', NEW i \in 1..Len(posts'[b].replies)
                 PROVE  /\ promise'[posts'[b].replies[i].q] # "unused"
                        /\ posts'[b].replies[i].how = "ok" =>
                              \/ target'[posts'[b].replies[i].q] = BootstrapCap
                              \/ handler'[posts'[b].replies[i].q] = "done"
                        /\ posts'[b].replies[i].id # 0 => posts'[b].replies[i].q \in Exporters
      BY DEF RepliesTrue
    <3>4. b \in Batches /\ i \in 1..Len(posts[b].replies) /\ posts'[b].replies[i] = posts[b].replies[i]
      BY <3>3
    <3> QED
      BY <2>u, <3>4 DEF IInv, RepliesTrue
  <2>13. ExportsOwn'
    <3>1. \A b \in Batches' : b # n => b \in Batches /\ posts'[b].exports = posts[b].exports
      BY <2>3
    <3>2. Len(posts'[n].exports) = 0
      BY <2>4
    <3> QED
      BY <2>5, <3>1, <3>2 DEF IInv, ExportsOwn
  <2>14. Kept'
    <3> SUFFICES ASSUME NEW q \in Questions, promise[q] = "pending"
                 PROVE  \E b \in Batches' : Has(b, q)' /\ AtServer(b, q)'
      BY <2>u DEF Kept
    <3>1. CASE Contains(queue, q)
      <4>1. PICK i \in 1..Len(queue) : queue[i] = q
        BY <3>1 DEF Contains
      <4>2. i \in 1..Len(posts'[n].frames) /\ posts'[n].frames[i] = q
        BY <2>4, <4>1
      <4>3. AtServer(n, q)'
        BY <2>4, <4>2 DEF AtServer
      <4> QED
        BY <2>3, <2>5, <3>1, <4>3
    <3>2. CASE ~Contains(queue, q)
      <4>1. PICK b \in Batches : Has(b, q) /\ AtServer(b, q)
        BY <1>4, <3>2 DEF IInv, Kept
      <4>2. AtServer(b, q)'
        BY <2>u, <2>3, <4>1 DEF AtServer
      <4> QED
        BY <2>3, <2>5, <4>1, <4>2
    <3> QED
      BY <3>1, <3>2
  <2>15. Isolated'
    <3>1. ASSUME NEW b \in Batches, NEW q \in Questions, Has(b, q)
          PROVE  /\ target[q] \in Questions /\ ranOn[q] # None =>
                       /\ Has(b, target[q]) /\ handler[target[q]] = "done"
                       /\ ranOn[q] = PipelineTarget(target[q])
                 /\ ranOn[q] \in Exporters => Has(b, ranOn[q])
      BY <3>1 DEF IInv, Isolated
    <3>2. \A q \in Questions : PipelineTarget(q)' = PipelineTarget(q)
      BY <2>u DEF PipelineTarget
    <3>3. ASSUME NEW q \in Questions, Has(n, q)' PROVE ranOn[q] = None
      BY <2>5, <2>6, <3>3
    <3> QED
      BY <2>u, <2>3, <2>5, <3>1, <3>2, <3>3 DEF Isolated
  <2> QED
    BY <2>8, <2>9, <2>10, <2>11, <2>12, <2>13, <2>14, <2>15 DEF IInv
<1> QED
  BY <1>3, <1>4

-----------------------------------------------------------------------------
(* A POST moves on *)

\* A POST that moves on has nothing left to dispatch and no handler at work,
\* unless it only begins to be served.
LEMMA StageStep ==
    ASSUME IInv, NEW b \in Batches, NEW s \in Stages \ {"sent"},
           posts' = [posts EXCEPT ![b].stage = s],
           UNCHANGED <<clientVars, handler, ranOn>>,
           s # "serving" =>
              \A i \in 1..Len(posts[b].frames) :
                  /\ i < posts[b].next
                  /\ handler[posts[b].frames[i]] \notin {"waiting", "running"}
    PROVE  IInv'
<1>u. /\ promise' = promise /\ target' = target /\ importId' = importId /\ closed' = closed /\ aborted' = aborted
      /\ capOf' = capOf /\ queue' = queue /\ handler' = handler /\ ranOn' = ranOn
  OBVIOUS
<1>1. TypeOK
  BY DEF IInv
<1>2. posts[b] \in Posts /\ posts \in Seq(Posts)
  BY <1>1, PostTyped
<1>3. PICK p : p = [posts[b] EXCEPT !.stage = s]
  OBVIOUS
<1>4. p \in Posts /\ p.frames = posts[b].frames /\ p.next = posts[b].next
      /\ p.exports = posts[b].exports /\ p.replies = posts[b].replies /\ p.stage = s
  BY <1>2, <1>3 DEF Posts
<1>5. posts' = [posts EXCEPT ![b] = p]
  BY <1>3
<1>6. /\ posts' \in Seq(Posts) /\ Batches' = Batches
      /\ posts'[b] = p
      /\ \A c \in Batches : c # b => posts'[c] = posts[c]
      /\ \A c \in Batches : posts'[c].frames = posts[c].frames
      /\ \A c \in Batches, q \in Questions : Has(c, q)' <=> Has(c, q)
      /\ \A q \in Questions : Posted(q)' <=> Posted(q)
  BY <1>1, <1>4, <1>5, Replaced
<1>7. \A c \in Batches : /\ posts'[c].next = posts[c].next /\ posts'[c].exports = posts[c].exports
                         /\ posts'[c].replies = posts[c].replies
  BY <1>4, <1>6
<1>8. TypeOK'
  <2>1. posts' \in Seq([frames : Seq(Questions), next : Nat, exports : Seq(Exporters),
                        stage : {"sent", "serving", "answered", "receiving", "over"},
                        replies : Seq([q : Questions, how : {"ok", "err"}, id : Nat])])
    BY <1>6 DEF Posts, Stages, Replies
  <2> QED
    BY <1>u, <1>1, <2>1 DEF TypeOK
<1>9. SentOnce'
  BY <1>u, <1>6, SentOnceKept DEF IInv
<1>10. Served'
  <2>1. ASSUME NEW c \in Batches
        PROVE  /\ posts[c].next \in 1..(Len(posts[c].frames) + 1)
               /\ posts[c].stage = "sent" => posts[c].next = 1
               /\ \A i \in 1..Len(posts[c].frames) :
                     /\ posts[c].next <= i => handler[posts[c].frames[i]] = "none"
                     /\ posts[c].stage \notin {"sent", "serving"} =>
                           /\ i < posts[c].next
                           /\ handler[posts[c].frames[i]] \notin {"waiting", "running"}
    BY DEF IInv, Served
  <2>2. ASSUME NEW c \in Batches
        PROVE  /\ posts'[c].next \in 1..(Len(posts'[c].frames) + 1)
               /\ posts'[c].stage = "sent" => posts'[c].next = 1
               /\ \A i \in 1..Len(posts'[c].frames) :
                     /\ posts'[c].next <= i => handler'[posts'[c].frames[i]] = "none"
                     /\ posts'[c].stage \notin {"sent", "serving"} =>
                           /\ i < posts'[c].next
                           /\ handler'[posts'[c].frames[i]] \notin {"waiting", "running"}
    <3>1. posts'[c].frames = posts[c].frames /\ posts'[c].next = posts[c].next /\ handler' = handler
      BY <1>u, <1>6, <1>7
    <3>2. CASE c = b
      <4>1. posts'[c].stage = s
        BY <1>4, <1>6, <3>2
      <4> QED
        BY <2>1, <3>1, <3>2, <4>1
    <3>3. CASE c # b
      <4>1. posts'[c].stage = posts[c].stage
        BY <1>6, <3>3
      <4> QED
        BY <2>1, <3>1, <4>1
    <3> QED
      BY <3>2, <3>3
  <2> QED
    BY <1>6, <2>2 DEF Served
<1>11. HandlersPosted' /\ ImportsExported'
  BY <1>u, <1>6 DEF IInv, HandlersPosted, ImportsExported
<1>12. RepliesTrue'
  BY <1>u, <1>6, <1>7 DEF IInv, RepliesTrue
<1>13. ExportsOwn'
  <2> SUFFICES ASSUME NEW c \in Batches, NEW i \in 1..Len(posts[c].exports)
               PROVE  Has(c, posts[c].exports[i])'
    BY <1>6, <1>7 DEF ExportsOwn
  <2>1. Has(c, posts[c].exports[i])
    BY DEF IInv, ExportsOwn
  <2> QED
    BY <1>6, <1>7, <2>1 DEF Has
<1>14. Kept'
  <2>1. \A c \in Batches, q \in Questions : AtServer(c, q)' <=> AtServer(c, q)
    BY <1>u, <1>6, <1>7 DEF AtServer
  <2> QED
    BY <1>u, <1>6, <2>1 DEF IInv, Kept
<1>15. Isolated'
  <2>1. \A c \in Batches : \A x : Has(c, x)' <=> Has(c, x)
    BY <1>6 DEF Has
  <2>2. \A q : PipelineTarget(q)' = PipelineTarget(q)
    BY <1>u DEF PipelineTarget
  <2> QED
    BY <1>u, <1>6, <2>1, <2>2 DEF IInv, Isolated
<1> QED
  BY <1>8, <1>9, <1>10, <1>11, <1>12, <1>13, <1>14, <1>15 DEF IInv

\* All frames of a POST are dispatched and no handler waits or runs.
LEMMA DrainedStep ==
    ASSUME IInv, NEW b \in Batches, Drained(b)
    PROVE  \A i \in 1..Len(posts[b].frames) :
               /\ i < posts[b].next
               /\ handler[posts[b].frames[i]] \notin {"waiting", "running"}
<1> SUFFICES ASSUME NEW i \in 1..Len(posts[b].frames)
             PROVE  /\ i < posts[b].next
                    /\ handler[posts[b].frames[i]] \notin {"waiting", "running"}
  OBVIOUS
<1>1. posts[b].frames \in Seq(Questions) /\ posts[b].next \in Nat
  BY PostTyped DEF IInv
<1>2. posts[b].frames[i] \in Questions /\ Contains(posts[b].frames, posts[b].frames[i])
  BY <1>1 DEF Contains
<1> QED
  BY <1>1, <1>2 DEF Drained, AllDispatched

\* The client takes one reply.
LEMMA ReplyTaken ==
    ASSUME IInv, NEW b \in Batches, posts[b].replies # <<>>, HandleReply(b)
    PROVE  IInv'
<1>1. TypeOK
  BY DEF IInv
<1>2. /\ posts[b].stage = "receiving"
      /\ posts' = [posts EXCEPT ![b].replies = Tail(@)]
      /\ IF Known(Head(posts[b].replies).q)
         THEN /\ promise' = [promise EXCEPT ![Head(posts[b].replies).q] = Head(posts[b].replies).how]
              /\ importId' = [importId EXCEPT ![Head(posts[b].replies).q] = Head(posts[b].replies).id]
         ELSE UNCHANGED <<promise, importId>>
      /\ UNCHANGED <<target, capOf, aborted, closed, queue, handler, ranOn>>
  BY DEF HandleReply
<1>u. /\ target' = target /\ aborted' = aborted /\ closed' = closed /\ capOf' = capOf /\ queue' = queue
      /\ handler' = handler /\ ranOn' = ranOn
  BY <1>2
<1>3. posts[b] \in Posts /\ posts \in Seq(Posts) /\ posts[b].replies \in Seq(Replies)
  BY <1>1, PostTyped
<1>t. /\ Head(posts[b].replies) = posts[b].replies[1]
      /\ Len(posts[b].replies) \in Nat /\ 1 \in 1..Len(posts[b].replies)
      /\ Tail(posts[b].replies) \in Seq(Replies)
      /\ \A i \in 1..Len(Tail(posts[b].replies)) :
            Tail(posts[b].replies)[i] = posts[b].replies[i + 1] /\ i + 1 \in 1..Len(posts[b].replies)
      /\ \A i \in 1..Len(posts[b].replies) :
            i # 1 => /\ i - 1 \in 1..Len(Tail(posts[b].replies))
                     /\ Tail(posts[b].replies)[i - 1] = posts[b].replies[i]
  BY <1>3, Taken
<1>4. PICK r \in Replies : r = posts[b].replies[1]
  BY <1>1, <1>t, ReplyTyped
<1>5. r.q \in Questions /\ r.how \in {"ok", "err"} /\ r.id \in Nat
  BY <1>4 DEF Replies
<1>6. PICK p : p = [posts[b] EXCEPT !.replies = Tail(posts[b].replies)]
  OBVIOUS
<1>7. p \in Posts /\ p.frames = posts[b].frames /\ p.next = posts[b].next
      /\ p.exports = posts[b].exports /\ p.replies = Tail(posts[b].replies) /\ p.stage = posts[b].stage
  BY <1>3, <1>t, <1>6 DEF Posts
<1>8. posts' = [posts EXCEPT ![b] = p]
  BY <1>2, <1>6
<1>9. /\ posts' \in Seq(Posts) /\ Batches' = Batches
      /\ posts'[b] = p
      /\ \A c \in Batches : c # b => posts'[c] = posts[c]
      /\ \A c \in Batches : posts'[c].frames = posts[c].frames
      /\ \A c \in Batches, q \in Questions : Has(c, q)' <=> Has(c, q)
      /\ \A q \in Questions : Posted(q)' <=> Posted(q)
  BY <1>1, <1>7, <1>8, Replaced
<1>10. \A c \in Batches : /\ posts'[c].next = posts[c].next /\ posts'[c].exports = posts[c].exports
                          /\ posts'[c].stage = posts[c].stage
  BY <1>7, <1>9
<1>11. /\ promise' \in [Questions -> {"unused", "pending", "ok", "err"}]
       /\ importId' \in [Questions -> Nat]
       /\ \A q \in Questions : q # r.q => promise'[q] = promise[q] /\ importId'[q] = importId[q]
       /\ promise[r.q] = "pending" => promise'[r.q] = r.how /\ importId'[r.q] = r.id
       /\ promise[r.q] # "pending" => promise' = promise /\ importId' = importId
  <2>1. promise \in [Questions -> {"unused", "pending", "ok", "err"}] /\ importId \in [Questions -> Nat]
    BY <1>1 DEF TypeOK
  <2>2. CASE promise[r.q] = "pending"
    <3>1. promise' = [promise EXCEPT ![r.q] = r.how] /\ importId' = [importId EXCEPT ![r.q] = r.id]
      BY <1>2, <1>4, <1>t, <2>2 DEF Known
    <3> QED
      BY <1>5, <2>1, <2>2, <3>1
  <2>3. CASE promise[r.q] # "pending"
    <3>1. promise' = promise /\ importId' = importId
      BY <1>2, <1>4, <1>t, <2>3 DEF Known
    <3> QED
      BY <2>1, <2>3, <3>1
  <2> QED
    BY <2>2, <2>3
<1>12. promise[r.q] # "unused" /\ (r.id # 0 => r.q \in Exporters)
  BY <1>4, <1>t DEF IInv, RepliesTrue
<1>13. TypeOK'
  <2>1. posts' \in Seq([frames : Seq(Questions), next : Nat, exports : Seq(Exporters),
                        stage : {"sent", "serving", "answered", "receiving", "over"},
                        replies : Seq([q : Questions, how : {"ok", "err"}, id : Nat])])
    BY <1>9 DEF Posts, Stages, Replies
  <2> QED
    BY <1>u, <1>1, <1>11, <2>1 DEF TypeOK
<1>14. SentOnce'
  <2>1. \A q \in Questions : promise'[q] = "unused" => promise[q] = "unused"
    BY <1>5, <1>11
  <2> QED
    BY <1>u, <1>9, <2>1, SentOnceKept DEF IInv
<1>15. Served'
  <2> SUFFICES ASSUME NEW c \in Batches
               PROVE  /\ posts'[c].next \in 1..(Len(posts'[c].frames) + 1)
                      /\ posts'[c].stage = "sent" => posts'[c].next = 1
                      /\ \A i \in 1..Len(posts'[c].frames) :
                            /\ posts'[c].next <= i => handler'[posts'[c].frames[i]] = "none"
                            /\ posts'[c].stage \notin {"sent", "serving"} =>
                                  /\ i < posts'[c].next
                                  /\ handler'[posts'[c].frames[i]] \notin {"waiting", "running"}
    BY <1>9 DEF Served
  <2>1. /\ posts'[c].frames = posts[c].frames /\ posts'[c].next = posts[c].next
        /\ posts'[c].stage = posts[c].stage /\ handler' = handler
    BY <1>u, <1>9, <1>10
  <2> QED
    BY <2>1 DEF IInv, Served
<1>16. HandlersPosted' /\ ImportsExported'
  <2>1. HandlersPosted'
    BY <1>u, <1>9 DEF IInv, HandlersPosted
  <2>2. ImportsExported'
    BY <1>5, <1>11, <1>12 DEF IInv, ImportsExported
  <2> QED
    BY <2>1, <2>2
<1>17. RepliesTrue'
  <2>1. ASSUME NEW c \in Batches, NEW i \in 1..Len(posts'[c].replies)
        PROVE  \E k \in 1..Len(posts[c].replies) : posts[c].replies[k] = posts'[c].replies[i]
    <3>1. CASE c = b
      <4>1. posts'[c].replies = Tail(posts[b].replies)
        BY <1>7, <1>9, <3>1
      <4> QED
        BY <1>t, <2>1, <3>1, <4>1
    <3>2. CASE c # b
      BY <1>9, <3>2
    <3> QED
      BY <3>1, <3>2
  <2> SUFFICES ASSUME NEW c \in Batches, NEW i \in 1..Len(posts'[c].replies)
               PROVE  /\ promise'[posts'[c].replies[i].q] # "unused"
                      /\ posts'[c].replies[i].how = "ok" =>
                            \/ target[posts'[c].replies[i].q] = BootstrapCap
                            \/ handler[posts'[c].replies[i].q] = "done"
                      /\ posts'[c].replies[i].id # 0 => posts'[c].replies[i].q \in Exporters
    BY <1>u, <1>9 DEF RepliesTrue
  <2>2. PICK k \in 1..Len(posts[c].replies) : posts[c].replies[k] = posts'[c].replies[i]
    BY <2>1
  <2>3. posts[c].replies[k].q \in Questions
    BY <1>1, ReplyTyped
  <2>4. /\ promise[posts[c].replies[k].q] # "unused"
        /\ posts[c].replies[k].how = "ok" =>
              \/ target[posts[c].replies[k].q] = BootstrapCap
              \/ handler[posts[c].replies[k].q] = "done"
        /\ posts[c].replies[k].id # 0 => posts[c].replies[k].q \in Exporters
    BY DEF IInv, RepliesTrue
  <2>5. promise'[posts[c].replies[k].q] # "unused"
    BY <1>5, <1>11, <2>3, <2>4
  <2> QED
    BY <2>2, <2>4, <2>5
<1>18. ExportsOwn'
  <2> SUFFICES ASSUME NEW c \in Batches, NEW i \in 1..Len(posts[c].exports)
               PROVE  Has(c, posts[c].exports[i])'
    BY <1>9, <1>10 DEF ExportsOwn
  <2>1. Has(c, posts[c].exports[i])
    BY DEF IInv, ExportsOwn
  <2> QED
    BY <1>9, <1>10, <2>1 DEF Has
<1>19. Kept'
  <2> SUFFICES ASSUME ~closed, ~aborted, NEW q \in Questions, promise'[q] = "pending"
               PROVE  Contains(queue', q) \/ \E c \in Batches' : (Has(c, q) /\ AtServer(c, q))'
    BY <1>u DEF Kept
  <2>1. promise[q] = "pending" /\ q # r.q
    <3>1. CASE q = r.q /\ promise[r.q] = "pending"
      BY <1>5, <1>11, <3>1
    <3>2. CASE q = r.q /\ promise[r.q] # "pending"
      BY <1>11, <3>2
    <3>3. CASE q # r.q
      BY <1>11, <3>3
    <3> QED
      BY <3>1, <3>2, <3>3
  <2>2. CASE Contains(queue, q)
    BY <1>u, <2>2
  <2>3. CASE ~Contains(queue, q)
    <3>1. PICK c \in Batches : Has(c, q) /\ AtServer(c, q)
      BY <2>1, <2>3 DEF IInv, Kept
    <3>2. (\E i \in 1..Len(posts[c].replies) : posts[c].replies[i].q = q)
             => \E i \in 1..Len(posts'[c].replies) : posts'[c].replies[i].q = q
      <4> SUFFICES ASSUME NEW i \in 1..Len(posts[c].replies), posts[c].replies[i].q = q
                   PROVE  \E k \in 1..Len(posts'[c].replies) : posts'[c].replies[k].q = q
        OBVIOUS
      <4>1. CASE c = b
        <5>1. posts'[c].replies = Tail(posts[b].replies)
          BY <1>7, <1>9, <4>1
        <5>2. i # 1
          BY <1>4, <2>1, <4>1
        <5>3. PICK k \in Int : k = i - 1
          BY <1>t, <4>1
        <5>4. k \in 1..Len(Tail(posts[b].replies)) /\ Tail(posts[b].replies)[k] = posts[b].replies[i]
          BY <1>t, <4>1, <5>2, <5>3
        <5> QED
          BY <4>1, <5>1, <5>4
      <4>2. CASE c # b
        BY <1>9, <4>2
      <4> QED
        BY <4>1, <4>2
    <3>3. AtServer(c, q)'
      BY <1>u, <1>9, <1>10, <3>1, <3>2 DEF AtServer
    <3> QED
      BY <1>9, <3>1, <3>3
  <2> QED
    BY <2>2, <2>3
<1>20. Isolated'
  <2>1. \A c \in Batches : \A x : Has(c, x)' <=> Has(c, x)
    BY <1>9 DEF Has
  <2>2. \A q : PipelineTarget(q)' = PipelineTarget(q)
    BY <1>u DEF PipelineTarget
  <2> QED
    BY <1>u, <1>9, <2>1, <2>2 DEF IInv, Isolated
<1> QED
  BY <1>13, <1>14, <1>15, <1>16, <1>17, <1>18, <1>19, <1>20 DEF IInv

-----------------------------------------------------------------------------
(* The server *)

\* What the server changes keeps its type.
LEMMA ServerTyped ==
    ASSUME TypeOK, UNCHANGED clientVars, posts' \in Seq(Posts),
           handler' \in [Questions -> Handlers], ranOn' \in [Questions -> Found]
    PROVE  TypeOK'
<1>1. posts' \in Seq([frames : Seq(Questions), next : Nat, exports : Seq(Exporters),
                      stage : {"sent", "serving", "answered", "receiving", "over"},
                      replies : Seq([q : Questions, how : {"ok", "err"}, id : Nat])])
  BY DEF Posts, Stages, Replies
<1> QED
  BY <1>1 DEF TypeOK, Handlers, Found

\* A step of the session that serves b, on the call q: it may take the frame
\* of q, export q, and reply r to q; b becomes p, the handler of q comes to h,
\* with the capability c.
ServerMove(b, q, p, h, c, r) ==
    /\ posts' = [posts EXCEPT ![b] = p]
    /\ handler' = [handler EXCEPT ![q] = h] /\ ranOn' = [ranOn EXCEPT ![q] = c]
    /\ UNCHANGED clientVars
    /\ handler[q] \notin {"done", "failed"}
    /\ p.frames = posts[b].frames /\ p.stage = posts[b].stage
    /\ \/ p.next = posts[b].next /\ handler[q] # "none"
       \/ /\ p.next = posts[b].next + 1 /\ p.stage = "serving"
          /\ posts[b].next \in 1..Len(posts[b].frames) /\ posts[b].frames[posts[b].next] = q
    /\ p.stage # "serving" => h \notin {"waiting", "running"}
    /\ p.exports = posts[b].exports \/ (q \in Exporters /\ p.exports = Append(posts[b].exports, q))
    /\ r.q = q
    /\ r.how = "ok" => target[q] = BootstrapCap \/ h = "done"
    /\ r.id # 0 => q \in Exporters
    /\ p.replies = posts[b].replies \/ p.replies = Append(posts[b].replies, r)
    /\ \/ h \in {"waiting", "running"}
       \/ p.replies = Append(posts[b].replies, r)
       \/ q \in Streams /\ h # "none"
    /\ c # None => h \notin {"none", "waiting"}
    /\ h = "streaming" => q \in Streams
    /\ target[q] \in Questions /\ c # None =>
          /\ Has(b, target[q]) /\ handler[target[q]] = "done"
          /\ c = PipelineTarget(target[q])
    /\ c \in Exporters => Has(b, c)

\* All the actions of the server are such moves, which keep the invariant.
LEMMA ServeStep ==
    ASSUME IInv, NEW b \in Batches, NEW q \in Questions, Has(b, q),
           NEW p \in Posts, NEW h \in Handlers, NEW c \in Found, NEW r \in Replies,
           ServerMove(b, q, p, h, c, r)
    PROVE  IInv'
<1>u. /\ promise' = promise /\ target' = target /\ importId' = importId /\ closed' = closed /\ aborted' = aborted
      /\ capOf' = capOf /\ queue' = queue
  BY DEF ServerMove
<1>p. posts' = [posts EXCEPT ![b] = p] /\ p.frames = posts[b].frames /\ p.stage = posts[b].stage
  BY DEF ServerMove
<1>h. /\ handler' = [handler EXCEPT ![q] = h] /\ ranOn' = [ranOn EXCEPT ![q] = c]
      /\ handler[q] \notin {"done", "failed"}
  BY DEF ServerMove
<1>n. /\ \/ p.next = posts[b].next /\ handler[q] # "none"
         \/ /\ p.next = posts[b].next + 1 /\ p.stage = "serving"
            /\ posts[b].next \in 1..Len(posts[b].frames) /\ posts[b].frames[posts[b].next] = q
      /\ p.stage # "serving" => h \notin {"waiting", "running"}
  BY DEF ServerMove
<1>e. p.exports = posts[b].exports \/ (q \in Exporters /\ p.exports = Append(posts[b].exports, q))
  BY DEF ServerMove
<1>q. /\ r.q = q
      /\ r.how = "ok" => target[q] = BootstrapCap \/ h = "done"
      /\ r.id # 0 => q \in Exporters
      /\ p.replies = posts[b].replies \/ p.replies = Append(posts[b].replies, r)
  BY DEF ServerMove
<1>k. \/ h \in {"waiting", "running"}
      \/ p.replies = Append(posts[b].replies, r)
      \/ q \in Streams /\ h # "none"
  BY DEF ServerMove
<1>c. /\ c # None => h \notin {"none", "waiting"}
      /\ h = "streaming" => q \in Streams
      /\ target[q] \in Questions /\ c # None =>
            /\ Has(b, target[q]) /\ handler[target[q]] = "done"
            /\ c = PipelineTarget(target[q])
      /\ c \in Exporters => Has(b, c)
  BY DEF ServerMove
<1>1. TypeOK
  BY DEF IInv
<1>2. /\ posts[b] \in Posts /\ posts \in Seq(Posts)
      /\ posts[b].frames \in Seq(Questions) /\ posts[b].next \in Nat
      /\ posts[b].exports \in Seq(Exporters) /\ posts[b].replies \in Seq(Replies)
  BY <1>1, PostTyped
<1>3. /\ posts' \in Seq(Posts) /\ Batches' = Batches
      /\ posts'[b] = p
      /\ \A d \in Batches : d # b => posts'[d] = posts[d]
      /\ \A d \in Batches : posts'[d].frames = posts[d].frames
      /\ \A d \in Batches, x \in Questions : Has(d, x)' <=> Has(d, x)
      /\ \A x \in Questions : Posted(x)' <=> Posted(x)
  BY <1>1, <1>p, Replaced
<1>4. /\ handler'[q] = h /\ \A x \in Questions : x # q => handler'[x] = handler[x]
      /\ ranOn'[q] = c /\ \A x \in Questions : x # q => ranOn'[x] = ranOn[x]
      /\ handler' \in [Questions -> Handlers] /\ ranOn' \in [Questions -> Found]
  <2>1. handler \in [Questions -> Handlers] /\ ranOn \in [Questions -> Found]
    BY <1>1 DEF TypeOK, Handlers, Found
  <2> QED
    BY <1>h, <2>1
<1>5. Posted(q)
  BY DEF Posted, Has
<1>6. \A d \in Batches : \A x \in Questions : d # b /\ Has(d, x) => x # q
  BY <1>1, OneBatch DEF IInv
<1>7. \A d \in Batches : \A i \in 1..Len(posts[d].frames) :
          posts[d].frames[i] \in Questions /\ Has(d, posts[d].frames[i])
  <2> SUFFICES ASSUME NEW d \in Batches, NEW i \in 1..Len(posts[d].frames)
               PROVE  posts[d].frames[i] \in Questions /\ Has(d, posts[d].frames[i])
    OBVIOUS
  <2>1. posts[d].frames \in Seq(Questions)
    BY <1>1, PostTyped
  <2> QED
    BY <2>1 DEF Has, Contains
<1>8. TypeOK'
  BY <1>1, <1>3, <1>4, ServerTyped DEF ServerMove
<1>9. SentOnce'
  BY <1>u, <1>3, SentOnceKept DEF IInv
<1>10. Served'
  <2>0. ASSUME NEW d \in Batches
        PROVE  /\ posts[d].next \in 1..(Len(posts[d].frames) + 1)
               /\ posts[d].stage = "sent" => posts[d].next = 1
               /\ \A i \in 1..Len(posts[d].frames) :
                     /\ posts[d].next <= i => handler[posts[d].frames[i]] = "none"
                     /\ posts[d].stage \notin {"sent", "serving"} =>
                           /\ i < posts[d].next
                           /\ handler[posts[d].frames[i]] \notin {"waiting", "running"}
    BY DEF IInv, Served
  <2> SUFFICES ASSUME NEW d \in Batches
               PROVE  /\ posts'[d].next \in 1..(Len(posts'[d].frames) + 1)
                      /\ posts'[d].stage = "sent" => posts'[d].next = 1
                      /\ \A i \in 1..Len(posts'[d].frames) :
                            /\ posts'[d].next <= i => handler'[posts'[d].frames[i]] = "none"
                            /\ posts'[d].stage \notin {"sent", "serving"} =>
                                  /\ i < posts'[d].next
                                  /\ handler'[posts'[d].frames[i]] \notin {"waiting", "running"}
    BY <1>3 DEF Served
  <2>1. CASE d # b
    <3>1. posts'[d] = posts[d]
      BY <1>3, <2>1
    <3>2. \A i \in 1..Len(posts[d].frames) :
             handler'[posts[d].frames[i]] = handler[posts[d].frames[i]]
      BY <1>4, <1>6, <1>7, <2>1
    <3> QED
      BY <2>0, <3>1, <3>2
  <2>2. CASE d = b
    <3>1. posts'[d] = p /\ p.frames = posts[b].frames /\ p.stage = posts[b].stage
      BY <1>3, <1>p, <2>2
    <3>2. /\ posts[b].next \in 1..(Len(posts[b].frames) + 1) /\ Len(posts[b].frames) \in Nat
          /\ p.next \in 1..(Len(posts[b].frames) + 1)
          /\ posts[b].next <= p.next
      <4>1. posts[b].next \in 1..(Len(posts[b].frames) + 1) /\ Len(posts[b].frames) \in Nat
        BY <1>2, <2>0
      <4> QED
        BY <1>n, <4>1
    <3>3. p.stage = "sent" => p.next = 1
      BY <1>n, <2>0, <3>1
    <3>4. ASSUME NEW i \in 1..Len(posts[b].frames), p.next <= i
          PROVE  handler'[posts[b].frames[i]] = "none"
      <4>1. posts[b].next <= i
        BY <3>2, <3>4
      <4>2. handler[posts[b].frames[i]] = "none"
        BY <2>0, <4>1
      <4>3. posts[b].frames[i] # q
        <5>1. CASE p.next = posts[b].next /\ handler[q] # "none"
          BY <4>2, <5>1
        <5>2. CASE /\ p.next = posts[b].next + 1
                   /\ posts[b].next \in 1..Len(posts[b].frames) /\ posts[b].frames[posts[b].next] = q
          <6>1. posts[b].next # i
            BY <3>2, <3>4, <5>2
          <6>2. \A k \in 1..Len(posts[b].frames) : posts[b].frames[i] = posts[b].frames[k] => i = k
            BY DEF IInv, SentOnce
          <6> QED
            BY <5>2, <6>1, <6>2
        <5> QED
          BY <1>n, <5>1, <5>2
      <4> QED
        BY <1>4, <1>7, <4>2, <4>3
    <3>5. ASSUME NEW i \in 1..Len(posts[b].frames), p.stage \notin {"sent", "serving"}
          PROVE  i < p.next /\ handler'[posts[b].frames[i]] \notin {"waiting", "running"}
      <4>1. p.next = posts[b].next /\ h \notin {"waiting", "running"}
        BY <1>n, <3>5
      <4>2. i < posts[b].next /\ handler[posts[b].frames[i]] \notin {"waiting", "running"}
        BY <2>0, <3>1, <3>5
      <4> QED
        BY <1>4, <1>7, <4>1, <4>2
    <3>6. posts'[d].frames = posts[b].frames /\ posts'[d].next = p.next /\ posts'[d].stage = p.stage
      BY <3>1
    <3> QED
      BY <3>2, <3>3, <3>4, <3>5, <3>6
  <2> QED
    BY <2>1, <2>2
<1>11. HandlersPosted' /\ ImportsExported'
  <2>1. HandlersPosted'
    <3> SUFFICES ASSUME NEW x \in Questions
                 PROVE  /\ handler'[x] # "none" => Posted(x)'
                        /\ ranOn'[x] # None => handler'[x] \notin {"none", "waiting"}
                        /\ handler'[x] = "streaming" => x \in Streams
      BY DEF HandlersPosted
    <3>1. CASE x = q
      BY <1>c, <1>3, <1>4, <1>5, <3>1
    <3>2. CASE x # q
      BY <1>3, <1>4, <3>2 DEF IInv, HandlersPosted
    <3> QED
      BY <3>1, <3>2
  <2>2. ImportsExported'
    BY <1>u DEF IInv, ImportsExported
  <2> QED
    BY <2>1, <2>2
<1>r. /\ p.replies = posts[b].replies \/ p.replies = Append(posts[b].replies, r)
      /\ Len(Append(posts[b].replies, r)) = Len(posts[b].replies) + 1
      /\ Len(posts[b].replies) \in Nat
      /\ Append(posts[b].replies, r)[Len(posts[b].replies) + 1] = r
      /\ \A i \in 1..Len(posts[b].replies) : Append(posts[b].replies, r)[i] = posts[b].replies[i]
      /\ 1..Len(Append(posts[b].replies, r)) = 1..Len(posts[b].replies) \cup {Len(posts[b].replies) + 1}
  <2>1. posts[b].replies \in Seq(Replies) /\ r \in Replies
    BY <1>2
  <2>2. /\ Len(Append(posts[b].replies, r)) = Len(posts[b].replies) + 1
        /\ Len(posts[b].replies) \in Nat
        /\ Append(posts[b].replies, r)[Len(posts[b].replies) + 1] = r
        /\ \A i \in 1..Len(posts[b].replies) : Append(posts[b].replies, r)[i] = posts[b].replies[i]
        /\ 1..Len(Append(posts[b].replies, r)) = 1..Len(posts[b].replies) \cup {Len(posts[b].replies) + 1}
    BY <2>1, Appended
  <2> QED
    BY <1>q, <2>2
<1>12. RepliesTrue'
  <2>1. ASSUME NEW d \in Batches, NEW i \in 1..Len(posts'[d].replies)
        PROVE  \/ posts'[d].replies[i] = r
               \/ i \in 1..Len(posts[d].replies) /\ posts'[d].replies[i] = posts[d].replies[i]
    <3>1. CASE d = b
      <4>1. posts'[d].replies = p.replies
        BY <1>3, <3>1
      <4> QED
        BY <1>r, <2>1, <3>1, <4>1
    <3>2. CASE d # b
      BY <1>3, <3>2
    <3> QED
      BY <3>1, <3>2
  <2> SUFFICES ASSUME NEW d \in Batches, NEW i \in 1..Len(posts'[d].replies)
               PROVE  /\ promise[posts'[d].replies[i].q] # "unused"
                      /\ posts'[d].replies[i].how = "ok" =>
                            \/ target[posts'[d].replies[i].q] = BootstrapCap
                            \/ handler'[posts'[d].replies[i].q] = "done"
                      /\ posts'[d].replies[i].id # 0 => posts'[d].replies[i].q \in Exporters
    BY <1>u, <1>3 DEF RepliesTrue
  <2>2. CASE posts'[d].replies[i] = r
    <3>1. promise[q] # "unused"
      BY <1>1, PostedMade DEF IInv
    <3> QED
      BY <1>q, <1>4, <2>2, <3>1
  <2>3. CASE i \in 1..Len(posts[d].replies) /\ posts'[d].replies[i] = posts[d].replies[i]
    <3>1. posts[d].replies[i].q \in Questions
      BY <1>1, <2>3, ReplyTyped
    <3>2. /\ promise[posts[d].replies[i].q] # "unused"
          /\ posts[d].replies[i].how = "ok" =>
                \/ target[posts[d].replies[i].q] = BootstrapCap
                \/ handler[posts[d].replies[i].q] = "done"
          /\ posts[d].replies[i].id # 0 => posts[d].replies[i].q \in Exporters
      BY <2>3 DEF IInv, RepliesTrue
    <3>3. handler[posts[d].replies[i].q] = "done" => handler'[posts[d].replies[i].q] = "done"
      BY <1>h, <1>4, <3>1
    <3> QED
      BY <2>3, <3>2, <3>3
  <2> QED
    BY <2>1, <2>2, <2>3
<1>13. ExportsOwn'
  <2> SUFFICES ASSUME NEW d \in Batches, NEW i \in 1..Len(posts'[d].exports)
               PROVE  Contains(posts'[d].frames, posts'[d].exports[i])
    BY <1>3 DEF ExportsOwn, Has
  <2>1. \/ posts'[d].exports[i] = q /\ d = b
        \/ i \in 1..Len(posts[d].exports) /\ posts'[d].exports[i] = posts[d].exports[i]
    <3>1. CASE d = b
      <4>1. posts'[d].exports = p.exports
        BY <1>3, <3>1
      <4>2. CASE p.exports = posts[b].exports
        BY <3>1, <4>1, <4>2
      <4>3. CASE q \in Exporters /\ p.exports = Append(posts[b].exports, q)
        <5>1. /\ Append(posts[b].exports, q)[Len(posts[b].exports) + 1] = q
              /\ \A k \in 1..Len(posts[b].exports) : Append(posts[b].exports, q)[k] = posts[b].exports[k]
              /\ 1..Len(Append(posts[b].exports, q)) = 1..Len(posts[b].exports) \cup {Len(posts[b].exports) + 1}
          BY <1>2, <4>3, Appended
        <5> QED
          BY <3>1, <4>1, <4>3, <5>1
      <4> QED
        BY <1>e, <4>2, <4>3
    <3>2. CASE d # b
      BY <1>3, <3>2
    <3> QED
      BY <3>1, <3>2
  <2>2. Has(d, posts'[d].exports[i])
    BY <2>1 DEF IInv, ExportsOwn
  <2> QED
    BY <1>3, <2>2 DEF Has
<1>14. Kept'
  <2> SUFFICES ASSUME ~closed, ~aborted, NEW x \in Questions, promise[x] = "pending"
               PROVE  Contains(queue', x) \/ \E d \in Batches' : (Has(d, x) /\ AtServer(d, x))'
    BY <1>u DEF Kept
  <2>1. CASE x = q
    <3>1. Has(b, q)'
      BY <1>3
    <3>2. AtServer(b, q)'
      <4>1. CASE h \in {"waiting", "running"} \/ (q \in Streams /\ h # "none")
        BY <1>4, <4>1 DEF AtServer
      <4>2. CASE p.replies = Append(posts[b].replies, r)
        <5>1. Len(posts[b].replies) + 1 \in 1..Len(p.replies) /\ p.replies[Len(posts[b].replies) + 1].q = q
          BY <1>q, <1>r, <4>2
        <5> QED
          BY <1>3, <5>1 DEF AtServer
      <4> QED
        BY <1>k, <4>1, <4>2
    <3> QED
      BY <1>3, <2>1, <3>1, <3>2
  <2>2. CASE x # q /\ ~Contains(queue, x)
    <3>1. PICK d \in Batches : Has(d, x) /\ AtServer(d, x)
      BY <2>2 DEF IInv, Kept
    <3>2. handler'[x] = handler[x]
      BY <1>4, <2>2
    <3>3. ASSUME NEW i \in posts[d].next..Len(posts[d].frames), posts[d].frames[i] = x
          PROVE  \E k \in posts'[d].next..Len(posts'[d].frames) : posts'[d].frames[k] = x
      <4>1. CASE d # b
        BY <1>3, <3>3, <4>1
      <4>2. CASE d = b
        <5>1. posts'[d] = p /\ posts'[d].frames = posts[b].frames
          BY <1>p, <1>3, <4>2
        <5>2. i \in p.next..Len(posts[b].frames)
          <6>1. p.next = posts[b].next + 1 => i # posts[b].next
            BY <1>n, <1>2, <2>2, <3>3, <4>2
          <6>2. posts[b].next \in Nat /\ Len(posts[b].frames) \in Nat
            BY <1>2
          <6> QED
            BY <1>n, <4>2, <6>1, <6>2
        <5> QED
          BY <3>3, <4>2, <5>1, <5>2
      <4> QED
        BY <4>1, <4>2
    <3>4. ASSUME NEW i \in 1..Len(posts[d].replies), posts[d].replies[i].q = x
          PROVE  \E k \in 1..Len(posts'[d].replies) : posts'[d].replies[k].q = x
      <4>1. CASE d # b
        BY <1>3, <3>4, <4>1
      <4>2. CASE d = b
        <5>1. posts'[d].replies = p.replies
          BY <1>3, <4>2
        <5>2. i \in 1..Len(p.replies) /\ p.replies[i] = posts[b].replies[i]
          BY <1>r, <4>2
        <5> QED
          BY <3>4, <4>2, <5>1, <5>2
      <4> QED
        BY <4>1, <4>2
    <3>5. AtServer(d, x)'
      BY <3>1, <3>2, <3>3, <3>4 DEF AtServer
    <3> QED
      BY <1>3, <3>1, <3>5
  <2>3. CASE Contains(queue, x)
    BY <1>u, <2>3
  <2> QED
    BY <2>1, <2>2, <2>3
<1>15. Isolated'
  <2>1. \A d \in Batches : \A x : Has(d, x)' <=> Has(d, x)
    BY <1>3 DEF Has
  <2>2. \A x \in Questions : handler[x] = "done" => handler'[x] = "done" /\ PipelineTarget(x)' = PipelineTarget(x)
    BY <1>h, <1>4 DEF PipelineTarget
  <2> SUFFICES ASSUME NEW d \in Batches, NEW x \in Questions, Has(d, x)
               PROVE  /\ target[x] \in Questions /\ ranOn'[x] # None =>
                            /\ Has(d, target[x]) /\ handler'[target[x]] = "done"
                            /\ ranOn'[x] = PipelineTarget(target[x])'
                      /\ ranOn'[x] \in Exporters => Has(d, ranOn'[x])
    BY <1>u, <1>3, <2>1 DEF Isolated
  <2>3. CASE x = q
    <3>1. d = b
      BY <1>6, <2>3
    <3> QED
      BY <1>u, <1>c, <1>4, <2>2, <2>3, <3>1
  <2>4. CASE x # q
    <3>1. ranOn'[x] = ranOn[x]
      BY <1>4, <2>4
    <3>2. /\ target[x] \in Questions /\ ranOn[x] # None =>
                 /\ Has(d, target[x]) /\ handler[target[x]] = "done"
                 /\ ranOn[x] = PipelineTarget(target[x])
          /\ ranOn[x] \in Exporters => Has(d, ranOn[x])
      BY DEF IInv, Isolated
    <3> QED
      BY <1>u, <2>2, <3>1, <3>2
  <2> QED
    BY <2>3, <2>4
<1> QED
  BY <1>8, <1>9, <1>10, <1>11, <1>12, <1>13, <1>14, <1>15 DEF IInv

\* p is what becomes of the POST b up to the answer of q: nothing, or the
\* frame of q is taken.
AtCall(b, q, p) ==
    /\ p \in Posts /\ p.frames = posts[b].frames /\ p.stage = posts[b].stage
    /\ p.exports = posts[b].exports /\ p.replies = posts[b].replies
    /\ \/ p.next = posts[b].next /\ handler[q] # "none"
       \/ /\ p.next = posts[b].next + 1
          /\ posts[b].next \in 1..Len(posts[b].frames) /\ posts[b].frames[posts[b].next] = q

\* A POST with one more reply.
LEMMA Replied ==
    ASSUME NEW p \in Posts, NEW q \in Questions, NEW how \in {"ok", "err"}, NEW id \in Nat
    PROVE  /\ Reply(p, q, how, id) \in Posts
           /\ Reply(p, q, how, id).frames = p.frames /\ Reply(p, q, how, id).next = p.next
           /\ Reply(p, q, how, id).stage = p.stage /\ Reply(p, q, how, id).exports = p.exports
           /\ Reply(p, q, how, id).replies = Append(p.replies, [q |-> q, how |-> how, id |-> id])
           /\ [q |-> q, how |-> how, id |-> id] \in Replies
<1>1. [q |-> q, how |-> how, id |-> id] \in Replies
  BY DEF Replies
<1>2. p.replies \in Seq(Replies)
  BY DEF Posts
<1>3. Append(p.replies, [q |-> q, how |-> how, id |-> id]) \in Seq(Replies)
  BY <1>1, <1>2, Appended
<1> QED
  BY <1>1, <1>3 DEF Reply, Posts

\* The capability a call ran on stays as it is.
LEMMA RanOnKept ==
    ASSUME IInv, NEW b \in Batches, NEW q \in Questions, Has(b, q)
    PROVE  /\ ranOn[q] \in Found /\ ranOn = [ranOn EXCEPT ![q] = ranOn[q]]
           /\ handler[q] \in Handlers /\ handler = [handler EXCEPT ![q] = handler[q]]
           /\ target[q] \in Questions /\ ranOn[q] # None =>
                 /\ Has(b, target[q]) /\ handler[target[q]] = "done"
                 /\ ranOn[q] = PipelineTarget(target[q])
           /\ ranOn[q] \in Exporters => Has(b, ranOn[q])
           /\ handler[q] \in {"none", "waiting"} => ranOn[q] = None
<1>1. /\ handler \in [Questions -> Handlers] /\ ranOn \in [Questions -> Found]
  BY DEF IInv, TypeOK, Handlers, Found
<1>2. /\ target[q] \in Questions /\ ranOn[q] # None =>
            /\ Has(b, target[q]) /\ handler[target[q]] = "done"
            /\ ranOn[q] = PipelineTarget(target[q])
      /\ ranOn[q] \in Exporters => Has(b, ranOn[q])
  BY DEF IInv, Isolated
<1>3. handler[q] \in {"none", "waiting"} => ranOn[q] = None
  BY DEF IInv, HandlersPosted
<1> QED
  BY <1>1, <1>2, <1>3

\* A call is answered with an exception.
LEMMA FailStep ==
    ASSUME IInv, NEW b \in Batches, NEW q \in Questions, Has(b, q), posts[b].stage = "serving",
           NEW p, AtCall(b, q, p), handler[q] \notin {"done", "failed"},
           Fail(b, q, p), UNCHANGED clientVars
    PROVE  IInv'
<1>1. /\ posts' = [posts EXCEPT ![b] = Reply(p, q, "err", 0)]
      /\ handler' = [handler EXCEPT ![q] = "failed"] /\ ranOn' = ranOn
  BY DEF Fail
<1>2. PICK r : r = [q |-> q, how |-> "err", id |-> 0]
  OBVIOUS
<1>3. PICK s : s = Reply(p, q, "err", 0)
  OBVIOUS
<1>4. /\ s \in Posts /\ s.frames = p.frames /\ s.next = p.next /\ s.stage = p.stage
      /\ s.exports = p.exports /\ s.replies = Append(p.replies, r) /\ r \in Replies
  <2>1. p \in Posts
    BY DEF AtCall
  <2>2. /\ Reply(p, q, "err", 0) \in Posts
        /\ Reply(p, q, "err", 0).frames = p.frames /\ Reply(p, q, "err", 0).next = p.next
        /\ Reply(p, q, "err", 0).stage = p.stage /\ Reply(p, q, "err", 0).exports = p.exports
        /\ Reply(p, q, "err", 0).replies = Append(p.replies, [q |-> q, how |-> "err", id |-> 0])
        /\ [q |-> q, how |-> "err", id |-> 0] \in Replies
    BY <2>1, Replied
  <2> QED
    BY <1>2, <1>3, <2>2
<1>5. PICK c \in Found : c = ranOn[q]
  BY RanOnKept
<1>6. /\ ranOn' = [ranOn EXCEPT ![q] = c]
      /\ target[q] \in Questions /\ c # None =>
            /\ Has(b, target[q]) /\ handler[target[q]] = "done" /\ c = PipelineTarget(target[q])
      /\ c \in Exporters => Has(b, c)
  BY <1>1, <1>5, RanOnKept
<1>7. r.q = q /\ r.how = "err" /\ r.id = 0
  BY <1>2
<1>8. /\ s.frames = posts[b].frames /\ s.stage = posts[b].stage /\ s.exports = posts[b].exports
      /\ s.replies = Append(posts[b].replies, r) /\ s.stage = "serving"
      /\ \/ s.next = posts[b].next /\ handler[q] # "none"
         \/ /\ s.next = posts[b].next + 1
            /\ posts[b].next \in 1..Len(posts[b].frames) /\ posts[b].frames[posts[b].next] = q
  BY <1>4 DEF AtCall
<1>9. "failed" \in Handlers
  BY DEF Handlers
<1>10. ServerMove(b, q, s, "failed", c, r)
  BY <1>1, <1>3, <1>6, <1>7, <1>8 DEF ServerMove
<1> QED
  BY <1>4, <1>9, <1>10, ServeStep

\* A call is refused; for a stream nobody hears it.
LEMMA RefuseStep ==
    ASSUME IInv, NEW b \in Batches, NEW q \in Questions, Has(b, q), posts[b].stage = "serving",
           NEW p, AtCall(b, q, p), handler[q] \notin {"done", "failed"},
           Refuse(b, q, p), UNCHANGED clientVars
    PROVE  IInv'
<1>1. CASE q \notin Streams
  BY <1>1, FailStep DEF Refuse
<1>2. CASE q \in Streams
  <2>1. /\ posts' = [posts EXCEPT ![b] = p]
        /\ handler' = [handler EXCEPT ![q] = "failed"] /\ ranOn' = ranOn
    BY <1>2 DEF Refuse
  <2>2. PICK c \in Found : c = ranOn[q]
    BY RanOnKept
  <2>3. /\ ranOn' = [ranOn EXCEPT ![q] = c]
        /\ target[q] \in Questions /\ c # None =>
              /\ Has(b, target[q]) /\ handler[target[q]] = "done" /\ c = PipelineTarget(target[q])
        /\ c \in Exporters => Has(b, c)
    BY <2>1, <2>2, RanOnKept
  <2>4. PICK r \in Replies : r.q = q /\ r.how = "err" /\ r.id = 0
    <3>1. /\ [q |-> q, how |-> "err", id |-> 0] \in Replies
          /\ [q |-> q, how |-> "err", id |-> 0].q = q
          /\ [q |-> q, how |-> "err", id |-> 0].how = "err"
          /\ [q |-> q, how |-> "err", id |-> 0].id = 0
      BY DEF Replies
    <3> QED
      BY <3>1
  <2>5. /\ p \in Posts /\ p.frames = posts[b].frames /\ p.stage = posts[b].stage
        /\ p.exports = posts[b].exports /\ p.replies = posts[b].replies /\ p.stage = "serving"
        /\ \/ p.next = posts[b].next /\ handler[q] # "none"
           \/ /\ p.next = posts[b].next + 1
              /\ posts[b].next \in 1..Len(posts[b].frames) /\ posts[b].frames[posts[b].next] = q
    BY DEF AtCall
  <2>6. "failed" \in Handlers
    BY DEF Handlers
  <2>7. ServerMove(b, q, p, "failed", c, r)
    BY <1>2, <2>1, <2>3, <2>4, <2>5 DEF ServerMove
  <2> QED
    BY <2>4, <2>5, <2>6, <2>7, ServeStep
<1> QED
  BY <1>1, <1>2

\* A call finds a capability of its session, and is refused or starts.
LEMMA DispatchStep ==
    ASSUME IInv, NEW b \in Batches, NEW q \in Questions, Has(b, q), posts[b].stage = "serving",
           NEW p, AtCall(b, q, p), handler[q] \notin {"done", "failed"},
           NEW c \in Found,
           target[q] \in Questions /\ c # None =>
              /\ Has(b, target[q]) /\ handler[target[q]] = "done"
              /\ c = PipelineTarget(target[q]),
           c \in Exporters => Has(b, c),
           Dispatch(b, q, p, c), UNCHANGED clientVars
    PROVE  IInv'
<1>1. CASE Refuse(b, q, p)
  BY <1>1, RefuseStep
<1>2. CASE /\ posts' = [posts EXCEPT ![b] = p]
           /\ handler' = [handler EXCEPT ![q] = IF q \in Streams THEN "streaming" ELSE "running"]
           /\ ranOn' = [ranOn EXCEPT ![q] = c]
  <2>1. PICK h \in Handlers : /\ h = IF q \in Streams THEN "streaming" ELSE "running"
                              /\ h \in {"streaming", "running"} /\ (h = "running" \/ q \in Streams)
    <3>1. /\ (IF q \in Streams THEN "streaming" ELSE "running") \in Handlers
          /\ (IF q \in Streams THEN "streaming" ELSE "running") \in {"streaming", "running"}
          /\ (IF q \in Streams THEN "streaming" ELSE "running") = "running" \/ q \in Streams
      BY DEF Handlers
    <3> QED
      BY <3>1
  <2>2. handler' = [handler EXCEPT ![q] = h]
    BY <1>2, <2>1
  <2>3. PICK r \in Replies : r.q = q /\ r.how = "err" /\ r.id = 0
    <3>1. /\ [q |-> q, how |-> "err", id |-> 0] \in Replies
          /\ [q |-> q, how |-> "err", id |-> 0].q = q
          /\ [q |-> q, how |-> "err", id |-> 0].how = "err"
          /\ [q |-> q, how |-> "err", id |-> 0].id = 0
      BY DEF Replies
    <3> QED
      BY <3>1
  <2>4. /\ p \in Posts /\ p.frames = posts[b].frames /\ p.stage = posts[b].stage
        /\ p.exports = posts[b].exports /\ p.replies = posts[b].replies /\ p.stage = "serving"
        /\ \/ p.next = posts[b].next /\ handler[q] # "none"
           \/ /\ p.next = posts[b].next + 1
              /\ posts[b].next \in 1..Len(posts[b].frames) /\ posts[b].frames[posts[b].next] = q
    BY DEF AtCall
  <2>5. h \in {"waiting", "running"} \/ (q \in Streams /\ h # "none")
    BY <2>1
  <2>6. h \notin {"none", "waiting"} /\ h # "done"
    BY <2>1
  <2>7. ServerMove(b, q, p, h, c, r)
    BY <1>2, <2>2, <2>3, <2>4, <2>5, <2>6 DEF ServerMove
  <2> QED
    BY <2>3, <2>4, <2>7, ServeStep
<1> QED
  BY <1>1, <1>2 DEF Dispatch

\* A method returns, perhaps a new export.
LEMMA SucceedStep ==
    ASSUME IInv, NEW b \in Batches, NEW q \in Questions, Has(b, q), posts[b].stage = "serving",
           handler[q] \in {"running", "streaming"},
           Succeed(b, q), UNCHANGED clientVars
    PROVE  IInv'
<1>1. handler' = [handler EXCEPT ![q] = "done"] /\ ranOn' = ranOn
  BY DEF Succeed
<1>2. PICK c \in Found : c = ranOn[q]
  BY RanOnKept
<1>3. /\ ranOn' = [ranOn EXCEPT ![q] = c]
      /\ target[q] \in Questions /\ c # None =>
            /\ Has(b, target[q]) /\ handler[target[q]] = "done" /\ c = PipelineTarget(target[q])
      /\ c \in Exporters => Has(b, c)
  BY <1>1, <1>2, RanOnKept
<1>4. posts[b] \in Posts /\ posts[b].exports \in Seq(Exporters)
  BY PostTyped DEF IInv
<1>5. \E s \in Posts, r \in Replies :
         /\ posts' = [posts EXCEPT ![b] = s]
         /\ s.frames = posts[b].frames /\ s.stage = posts[b].stage /\ s.next = posts[b].next
         /\ s.exports = posts[b].exports \/ (q \in Exporters /\ s.exports = Append(posts[b].exports, q))
         /\ s.replies = Append(posts[b].replies, r)
         /\ r.q = q /\ (r.id # 0 => q \in Exporters)
  <2>1. CASE q \in Exporters
    <3>1. PICK e : e = [posts[b] EXCEPT !.exports = Append(@, q)]
      OBVIOUS
    <3>2. Append(posts[b].exports, q) \in Seq(Exporters) /\ Len(posts[b].exports) + 1 \in Nat
      BY <1>4, <2>1, Appended
    <3>3. /\ e \in Posts /\ e.frames = posts[b].frames /\ e.stage = posts[b].stage
          /\ e.next = posts[b].next /\ e.exports = Append(posts[b].exports, q)
          /\ e.replies = posts[b].replies
      BY <1>4, <3>1, <3>2 DEF Posts
    <3>4. PICK id \in Nat : id = Len(posts[b].exports) + 1
      BY <3>2
    <3>5. posts' = [posts EXCEPT ![b] = Reply(e, q, "ok", id)]
      BY <2>1, <3>1, <3>4 DEF Succeed
    <3>6. /\ Reply(e, q, "ok", id) \in Posts
          /\ Reply(e, q, "ok", id).frames = e.frames /\ Reply(e, q, "ok", id).next = e.next
          /\ Reply(e, q, "ok", id).stage = e.stage /\ Reply(e, q, "ok", id).exports = e.exports
          /\ Reply(e, q, "ok", id).replies = Append(e.replies, [q |-> q, how |-> "ok", id |-> id])
          /\ [q |-> q, how |-> "ok", id |-> id] \in Replies
      <4>1. e \in Posts /\ q \in Questions /\ id \in Nat /\ "ok" \in {"ok", "err"}
        BY <3>3
      <4> QED
        BY <4>1, Replied
    <3>7. PICK s, r : s = Reply(e, q, "ok", id) /\ r = [q |-> q, how |-> "ok", id |-> id]
      OBVIOUS
    <3>8. s \in Posts /\ r \in Replies /\ r.q = q /\ posts' = [posts EXCEPT ![b] = s]
      BY <3>5, <3>6, <3>7
    <3>9. /\ s.frames = posts[b].frames /\ s.stage = posts[b].stage /\ s.next = posts[b].next
          /\ s.exports = Append(posts[b].exports, q) /\ s.replies = Append(posts[b].replies, r)
      BY <3>3, <3>6, <3>7
    <3> QED
      BY <2>1, <3>8, <3>9
  <2>2. CASE q \notin Exporters
    <3>1. posts' = [posts EXCEPT ![b] = Reply(posts[b], q, "ok", 0)]
      BY <2>2 DEF Succeed
    <3>2. /\ Reply(posts[b], q, "ok", 0) \in Posts
          /\ Reply(posts[b], q, "ok", 0).frames = posts[b].frames
          /\ Reply(posts[b], q, "ok", 0).next = posts[b].next
          /\ Reply(posts[b], q, "ok", 0).stage = posts[b].stage
          /\ Reply(posts[b], q, "ok", 0).exports = posts[b].exports
          /\ Reply(posts[b], q, "ok", 0).replies = Append(posts[b].replies, [q |-> q, how |-> "ok", id |-> 0])
          /\ [q |-> q, how |-> "ok", id |-> 0] \in Replies
      <4>1. posts[b] \in Posts /\ q \in Questions /\ 0 \in Nat /\ "ok" \in {"ok", "err"}
        BY <1>4
      <4> QED
        BY <4>1, Replied
    <3>3. [q |-> q, how |-> "ok", id |-> 0].q = q /\ [q |-> q, how |-> "ok", id |-> 0].id = 0
      OBVIOUS
    <3>4. PICK s, r : s = Reply(posts[b], q, "ok", 0) /\ r = [q |-> q, how |-> "ok", id |-> 0]
      OBVIOUS
    <3> QED
      BY <3>1, <3>2, <3>3, <3>4
  <2> QED
    BY <2>1, <2>2
<1>6. PICK s \in Posts, r \in Replies :
         /\ posts' = [posts EXCEPT ![b] = s]
         /\ s.frames = posts[b].frames /\ s.stage = posts[b].stage /\ s.next = posts[b].next
         /\ s.exports = posts[b].exports \/ (q \in Exporters /\ s.exports = Append(posts[b].exports, q))
         /\ s.replies = Append(posts[b].replies, r)
         /\ r.q = q /\ (r.id # 0 => q \in Exporters)
  BY <1>5
<1>7. "done" \in Handlers
  BY DEF Handlers
<1>8. ServerMove(b, q, s, "done", c, r)
  BY <1>1, <1>3, <1>6 DEF ServerMove
<1> QED
  BY <1>6, <1>7, <1>8, ServeStep

\* The frame a session dispatches next is of a call nobody handled yet.
LEMMA NextFrame ==
    ASSUME IInv, NEW b \in Batches, Serving(b), ~AllDispatched(b)
    PROVE  /\ posts[b].next \in 1..Len(posts[b].frames)
           /\ posts[b].frames[posts[b].next] \in Questions
           /\ Has(b, posts[b].frames[posts[b].next])
           /\ handler[posts[b].frames[posts[b].next]] = "none"
           /\ ranOn[posts[b].frames[posts[b].next]] = None
           /\ AtCall(b, posts[b].frames[posts[b].next], [posts[b] EXCEPT !.next = @ + 1])
<1>1. posts[b] \in Posts /\ posts[b].frames \in Seq(Questions) /\ posts[b].next \in Nat
  BY PostTyped DEF IInv
<1>2. posts[b].next \in 1..(Len(posts[b].frames) + 1) /\ ~(posts[b].next > Len(posts[b].frames))
  BY DEF IInv, Served, AllDispatched
<1>3. posts[b].next \in 1..Len(posts[b].frames)
  BY <1>1, <1>2
<1>4. posts[b].frames[posts[b].next] \in Questions /\ Has(b, posts[b].frames[posts[b].next])
  BY <1>1, <1>3 DEF Has, Contains
<1>5. handler[posts[b].frames[posts[b].next]] = "none"
  BY <1>1, <1>3 DEF IInv, Served
<1>6. ranOn[posts[b].frames[posts[b].next]] = None
  BY <1>4, <1>5 DEF IInv, HandlersPosted
<1>7. AtCall(b, posts[b].frames[posts[b].next], [posts[b] EXCEPT !.next = @ + 1])
  <2>0. PICK n \in Nat : n = posts[b].next + 1
    BY <1>1
  <2>1. PICK p : p = [posts[b] EXCEPT !.next = n]
    OBVIOUS
  <2>2. /\ p \in Posts /\ p.frames = posts[b].frames /\ p.stage = posts[b].stage
        /\ p.exports = posts[b].exports /\ p.replies = posts[b].replies /\ p.next = n
    BY <1>1, <2>1 DEF Posts
  <2>3. AtCall(b, posts[b].frames[posts[b].next], p)
    BY <1>3, <2>0, <2>2 DEF AtCall
  <2>4. p = [posts[b] EXCEPT !.next = @ + 1]
    BY <2>0, <2>1
  <2> QED
    BY <2>3, <2>4
<1> QED
  BY <1>3, <1>4, <1>5, <1>6, <1>7

\* A capability found by its id is the bootstrap or an export of the session.
LEMMA LocalFound ==
    ASSUME IInv, NEW b \in Batches, NEW id \in Nat
    PROVE  /\ LocalCap(b, id) \in Found
           /\ LocalCap(b, id) \in Exporters => Has(b, LocalCap(b, id))
<1>1. posts[b].exports \in Seq(Exporters) /\ Len(posts[b].exports) \in Nat
  BY PostTyped DEF IInv
<1>2. CASE id = 0
  <2>1. BootstrapCap \notin Exporters
    OBVIOUS
  <2> QED
    BY <1>2, <2>1 DEF LocalCap, Found
<1>3. CASE id # 0 /\ id <= Len(posts[b].exports)
  <2>1. id \in 1..Len(posts[b].exports)
    BY <1>1, <1>3
  <2>2. posts[b].exports[id] \in Exporters /\ Has(b, posts[b].exports[id])
    BY <1>1, <2>1 DEF IInv, ExportsOwn
  <2> QED
    BY <1>3, <2>2 DEF LocalCap, Found
<1>4. CASE id # 0 /\ ~(id <= Len(posts[b].exports))
  <2>1. None \notin Exporters
    OBVIOUS
  <2> QED
    BY <1>4, <2>1 DEF LocalCap, Found
<1> QED
  BY <1>2, <1>3, <1>4

\* What a resolved call offers to the calls on its promise.
LEMMA PipelineFound ==
    ASSUME IInv, NEW b \in Batches, NEW t \in Questions, Resolved(b, t)
    PROVE  /\ Has(b, t) /\ handler[t] = "done"
           /\ PipelineTarget(t) \in Found
           /\ PipelineTarget(t) \in Exporters => Has(b, PipelineTarget(t))
<1>1. Has(b, t) /\ handler[t] = "done"
  BY DEF Resolved, Has
<1>2. ranOn[t] \in Found /\ (ranOn[t] \in Exporters => Has(b, ranOn[t]))
  BY <1>1, RanOnKept
<1> QED
  BY <1>1, <1>2 DEF PipelineTarget, Found

\* A frame is dispatched.
LEMMA FrameStep ==
    ASSUME IInv, NEW b \in Batches, DispatchFrame(b)
    PROVE  IInv'
<1>1. PICK q : q = posts[b].frames[posts[b].next]
  OBVIOUS
<1>2. PICK p : p = [posts[b] EXCEPT !.next = @ + 1]
  OBVIOUS
<1>3. Serving(b) /\ ~AllDispatched(b) /\ UNCHANGED clientVars /\ posts[b].stage = "serving"
  BY DEF DispatchFrame, Serving
<1>4. /\ q \in Questions /\ Has(b, q) /\ handler[q] = "none" /\ ranOn[q] = None /\ AtCall(b, q, p)
  BY <1>1, <1>2, <1>3, NextFrame
<1>5. CASE /\ target[q] = BootstrapCap
           /\ posts' = [posts EXCEPT ![b] = Reply(p, q, "ok", 0)]
           /\ UNCHANGED <<handler, ranOn>>
  <2>1. /\ p \in Posts /\ p.frames = posts[b].frames /\ p.stage = "serving" /\ p.exports = posts[b].exports
        /\ p.replies = posts[b].replies /\ p.next = posts[b].next + 1
        /\ posts[b].next \in 1..Len(posts[b].frames) /\ posts[b].frames[posts[b].next] = q
    BY <1>3, <1>4, NextFrame DEF AtCall
  <2>2. PICK r : r = [q |-> q, how |-> "ok", id |-> 0]
    OBVIOUS
  <2>3. PICK s : s = Reply(p, q, "ok", 0)
    OBVIOUS
  <2>4. /\ s \in Posts /\ s.frames = p.frames /\ s.next = p.next /\ s.stage = p.stage
        /\ s.exports = p.exports /\ s.replies = Append(p.replies, r) /\ r \in Replies
    <3>1. /\ Reply(p, q, "ok", 0) \in Posts
          /\ Reply(p, q, "ok", 0).frames = p.frames /\ Reply(p, q, "ok", 0).next = p.next
          /\ Reply(p, q, "ok", 0).stage = p.stage /\ Reply(p, q, "ok", 0).exports = p.exports
          /\ Reply(p, q, "ok", 0).replies = Append(p.replies, [q |-> q, how |-> "ok", id |-> 0])
          /\ [q |-> q, how |-> "ok", id |-> 0] \in Replies
      <4>1. p \in Posts /\ q \in Questions /\ 0 \in Nat /\ "ok" \in {"ok", "err"}
        BY <1>4, <2>1
      <4> QED
        BY <4>1, Replied
    <3> QED
      BY <2>2, <2>3, <3>1
  <2>5. /\ handler' = [handler EXCEPT ![q] = "none"] /\ ranOn' = [ranOn EXCEPT ![q] = None]
        /\ "none" \in Handlers /\ None \in Found /\ None \notin Exporters
    <3>1. "none" \in Handlers /\ None \in Found /\ None \notin Exporters
      BY DEF Handlers, Found
    <3>2. handler = [handler EXCEPT ![q] = handler[q]] /\ ranOn = [ranOn EXCEPT ![q] = ranOn[q]]
      BY <1>4, RanOnKept
    <3> QED
      BY <1>4, <1>5, <3>1, <3>2
  <2>6. r.q = q /\ r.id = 0
    BY <2>2
  <2>7. ServerMove(b, q, s, "none", None, r)
    BY <1>3, <1>4, <1>5, <2>1, <2>3, <2>4, <2>5, <2>6 DEF ServerMove
  <2> QED
    BY <1>4, <2>4, <2>5, <2>7, ServeStep
<1>6. CASE target[q] = ImportedCap /\ \E c \in Found :
              /\ c = LocalCap(b, IF capOf[q] = None THEN 0 ELSE importId[capOf[q]])
              /\ IF c = None THEN Refuse(b, q, p) ELSE Dispatch(b, q, p, c)
  <2>1. PICK c \in Found :
              /\ c = LocalCap(b, IF capOf[q] = None THEN 0 ELSE importId[capOf[q]])
              /\ IF c = None THEN Refuse(b, q, p) ELSE Dispatch(b, q, p, c)
    BY <1>6
  <2>2. CASE c = None
    BY <1>3, <1>4, <2>1, <2>2, RefuseStep
  <2>3. CASE c # None
    <3>1. PICK id \in Nat : id = IF capOf[q] = None THEN 0 ELSE importId[capOf[q]]
      <4>1. capOf[q] \in Exporters \cup {None} /\ importId \in [Questions -> Nat]
        BY <1>4 DEF IInv, TypeOK
      <4> QED
        BY <4>1
    <3>2. c \in Exporters => Has(b, c)
      BY <2>1, <3>1, LocalFound
    <3>3. target[q] \notin Questions
      BY <1>6
    <3> QED
      BY <1>3, <1>4, <2>1, <2>3, <3>2, <3>3, DispatchStep
  <2> QED
    BY <2>2, <2>3
<1>7. CASE target[q] \in Questions /\ Resolved(b, target[q]) /\ Dispatch(b, q, p, PipelineTarget(target[q]))
  <2>1. PICK c \in Found : c = PipelineTarget(target[q]) /\ (c \in Exporters => Has(b, c))
    BY <1>7, PipelineFound
  <2>2. Has(b, target[q]) /\ handler[target[q]] = "done"
    BY <1>7, PipelineFound
  <2> QED
    BY <1>3, <1>4, <1>7, <2>1, <2>2, DispatchStep
<1>8. CASE /\ posts' = [posts EXCEPT ![b] = p]
           /\ handler' = [handler EXCEPT ![q] = "waiting"] /\ ranOn' = ranOn
  <2>1. /\ p \in Posts /\ p.frames = posts[b].frames /\ p.stage = "serving" /\ p.exports = posts[b].exports
        /\ p.replies = posts[b].replies /\ p.next = posts[b].next + 1
        /\ posts[b].next \in 1..Len(posts[b].frames) /\ posts[b].frames[posts[b].next] = q
    BY <1>3, <1>4, NextFrame DEF AtCall
  <2>2. PICK r \in Replies : r.q = q /\ r.how = "err" /\ r.id = 0
    <3>1. /\ [q |-> q, how |-> "err", id |-> 0] \in Replies
          /\ [q |-> q, how |-> "err", id |-> 0].q = q
          /\ [q |-> q, how |-> "err", id |-> 0].how = "err"
          /\ [q |-> q, how |-> "err", id |-> 0].id = 0
      BY <1>4 DEF Replies
    <3> QED
      BY <3>1
  <2>3. ranOn' = [ranOn EXCEPT ![q] = None] /\ "waiting" \in Handlers /\ None \in Found /\ None \notin Exporters
    <3>1. "waiting" \in Handlers /\ None \in Found /\ None \notin Exporters
      BY DEF Handlers, Found
    <3>2. ranOn = [ranOn EXCEPT ![q] = ranOn[q]]
      BY <1>4, RanOnKept
    <3> QED
      BY <1>4, <1>8, <3>1, <3>2
  <2>4. ServerMove(b, q, p, "waiting", None, r)
    BY <1>3, <1>4, <1>8, <2>1, <2>2, <2>3 DEF ServerMove
  <2> QED
    BY <1>4, <2>1, <2>3, <2>4, ServeStep
<1>9. \/ /\ target[q] = BootstrapCap
         /\ posts' = [posts EXCEPT ![b] = Reply(p, q, "ok", 0)]
         /\ UNCHANGED <<handler, ranOn>>
      \/ /\ target[q] = ImportedCap
         /\ \E c \in Found :
              /\ c = LocalCap(b, IF capOf[q] = None THEN 0 ELSE importId[capOf[q]])
              /\ IF c = None THEN Refuse(b, q, p) ELSE Dispatch(b, q, p, c)
      \/ target[q] \in Questions /\ Resolved(b, target[q]) /\ Dispatch(b, q, p, PipelineTarget(target[q]))
      \/ /\ posts' = [posts EXCEPT ![b] = p]
         /\ handler' = [handler EXCEPT ![q] = "waiting"] /\ ranOn' = ranOn
  <2>1. LocalCap(b, IF capOf[q] = None THEN 0 ELSE importId[capOf[q]]) \in Found
    <3>1. capOf[q] \in Exporters \cup {None} /\ importId \in [Questions -> Nat]
      BY <1>4 DEF IInv, TypeOK
    <3>2. (IF capOf[q] = None THEN 0 ELSE importId[capOf[q]]) \in Nat
      BY <3>1
    <3> QED
      BY <3>2, LocalFound
  <2>2. \/ /\ target[q] = BootstrapCap
           /\ posts' = [posts EXCEPT ![b] = Reply(p, q, "ok", 0)]
           /\ UNCHANGED <<handler, ranOn>>
        \/ /\ target[q] = ImportedCap
           /\ LET c == LocalCap(b, IF capOf[q] = None THEN 0 ELSE importId[capOf[q]])
              IN  IF c = None THEN Refuse(b, q, p) ELSE Dispatch(b, q, p, c)
        \/ /\ target[q] \in Questions
           /\ IF Resolved(b, target[q]) THEN Dispatch(b, q, p, PipelineTarget(target[q]))
              ELSE /\ posts' = [posts EXCEPT ![b] = p]
                   /\ handler' = [handler EXCEPT ![q] = "waiting"]
                   /\ UNCHANGED ranOn
    BY <1>1, <1>2 DEF DispatchFrame
  <2> QED
    BY <2>1, <2>2
<1> QED
  BY <1>5, <1>6, <1>7, <1>8, <1>9

\* A call at its handler, or waiting for its target, has its frame behind it.
LEMMA AtHandler ==
    ASSUME IInv, NEW b \in Batches, NEW q, Has(b, q), handler[q] # "none"
    PROVE  q \in Questions /\ AtCall(b, q, posts[b])
<1>1. q \in Questions
  BY PostedMade DEF IInv
<1>2. posts[b] \in Posts
  BY PostTyped DEF IInv
<1> QED
  BY <1>1, <1>2 DEF AtCall

\* The target of a call is there.
LEMMA ResumeStep ==
    ASSUME IInv, NEW b \in Batches, NEW q \in Questions, ResumePipelined(b, q)
    PROVE  IInv'
<1>1. /\ Has(b, q) /\ handler[q] = "waiting" /\ UNCHANGED clientVars /\ posts[b].stage = "serving"
      /\ \/ Refuse(b, q, posts[b])
         \/ Resolved(b, target[q]) /\ Dispatch(b, q, posts[b], PipelineTarget(target[q]))
  BY DEF ResumePipelined, Has, Serving
<1>2. AtCall(b, q, posts[b])
  BY <1>1, AtHandler
<1>3. CASE Refuse(b, q, posts[b])
  BY <1>1, <1>2, <1>3, RefuseStep
<1>4. CASE Resolved(b, target[q]) /\ Dispatch(b, q, posts[b], PipelineTarget(target[q]))
  <2>1. Has(b, target[q])
    BY <1>4 DEF Resolved, Has
  <2>2. target[q] \in Questions
    BY <2>1, PostedMade DEF IInv
  <2>3. PICK c \in Found : c = PipelineTarget(target[q]) /\ (c \in Exporters => Has(b, c))
    BY <1>4, <2>2, PipelineFound
  <2>4. Has(b, target[q]) /\ handler[target[q]] = "done"
    BY <1>4, <2>2, PipelineFound
  <2> QED
    BY <1>1, <1>2, <1>4, <2>3, <2>4, DispatchStep
<1> QED
  BY <1>1, <1>3, <1>4

\* A method returns or throws.
LEMMA ReturnStep ==
    ASSUME IInv, NEW b \in Batches, NEW q \in Questions, HandlerReturns(b, q)
    PROVE  IInv'
<1>1. /\ Has(b, q) /\ handler[q] = "running" /\ UNCHANGED clientVars /\ posts[b].stage = "serving"
      /\ Succeed(b, q) \/ Fail(b, q, posts[b])
  BY DEF HandlerReturns, Has, Serving, Awaitable
<1>2. AtCall(b, q, posts[b])
  BY <1>1, AtHandler
<1> QED
  BY <1>1, <1>2, SucceedStep, FailStep

\* A stream ends, while its POST is served or too late.
LEMMA StreamStep ==
    ASSUME IInv, NEW b \in Batches, NEW q \in Questions, StreamEnds(b, q)
    PROVE  IInv'
<1>1. /\ Has(b, q) /\ handler[q] = "streaming" /\ UNCHANGED clientVars
      /\ IF Serving(b) THEN Succeed(b, q) \/ Fail(b, q, posts[b])
         ELSE /\ \E how \in {"done", "failed"} : handler' = [handler EXCEPT ![q] = how]
              /\ UNCHANGED <<posts, ranOn>>
  BY DEF StreamEnds, Has
<1>2. AtCall(b, q, posts[b])
  BY <1>1, AtHandler
<1>3. CASE Serving(b)
  BY <1>1, <1>2, <1>3, SucceedStep, FailStep DEF Serving
<1>4. CASE ~Serving(b)
  <2>1. PICK h \in Handlers : h \in {"done", "failed"} /\ handler' = [handler EXCEPT ![q] = h]
    BY <1>1, <1>4 DEF Handlers
  <2>2. posts \in Seq(Posts) /\ posts[b] \in Posts
    BY PostTyped DEF IInv
  <2>3. posts' = [posts EXCEPT ![b] = posts[b]]
    BY <1>1, <1>4, <2>2 DEF Batches
  <2>4. PICK c \in Found : c = ranOn[q]
    BY <1>1, RanOnKept
  <2>5. /\ ranOn' = [ranOn EXCEPT ![q] = c]
        /\ target[q] \in Questions /\ c # None =>
              /\ Has(b, target[q]) /\ handler[target[q]] = "done" /\ c = PipelineTarget(target[q])
        /\ c \in Exporters => Has(b, c)
    BY <1>1, <1>4, <2>4, RanOnKept
  <2>6. PICK r \in Replies : r.q = q /\ r.how = "err" /\ r.id = 0
    <3>1. /\ [q |-> q, how |-> "err", id |-> 0] \in Replies
          /\ [q |-> q, how |-> "err", id |-> 0].q = q
          /\ [q |-> q, how |-> "err", id |-> 0].how = "err"
          /\ [q |-> q, how |-> "err", id |-> 0].id = 0
      BY DEF Replies
    <3> QED
      BY <3>1
  <2>7. q \in Streams
    BY <1>1 DEF IInv, HandlersPosted
  <2>8. ServerMove(b, q, posts[b], h, c, r)
    BY <1>1, <2>1, <2>3, <2>5, <2>6, <2>7 DEF ServerMove
  <2> QED
    BY <1>1, <2>1, <2>2, <2>4, <2>6, <2>8, ServeStep
<1> QED
  BY <1>3, <1>4

-----------------------------------------------------------------------------
(* The invariant is inductive *)

\* Nothing was made yet.
LEMMA InitIInv == Init => IInv
<1> SUFFICES ASSUME Init PROVE IInv
  OBVIOUS
<1>1. /\ target = [q \in Questions |-> None] /\ capOf = [q \in Questions |-> None]
      /\ promise = [q \in Questions |-> "unused"] /\ importId = [q \in Questions |-> 0]
      /\ aborted \in BOOLEAN /\ closed = FALSE /\ queue = <<>> /\ posts = <<>>
      /\ handler = [q \in Questions |-> "none"] /\ ranOn = [q \in Questions |-> None]
  BY DEF Init
<1>2. Batches = {} /\ Len(queue) = 0
  BY <1>1 DEF Batches
<1>3. \A q : ~Contains(queue, q) /\ ~Posted(q)
  BY <1>2 DEF Contains, Posted
<1>4. TypeOK
  <2>1. queue \in Seq(Questions) /\ posts \in Seq(Posts)
    BY <1>1
  <2>2. posts \in Seq([frames : Seq(Questions), next : Nat, exports : Seq(Exporters),
                       stage : {"sent", "serving", "answered", "receiving", "over"},
                       replies : Seq([q : Questions, how : {"ok", "err"}, id : Nat])])
    BY <2>1 DEF Posts, Stages, Replies
  <2> QED
    BY <1>1, <2>1, <2>2 DEF TypeOK
<1>5. SentOnce
  BY <1>2, <1>3 DEF SentOnce
<1>6. Served /\ RepliesTrue /\ ExportsOwn /\ Isolated
  BY <1>2 DEF Served, RepliesTrue, ExportsOwn, Isolated
<1>7. HandlersPosted /\ ImportsExported /\ Kept
  BY <1>1 DEF HandlersPosted, ImportsExported, Kept
<1> QED
  BY <1>4, <1>5, <1>6, <1>7 DEF IInv

\* The client closes, or a POST fails: what is pending is rejected.
LEMMA CloseStep ==
    ASSUME IInv, CloseClient
    PROVE  IInv'
<1>1. /\ UNCHANGED <<target, capOf, importId, aborted, posts, handler, ranOn>>
      /\ closed' = TRUE /\ queue' = <<>>
      /\ promise' = [q \in Questions |-> IF promise[q] = "pending" THEN "err" ELSE promise[q]]
  BY DEF CloseClient
<1>2. promise \in [Questions -> {"unused", "pending", "ok", "err"}]
  BY DEF IInv, TypeOK
<1>3. /\ promise' \in [Questions -> {"unused", "pending", "ok", "err"}]
      /\ \A q \in Questions : promise'[q] # promise[q] => promise[q] = "pending" /\ promise'[q] = "err"
  BY <1>1, <1>2
<1> QED
  BY <1>1, <1>3, SettleStep

\* Every action keeps the invariant.
LEMMA NextIInv == IInv /\ [Next]_vars => IInv'
<1> SUFFICES ASSUME IInv, [Next]_vars PROVE IInv'
  OBVIOUS
<1>1. ASSUME NEW q \in Questions, Bootstrap(q) PROVE IInv'
  BY <1>1, IssueStep DEF Bootstrap
<1>2. ASSUME NEW q \in Questions, SignalAborts(q) PROVE IInv'
  <2>1. /\ UNCHANGED <<target, capOf, importId, aborted, closed, queue, posts, handler, ranOn>>
        /\ promise[q] = "pending" /\ promise' = [promise EXCEPT ![q] = "err"]
    BY <1>2 DEF SignalAborts
  <2>2. promise \in [Questions -> {"unused", "pending", "ok", "err"}] /\ closed \in BOOLEAN
    BY DEF IInv, TypeOK
  <2>3. /\ promise' \in [Questions -> {"unused", "pending", "ok", "err"}]
        /\ \A p \in Questions : promise'[p] # promise[p] => promise[p] = "pending" /\ promise'[p] = "err"
    BY <2>1, <2>2
  <2> QED
    BY <2>1, <2>2, <2>3, SettleStep
<1>3. ASSUME NEW q \in Questions, NEW t \in Questions \cup {None}, Call(q, t) PROVE IInv'
  <2>1. CASE Issue(q, ImportedCap, None)
    BY <2>1, IssueStep
  <2>2. CASE t \in Questions /\ Issue(q, t, None)
    BY <2>2, IssueStep
  <2>3. CASE t \in Questions /\ importId[t] # 0 /\ Issue(q, ImportedCap, t)
    <3>1. t \in Exporters
      BY <2>3 DEF IInv, ImportsExported
    <3> QED
      BY <2>3, <3>1, IssueStep
  <2> QED
    BY <1>3, <2>1, <2>2, <2>3 DEF Call
<1>4. CASE Flush
  BY <1>4, FlushStep
<1>5. CASE ClientCloses \/ PostFails
  BY <1>5, CloseStep DEF ClientCloses, PostFails
<1>6. ASSUME NEW b \in Batches, Arrive(b) PROVE IInv'
  <2>1. "serving" \in Stages \ {"sent"}
    BY DEF Stages
  <2> QED
    BY <1>6, <2>1, StageStep DEF Arrive
<1>7. ASSUME NEW b \in Batches, DispatchFrame(b) PROVE IInv'
  BY <1>7, FrameStep
<1>8. ASSUME NEW b \in Batches, Respond(b) PROVE IInv'
  <2>1. "answered" \in Stages \ {"sent"}
    BY DEF Stages
  <2>2. \A i \in 1..Len(posts[b].frames) :
            /\ i < posts[b].next
            /\ handler[posts[b].frames[i]] \notin {"waiting", "running"}
    BY <1>8, DrainedStep DEF Respond
  <2> QED
    BY <1>8, <2>1, <2>2, StageStep DEF Respond
<1>9. ASSUME NEW b \in Batches, posts[b].stage \notin {"sent", "serving"}
      PROVE  \A i \in 1..Len(posts[b].frames) :
                 /\ i < posts[b].next
                 /\ handler[posts[b].frames[i]] \notin {"waiting", "running"}
  BY <1>9 DEF IInv, Served
<1>10. ASSUME NEW b \in Batches, Receive(b) PROVE IInv'
  <2>1. PICK s \in Stages \ {"sent"} : s = IF closed THEN "over" ELSE "receiving"
    BY DEF Stages
  <2>2. posts[b].stage = "answered" /\ posts' = [posts EXCEPT ![b].stage = s]
        /\ UNCHANGED <<clientVars, handler, ranOn>>
    BY <1>10, <2>1 DEF Receive
  <2> QED
    BY <1>9, <2>2, StageStep
<1>11. ASSUME NEW b \in Batches, HandleReply(b) PROVE IInv'
  <2>1. CASE posts[b].replies = <<>>
    <3>1. "over" \in Stages \ {"sent"}
      BY DEF Stages
    <3>2. posts[b].stage = "receiving" /\ posts' = [posts EXCEPT ![b].stage = "over"]
          /\ UNCHANGED <<clientVars, handler, ranOn>>
      BY <1>11, <2>1 DEF HandleReply
    <3> QED
      BY <1>9, <3>1, <3>2, StageStep
  <2>2. CASE posts[b].replies # <<>>
    BY <1>11, <2>2, ReplyTaken
  <2> QED
    BY <2>1, <2>2
<1>12. ASSUME NEW b \in Batches, NEW q \in Questions,
              ResumePipelined(b, q) \/ HandlerReturns(b, q) \/ StreamEnds(b, q)
       PROVE  IInv'
  BY <1>12, ResumeStep, ReturnStep, StreamStep
<1>13. CASE UNCHANGED vars
  <2>1. /\ UNCHANGED <<target, capOf, importId, aborted, posts, handler, ranOn>>
        /\ promise' = promise /\ closed' = closed /\ queue' = queue
    BY <1>13 DEF vars
  <2>2. promise' \in [Questions -> {"unused", "pending", "ok", "err"}] /\ closed' \in BOOLEAN
    BY <2>1 DEF IInv, TypeOK
  <2> QED
    BY <2>1, <2>2, SettleStep
<1> QED
  BY <1>1, <1>2, <1>3, <1>4, <1>5, <1>6, <1>7, <1>8, <1>10, <1>11, <1>12, <1>13 DEF Next, PostStep

\* The invariant of the client and the sessions holds throughout, for every
\* set of calls: it is what the other theorems rest on.
THEOREM Inductive == Spec => []IInv
  BY InitIInv, NextIInv, PTL DEF Spec

-----------------------------------------------------------------------------
(* What it gives *)

\* BatchOf finds the one POST of a call.
LEMMA BatchFound ==
    ASSUME IInv, NEW b \in Batches, NEW q, Has(b, q)
    PROVE  BatchOf(q) = b /\ Posted(q)
<1>1. \E d \in Batches : Contains(posts[d].frames, q)
  BY DEF Has
<1>2. BatchOf(q) \in Batches /\ Contains(posts[BatchOf(q)].frames, q)
  BY <1>1 DEF BatchOf
<1>3. Has(BatchOf(q), q)
  BY <1>2 DEF Has
<1>4. BatchOf(q) = b
  BY <1>2, <1>3, OneBatch DEF IInv
<1> QED
  BY <1>1, <1>4 DEF Posted

\* js/http_batch.mjs, doFlush, serveHttpBatch and js/rpc.mjs, idle(): while the
\* client is open, a call it has not settled is queued, in a POST, at its
\* handler or answered; a POST is not answered while it has calls to answer.
THEOREM NoneLost == Spec => []BatchInv
<1>1. IInv => BatchInv
  <2> SUFFICES ASSUME IInv, NEW q \in Questions, promise[q] = "pending", ~closed, ~aborted, ~Contains(queue, q)
               PROVE  /\ Posted(q)
                      /\ \/ posts[BatchOf(q)].stage = "sent"
                         \/ posts[BatchOf(q)].stage = "serving" /\ handler[q] \in {"none", "waiting", "running"}
                         \/ \E i \in 1..Len(posts[BatchOf(q)].replies) : posts[BatchOf(q)].replies[i].q = q
                         \/ q \in Streams /\ handler[q] # "none"
    BY DEF BatchInv, NoCallLost, IInv
  <2>1. PICK b \in Batches : Has(b, q) /\ AtServer(b, q)
    BY DEF IInv, Kept
  <2>2. BatchOf(q) = b /\ Posted(q)
    BY <2>1, BatchFound
  <2>3. CASE \E i \in posts[b].next..Len(posts[b].frames) : posts[b].frames[i] = q
    <3>1. PICK i \in posts[b].next..Len(posts[b].frames) : posts[b].frames[i] = q
      BY <2>3
    <3>2. posts[b].next \in 1..(Len(posts[b].frames) + 1) /\ posts[b].frames \in Seq(Questions)
      BY PostTyped DEF IInv, Served
    <3>3. i \in 1..Len(posts[b].frames) /\ posts[b].next <= i
      BY <3>1, <3>2
    <3>4. handler[q] = "none" /\ posts[b].stage \in {"sent", "serving"}
      BY <3>1, <3>2, <3>3 DEF IInv, Served
    <3> QED
      BY <2>2, <3>4
  <2>4. CASE handler[q] \in {"waiting", "running"}
    <3>1. PICK i \in 1..Len(posts[b].frames) : posts[b].frames[i] = q
      BY <2>1 DEF Has, Contains
    <3>2. posts[b].stage \in {"sent", "serving"}
      BY <2>4, <3>1 DEF IInv, Served
    <3> QED
      BY <2>2, <2>4, <3>2
  <2> QED
    BY <2>1, <2>2, <2>3, <2>4 DEF AtServer
<1> QED
  BY <1>1, Inductive, PTL

\* js/http_batch.mjs, serveHttpBatch: every POST has a session of its own.  A
\* pipelined method runs behind its target, in the target's POST, and whatever
\* import id a call carries, it never reaches what another POST exported.
THEOREM Isolation == Spec => []SessionsIsolated
<1>1. IInv => SessionsIsolated
  <2> SUFFICES ASSUME IInv, NEW q \in Questions
               PROVE  /\ target[q] \in Questions /\ ranOn[q] # None =>
                            /\ BatchOf(target[q]) = BatchOf(q)
                            /\ handler[target[q]] = "done"
                            /\ ranOn[q] = PipelineTarget(target[q])
                      /\ ranOn[q] \in Exporters => Contains(posts[BatchOf(q)].frames, ranOn[q])
    BY DEF SessionsIsolated, PipelinesInBatch, CapabilitiesStayInBatch
  <2>1. CASE ranOn[q] = None
    <3>1. None \notin Exporters
      OBVIOUS
    <3> QED
      BY <2>1, <3>1
  <2>2. CASE ranOn[q] # None
    <3>1. Posted(q)
      BY <2>2 DEF IInv, HandlersPosted
    <3>2. PICK b \in Batches : Has(b, q)
      BY <3>1 DEF Posted, Has
    <3>3. /\ target[q] \in Questions /\ ranOn[q] # None =>
                /\ Has(b, target[q]) /\ handler[target[q]] = "done"
                /\ ranOn[q] = PipelineTarget(target[q])
          /\ ranOn[q] \in Exporters => Has(b, ranOn[q])
      BY <3>2 DEF IInv, Isolated
    <3>4. BatchOf(q) = b
      BY <3>2, BatchFound
    <3>5. target[q] \in Questions => BatchOf(target[q]) = b
      BY <2>2, <3>3, BatchFound
    <3> QED
      BY <2>2, <3>3, <3>4, <3>5 DEF Has
  <2> QED
    BY <2>1, <2>2
<1> QED
  BY <1>1, Inductive, PTL

-----------------------------------------------------------------------------
(* The contract of a call *)

\* The callee's view of every call, the contract's run.
Runs == [q \in Questions |-> RunView(handler[q])]

\* What the contract sees of each state of a handler.
LEMMA RunViews ==
    /\ RunView("none") = "no" /\ RunView("waiting") = "no"
    /\ RunView("running") = "started" /\ RunView("streaming") = "started"
    /\ RunView("done") = "ok" /\ RunView("failed") = "failed"
  BY DEF RunView

\* Only these three variables are visible.
LEMMA ContractVars == UNCHANGED <<target, promise, handler>> => UNCHANGED Contract!vars
  BY DEF Contract!vars

\* A handler moves one step: the contract makes it, or does not see it.
LEMMA HandlerMoves ==
    ASSUME IInv, NEW b \in Batches, NEW q \in Questions, Has(b, q), NEW h,
           UNCHANGED <<target, promise>>, handler' = [handler EXCEPT ![q] = h],
           \/ h \in {"waiting", "failed"} /\ handler[q] \in {"none", "waiting"}
           \/ /\ h \in {"running", "streaming"} /\ handler[q] \in {"none", "waiting"}
              /\ target[q] \in Questions => handler[target[q]] = "done"
           \/ h \in {"done", "failed"} /\ handler[q] \in {"running", "streaming"}
    PROVE  Contract!Next \/ UNCHANGED Contract!vars
<1>1. Runs' = [Runs EXCEPT ![q] = RunView(h)] /\ Runs[q] = RunView(handler[q])
  <2>1. \A p \in Questions : handler'[p] = IF p = q THEN h ELSE handler[p]
    BY DEF IInv, TypeOK
  <2>2. Runs' = [p \in Questions |-> RunView(handler'[p])]
    BY DEF Runs
  <2>3. [Runs EXCEPT ![q] = RunView(h)]
           = [p \in Questions |-> IF p = q THEN RunView(h) ELSE RunView(handler[p])]
    BY DEF Runs
  <2>4. \A p \in Questions : RunView(handler'[p]) = IF p = q THEN RunView(h) ELSE RunView(handler[p])
    BY <2>1
  <2>5. Runs[q] = RunView(handler[q])
    BY DEF Runs
  <2> QED
    BY <2>2, <2>3, <2>4, <2>5
<1>2. promise[q] # "unused"
  BY PostedMade DEF IInv
<1>3. CASE h = "waiting" /\ handler[q] \in {"none", "waiting"}
  <2>1. Runs' = Runs
    BY <1>1, <1>3, RunViews DEF Runs
  <2> QED
    BY <2>1 DEF Contract!vars, Runs
<1>4. CASE h = "failed" /\ handler[q] \in {"none", "waiting"}
  <2>1. Contract!Refuse(q)
    BY <1>1, <1>2, <1>4, RunViews DEF Contract!Refuse, Runs
  <2> QED
    BY <2>1 DEF Contract!Next
<1>5. CASE /\ h \in {"running", "streaming"} /\ handler[q] \in {"none", "waiting"}
           /\ target[q] \in Questions => handler[target[q]] = "done"
  <2>1. target[q] \in Questions => Runs[target[q]] = "ok"
    BY <1>5, RunViews DEF Runs
  <2>2. Contract!Start(q)
    BY <1>1, <1>2, <1>5, <2>1, RunViews DEF Contract!Start, Runs
  <2> QED
    BY <2>2 DEF Contract!Next
<1>6. CASE h \in {"done", "failed"} /\ handler[q] \in {"running", "streaming"}
  <2>1. PICK outcome \in {"ok", "failed"} : RunView(h) = outcome
    BY <1>6, RunViews
  <2>2. Contract!Complete(q, outcome)
    BY <1>1, <1>6, <2>1, RunViews DEF Contract!Complete, Runs
  <2> QED
    BY <2>2 DEF Contract!Next
<1> QED
  BY <1>3, <1>4, <1>5, <1>6

\* Promises of pending calls are rejected.
LEMMA PromisesRejected ==
    ASSUME UNCHANGED <<target, handler>>, NEW S \in SUBSET Questions,
           \A q \in S : promise[q] = "pending",
           promise' = [q \in Questions |-> IF q \in S THEN "err" ELSE promise[q]]
    PROVE  Contract!Next
<1>1. Contract!Reject(S)
  BY DEF Contract!Reject
<1> QED
  BY <1>1 DEF Contract!Next

\* A reply fulfils or rejects its call, or is dropped.
LEMMA ReplyContract ==
    ASSUME IInv, NEW b \in Batches, HandleReply(b)
    PROVE  Contract!Next \/ UNCHANGED Contract!vars
<1>1. UNCHANGED <<target, handler>>
  BY DEF HandleReply
<1>2. CASE promise' = promise
  BY <1>1, <1>2, ContractVars
<1>3. CASE /\ posts[b].replies # <<>> /\ promise[Head(posts[b].replies).q] = "pending"
           /\ promise' = [promise EXCEPT ![Head(posts[b].replies).q] = Head(posts[b].replies).how]
  <2>1. posts[b].replies \in Seq(Replies)
    BY PostTyped DEF IInv
  <2>2. Head(posts[b].replies) = posts[b].replies[1] /\ 1 \in 1..Len(posts[b].replies)
    BY <1>3, <2>1, Taken
  <2>3. PICK q, how : q = posts[b].replies[1].q /\ how = posts[b].replies[1].how
    OBVIOUS
  <2>4. /\ q \in Questions /\ how \in {"ok", "err"}
        /\ how = "ok" => target[q] = BootstrapCap \/ handler[q] = "done"
    BY <2>2, <2>3, ReplyTyped DEF IInv, RepliesTrue
  <2>5. promise[q] = "pending" /\ promise' = [promise EXCEPT ![q] = how]
    BY <1>3, <2>2, <2>3
  <2>6. CASE how = "ok"
    <3>1. target[q] # BootstrapCap => Runs[q] = "ok"
      BY <2>4, <2>6, RunViews DEF Runs
    <3>2. Contract!Fulfil(q)
      BY <1>1, <2>5, <2>6, <3>1 DEF Contract!Fulfil, Runs
    <3> QED
      BY <2>4, <3>2 DEF Contract!Next
  <2>7. CASE how = "err"
    <3>1. promise' = [p \in Questions |-> IF p \in {q} THEN "err" ELSE promise[p]]
      BY <2>5, <2>7 DEF IInv, TypeOK
    <3>2. {q} \in SUBSET Questions /\ \A p \in {q} : promise[p] = "pending"
      BY <2>4, <2>5
    <3> QED
      BY <1>1, <3>1, <3>2, PromisesRejected
  <2> QED
    BY <2>4, <2>6, <2>7
<1> QED
  BY <1>2, <1>3 DEF HandleReply, Known

\* What a refusal and a dispatch do to the handler.
LEMMA DispatchMoves ==
    ASSUME NEW b, NEW q, NEW p, NEW c, Refuse(b, q, p) \/ Dispatch(b, q, p, c)
    PROVE  \E h \in {"failed", "running", "streaming"} :
               /\ handler' = [handler EXCEPT ![q] = h]
               /\ Refuse(b, q, p) => h = "failed"
<1>1. Refuse(b, q, p) => handler' = [handler EXCEPT ![q] = "failed"]
  BY DEF Refuse, Fail
<1>2. Dispatch(b, q, p, c) /\ ~Refuse(b, q, p)
         => handler' = [handler EXCEPT ![q] = IF q \in Streams THEN "streaming" ELSE "running"]
  BY DEF Dispatch
<1> QED
  BY <1>1, <1>2

\* The actions of a server move one handler, or none.
LEMMA ServerContract ==
    ASSUME IInv, NEW b \in Batches, NEW x \in Questions,
           DispatchFrame(b) \/ ResumePipelined(b, x) \/ HandlerReturns(b, x) \/ StreamEnds(b, x)
    PROVE  Contract!Next \/ UNCHANGED Contract!vars
<1>0. UNCHANGED <<target, promise>>
  BY DEF DispatchFrame, ResumePipelined, HandlerReturns, StreamEnds
<1>1. CASE DispatchFrame(b)
  <2>1. PICK q : q = posts[b].frames[posts[b].next]
    OBVIOUS
  <2>2. q \in Questions /\ Has(b, q) /\ handler[q] = "none"
    BY <1>1, <2>1, NextFrame DEF DispatchFrame
  <2>3. CASE UNCHANGED handler
    BY <1>0, <2>3, ContractVars
  <2>4. CASE handler' = [handler EXCEPT ![q] = "waiting"]
    BY <1>0, <2>2, <2>4, HandlerMoves
  <2>5. ASSUME NEW p, NEW c, Refuse(b, q, p) \/ Dispatch(b, q, p, c),
               target[q] \in Questions => handler[target[q]] = "done"
        PROVE  Contract!Next \/ UNCHANGED Contract!vars
    <3>1. PICK h \in {"failed", "running", "streaming"} : handler' = [handler EXCEPT ![q] = h]
      BY <2>5, DispatchMoves
    <3> QED
      BY <1>0, <2>2, <2>5, <3>1, HandlerMoves
  <2>6. PICK p : p = [posts[b] EXCEPT !.next = @ + 1]
    OBVIOUS
  <2>7. \/ UNCHANGED handler
        \/ /\ target[q] = ImportedCap
           /\ \E c : Refuse(b, q, p) \/ Dispatch(b, q, p, c)
        \/ /\ target[q] \in Questions /\ Resolved(b, target[q])
           /\ Dispatch(b, q, p, PipelineTarget(target[q]))
        \/ handler' = [handler EXCEPT ![q] = "waiting"]
    <3>1. \/ UNCHANGED handler
          \/ /\ target[q] = ImportedCap
             /\ LET c == LocalCap(b, IF capOf[q] = None THEN 0 ELSE importId[capOf[q]])
                IN  IF c = None THEN Refuse(b, q, p) ELSE Dispatch(b, q, p, c)
          \/ /\ target[q] \in Questions
             /\ IF Resolved(b, target[q]) THEN Dispatch(b, q, p, PipelineTarget(target[q]))
                ELSE handler' = [handler EXCEPT ![q] = "waiting"]
      BY <1>1, <2>1, <2>6 DEF DispatchFrame
    <3> QED
      BY <3>1
  <2>8. target[q] = ImportedCap => target[q] \notin Questions
    OBVIOUS
  <2>9. Resolved(b, target[q]) => handler[target[q]] = "done"
    BY DEF Resolved
  <2> QED
    BY <2>3, <2>4, <2>5, <2>7, <2>8, <2>9
<1>2. CASE ResumePipelined(b, x)
  <2>1. /\ Has(b, x) /\ handler[x] = "waiting"
        /\ \/ Refuse(b, x, posts[b])
           \/ Resolved(b, target[x]) /\ Dispatch(b, x, posts[b], PipelineTarget(target[x]))
    BY <1>2 DEF ResumePipelined, Has
  <2>2. PICK h \in {"failed", "running", "streaming"} :
           handler' = [handler EXCEPT ![x] = h] /\ (Refuse(b, x, posts[b]) => h = "failed")
    BY <2>1, DispatchMoves
  <2>3. h # "failed" => handler[target[x]] = "done"
    BY <2>1, <2>2 DEF Resolved
  <2> QED
    BY <1>0, <2>1, <2>2, <2>3, HandlerMoves
<1>3. CASE HandlerReturns(b, x)
  <2>1. /\ Has(b, x) /\ handler[x] = "running"
        /\ \E h \in {"done", "failed"} : handler' = [handler EXCEPT ![x] = h]
    BY <1>3 DEF HandlerReturns, Has, Succeed, Fail
  <2> QED
    BY <1>0, <2>1, HandlerMoves
<1>4. CASE StreamEnds(b, x)
  <2>1. /\ Has(b, x) /\ handler[x] = "streaming"
        /\ \E h \in {"done", "failed"} : handler' = [handler EXCEPT ![x] = h]
    BY <1>4 DEF StreamEnds, Has, Succeed, Fail
  <2> QED
    BY <1>0, <2>1, HandlerMoves
<1> QED
  BY <1>1, <1>2, <1>3, <1>4

\* Initial states are initial states of the contract.
LEMMA RefinesInit == Init => Contract!Init
  BY RunViews DEF Init, Contract!Init

\* Every step is a step of the contract, or changes nothing of it.
LEMMA RefinesStep == IInv /\ [Next]_vars => [Contract!Next]_(Contract!vars)
<1> SUFFICES ASSUME IInv, [Next]_vars PROVE Contract!Next \/ UNCHANGED Contract!vars
  OBVIOUS
<1>1. ASSUME NEW q \in Questions, NEW t \in Questions \cup {ImportedCap, BootstrapCap}, NEW c,
             Issue(q, t, c)
      PROVE  Contract!Next
  <2>1. Contract!Issue(q, t)
    BY <1>1 DEF Issue, Contract!Issue
  <2> QED
    BY <2>1 DEF Contract!Next
<1>2. ASSUME NEW q \in Questions, Bootstrap(q) PROVE Contract!Next
  BY <1>1, <1>2 DEF Bootstrap
<1>3. ASSUME NEW q \in Questions, NEW t \in Questions \cup {None}, Call(q, t) PROVE Contract!Next
  BY <1>1, <1>3 DEF Call
<1>4. ASSUME NEW q \in Questions, SignalAborts(q) PROVE Contract!Next
  <2>1. /\ UNCHANGED <<target, handler>>
        /\ promise' = [p \in Questions |-> IF p \in {q} THEN "err" ELSE promise[p]]
        /\ {q} \in SUBSET Questions /\ \A p \in {q} : promise[p] = "pending"
    BY <1>4 DEF SignalAborts, IInv, TypeOK
  <2> QED
    BY <2>1, PromisesRejected
<1>5. ASSUME CloseClient PROVE Contract!Next
  <2>1. PICK S \in SUBSET Questions : S = {q \in Questions : promise[q] = "pending"}
    OBVIOUS
  <2>2. /\ UNCHANGED <<target, handler>> /\ \A q \in S : promise[q] = "pending"
        /\ promise' = [q \in Questions |-> IF q \in S THEN "err" ELSE promise[q]]
    BY <1>5, <2>1 DEF CloseClient
  <2> QED
    BY <2>2, PromisesRejected
<1>6. CASE ClientCloses \/ PostFails
  BY <1>5, <1>6 DEF ClientCloses, PostFails
<1>7. CASE Flush \/ UNCHANGED vars
  BY <1>7, ContractVars DEF Flush, vars
<1>8. ASSUME NEW b \in Batches, Arrive(b) \/ Respond(b) \/ Receive(b) PROVE UNCHANGED Contract!vars
  BY <1>8, ContractVars DEF Arrive, Respond, Receive
<1>9. ASSUME NEW b \in Batches, HandleReply(b) PROVE Contract!Next \/ UNCHANGED Contract!vars
  BY <1>9, ReplyContract
<1>10. ASSUME NEW b \in Batches, DispatchFrame(b) PROVE Contract!Next \/ UNCHANGED Contract!vars
  <2>1. posts[b].frames[posts[b].next] \in Questions
    BY <1>10, NextFrame DEF DispatchFrame
  <2> QED
    BY <1>10, <2>1, ServerContract
<1>11. ASSUME NEW b \in Batches, NEW q \in Questions,
              ResumePipelined(b, q) \/ HandlerReturns(b, q) \/ StreamEnds(b, q)
       PROVE  Contract!Next \/ UNCHANGED Contract!vars
  BY <1>11, ServerContract
<1> QED
  BY <1>2, <1>3, <1>4, <1>6, <1>7, <1>8, <1>9, <1>10, <1>11 DEF Next, PostStep

\* Over batches too the calls keep the contract of CallContract: whatever POSTs
\* carry them, in whatever order those are answered, a method body runs at most
\* once, behind a successful target, and a promise settles once, with success
\* only if that body succeeded.
THEOREM ImplementsContract == Spec => ContractSpec
  BY RefinesInit, RefinesStep, Inductive, PTL DEF Spec, ContractSpec, Contract!Spec

=============================================================================
