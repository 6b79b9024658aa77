----------------------------- MODULE HttpBatch -----------------------------
(***************************************************************************)
(* Calls over the HTTP batch transport (js/http_batch.mjs).  The client is *)
(* one RpcSession; every burst of its frames becomes one POST, and every   *)
(* POST is served by an RpcSession of its own (js/rpc.mjs), which answers  *)
(* when idle() resolves and is then closed.  Both are stateless: no Finish *)
(* and no Release is sent.  Posts travel and answer in any order.          *)
(*                                                                         *)
(* #sendQueue and the outbox of the transport are one queue: each is       *)
(* emptied by a microtask.  Results fit the staging area here (RpcCalls    *)
(* has the case that they do not).                                         *)
(***************************************************************************)
EXTENDS Naturals, Sequences, SequencesExt

CONSTANTS
    Questions,     \* question ids, as in RpcCalls
    ImportedCap,   \* call target: an imported capability
    BootstrapCap,  \* target recorded for bootstrap()
    None,
    Streams,       \* the calls made with callStream
    Exporters,     \* the calls whose results are one capability
    Cancellable,   \* the calls whose caller passes opts.signal
    Faults         \* subset of {"close", "fail", "abort"}

ASSUME ConstantsAssumption ==
    /\ {ImportedCap, BootstrapCap, None} \cap Questions = {}
    /\ ImportedCap # BootstrapCap /\ ImportedCap # None /\ BootstrapCap # None
    /\ Streams \subseteq Questions /\ Exporters \subseteq Questions \ Streams
    /\ Cancellable \subseteq Questions
    /\ Faults \subseteq {"close", "fail", "abort"}

VARIABLES
    target,    \* what the client addressed each call to
    capOf,     \* for an imported target: the call it came from, None if bootstrap
    promise,   \* the question's deferred or stream, pending while in its table
    importId,  \* the import id a call's results brought, 0 before
    aborted,   \* opts.signal was aborted before there was a transport
    closed,    \* client: #closed
    queue,     \* client: frames waiting for the next POST
    posts,     \* the POSTs made, each with the session that serves it
    handler,   \* where #handleCall of each call stands
    ranOn      \* whose capability a handler got: a call, or BootstrapCap

clientVars == <<target, capOf, promise, importId, aborted, closed, queue>>
vars == <<clientVars, posts, handler, ranOn>>

Batches == 1..Len(posts)

BatchOf(q) == CHOOSE b \in Batches : Contains(posts[b].frames, q)
Posted(q)  == \E b \in Batches : Contains(posts[b].frames, q)

Post(frames) == [frames |-> frames, stage |-> "sent", next |-> 1,
                 exports |-> <<>>, replies |-> <<>>]

Init ==
    /\ target = [q \in Questions |-> None] /\ capOf = [q \in Questions |-> None]
    /\ promise = [q \in Questions |-> "unused"]
    /\ importId = [q \in Questions |-> 0]
    /\ aborted \in IF "abort" \in Faults THEN BOOLEAN ELSE {FALSE}
    /\ closed = FALSE /\ queue = <<>> /\ posts = <<>>
    /\ handler = [q \in Questions |-> "none"]
    /\ ranOn = [q \in Questions |-> None]

-----------------------------------------------------------------------------
(* Client *)

\* doFlush hands all frames of a response to the session in one go.
Receiving == \E b \in Batches : posts[b].stage = "receiving"

Issue(q, t, c) ==
    /\ ~Receiving /\ promise[q] = "unused"
    /\ target' = [target EXCEPT ![q] = t]
    /\ capOf' = [capOf EXCEPT ![q] = c]
    /\ promise' = [promise EXCEPT ![q] = "pending"]
    /\ queue' = Append(queue, q)
    /\ UNCHANGED <<importId, aborted, closed, posts, handler, ranOn>>

Bootstrap(q) == q \notin Streams /\ Issue(q, BootstrapCap, None)

\* A call on the bootstrap, on the promise of a call, open or over, or on a
\* capability that a Return brought.
Call(q, t) ==
    /\ ~closed
    /\ \/ t = None /\ Issue(q, ImportedCap, None)
       \/ /\ t \in Questions \ Streams /\ target[t] \notin {None, BootstrapCap}
          /\ \/ Issue(q, t, None)
             \/ importId[t] # 0 /\ Issue(q, ImportedCap, t)

\* #wireAbort: finish() sends nothing.
SignalAborts(q) ==
    /\ ~Receiving
    /\ q \in Cancellable /\ promise[q] = "pending" /\ target[q] # BootstrapCap
    /\ promise' = [promise EXCEPT ![q] = "err"]
    /\ UNCHANGED <<target, capOf, importId, aborted, closed, queue, posts,
                   handler, ranOn>>

\* doFlush; a closed transport drops what the session flushes.  A signal that
\* is aborted already closes the transport in its constructor, before the
\* session has registered onClose: nobody tells the session.
Flush ==
    /\ ~Receiving /\ queue # <<>>
    /\ posts' = IF closed \/ aborted THEN posts ELSE Append(posts, Post(queue))
    /\ queue' = <<>>
    /\ UNCHANGED <<target, capOf, promise, importId, aborted, closed, handler, ranOn>>

\* fireClose and session.close(), in either order: what is queued is lost.
CloseClient ==
    /\ ~Receiving /\ ~closed
    /\ closed' = TRUE
    /\ promise' = [q \in Questions |-> IF promise[q] = "pending" THEN "err" ELSE promise[q]]
    /\ queue' = <<>>
    /\ UNCHANGED <<target, capOf, importId, aborted, posts, handler, ranOn>>

ClientCloses == "close" \in Faults /\ CloseClient

\* Slip: the failure is not reported to the session.
PostFailsQuietly ==
    /\ "fail" \in Faults /\ ~Receiving /\ ~closed
    /\ \E b \in Batches :
          /\ posts[b].stage # "over"
          /\ posts' = [posts EXCEPT ![b].stage = "over"]
    /\ UNCHANGED <<clientVars, handler, ranOn>>

\* fetch throws, the status is not ok, or the body cannot be read or decoded.
PostFails ==
    /\ "fail" \in Faults
    /\ \E b \in Batches : posts[b].stage # "over"
    /\ CloseClient

\* The response of b is there; a closed transport ignores it.
Receive(b) ==
    /\ ~Receiving
    /\ posts[b].stage = "answered"
    /\ posts' = [posts EXCEPT ![b].stage = IF closed THEN "over" ELSE "receiving"]
    /\ UNCHANGED <<clientVars, handler, ranOn>>

\* Slip: a Return for a call that was aborted is not dropped.
KnownAlways(q) == TRUE

Known(q) == promise[q] = "pending"

\* #handleReturn, #handleStreamEnd, for one frame of the response.
HandleReply(b) ==
    /\ posts[b].stage = "receiving"
    /\ LET replies == posts[b].replies
       IN  IF replies = <<>>
           THEN /\ posts' = [posts EXCEPT ![b].stage = "over"]
                /\ UNCHANGED <<promise, importId>>
           ELSE LET reply == Head(replies)
                IN  /\ posts' = [posts EXCEPT ![b].replies = Tail(@)]
                    /\ IF Known(reply.q)
                       THEN /\ promise' = [promise EXCEPT ![reply.q] = reply.how]
                            /\ importId' = [importId EXCEPT ![reply.q] = reply.id]
                       ELSE UNCHANGED <<promise, importId>>
    /\ UNCHANGED <<target, capOf, aborted, closed, queue, handler, ranOn>>

-----------------------------------------------------------------------------
(* Server.  The frames of a POST are dispatched in one go: only the method *)
(* of the frame dispatched last can return in between, synchronously.      *)

Serving(b) == posts[b].stage = "serving"
AllDispatched(b) == posts[b].next > Len(posts[b].frames)
Awaitable(b, q) == Serving(b) /\ (AllDispatched(b) \/ posts[b].frames[posts[b].next - 1] = q)

Arrive(b) ==
    /\ posts[b].stage = "sent"
    /\ posts' = [posts EXCEPT ![b].stage = "serving"]
    /\ UNCHANGED <<clientVars, handler, ranOn>>

Reply(p, q, how, id) == [p EXCEPT !.replies = Append(@, [q |-> q, how |-> how, id |-> id])]

Fail(b, q, p) ==
    /\ posts' = [posts EXCEPT ![b] = Reply(p, q, "err", 0)]
    /\ handler' = [handler EXCEPT ![q] = "failed"]
    /\ UNCHANGED ranOn

\* #sendException; p is the post after the frame was taken.  The client does
\* not listen to the Return of a stream.
Refuse(b, q, p) ==
    IF q \notin Streams THEN Fail(b, q, p)
    ELSE /\ posts' = [posts EXCEPT ![b] = p]
         /\ handler' = [handler EXCEPT ![q] = "failed"]
         /\ UNCHANGED ranOn

\* A capability was found: run the method, or there is none.
Dispatch(b, q, p, c) ==
    \/ Refuse(b, q, p)
    \/ /\ posts' = [posts EXCEPT ![b] = p]
       /\ handler' = [handler EXCEPT ![q] = IF q \in Streams THEN "streaming" ELSE "running"]
       /\ ranOn' = [ranOn EXCEPT ![q] = c]

\* The answer of t, as this session knows it.
Resolved(b, t) == Contains(posts[b].frames, t) /\ handler[t] = "done"
Rejected(b, t) == Contains(posts[b].frames, t) /\ handler[t] = "failed"

\* pipelineTarget: the one capability t returned, or the one it ran on.
PipelineTarget(t) == IF t \in Exporters THEN t ELSE ranOn[t]

\* Slip: one table of capabilities for all the sessions.
LocalCapAnywhere(b, id) ==
    LET all == FlattenSeq([p \in Batches |-> posts[p].exports])
    IN  IF id = 0 THEN BootstrapCap ELSE IF id <= Len(all) THEN all[id] ELSE None

\* #localCaps of this session: 0 is the bootstrap, then what it has exported.
LocalCap(b, id) ==
    IF id = 0 THEN BootstrapCap
    ELSE IF id <= Len(posts[b].exports) THEN posts[b].exports[id] ELSE None

\* #handleBootstrap, and #handleCall up to the wait for the pipeline target.
DispatchFrame(b) ==
    /\ Serving(b) /\ ~AllDispatched(b)
    /\ LET q == posts[b].frames[posts[b].next]
           p == [posts[b] EXCEPT !.next = @ + 1]
           t == target[q]
       IN  \/ /\ t = BootstrapCap
              /\ posts' = [posts EXCEPT ![b] = Reply(p, q, "ok", 0)]
              /\ UNCHANGED <<handler, ranOn>>
           \/ /\ t = ImportedCap
              /\ LET c == LocalCap(b, IF capOf[q] = None THEN 0 ELSE importId[capOf[q]])
                 IN  IF c = None THEN Refuse(b, q, p) ELSE Dispatch(b, q, p, c)
           \/ /\ t \in Questions
              /\ IF Resolved(b, t) THEN Dispatch(b, q, p, PipelineTarget(t))
                 ELSE /\ posts' = [posts EXCEPT ![b] = p]
                      /\ handler' = [handler EXCEPT ![q] = "waiting"]
                      /\ UNCHANGED ranOn
    /\ UNCHANGED clientVars

\* After `await targetAnswer.readyPromise`.
ResumePipelined(b, q) ==
    /\ Serving(b) /\ AllDispatched(b)
    /\ Contains(posts[b].frames, q) /\ handler[q] = "waiting"
    /\ \/ Rejected(b, target[q]) /\ Refuse(b, q, posts[b])
       \/ Resolved(b, target[q]) /\ Dispatch(b, q, posts[b], PipelineTarget(target[q]))
    /\ UNCHANGED clientVars

Succeed(b, q) ==
    LET p == posts[b]
        exporting == [p EXCEPT !.exports = Append(@, q)]
    IN  /\ posts' = [posts EXCEPT ![b] =
                        IF q \in Exporters THEN Reply(exporting, q, "ok", Len(p.exports) + 1)
                        ELSE Reply(p, q, "ok", 0)]
        /\ handler' = [handler EXCEPT ![q] = "done"]
        /\ UNCHANGED ranOn

HandlerReturns(b, q) ==
    /\ Contains(posts[b].frames, q) /\ handler[q] = "running" /\ Awaitable(b, q)
    /\ Succeed(b, q) \/ Fail(b, q, posts[b])
    /\ UNCHANGED clientVars

\* #runStreamHandler ends the stream; nobody hears it once the response left.
StreamEnds(b, q) ==
    /\ Contains(posts[b].frames, q) /\ handler[q] = "streaming"
    /\ AllDispatched(b)
    /\ IF Serving(b) THEN Succeed(b, q) \/ Fail(b, q, posts[b])
       ELSE /\ \E how \in {"done", "failed"} : handler' = [handler EXCEPT ![q] = how]
            /\ UNCHANGED <<posts, ranOn>>
    /\ UNCHANGED clientVars

\* Slip: idle() resolves while handlers wait or run.
DrainedEarly(b) == AllDispatched(b)

\* What idle() waits for: a stream's generator is not in flight.
Drained(b) ==
    /\ AllDispatched(b)
    /\ \A q \in Questions :
          Contains(posts[b].frames, q) => handler[q] \notin {"waiting", "running"}

Respond(b) ==
    /\ Serving(b) /\ Drained(b)
    /\ posts' = [posts EXCEPT ![b].stage = "answered"]
    /\ UNCHANGED <<clientVars, handler, ranOn>>

PostStep(b) == Arrive(b) \/ DispatchFrame(b) \/ Respond(b) \/ Receive(b) \/ HandleReply(b)

Next ==
    \/ \E q \in Questions : Bootstrap(q) \/ SignalAborts(q)
    \/ \E q \in Questions, t \in Questions \cup {None} : Call(q, t)
    \/ Flush \/ ClientCloses \/ PostFails
    \/ \E b \in Batches :
          \/ PostStep(b)
          \/ \E q \in Questions : ResumePipelined(b, q) \/ HandlerReturns(b, q) \/ StreamEnds(b, q)

Spec == Init /\ [][Next]_vars

\* Microtasks run, fetch settles, handlers settle.  Each of these steps can be
\* taken a bounded number of times, so fairness to all together is enough.
Progress ==
    \/ Flush
    \/ \E b \in Batches :
          \/ PostStep(b)
          \/ \E q \in Questions : ResumePipelined(b, q) \/ HandlerReturns(b, q)

FairSpec == Spec /\ WF_vars(Progress)

-----------------------------------------------------------------------------
(* Properties *)

TypeOK ==
    /\ target \in [Questions -> Questions \cup {ImportedCap, BootstrapCap, None}]
    /\ capOf \in [Questions -> Exporters \cup {None}]
    /\ promise \in [Questions -> {"unused", "pending", "ok", "err"}]
    /\ importId \in [Questions -> Nat]
    /\ aborted \in BOOLEAN /\ closed \in BOOLEAN
    /\ queue \in Seq(Questions)
    /\ posts \in Seq([frames : Seq(Questions), next : Nat, exports : Seq(Exporters),
                      stage : {"sent", "serving", "answered", "receiving", "over"},
                      replies : Seq([q : Questions, how : {"ok", "err"}, id : Nat])])
    /\ handler \in [Questions ->
           {"none", "waiting", "running", "streaming", "done", "failed"}]
    /\ ranOn \in [Questions -> Exporters \cup {BootstrapCap, None}]

\* While a call is pending on an open session its frame waits for a POST, is
\* in one, or has its answer on the way.  The exceptions are a stream that was
\* refused, or still produces when the response leaves, and a session whose
\* transport was closed before it: that one drops every frame.
NoCallLost ==
    \A q \in Questions :
        promise[q] = "pending" /\ ~closed /\ ~aborted =>
            \/ Contains(queue, q)
            \/ /\ Posted(q)
               /\ LET p == posts[BatchOf(q)]
                  IN  \/ p.stage = "sent"
                      \/ p.stage = "serving" /\ handler[q] \in {"none", "waiting", "running"}
                      \/ \E i \in 1..Len(p.replies) : p.replies[i].q = q
                      \/ q \in Streams /\ handler[q] # "none"

\* "Promise pipelining within a single batch": a pipelined method runs in the
\* session of its target, after it, and on the capability it returned.
PipelinesInBatch ==
    \A q \in Questions :
        target[q] \in Questions /\ ranOn[q] # None =>
            /\ BatchOf(target[q]) = BatchOf(q)
            /\ handler[target[q]] = "done"
            /\ ranOn[q] = PipelineTarget(target[q])

\* A call that waits on the answer of another POST, which will never come.
Stuck(b) == \E q \in Questions :
    /\ Contains(posts[b].frames, q)
    /\ target[q] \in Questions /\ BatchOf(target[q]) # b

\* Every call settles, failed POSTs included, unless it shares a POST with a
\* call that waits on another POST, or is a stream.  Nor does a call settle on a
\* transport that was closed by its signal before there was a session to tell.
EveryCallSettles ==
    \A q \in Questions \ Streams :
        promise[q] = "pending" /\ target[q] # BootstrapCap
            ~> promise[q] \in {"ok", "err"} \/ (Posted(q) /\ Stuck(BatchOf(q))) \/ aborted

\* Whatever id a call brings from an earlier batch, the method runs on the
\* bootstrap or on a capability that a call of its own batch has returned.
CapabilitiesStayInBatch ==
    \A q \in Questions :
        ranOn[q] \in Exporters => Contains(posts[BatchOf(q)].frames, ranOn[q])

\* Sessions of two requests share nothing.
SessionsIsolated == PipelinesInBatch /\ CapabilitiesStayInBatch

RunView(h) ==
    CASE h \in {"none", "waiting"}        -> "no"
      [] h \in {"running", "streaming"}   -> "started"
      [] h = "done"                       -> "ok"
      [] h = "failed"                     -> "failed"

Contract == INSTANCE CallContract WITH run <- [q \in Questions |-> RunView(handler[q])]

\* Over batches, too, the session keeps the contract of a call.
ContractSpec == Contract!Spec

\* The shape of the state, and no call falls between client and POSTs.
BatchInv ==
    /\ TypeOK
    /\ NoCallLost
=============================================================================
