----------------------------- MODULE HttpStream -----------------------------
(***************************************************************************)
(* Calls over the HTTP stream transport (js/http_stream.mjs).  The first   *)
(* burst of the client's frames becomes the body of one POST, and a server *)
(* session answers in the body of the response until the client leaves or, *)
(* with opts.endOnIdle, until idle() resolves.  What is sent once the      *)
(* request has been made is dropped.                                       *)
(*                                                                         *)
(* Which burst is the first is decided in the microtask queue: the session *)
(* flushes in one (js/rpc.mjs, #scheduleFlush), the transport makes its    *)
(* request in another, and so continues a caller that has awaited, which   *)
(* is how the caller of createClient (js/client.mjs) gets its session.     *)
(***************************************************************************)
EXTENDS Naturals, Sequences, SequencesExt

CONSTANTS
    Questions,     \* question ids, as in RpcCalls
    ImportedCap,   \* call target: the bootstrap, or a capability from a Return
    BootstrapCap,  \* target recorded for bootstrap()
    None,
    Streams,       \* the calls made with callStream
    Window,        \* opts.windowSize of these calls, 0 if not given
    MaxChunks,     \* bound: what a generator yields at most
    Cancellable,   \* the calls whose caller passes opts.signal
    Faults         \* subset of {"close", "fail"}

ASSUME ConstantsAssumption ==
    /\ {ImportedCap, BootstrapCap, None} \cap Questions = {}
    /\ ImportedCap # BootstrapCap /\ ImportedCap # None /\ BootstrapCap # None
    /\ Streams \subseteq Questions /\ Cancellable \subseteq Questions
    /\ Window \in Nat /\ MaxChunks \in Nat
    /\ Faults \subseteq {"close", "fail"}

VARIABLES
    target,     \* what the client addressed each call to
    promise,    \* the question's deferred or stream, pending while in its table
    closed,     \* client: #closed of the session, closed of the transport
    turn,       \* client: the caller's code is running
    jobs,       \* client: its microtasks
    sendQueue,  \* client: #sendQueue
    outbox,     \* client: outbox of the transport
    request,    \* where the request stands: unsent, sent, open, ended
    body,       \* the frames of the request
    endOnIdle,  \* server: opts.endOnIdle
    next,       \* server: the frame to dispatch next
    handler,    \* server: where #handleCall of each call stands
    credits,    \* server: #streamCredits, None while credits.enabled is false
    yielded,    \* server: what each generator has yielded so far
    response,   \* frames in the body of the response
    burst,      \* the calls made before the session's first flush
    dropped     \* the calls whose frames the transport did not take

clientVars == <<target, promise, closed, turn, jobs, sendQueue, outbox, burst, dropped>>
serverVars == <<endOnIdle, next, handler, credits, yielded>>
vars == <<clientVars, request, body, serverVars, response>>

Frame(k, q) == [kind |-> k, q |-> q]

Init ==
    /\ target = [q \in Questions |-> None] /\ promise = [q \in Questions |-> "unused"]
    /\ closed = FALSE /\ turn = FALSE /\ jobs = <<>>
    /\ sendQueue = <<>> /\ outbox = <<>>
    /\ request = "unsent" /\ body = <<>>
    /\ endOnIdle \in BOOLEAN /\ next = 1
    /\ handler = [q \in Questions |-> "none"]
    /\ credits = [q \in Streams |-> None] /\ yielded = [q \in Streams |-> 0]
    /\ response = <<>> /\ burst = {} /\ dropped = {}

CallsIn(frames) == {f.q : f \in {g \in ToSet(frames) : g.kind = "call"}}

NextJob(job) == ~turn /\ jobs # <<>> /\ Head(jobs) = job

\* Slip: process.nextTick, which goes ahead of the microtasks.
ScheduleNextTick(queue, job) == IF Contains(queue, job) THEN queue ELSE <<job>> \o queue

\* queueMicrotask, unless it is scheduled already.
Schedule(queue, job) == IF Contains(queue, job) THEN queue ELSE Append(queue, job)

-----------------------------------------------------------------------------
(* Client: the caller's code, which runs in a task of its own or goes on   *)
(* after an await, and makes any number of calls in its turn               *)

CallerRuns == ~turn /\ jobs # <<>> => Head(jobs) = "caller"

\* #sendFromOut; what does not wait in the queue goes to send() at once.
Issue(q, t, direct) ==
    /\ CallerRuns /\ promise[q] = "unused"
    /\ turn' = TRUE
    /\ target' = [target EXCEPT ![q] = t]
    /\ promise' = [promise EXCEPT ![q] = "pending"]
    /\ sendQueue' = Append(sendQueue, Frame("call", q))
    /\ LET ahead    == IF turn \/ jobs = <<>> THEN jobs ELSE Tail(jobs)
           flushing == Schedule(ahead, "flush")
       IN  IF direct = <<>> \/ closed \/ request # "unsent"
           THEN jobs' = flushing /\ UNCHANGED outbox
           ELSE jobs' = Schedule(flushing, "start") /\ outbox' = outbox \o direct
    /\ burst' = IF CallsIn(outbox) = {} /\ request = "unsent" THEN burst \cup {q} ELSE burst
    /\ UNCHANGED <<closed, dropped, request, body, serverVars, response>>

\* The caller returns to the event loop, or awaits something that is settled:
\* createClient is an async function that ends behind bootstrap().
EndTurn ==
    /\ turn /\ turn' = FALSE
    /\ \E awaits \in BOOLEAN : jobs' = IF awaits THEN Schedule(jobs, "caller") ELSE jobs
    /\ UNCHANGED <<target, promise, closed, sendQueue, outbox, burst, dropped,
                   request, body, serverVars, response>>

\* What was awaited is there, and the caller makes no further call.
Resume ==
    /\ NextJob("caller") /\ jobs' = Tail(jobs)
    /\ UNCHANGED <<target, promise, closed, turn, sendQueue, outbox, burst, dropped,
                   request, body, serverVars, response>>

Bootstrap(q) == q \notin Streams /\ Issue(q, BootstrapCap, <<>>)

\* A call on the bootstrap, on a capability that a Return brought, or on the
\* promise of an open call.
Targets ==
    {ImportedCap : b \in {c \in Questions : target[c] = BootstrapCap}} \cup
    {t \in Questions \ Streams : target[t] # BootstrapCap /\ promise[t] = "pending"}

Call(q, t) ==
    /\ ~closed /\ q \notin Streams /\ t \in Targets
    /\ Issue(q, t, <<>>)

\* Slip: the initial WINDOW waits in the queue, behind its Call.
CallStreamInOrder(q, t) ==
    /\ ~closed /\ q \in Streams /\ t \in Targets
    /\ CallerRuns /\ promise[q] = "unused" /\ turn' = TRUE
    /\ target' = [target EXCEPT ![q] = t]
    /\ promise' = [promise EXCEPT ![q] = "pending"]
    /\ sendQueue' = sendQueue \o <<Frame("call", q), Frame("window", q)>>
    /\ jobs' = Schedule(IF turn \/ jobs = <<>> THEN jobs ELSE Tail(jobs), "flush")
    /\ burst' = IF CallsIn(outbox) = {} /\ request = "unsent" THEN burst \cup {q} ELSE burst
    /\ UNCHANGED <<closed, outbox, dropped, request, body, serverVars, response>>

\* callStream sends the Call by the queue and the initial WINDOW at once.
CallStream(q, t) ==
    /\ ~closed /\ q \in Streams /\ t \in Targets
    /\ Issue(q, t, IF Window > 0 THEN <<Frame("window", q)>> ELSE <<>>)

\* #wireAbort: a stateless session sends no Finish.
SignalAborts(q) ==
    /\ q \in Cancellable /\ promise[q] = "pending" /\ target[q] # BootstrapCap
    /\ CallerRuns
    /\ promise' = [promise EXCEPT ![q] = "err"]
    /\ UNCHANGED <<target, closed, turn, jobs, sendQueue, outbox, burst, dropped,
                   request, body, serverVars, response>>

\* fireClose and session.close(), in either order: what is queued is lost.
CloseClient ==
    /\ ~closed
    /\ closed' = TRUE
    /\ promise' = [q \in Questions |-> IF promise[q] = "pending" THEN "err" ELSE promise[q]]
    /\ sendQueue' = <<>> /\ outbox' = <<>>
    /\ UNCHANGED <<target, turn, jobs, burst, dropped, body, serverVars, response>>

ClientCloses ==
    /\ "close" \in Faults /\ CallerRuns
    /\ CloseClient /\ UNCHANGED request

-----------------------------------------------------------------------------
(* Client: microtasks *)

\* #flush hands the queue to send().
Flush ==
    /\ NextJob("flush")
    /\ sendQueue' = <<>>
    /\ IF sendQueue = <<>> \/ closed \/ request # "unsent"
       THEN /\ jobs' = Tail(jobs)
            /\ dropped' = IF closed THEN dropped ELSE dropped \cup CallsIn(sendQueue)
            /\ UNCHANGED outbox
       ELSE /\ jobs' = Schedule(Tail(jobs), "start")
            /\ outbox' = outbox \o sendQueue
            /\ UNCHANGED dropped
    /\ UNCHANGED <<target, promise, closed, turn, burst, request, body, serverVars, response>>

\* start(): the request is made once, with what is in the outbox.
Start ==
    /\ NextJob("start")
    /\ jobs' = Tail(jobs)
    /\ IF request = "unsent" /\ ~closed /\ outbox # <<>>
       THEN request' = "sent" /\ body' = outbox /\ outbox' = <<>>
       ELSE UNCHANGED <<request, body, outbox>>
    /\ UNCHANGED <<target, promise, closed, turn, sendQueue, burst, dropped,
                   serverVars, response>>

\* fetch throws, the status is not ok, or the body cannot be read.
RequestFails ==
    /\ "fail" \in Faults /\ request \in {"sent", "open"} /\ ~turn
    /\ CloseClient /\ UNCHANGED request

\* One frame of the response.  The WINDOW that goes out when a chunk has been
\* read is dropped: the request was made long ago.  A Return is not matched
\* to a stream, whose END is all it listens to.
Receive ==
    /\ ~turn /\ jobs = <<>>
    /\ request \in {"open", "ended"} /\ next > Len(body) /\ response # <<>> /\ ~closed
    /\ response' = Tail(response)
    /\ LET r == Head(response)
       IN  promise' = IF promise[r.q] = "pending"
                      THEN [promise EXCEPT ![r.q] = r.how] ELSE promise
    /\ UNCHANGED <<target, closed, turn, jobs, sendQueue, outbox, burst, dropped,
                   request, body, serverVars>>

\* The body of the response is done: fireClose.
ResponseEnds ==
    /\ ~turn /\ jobs = <<>> /\ request = "ended" /\ response = <<>>
    /\ CloseClient /\ UNCHANGED request

-----------------------------------------------------------------------------
(* Server.  start() of the ReadableStream dispatches the frames in one go: *)
(* only the method of the last one can return in between, synchronously.   *)

AllDispatched == next > Len(body)
Awaitable(q) == AllDispatched \/ (next > 1 /\ body[next - 1] = Frame("call", q))

Arrive ==
    /\ request = "sent" /\ request' = "open"
    /\ UNCHANGED <<clientVars, body, serverVars, response>>

\* The controller takes frames until the session is closed.
Reply(q, how) ==
    response' = IF request = "open" THEN Append(response, [q |-> q, how |-> how]) ELSE response

\* #sendException: the client does not listen to the Return of a stream.
Refuse(q) ==
    /\ handler' = [handler EXCEPT ![q] = "refused"]
    /\ IF q \in Streams THEN UNCHANGED response ELSE Reply(q, "err")

\* A capability was found: run the method, or there is none.
Dispatch(q) ==
    \/ Refuse(q)
    \/ /\ handler' = [handler EXCEPT ![q] = IF q \in Streams THEN "streaming" ELSE "running"]
       /\ UNCHANGED response

\* #handleBootstrap, and #handleCall up to the wait for the pipeline target.
DispatchCall(q) ==
    \/ target[q] = BootstrapCap /\ Reply(q, "ok") /\ UNCHANGED handler
    \/ target[q] = ImportedCap /\ Dispatch(q)
    \/ /\ target[q] \in Questions
       /\ IF handler[target[q]] = "done" THEN Dispatch(q)
          ELSE handler' = [handler EXCEPT ![q] = "waiting"] /\ UNCHANGED response

\* #handleStreamWindow: a stream that has not started has no credits to add to.
DispatchWindow(q) ==
    credits' = IF handler[q] # "streaming" THEN credits
               ELSE [credits EXCEPT ![q] = Window + IF @ = None THEN 0 ELSE @]

DispatchFrame ==
    /\ request = "open" /\ ~AllDispatched
    /\ next' = next + 1
    /\ LET f == body[next]
       IN  IF f.kind = "call" THEN DispatchCall(f.q) /\ UNCHANGED credits
           ELSE DispatchWindow(f.q) /\ UNCHANGED <<handler, response>>
    /\ UNCHANGED <<clientVars, request, body, endOnIdle, yielded>>

\* After `await targetAnswer.readyPromise`.
ResumePipelined(q) ==
    /\ AllDispatched /\ handler[q] = "waiting"
    /\ \/ handler[target[q]] \in {"failed", "refused"} /\ Refuse(q)
       \/ handler[target[q]] = "done" /\ Dispatch(q)
    /\ UNCHANGED <<clientVars, request, body, endOnIdle, next, credits, yielded>>

Succeed(q) == handler' = [handler EXCEPT ![q] = "done"] /\ Reply(q, "ok")
Fail(q)    == handler' = [handler EXCEPT ![q] = "failed"] /\ Reply(q, "err")

HandlerReturns(q) ==
    /\ handler[q] = "running" /\ Awaitable(q)
    /\ Succeed(q) \/ Fail(q)
    /\ UNCHANGED <<clientVars, request, body, endOnIdle, next, credits, yielded>>

\* The generator has a chunk in hand and waits for the credit to send it.
Blocked(q) == credits[q] = 0 /\ yielded[q] < MaxChunks

\* One round of the loop of #runStreamHandler.
GeneratorYields(q) ==
    /\ handler[q] = "streaming" /\ AllDispatched
    /\ yielded[q] < MaxChunks /\ ~Blocked(q)
    /\ yielded' = [yielded EXCEPT ![q] = @ + 1]
    /\ credits' = [credits EXCEPT ![q] = IF @ = None THEN None ELSE @ - 1]
    /\ UNCHANGED <<clientVars, request, body, endOnIdle, next, handler, response>>

GeneratorEnds(q) ==
    /\ handler[q] = "streaming" /\ AllDispatched /\ yielded[q] = MaxChunks
    /\ Succeed(q)
    /\ UNCHANGED <<clientVars, request, body, endOnIdle, next, credits, yielded>>

GeneratorThrows(q) ==
    /\ handler[q] = "streaming" /\ AllDispatched /\ ~Blocked(q)
    /\ Fail(q)
    /\ UNCHANGED <<clientVars, request, body, endOnIdle, next, credits, yielded>>

\* Slip: idle() resolves while handlers wait or run.
DrainedEarly == AllDispatched

\* What idle() waits for: a stream's generator is not in flight.
Drained == AllDispatched /\ \A q \in Questions : handler[q] \notin {"waiting", "running"}

\* finish(), with opts.endOnIdle.
Finish ==
    /\ request = "open" /\ endOnIdle /\ Drained
    /\ request' = "ended"
    /\ UNCHANGED <<clientVars, body, serverVars, response>>

\* The stream is cancelled, since the client has aborted its fetch.
Cancel ==
    /\ request = "open" /\ AllDispatched /\ closed
    /\ request' = "ended"
    /\ UNCHANGED <<clientVars, body, serverVars, response>>

-----------------------------------------------------------------------------
Microtask == Flush \/ Start \/ Resume
ServerStep == Arrive \/ DispatchFrame \/ Finish \/ Cancel
HandlerStep(q) == ResumePipelined(q) \/ HandlerReturns(q)

Next ==
    \/ \E q \in Questions :
          \/ Bootstrap(q) \/ SignalAborts(q) \/ HandlerStep(q)
          \/ \E t \in Questions \cup {ImportedCap} : Call(q, t) \/ CallStream(q, t)
    \/ EndTurn \/ ClientCloses \/ RequestFails
    \/ Microtask \/ Receive \/ ResponseEnds \/ ServerStep
    \/ \E q \in Streams : GeneratorYields(q) \/ GeneratorEnds(q) \/ GeneratorThrows(q)

Spec == Init /\ [][Next]_vars

\* Turns end, microtasks run, the network delivers, handlers and generators
\* come to an end.  Each of these steps can be taken a bounded number of
\* times, so fairness to all together is enough.
Progress ==
    \/ EndTurn \/ Microtask \/ Receive \/ ResponseEnds \/ ServerStep
    \/ \E q \in Questions : HandlerStep(q)
    \/ \E q \in Streams : GeneratorYields(q) \/ GeneratorEnds(q)

FairSpec == Spec /\ WF_vars(Progress)

-----------------------------------------------------------------------------
(* Properties *)

TypeOK ==
    /\ target \in [Questions -> Questions \cup {ImportedCap, BootstrapCap, None}]
    /\ promise \in [Questions -> {"unused", "pending", "ok", "err"}]
    /\ closed \in BOOLEAN /\ turn \in BOOLEAN
    /\ jobs \in Seq({"caller", "flush", "start"}) /\ IsInjective(jobs)
    /\ sendQueue \in Seq([kind : {"call"}, q : Questions])
    /\ outbox \in Seq([kind : {"call", "window"}, q : Questions])
    /\ body \in Seq([kind : {"call", "window"}, q : Questions])
    /\ request \in {"unsent", "sent", "open", "ended"} /\ endOnIdle \in BOOLEAN
    /\ next \in 1..(Len(body) + 1)
    /\ handler \in [Questions ->
           {"none", "waiting", "running", "streaming", "done", "failed", "refused"}]
    /\ credits \in [Streams -> Nat \cup {None}] /\ yielded \in [Streams -> 0..MaxChunks]
    /\ response \in Seq([q : Questions, how : {"ok", "err"}])
    /\ burst \subseteq Questions /\ dropped \subseteq Questions

\* What waits to be sent has a microtask that will send it.
SendsAreScheduled ==
    /\ sendQueue # <<>> => Contains(jobs, "flush")
    /\ outbox # <<>> => Contains(jobs, "start")

\* While a call is pending on an open session its frame waits to be sent or
\* dispatched, was dropped, or the call is at its handler, or was answered.
\* Only of a stream that was refused, or still produced when idle() resolved,
\* nothing is left.
NoCallLost ==
    \A q \in Questions :
        promise[q] = "pending" /\ ~closed =>
            \/ q \in CallsIn(sendQueue \o outbox) \cup dropped
            \/ \E i \in next..Len(body) : body[i] = Frame("call", q)
            \/ handler[q] \in {"waiting", "running", "streaming"}
            \/ \E i \in 1..Len(response) : response[i].q = q
            \/ q \in Streams /\ (handler[q] = "refused" \/ request = "ended")

\* "The first send() (or the burst of sends in the same microtask) becomes
\* the request body": what was called before the session's first flush goes
\* out.  What is called later does not, also when the request is not made
\* yet, since it has a flush of its own.
BurstGoesOut == burst \cap dropped = {}

\* A call that went out settles, whatever becomes of the request, and so does
\* one that did not when the response ends.
EveryCallSettles ==
    \A q \in Questions :
        promise[q] = "pending" /\ target[q] # BootstrapCap
            ~> \/ promise[q] \in {"ok", "err"}
               \/ q \in dropped /\ request = "open" /\ ~endOnIdle
               \/ q \in Streams /\ handler[q] = "refused"

\* The shape of the state; nothing waits for a microtask that is not coming, and
\* no call falls between the queues, the request and its response.
ResponseInv ==
    /\ TypeOK
    /\ SendsAreScheduled
    /\ NoCallLost
=============================================================================
