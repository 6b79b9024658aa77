------------------------------ MODULE RpcCalls ------------------------------
(***************************************************************************)
(* Calls, answers and promise pipelining between two RpcSession objects    *)
(* (js/rpc.mjs).  One session, the client, holds the question table; the   *)
(* other, the server, holds the answer table and runs the handlers.        *)
(*                                                                         *)
(* Every frame of this module leaves through #sendFromOut or finish(), is  *)
(* queued in #sendQueue and flushed in order, so the queue and the ordered *)
(* transport behind it are one FIFO per direction: c2s and s2c.  A handler *)
(* runs in three pieces, cut where the code awaits: HandleCall (up to the  *)
(* wait on the pipeline target), ResumePipelined and HandlerReturns.       *)
(***************************************************************************)
EXTENDS Naturals, Sequences

CONSTANTS
    Questions,       \* question ids; #allocQuestionId never repeats one here
    ImportedCap,     \* call target: an imported capability
    BootstrapCap,    \* target recorded for bootstrap()
    None,            \* absent
    Cancellable,     \* the calls whose caller passes opts.signal
    LatePipelining,  \* may a caller use .cap after the call has settled?
    HasBootstrap,    \* was options.bootstrap given to the server session?
    Oversize,        \* calls whose results may exceed the wasm scratch buffer
    Faults           \* subset of {"close", "abort", "disconnect"}

Sentinels == {ImportedCap, BootstrapCap, None}

\* An answer record is made by #getOrCreateAnswer while one Call frame is
\* handled: for the call itself ("own") or for its pipeline target.
Records == Questions \X {"own", "target"}

ASSUME ConstantsAssumption ==
    /\ Sentinels \cap Questions = {}
    /\ ImportedCap # BootstrapCap /\ ImportedCap # None /\ BootstrapCap # None
    /\ Cancellable \subseteq Questions /\ Oversize \subseteq Questions
    /\ LatePipelining \in BOOLEAN /\ HasBootstrap \in BOOLEAN
    /\ Faults \subseteq {"close", "abort", "disconnect"}
    /\ None \notin Records

VARIABLES
    target,     \* what the client addressed each call to
    promise,    \* the question's deferred: unused, pending, ok, err
    questions,  \* client: keys of #questions
    cclosed,    \* client: #closed
    c2s, s2c,   \* frames queued or in flight, oldest first
    linkUp,     \* the transport still carries frames
    answers,    \* server: #answers, question id -> record
    ready,      \* state of each record's readyDeferred
    stash,      \* the record a handler fills (its local variable stash)
    awaits,     \* the record a pipelined call waits on (targetAnswer)
    handler,    \* where #handleCall of each call stands
    sclosed     \* server: #closed

clientVars == <<target, promise, questions, cclosed>>
serverVars == <<answers, ready, stash, awaits, handler, sclosed>>
vars == <<clientVars, c2s, s2c, linkUp, serverVars>>

Frame(k, q, a) == [kind |-> k, q |-> q, arg |-> a]
Fin   == Frame("fin", None, None)      \* the transport reports the close
Abort == Frame("abort", None, None)

FrameSet(kinds, ids, args) == [kind : kinds, q : ids, arg : args]

ClientFrames == FrameSet({"bootstrap", "finish"}, Questions, {None})
                \cup FrameSet({"call"}, Questions, Questions \cup {ImportedCap})
                \cup FrameSet({"fin", "abort"}, {None}, {None})
ServerFrames == FrameSet({"return"}, Questions, {"ok", "err"})
                \cup FrameSet({"fin", "abort"}, {None}, {None})

Init ==
    /\ target = [q \in Questions |-> None]
    /\ promise = [q \in Questions |-> "unused"]
    /\ questions = {}
    /\ cclosed = FALSE
    /\ c2s = <<>> /\ s2c = <<>> /\ linkUp = TRUE
    /\ answers = [q \in Questions |-> None]
    /\ ready = [r \in Records |-> "pending"]
    /\ stash = [q \in Questions |-> None]
    /\ awaits = [q \in Questions |-> None]
    /\ handler = [q \in Questions |-> "none"]
    /\ sclosed = FALSE

-----------------------------------------------------------------------------
(* The transport.  After either end closed, or the link broke, what is     *)
(* sent goes nowhere; a closed end is no longer handed frames.             *)

Carries == linkUp /\ ~cclosed /\ ~sclosed

ToServer(m) == c2s' = IF Carries THEN Append(c2s, m) ELSE c2s
ToClient(m) == s2c' = IF Carries THEN Append(s2c, m) ELSE s2c

ClientGets(kind) ==
    /\ ~cclosed
    /\ s2c # <<>> /\ Head(s2c).kind = kind
    /\ s2c' = Tail(s2c)

ServerGets(kind) ==
    /\ ~sclosed
    /\ c2s # <<>> /\ Head(c2s).kind = kind
    /\ c2s' = Tail(c2s)

-----------------------------------------------------------------------------
(* Client *)

\* Slip: an id is handed out again once its call has settled.
IssueReusingIds(q, t) ==
    /\ promise[q] # "pending"
    /\ target' = [target EXCEPT ![q] = t]
    /\ promise' = [promise EXCEPT ![q] = "pending"]
    /\ questions' = questions \cup {q}
    /\ UNCHANGED <<cclosed, s2c, linkUp, serverVars>>

\* makeQ and #questions.set, common to bootstrap() and call().
Issue(q, t) ==
    /\ promise[q] = "unused"
    /\ target' = [target EXCEPT ![q] = t]
    /\ promise' = [promise EXCEPT ![q] = "pending"]
    /\ questions' = questions \cup {q}
    /\ UNCHANGED <<cclosed, s2c, linkUp, serverVars>>

\* bootstrap() has no closed check.
Bootstrap(q) ==
    /\ Issue(q, BootstrapCap)
    /\ ToServer(Frame("bootstrap", q, None))

\* A promise capability (CallSentResult.cap) exists for calls only.
PipelineTargets ==
    {t \in Questions : /\ target[t] \notin {None, BootstrapCap}
                       /\ t \in questions \/ LatePipelining}

Call(q, t) ==
    /\ ~cclosed
    /\ t \in {ImportedCap} \cup PipelineTargets
    /\ Issue(q, t)
    /\ ToServer(Frame("call", q, t))

\* Slip: the peer is not told.
SignalAbortsSilently(q) ==
    /\ q \in Cancellable /\ q \in questions /\ target[q] # BootstrapCap
    /\ questions' = questions \ {q}
    /\ promise' = [promise EXCEPT ![q] = "err"]
    /\ UNCHANGED <<target, cclosed, c2s, s2c, linkUp, serverVars>>

\* #wireAbort: the signal fires while the question is open.
SignalAborts(q) ==
    /\ q \in Cancellable /\ q \in questions /\ target[q] # BootstrapCap
    /\ questions' = questions \ {q}
    /\ promise' = [promise EXCEPT ![q] = "err"]
    /\ ToServer(Frame("finish", q, None))
    /\ UNCHANGED <<target, cclosed, s2c, linkUp, serverVars>>

\* Slip: a late Return is not checked against the question table.
HandleReturnUnchecked ==
    /\ ClientGets("return")
    /\ questions' = questions \ {Head(s2c).q}
    /\ promise' = [promise EXCEPT ![Head(s2c).q] = Head(s2c).arg]
    /\ ToServer(Frame("finish", Head(s2c).q, None))
    /\ UNCHANGED <<target, cclosed, linkUp, serverVars>>

\* The Return of a question we no longer know is dropped; otherwise the
\* question settles (an extractor may throw) and a Finish always follows.
HandleReturn ==
    /\ ClientGets("return")
    /\ LET q == Head(s2c).q IN
       \/ /\ q \notin questions
          /\ UNCHANGED <<promise, questions, c2s>>
       \/ /\ q \in questions
          /\ questions' = questions \ {q}
          /\ \E settled \in {"ok", "err"} :
                /\ settled = Head(s2c).arg \/ (settled = "err" /\ target[q] # BootstrapCap)
                /\ promise' = [promise EXCEPT ![q] = settled]
          /\ ToServer(Frame("finish", q, None))
    /\ UNCHANGED <<target, cclosed, linkUp, serverVars>>

\* close(): everything queued is flushed, every question rejected.
CloseClient(last) ==
    /\ cclosed' = TRUE
    /\ promise' = [q \in Questions |-> IF q \in questions THEN "err" ELSE promise[q]]
    /\ questions' = {}
    /\ s2c' = <<>>
    /\ ToServer(last)
    /\ UNCHANGED <<target, linkUp, serverVars>>

ClientCloses == "close" \in Faults /\ ~cclosed /\ CloseClient(Fin)

\* transport.onClose, or an Abort frame: both end in close().
ClientLosesPeer ==
    /\ ~cclosed /\ s2c # <<>>
    /\ Head(s2c).kind \in {"fin", "abort"}
    /\ CloseClient(Fin)

-----------------------------------------------------------------------------
(* Server *)

\* #handleBootstrap: answered at once, no answer record.
HandleBootstrap ==
    /\ ServerGets("bootstrap")
    /\ ToClient(Frame("return", Head(c2s).q, IF HasBootstrap THEN "ok" ELSE "err"))
    /\ UNCHANGED <<clientVars, linkUp, serverVars>>

\* Slips: the waiters fail but no Return is sent; the waiters are not told.
SendExceptionWithoutReturn(q, table) ==
    /\ ready' = IF table[q] # None /\ ready[table[q]] = "pending"
                THEN [ready EXCEPT ![table[q]] = "rejected"] ELSE ready
    /\ handler' = [handler EXCEPT ![q] = "failed"]
    /\ UNCHANGED s2c

SendExceptionToPeer(q, table) ==
    /\ UNCHANGED ready
    /\ handler' = [handler EXCEPT ![q] = "failed"]
    /\ ToClient(Frame("return", q, "err"))

\* #sendException: the record found in the table NOW is failed.
SendException(q, table) ==
    /\ ready' = IF table[q] # None /\ ready[table[q]] = "pending"
                THEN [ready EXCEPT ![table[q]] = "rejected"] ELSE ready
    /\ handler' = [handler EXCEPT ![q] = "failed"]
    /\ ToClient(Frame("return", q, "err"))

\* The target capability is known: start the method body, or refuse (the
\* export was released, or no method is registered).
Dispatch(q, table) ==
    \/ /\ handler' = [handler EXCEPT ![q] = "running"]
       /\ UNCHANGED <<ready, s2c>>
    \/ SendException(q, table)

\* #getOrCreateAnswer(k) with a new record r.
GetOrCreate(table, k, r) == IF table[k] = None THEN [table EXCEPT ![k] = r] ELSE table

HandleCall ==
    /\ ServerGets("call")
    /\ LET q == Head(c2s).q
           t == Head(c2s).arg
           own == GetOrCreate(answers, q, <<q, "own">>)
       IN /\ stash' = [stash EXCEPT ![q] = own[q]]
          /\ \/ /\ t = ImportedCap
                /\ answers' = own
                /\ UNCHANGED awaits
                /\ Dispatch(q, own)
             \/ /\ t \in Questions
                /\ answers' = GetOrCreate(own, t, <<q, "target">>)
                /\ awaits' = [awaits EXCEPT ![q] = answers'[t]]
                /\ IF ready[answers'[t]] = "resolved"
                   THEN Dispatch(q, answers')
                   ELSE /\ handler' = [handler EXCEPT ![q] = "waiting"]
                        /\ UNCHANGED <<ready, s2c>>
    /\ UNCHANGED <<clientVars, linkUp, sclosed>>

\* Slip: no catch around the await, a failed target is never noticed.
ResumePipelinedUncaught(q) ==
    /\ handler[q] = "waiting"
    /\ ready[awaits[q]] = "resolved" /\ Dispatch(q, answers)
    /\ UNCHANGED <<clientVars, c2s, linkUp, answers, stash, awaits, sclosed>>

\* The continuation after `await targetAnswer.readyPromise`.
ResumePipelined(q) ==
    /\ handler[q] = "waiting"
    /\ \/ ready[awaits[q]] = "rejected" /\ SendException(q, answers)
       \/ ready[awaits[q]] = "resolved" /\ Dispatch(q, answers)
    /\ UNCHANGED <<clientVars, c2s, linkUp, answers, stash, awaits, sclosed>>

Resolved(r) == [ready EXCEPT ![r] = IF @ = "pending" THEN "resolved" ELSE @]

HandlerSucceeds(q) ==
    /\ ready' = Resolved(stash[q])
    /\ handler' = [handler EXCEPT ![q] = "done"]
    /\ ToClient(Frame("return", q, "ok"))

\* #stageIn throws outside the try block: the record is resolved, but
\* #handleCall rejects and no Return is ever sent.
HandlerOverflows(q) ==
    /\ q \in Oversize
    /\ ready' = Resolved(stash[q])
    /\ handler' = [handler EXCEPT ![q] = "unsent"]
    /\ UNCHANGED s2c

HandlerReturns(q) ==
    /\ handler[q] = "running"
    /\ HandlerSucceeds(q) \/ HandlerOverflows(q) \/ SendException(q, answers)
    /\ UNCHANGED <<clientVars, c2s, linkUp, answers, stash, awaits, sclosed>>

HandleFinish ==
    /\ ServerGets("finish")
    /\ answers' = [answers EXCEPT ![Head(c2s).q] = None]
    /\ UNCHANGED <<clientVars, s2c, linkUp, ready, stash, awaits, handler, sclosed>>

CloseServer(last) ==
    /\ sclosed' = TRUE
    /\ answers' = [q \in Questions |-> None]
    /\ c2s' = <<>>
    /\ ToClient(last)
    /\ UNCHANGED <<clientVars, linkUp, stash, awaits, handler>>

ServerCloses == "close" \in Faults /\ ~sclosed /\ CloseServer(Fin) /\ UNCHANGED ready

ServerLosesPeer ==
    /\ ~sclosed /\ c2s # <<>>
    /\ Head(c2s).kind = "fin"
    /\ CloseServer(Fin) /\ UNCHANGED ready

\* #handleAbort first fails every record in the table that is unresolved.
HandleAbort ==
    /\ ~sclosed /\ c2s # <<>>
    /\ Head(c2s).kind = "abort"
    /\ ready' = [r \in Records |->
                    IF ready[r] = "pending" /\ \E q \in Questions : answers[q] = r
                    THEN "rejected" ELSE ready[r]]
    /\ CloseServer(Fin)

-----------------------------------------------------------------------------
(* Environment *)

\* A foreign peer reports a fatal error and tears down; capnwasm itself
\* never sends Abort.
PeerAborts ==
    /\ "abort" \in Faults
    /\ \/ ~cclosed /\ CloseClient(Abort)
       \/ ~sclosed /\ CloseServer(Abort) /\ UNCHANGED ready

\* The connection breaks: a prefix of each direction still arrives.
Disconnect ==
    /\ "disconnect" \in Faults /\ Carries
    /\ linkUp' = FALSE
    /\ \E n \in 0..Len(c2s) : c2s' = Append(SubSeq(c2s, 1, n), Fin)
    /\ \E n \in 0..Len(s2c) : s2c' = Append(SubSeq(s2c, 1, n), Fin)
    /\ UNCHANGED <<clientVars, serverVars>>

ClientStep == HandleReturn \/ ClientLosesPeer
ServerStep == HandleBootstrap \/ HandleCall \/ HandleFinish \/ ServerLosesPeer \/ HandleAbort

Next ==
    \/ \E q \in Questions : Bootstrap(q) \/ SignalAborts(q)
    \/ \E q, t \in Questions \cup {ImportedCap} : q \in Questions /\ Call(q, t)
    \/ ClientStep \/ ClientCloses
    \/ ServerStep \/ ServerCloses
    \/ \E q \in Questions : ResumePipelined(q) \/ HandlerReturns(q)
    \/ PeerAborts \/ Disconnect

Spec == Init /\ [][Next]_vars

\* The event loop runs every queued continuation and the transport delivers;
\* HandlerReturns assumes that application handlers settle.
Fairness ==
    /\ WF_vars(ClientStep)
    /\ WF_vars(ServerStep)
    /\ \A q \in Questions : WF_vars(ResumePipelined(q)) /\ WF_vars(HandlerReturns(q))

FairSpec == Spec /\ Fairness

-----------------------------------------------------------------------------
(* Properties *)

TypeOK ==
    /\ target \in [Questions -> Questions \cup Sentinels]
    /\ promise \in [Questions -> {"unused", "pending", "ok", "err"}]
    /\ questions \subseteq Questions
    /\ cclosed \in BOOLEAN /\ sclosed \in BOOLEAN /\ linkUp \in BOOLEAN
    /\ c2s \in Seq(ClientFrames) /\ s2c \in Seq(ServerFrames)
    /\ answers \in [Questions -> Records \cup {None}]
    /\ ready \in [Records -> {"pending", "resolved", "rejected"}]
    /\ stash \in [Questions -> Records \cup {None}]
    /\ awaits \in [Questions -> Records \cup {None}]
    /\ handler \in [Questions ->
           {"none", "waiting", "running", "done", "failed", "unsent"}]

InFlight(wire, kind, q) == \E i \in 1..Len(wire) : wire[i].kind = kind /\ wire[i].q = q
Closing(wire) == \E i \in 1..Len(wire) : wire[i].kind \in {"fin", "abort"}

\* A pending promise is always in the question table, where a Return, an
\* abort or close() will find it; nothing else is in the table.
PendingIsTracked == \A q \in Questions : q \in questions <=> promise[q] = "pending"

\* No call falls between the two tables: while its question is open, the
\* request is on its way, or a handler has it, or the answer is on its way,
\* or the client is about to learn that the connection is gone.  The only
\* other place is a reply that did not fit the scratch buffer.
NoCallLost ==
    ~cclosed => \A q \in questions :
        \/ InFlight(c2s, "call", q) \/ InFlight(c2s, "bootstrap", q)
        \/ handler[q] \in {"waiting", "running", "unsent"}
        \/ InFlight(s2c, "return", q)
        \/ Closing(s2c)

\* A promise is fulfilled only if the method body of that very call
\* succeeded (or it was the bootstrap request).
FulfilledOnlyBySuccess ==
    \A q \in Questions :
        promise[q] = "ok" => handler[q] = "done" \/ target[q] = BootstrapCap

\* A method body never runs on the answer of a call that has not succeeded.
PipelinesBehindSuccess ==
    \A q \in Questions :
        /\ handler[q] \in {"running", "done", "unsent"}
        /\ target[q] \in Questions
        => handler[target[q]] \in {"done", "unsent"}

\* The peer keeps the record of a call only while its question is open or its
\* Finish is on the way, so a long session does not accumulate answers; the
\* records of pipelining on a call that is over are another matter.
AnswersAreOwned ==
    ~cclosed /\ ~sclosed /\ ~Closing(c2s) =>
        \A q \in Questions :
            answers[q] = <<q, "own">> => q \in questions \/ InFlight(c2s, "finish", q)

\* The outcome of a call reaches every call that waits on it as long as its
\* question is open: only a Finish, that is an abort or pipelining on a call
\* that is over, or the end of the session can leave a waiter behind.
OutcomeReachesWaiters ==
    \A q, t \in Questions :
        /\ handler[q] = "waiting" /\ target[q] = t
        /\ handler[t] \in {"done", "failed", "unsent"}
        /\ promise[t] = "pending" /\ ~sclosed
        => ready[awaits[q]] # "pending"

\* A call whose results were not sent, or that waits although its target is
\* over: nothing but the end of the session settles it.
LeftBehind(q) ==
    \/ handler[q] = "unsent"
    \/ /\ handler[q] = "waiting" /\ target[q] \in Questions
       /\ handler[target[q]] \in {"done", "failed", "unsent"}
       /\ ready[awaits[q]] = "pending"

\* Whatever the connection does, every call's promise settles, unless a call
\* is left behind, which it may be or wait on.
EveryCallSettles ==
    \A q \in Questions :
        promise[q] = "pending" /\ target[q] # BootstrapCap
            ~> promise[q] \in {"ok", "err"} \/ \E t \in Questions : LeftBehind(t)

-----------------------------------------------------------------------------
(* The inductive invariant behind the safety properties *)

\* The call a record belongs to.
CallOf(r) == IF r[2] = "own" THEN r[1] ELSE target[r[1]]

\* Tables, local variables and promises name records of the right call, and
\* a record resolves only with the success of its call's handler.
RecordsFollowCalls ==
    /\ \A q \in Questions : answers[q] # None => CallOf(answers[q]) = q
    /\ \A q \in Questions : handler[q] # "none" =>
          stash[q] # None /\ CallOf(stash[q]) = q /\ target[q] # None
    /\ \A q \in Questions : handler[q] = "waiting" =>
          awaits[q] # None /\ CallOf(awaits[q]) = target[q]
    /\ \A r \in Records : ready[r] = "resolved" =>
          CallOf(r) \in Questions /\ handler[CallOf(r)] \in {"done", "unsent"}

\* A request on its way is unique, still unhandled, and as it was issued.
RequestsAreFresh ==
    \A i \in 1..Len(c2s) :
        /\ c2s[i].kind = "bootstrap" => target[c2s[i].q] = BootstrapCap
        /\ c2s[i].kind = "call" =>
              /\ c2s[i].arg = target[c2s[i].q]
              /\ handler[c2s[i].q] = "none"
              /\ \A j \in 1..Len(c2s) :
                    c2s[j].kind = "call" /\ c2s[j].q = c2s[i].q => j = i

\* A Return with results on its way reports a success.
RepliesAreTrue ==
    \A i \in 1..Len(s2c) :
        s2c[i].kind = "return" /\ s2c[i].arg = "ok" =>
            handler[s2c[i].q] = "done" \/ target[s2c[i].q] = BootstrapCap

\* A question that was never issued has no target, every other one has.
IssuedHaveTargets == \A q \in Questions : promise[q] = "unused" <=> target[q] = None

IInv ==
    /\ TypeOK
    /\ IssuedHaveTargets
    /\ PendingIsTracked
    /\ RecordsFollowCalls
    /\ RequestsAreFresh
    /\ RepliesAreTrue
    /\ FulfilledOnlyBySuccess
    /\ PipelinesBehindSuccess

-----------------------------------------------------------------------------
(* The contract this protocol implements *)

RunView(h) ==
    CASE h \in {"none", "waiting"} -> "no"
      [] h = "running"             -> "started"
      [] h \in {"done", "unsent"}  -> "ok"
      [] h = "failed"              -> "failed"

Contract == INSTANCE CallContract WITH run <- [q \in Questions |-> RunView(handler[q])]

ContractSpec == Contract!Spec
=============================================================================
