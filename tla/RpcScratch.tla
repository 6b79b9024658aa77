---------------------------- MODULE RpcScratch -----------------------------
(***************************************************************************)
(* The wasm memory that every handler and every caller of an RpcSession    *)
(* shares (js/rpc.mjs, cpp/wrapper.cpp): cpp_in holds the inbound frame    *)
(* that rpc_reader reads in place, or staged bytes; rpc_builder holds the  *)
(* one outgoing message.  Handlers read parameters from the first, build   *)
(* results in the second, and may wait between any two steps; after that   *)
(* #handleCall finalizes whatever message is there.                        *)
(*                                                                         *)
(* Code runs until it awaits; continuations are microtasks, in order.      *)
(* Sessions on the same wasm instance share the memory too, so the calls   *)
(* here may be those of several.  Results fit (see RpcCalls).              *)
(***************************************************************************)
EXTENDS Naturals, Sequences, FiniteSets, SequencesExt

CONSTANTS
    Calls,      \* inbound calls
    Questions,  \* outgoing calls made with callBuilder
    Idiomatic,  \* the calls whose handlers are written as in docs/workers.md:
                \* parameters are read before any await and any result,
                \* results begun after the last await, and nothing is sent
    Sync,       \* the calls whose handlers are not async functions
    None

ASSUME ConstantsAssumption ==
    /\ IsFiniteSet(Calls)
    /\ Calls \cap Questions = {} /\ None \notin Calls \cup Questions
    /\ \A writers \in SUBSET (Calls \cup Questions) : None # writers
    /\ Idiomatic \subseteq Calls /\ Sync \subseteq Calls

VARIABLES
    inbound,   \* the call whose frame cpp_in holds
    builder,   \* rpc_builder: [msg, wrote]: whose message, and who wrote in it
    stage,     \* call -> where #handleCall and the handler stand
    target,    \* call -> the call it is pipelined on
    began,     \* the calls with beginResultsUsed
    misread,   \* the idiomatic calls that have read parameters of another frame
    jobs,      \* microtasks: the calls whose continuation is queued
    question,  \* question -> "unused", "filling" or "sent"
    reply      \* idiomatic call -> who wrote in the first Return sent for it, or None

callVars == <<stage, target, began, misread, jobs>>
vars == <<inbound, builder, callVars, question, reply>>

Message(x, writers) == [msg |-> x, wrote |-> writers]

Init ==
    /\ inbound = None /\ builder = Message(None, {})
    /\ stage = [c \in Calls |-> "unsent"] /\ target = [c \in Calls |-> None]
    /\ began = {} /\ misread = {} /\ jobs = <<>>
    /\ question = [q \in Questions |-> "unused"] /\ reply = [c \in Idiomatic |-> None]

\* The handler that runs, in its first segment or after an await.
Running == {c \in Calls : stage[c] \in {"first", "later"}}
Idle    == Running = {}

Over == {c \in Calls : stage[c] \in {"answered", "failed"}}

-----------------------------------------------------------------------------
(* The end of #handleCall. *)

\* Slip: those that wait for a failed call are not woken.
WaitersOfSuccess(c, how) ==
    IF how = "failed" THEN {} ELSE {d \in Calls : stage[d] = "blocked" /\ target[d] = c}

Waiters(c, how) == {d \in Calls : stage[d] = "blocked" /\ target[d] = c}

Settle(c, how, j) ==
    /\ stage' = [stage EXCEPT ![c] = how]
    /\ \E w \in SetToSeqs(Waiters(c, how)) : jobs' = j \o w

\* The peer takes the first Return for a call.
Sends(m) ==
    reply' = [c \in Idiomatic |-> IF c = m.msg /\ reply[c] = None THEN m.wrote ELSE reply[c]]

\* Slip: bytes that a handler returned are not staged.
FinalizesAlways(c) == TRUE

Finalizes(c) == c \in began

\* cpp_rpc_finalize of what the handler built, or #stageIn and
\* cpp_rpc_build_return.
Answer(c) ==
    \/ Finalizes(c) /\ Sends(builder) /\ UNCHANGED <<builder, inbound>>
    \/ /\ ~Finalizes(c)
       /\ builder' = Message(c, {c})
       /\ inbound' = None
       /\ Sends(Message(c, {c}))

SendException(c) ==
    /\ builder' = Message(c, {})
    /\ inbound' = None
    /\ Sends(Message(c, {}))

-----------------------------------------------------------------------------
(* Frames *)

\* Slip: the handler is started by a microtask.
DispatchLater(c, t) ==
    /\ stage' = [stage EXCEPT ![c] = "blocked"]
    /\ jobs' = IF t \notin Calls \ Over THEN Append(jobs, c) ELSE jobs

\* t is None, resolved, or awaited; a failed one rejects in a microtask.
Dispatch(c, t) ==
    IF t = None \/ stage[t] = "answered"
    THEN stage' = [stage EXCEPT ![c] = "first"] /\ UNCHANGED jobs
    ELSE /\ stage' = [stage EXCEPT ![c] = "blocked"]
         /\ jobs' = IF stage[t] = "failed" THEN Append(jobs, c) ELSE jobs

\* #dispatch of a Call: the frame is decoded in cpp_in.
Receive(c) ==
    /\ Idle /\ stage[c] = "unsent"
    /\ inbound' = c
    /\ \E t \in {None} \cup {d \in Calls : stage[d] # "unsent"} :
          target' = [target EXCEPT ![c] = t] /\ Dispatch(c, t)
    /\ UNCHANGED <<builder, began, misread, question, reply>>

\* Any other frame.
ReceiveOther ==
    /\ Idle
    /\ inbound' = None
    /\ UNCHANGED <<builder, callVars, question, reply>>

-----------------------------------------------------------------------------
(* Handlers *)

\* ctx.openParams, ctx.paramsBytes: what cpp_in holds now.
OpenParams(c) ==
    /\ c \in Running
    /\ c \in Idiomatic => stage[c] = "first" /\ c \notin began
    /\ misread' = IF inbound = c THEN misread ELSE misread \cup (Idiomatic \cap {c})
    /\ UNCHANGED <<inbound, builder, stage, target, began, jobs, question, reply>>

\* Slip: the message is not started anew.
BegunOver(c) == Message(c, builder.wrote)

Begun(c) == Message(c, {})

BeginResults(c) ==
    /\ c \in Running \ began
    /\ builder' = Begun(c)
    /\ began' = began \cup {c}
    /\ UNCHANGED <<inbound, stage, target, misread, jobs, question, reply>>

\* A setter: the Builder writes where the message lies; a text or data field
\* goes through cpp_in.
Fill(c) ==
    /\ c \in Running \cap began
    /\ builder' = [builder EXCEPT !.wrote = @ \cup {c}]
    /\ inbound' \in {inbound, None}
    /\ UNCHANGED <<callVars, question, reply>>

\* What is awaited is there already, or will be.
Await(c) ==
    /\ c \in Running \ Sync
    /\ c \in Idiomatic => c \notin began
    /\ stage' = [stage EXCEPT ![c] = "paused"]
    /\ jobs' = Append(jobs, c) \/ UNCHANGED jobs
    /\ UNCHANGED <<inbound, builder, target, began, misread, question, reply>>

Awaited(c) ==
    /\ Idle /\ stage[c] = "paused" /\ ~Contains(jobs, c)
    /\ jobs' = Append(jobs, c)
    /\ UNCHANGED <<inbound, builder, stage, target, began, misread, question, reply>>

\* An async function that ends settles its promise; #handleCall awaits that.
End(c, how) ==
    /\ c \in Running \ Sync
    /\ stage' = [stage EXCEPT ![c] = how]
    /\ jobs' = Append(jobs, c)
    /\ UNCHANGED <<inbound, builder, reply>>

Return(c) ==
    /\ \/ End(c, "returned")
       \/ c \in Running \cap Sync /\ Answer(c) /\ Settle(c, "answered", jobs)
    /\ UNCHANGED <<target, began, misread, question>>

Throw(c) ==
    /\ \/ End(c, "thrown")
       \/ c \in Running \cap Sync /\ SendException(c) /\ Settle(c, "failed", jobs)
    /\ UNCHANGED <<target, began, misread, question>>

TargetFailed(c) == target[c] # None /\ stage[target[c]] = "failed"

\* The next microtask.
RunJob ==
    /\ Idle /\ jobs # <<>>
    /\ LET c == Head(jobs)
       IN  \/ /\ \/ /\ stage[c] = "blocked" /\ ~TargetFailed(c)
                    /\ stage' = [stage EXCEPT ![c] = "first"]
                 \/ stage[c] = "paused" /\ stage' = [stage EXCEPT ![c] = "later"]
              /\ jobs' = Tail(jobs)
              /\ UNCHANGED <<inbound, builder, reply>>
           \/ stage[c] = "returned" /\ Answer(c) /\ Settle(c, "answered", Tail(jobs))
           \/ /\ \/ stage[c] = "thrown"
                 \/ stage[c] = "blocked" /\ TargetFailed(c)
              /\ SendException(c) /\ Settle(c, "failed", Tail(jobs))
    /\ UNCHANGED <<target, began, misread, question>>

-----------------------------------------------------------------------------
(* Callers: user code, in a handler or elsewhere *)

MaySend == Running \cap Idiomatic = {}

\* call(), bootstrap(), #sendRelease: built and sent in one go.
Send ==
    /\ MaySend
    /\ builder' = Message(None, {})
    /\ inbound' = None
    /\ UNCHANGED <<callVars, question, reply>>

CallBuilder(q) ==
    /\ MaySend /\ question[q] = "unused"
    /\ builder' = Message(q, {q})
    /\ question' = [question EXCEPT ![q] = "filling"]
    /\ UNCHANGED <<inbound, callVars, reply>>

\* CallStarted.send: again what is there is sent.
CompleteSend(q) ==
    /\ MaySend /\ question[q] = "filling"
    /\ Sends(builder)
    /\ question' = [question EXCEPT ![q] = "sent"]
    /\ UNCHANGED <<inbound, builder, callVars>>

Next ==
    \/ ReceiveOther \/ RunJob \/ Send
    \/ \E c \in Calls :
          \/ Receive(c) \/ OpenParams(c) \/ BeginResults(c) \/ Fill(c)
          \/ Await(c) \/ Awaited(c) \/ Return(c) \/ Throw(c)
    \/ \E q \in Questions : CallBuilder(q) \/ CompleteSend(q)

Spec == Init /\ [][Next]_vars

\* Microtasks run, what is awaited settles, and handlers end.
FairSpec ==
    /\ Spec /\ WF_vars(RunJob)
    /\ \A c \in Calls : WF_vars(Awaited(c)) /\ SF_vars(Return(c) \/ Throw(c))

-----------------------------------------------------------------------------
(* Properties *)

Replied(c) == reply[c] # None

TypeOK ==
    /\ inbound \in Calls \cup {None}
    /\ builder \in [msg : Calls \cup Questions \cup {None}, wrote : SUBSET (Calls \cup Questions)]
    /\ stage \in [Calls -> {"unsent", "blocked", "first", "paused", "later",
                            "returned", "thrown", "answered", "failed"}]
    /\ target \in [Calls -> Calls \cup {None}]
    /\ began \subseteq Calls /\ misread \subseteq Idiomatic
    /\ jobs \in Seq(Calls) /\ IsInjective(jobs)
    /\ question \in [Questions -> {"unused", "filling", "sent"}]
    /\ reply \in [Idiomatic -> (SUBSET (Calls \cup Questions)) \cup {None}]

\* The handlers no one can disturb: results begun and returned in one go, or
\* returned as bytes.
Safe(c) == c \in Sync \/ c \notin began

\* "The handler must call openParams synchronously": one that does gets its
\* own parameters, unless #handleCall has awaited before it.
OwnParams == \A c \in misread : target[c] # None

\* A safe handler's call is answered, and the answer the peer takes, the
\* first one, is its own, whatever else is built in the same memory.
SafeHandlersAnswer ==
    \A c \in Over \cap Idiomatic : Safe(c) => Replied(c) /\ reply[c] \subseteq {c}

\* A handler that begins and fills its results after the last await writes
\* in no other message.
OwnResults == builder.wrote \cap Idiomatic \subseteq {builder.msg}

\* Every call whose handler is safe is answered, also when it is pipelined on
\* one that is not and whose own answer is lost.
CallsAnswered ==
    \A c \in Idiomatic : stage[c] # "unsent" ~> Replied(c) \/ ~Safe(c)

\* Stated by rpc.mjs of ctx.beginResults: "Results are already built in the
\* rpc_builder's arena; just finalize and send": the call gets its answer.
ResultsInPlace == \A c \in Over \cap Idiomatic : Replied(c)

\* The shape of the state, and no writer in a message that is not its own.
ScratchInv ==
    /\ TypeOK
    /\ OwnResults
=============================================================================
