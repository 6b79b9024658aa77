----------------------------- MODULE Reconnect -----------------------------
(***************************************************************************)
(* reconnectingTransport (js/reconnect.mjs): a loop that opens a transport,*)
(* makes an RpcSession over it, tells the onReconnect callbacks one after  *)
(* the other, waits for the transport to close and starts again, with a    *)
(* delay that doubles while the factory fails.  The handle it returns may  *)
(* be closed, and callbacks come and go, between any two of these steps.   *)
(*                                                                         *)
(* A session is numbered by the attempt that opened it, delays are in      *)
(* units of initialBackoff.  A transport reports its end once, on its own  *)
(* or some time after close(); one without onClose is not modelled.        *)
(***************************************************************************)
EXTENDS Naturals, Sequences, SequencesExt, FiniteSets

CONSTANTS
    Callbacks,    \* functions given to onReconnect, each at most once at a time
    Enduring,     \* those that return only once the session is closed
    Hanging,      \* those that need not return at all
    MaxSessions,  \* bound: sessions opened
    MaxBackoff,   \* opts.maxBackoff
    NoCallback

ASSUME LoopAssumption ==
    /\ IsFiniteSet(Callbacks) /\ NoCallback \notin Callbacks
    /\ Enduring \subseteq Callbacks /\ Hanging \subseteq Callbacks
    /\ MaxSessions \in Nat \ {0} /\ MaxBackoff \in Nat \ {0}

Sessions == 1..MaxSessions

VARIABLES
    loop,       \* what loop() awaits, or "done"
    stopped,
    current,    \* currentSession, 0 for null
    attempt,
    backoff,    \* the delay after the next failure
    ready,      \* the promise; its resolvers are dropped when it settles
    transport,  \* session -> its transport; the session is open while it is
    fns,        \* onReconnectFns
    at,         \* the index the for loop has reached, 0 outside it
    running,    \* the callback it awaits
    told,       \* the callbacks told of the latest session
    shifted     \* one was removed at or before that index

handle   == <<stopped, current>>
progress == <<attempt, backoff, ready>>
telling  == <<at, running, told, shifted>>
loopVars == <<loop, handle, progress, transport, fns, telling>>

LoopInit ==
    /\ loop = "opening"
    /\ stopped = FALSE /\ current = 0
    /\ attempt = 0 /\ backoff = 1 /\ ready = "pending"
    /\ transport = [s \in Sessions |-> "none"]
    /\ fns = <<>> /\ at = 0 /\ running = NoCallback /\ told = {} /\ shifted = FALSE

-----------------------------------------------------------------------------
(* loop() *)

\* while (!stopped)
Again == loop' = IF stopped THEN "done" ELSE "opening"

Doubled == IF backoff * 2 < MaxBackoff THEN backoff * 2 ELSE MaxBackoff

ReadyAfterFailure == IF attempt = 0 /\ ready = "pending" THEN "rejected" ELSE ready

\* transportFactory() rejects; shouldReconnect is not asked.
FactoryFails ==
    /\ loop = "opening"
    /\ IF stopped
       THEN loop' = "done" /\ UNCHANGED <<backoff, ready>>
       ELSE loop' = "sleeping" /\ backoff' = Doubled /\ ready' = ReadyAfterFailure
    /\ UNCHANGED <<handle, attempt, transport, fns, telling>>

\* setTimeout fires; close() does not cancel it.
Wake ==
    /\ loop = "sleeping"
    /\ Again
    /\ UNCHANGED <<handle, progress, transport, fns, telling>>

\* Slip: the last callback is not reached.
TellBefore(i, known) ==
    IF i < Len(fns)
    THEN loop' = "telling" /\ at' = i /\ running' = fns[i] /\ told' = known \cup {fns[i]}
    ELSE loop' = "watching" /\ at' = 0 /\ running' = NoCallback /\ told' = known

\* for (const fn of onReconnectFns): the list may change under the iterator.
TellFrom(i, known) ==
    IF i <= Len(fns)
    THEN loop' = "telling" /\ at' = i /\ running' = fns[i] /\ told' = known \cup {fns[i]}
    ELSE loop' = "watching" /\ at' = 0 /\ running' = NoCallback /\ told' = known

\* transportFactory() resolves: stopped is not looked at again.
FactoryOpens ==
    /\ loop = "opening" /\ attempt < MaxSessions
    /\ current' = attempt + 1
    /\ attempt' = attempt + 1
    /\ transport' = [transport EXCEPT ![attempt + 1] = "open"]
    /\ backoff' = 1
    /\ ready' = IF ready = "pending" THEN "resolved" ELSE ready
    /\ TellFrom(1, {})
    /\ shifted' = FALSE
    /\ UNCHANGED <<stopped, fns>>

\* The awaited callback returns or throws, for all the loop cares.
CallbackReturns ==
    /\ loop = "telling"
    /\ running \in Enduring => transport[attempt] # "open"
    /\ TellFrom(at + 1, told)
    /\ UNCHANGED <<handle, progress, transport, fns, shifted>>

\* Slip: the loop does not wait for the transport to close.
NoWait == TRUE

Closed == transport[attempt] = "closed"

\* await closed, then shouldReconnect() if it is asked.
Reopen ==
    /\ loop = "watching" /\ Closed
    /\ current' = 0
    /\ Again \/ loop' = "done"
    /\ UNCHANGED <<stopped, progress, transport, fns, telling>>

-----------------------------------------------------------------------------
(* The handle, the session and its transport *)

\* Slip: a transport that is told to close does not report it.
ClosingSilently(s) == [transport EXCEPT ![s] = IF @ = "open" THEN "none" ELSE @]

\* session.close() ends in transport.close().
Closing(s) == [transport EXCEPT ![s] = IF @ = "open" THEN "closing" ELSE @]

Close ==
    /\ stopped' = TRUE
    /\ transport' = IF current = 0 THEN transport ELSE Closing(current)
    /\ UNCHANGED <<loop, current, progress, fns, telling>>

\* The caller closes the session, or the peer aborts it.
CloseSession ==
    /\ current # 0
    /\ transport' = Closing(current)
    /\ UNCHANGED <<loop, handle, progress, fns, telling>>

\* onClose: the session closes and `closed` resolves.
TransportEnds(s) ==
    /\ transport[s] \in {"open", "closing"}
    /\ transport' = [transport EXCEPT ![s] = "closed"]
    /\ UNCHANGED <<loop, handle, progress, fns, telling>>

Subscribe(f) ==
    /\ ~Contains(fns, f)
    /\ fns' = Append(fns, f)
    /\ UNCHANGED <<loop, handle, progress, transport, telling>>

Unsubscribe(f) ==
    \E i \in 1..Len(fns) :
        /\ fns[i] = f
        /\ fns' = RemoveAt(fns, i)
        /\ shifted' = (shifted \/ i <= at)
        /\ UNCHANGED <<loop, handle, progress, transport, at, running, told>>

LoopNext ==
    \/ FactoryFails \/ FactoryOpens \/ Wake \/ CallbackReturns \/ Reopen
    \/ Close \/ CloseSession
    \/ \E s \in Sessions : TransportEnds(s)
    \/ \E f \in Callbacks : Subscribe(f) \/ Unsubscribe(f)

LoopSpec == LoopInit /\ [][LoopNext]_loopVars

\* Timers fire, promises that are settled resume the loop, a transport that
\* was told to close does, and callbacks return unless they hang; the factory
\* settles, and a server that is asked again and again is there once.
Fairness ==
    /\ WF_loopVars(Wake) /\ WF_loopVars(Reopen)
    /\ WF_loopVars(running \notin Hanging /\ CallbackReturns)
    /\ WF_loopVars(\E s \in Sessions : transport[s] = "closing" /\ TransportEnds(s))
    /\ WF_loopVars(FactoryFails \/ FactoryOpens) /\ SF_loopVars(FactoryOpens)

FairLoopSpec == LoopSpec /\ Fairness

-----------------------------------------------------------------------------
(* Properties *)

LoopTypeOK ==
    /\ loop \in {"opening", "sleeping", "telling", "watching", "done"}
    /\ stopped \in BOOLEAN /\ current \in {0} \cup Sessions
    /\ attempt \in 0..MaxSessions /\ backoff \in 1..MaxBackoff
    /\ ready \in {"pending", "resolved", "rejected"}
    /\ transport \in [Sessions -> {"none", "open", "closing", "closed"}]
    /\ fns \in Seq(Callbacks) /\ at \in Nat
    /\ running \in Callbacks \cup {NoCallback} /\ told \subseteq Callbacks
    /\ shifted \in BOOLEAN

Live == {s \in Sessions : transport[s] = "open"}

\* The loop waits in a callback that never returns: it does not see the
\* session close.
Held == loop = "telling" /\ running \in Hanging

\* There is one session at a time, and while it is open the handle has it.
OneSession == \A s \in Sessions : transport[s] \in {"open", "closing"} =>
    s = attempt /\ s = current

\* The for loop ends only when every callback in the list has been told of
\* the session, or one was removed behind the iterator, which skips another.
EveryoneTold ==
    [][loop # "watching" /\ loop' = "watching" =>
          ToSet(fns') \subseteq told' \/ shifted']_loopVars

\* `await conn.ready` ends with the first outcome of the factory; it never
\* does when close() came before a factory that fails.
ReadySettled ==
    ready = "pending" => attempt = 0 /\ (loop = "opening" \/ (stopped /\ loop = "done"))

\* A lost session is replaced, unless shouldReconnect says no or a callback
\* keeps the loop.
Recovers ==
    \A s \in 1..(MaxSessions - 1) :
        attempt = s /\ transport[s] # "open" ~> attempt > s \/ loop = "done" \/ Held

\* close() ends the loop, unless a callback keeps it or a session that was
\* being opened comes up and stays.
CloseEnds == stopped ~> loop = "done" \/ Held \/ Live # {}

\* One session at a time, and `ready` is not left behind.
ReconnectInv ==
    /\ LoopTypeOK
    /\ OneSession
    /\ ReadySettled
=============================================================================
