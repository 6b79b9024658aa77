----------------------------- MODULE ChatRoom ------------------------------
(***************************************************************************)
(* One side of the chat room (src/chat_room.mjs) and the panes of the chat *)
(* page (web/src/chat).  A capnwasm pane subscribes to a stream whose      *)
(* generator replays the history and then parks a waker for each message;  *)
(* a capnweb pane leaves a callback stub; and a pane in REST mode polls    *)
(* with the last id it has rendered.  The room lives in memory: a restart  *)
(* of the durable object loses the history and the id sequence.            *)
(*                                                                         *)
(* A message is its id and the life of the room that gave it out.  Sockets *)
(* deliver in order (RpcStream has the streams themselves), so a chunk or  *)
(* a push counts as rendered when it is sent.  Frames that arrive together *)
(* are dispatched in one burst, before any microtask.                      *)
(***************************************************************************)
EXTENDS Naturals, Sequences, SequencesExt, FiniteSetsExt

CONSTANTS
    Streams,       \* capnwasm panes in WebSocket mode
    Stubs,         \* capnweb panes in WebSocket mode
    Pollers,       \* panes in REST mode
    HistoryLimit,  \* CHAT_HISTORY_LIMIT
    MaxPosts,      \* bound: messages in one life of the room
    MaxLives       \* bound: lives of the room

ASSUME RoomAssumption ==
    /\ Streams \cap Stubs = {} /\ Pollers \cap (Streams \cup Stubs) = {}
    /\ HistoryLimit \in Nat \ {0} /\ MaxPosts \in Nat /\ MaxLives \in Nat \ {0}

Panes    == Streams \cup Stubs \cup Pollers
Messages == [life : 1..MaxLives, id : 1..MaxPosts]

VARIABLES
    windowed,    \* the streams whose client asked for a window of credits
    fragile,     \* the pollers whose session ends with a failed POST: capnwasm's
    life, history, nextId,  \* the Side
    stubs,       \* stubSubscribers
    generator,   \* stream -> its generator; streamWakers are the parked ones
    burst,       \* frames are being dispatched
    connected,   \* the panes whose socket is up
    poll,        \* poller -> "idle", "waiting" or "dead"
    response,    \* poller -> the messages its poll got
    cursor,      \* poller -> cursor
    shown,       \* pane -> messages rendered; seenIds are their ids
    skipped      \* stream -> messages its generator passed over

kinds == <<windowed, fragile>>
side  == <<life, history, nextId>>
polls == <<poll, response, cursor>>
roomVars == <<kinds, side, stubs, generator, burst, connected, polls, shown, skipped>>

\* at is the index the for loop over the history has reached, 0 after it.
Generator(stage, at, held) == [stage |-> stage, at |-> at, held |-> held]

RoomInit ==
    /\ windowed \in SUBSET Streams /\ fragile \in SUBSET Pollers
    /\ life = 1 /\ history = <<>> /\ nextId = 1 /\ stubs = {}
    /\ generator = [s \in Streams |-> Generator("off", 0, {})]
    /\ burst = FALSE /\ connected = {}
    /\ poll = [p \in Pollers |-> "idle"]
    /\ response = [p \in Pollers |-> {}] /\ cursor = [p \in Pollers |-> 0]
    /\ shown = [p \in Panes |-> {}]
    /\ skipped = [s \in Streams |-> {}]

\* Microtasks run to the end before the next delivery, so only a generator
\* that waits for credit is found between two messages, except in a burst.
Dispatching ==
    /\ burst \/ \A s \in Streams \ windowed : generator[s].stage # "yielded"
    /\ burst' = TRUE

-----------------------------------------------------------------------------
(* Posting: postTo, appendAndNotify *)

Trimmed(h) == IF Len(h) > HistoryLimit THEN Tail(h) ELSE h

Pushed(p) == p \in stubs \cap connected

Woken(g, m) == IF g.stage = "parked" THEN Generator("yielded", 0, {m}) ELSE g

\* What generator g will not see: m, when it has no waker, or the entry that
\* moves to an index the for loop has left.
PassedOver(g, h, m) ==
    IF g.stage # "yielded" THEN {}
    ELSE IF g.at = 0 THEN {m}
    ELSE IF Len(h) > HistoryLimit /\ g.at <= Len(h) THEN {h[g.at]} ELSE {}

Post ==
    /\ nextId <= MaxPosts /\ Dispatching
    /\ LET m == [life |-> life, id |-> nextId]
           h == Append(history, m)
       IN  /\ history' = Trimmed(h)
           /\ generator' = [s \in Streams |-> Woken(generator[s], m)]
           /\ shown' = [p \in Panes |-> shown[p] \cup IF Pushed(p) THEN {m} ELSE {}]
           /\ skipped' = [s \in Streams |-> skipped[s] \cup PassedOver(generator[s], h, m)]
    /\ nextId' = nextId + 1
    /\ UNCHANGED <<kinds, life, stubs, connected, polls>>

-----------------------------------------------------------------------------
(* Streams *)

\* Slip: the replay ends one entry early.
NextButLast(at) ==
    IF at # 0 /\ at < Len(history) THEN Generator("yielded", at + 1, {history[at]})
    ELSE Generator("parked", 0, {})

\* Slip: the index does not advance.
NextSame(at) ==
    IF at # 0 /\ at <= Len(history) THEN Generator("yielded", at, {history[at]})
    ELSE Generator("parked", 0, {})

\* The generator runs to its next yield or to nextMessage().
NextFrom(at) ==
    IF at # 0 /\ at <= Len(history) THEN Generator("yielded", at + 1, {history[at]})
    ELSE Generator("parked", 0, {})

Subscribe(s) ==
    /\ generator[s].stage = "off" /\ s \notin connected /\ shown[s] = {}
    /\ Dispatching
    /\ connected' = connected \cup {s}
    /\ generator' = [generator EXCEPT ![s] = NextFrom(1)]
    /\ UNCHANGED <<kinds, side, stubs, polls, shown, skipped>>

\* The chunk is sent, at once or when there is credit, and the generator is
\* resumed; on a closed socket send() throws, which ends it.
Resume(s) ==
    /\ generator[s].stage = "yielded"
    /\ s \in windowed => s \in connected
    /\ burst' = FALSE
    /\ IF s \in connected
       THEN /\ shown' = [shown EXCEPT ![s] = @ \cup generator[s].held]
            /\ generator' = [generator EXCEPT ![s] = NextFrom(@.at)]
       ELSE /\ generator' = [generator EXCEPT ![s] = Generator("off", 0, {})]
            /\ UNCHANGED shown
    /\ UNCHANGED <<kinds, side, stubs, connected, polls, skipped>>

-----------------------------------------------------------------------------
(* Stubs *)

\* CapnwebChatRoomTarget.subscribe
SubscribeStub(b) ==
    /\ b \notin connected /\ shown[b] = {}
    /\ Dispatching
    /\ connected' = connected \cup {b}
    /\ shown' = [shown EXCEPT ![b] = ToSet(history)]
    /\ stubs' = stubs \cup {b}
    /\ UNCHANGED <<kinds, side, generator, polls, skipped>>

\* onMessage on a stub whose pane is gone rejects.
DropStub(b) ==
    /\ b \in stubs \ connected
    /\ stubs' = stubs \ {b}
    /\ burst' = FALSE
    /\ UNCHANGED <<kinds, side, generator, connected, polls, shown, skipped>>

-----------------------------------------------------------------------------
(* Polls: pollOnce, getSince *)

MessagesSince(c) == {m \in ToSet(history) : m.id > c}

Poll(p) ==
    /\ poll[p] = "idle" /\ Dispatching
    /\ poll' = [poll EXCEPT ![p] = "waiting"]
    /\ response' = [response EXCEPT ![p] = MessagesSince(cursor[p])]
    /\ UNCHANGED <<kinds, side, stubs, generator, connected, cursor, shown, skipped>>

\* render() leaves out a message whose id it has seen.
Unseen(p) == {m \in response[p] : \A n \in shown[p] : n.id # m.id}

PollAnswered(p) ==
    /\ poll[p] = "waiting"
    /\ shown' = [shown EXCEPT ![p] = @ \cup Unseen(p)]
    /\ cursor' = [cursor EXCEPT ![p] = Max({@} \cup {m.id : m \in response[p]})]
    /\ poll' = [poll EXCEPT ![p] = "idle"]
    /\ response' = [response EXCEPT ![p] = {}]
    /\ UNCHANGED <<kinds, side, stubs, generator, burst, connected, skipped>>

\* Slip: a failed poll is the last one.
NeverAgain(p) == "dead"

\* A capnwasm session is closed by the failure: the next callBuilder throws
\* outside the try and the timer is not set again.
AfterFailure(p) == IF p \in fragile THEN "dead" ELSE "idle"

PollFails(p) ==
    /\ poll[p] = "waiting"
    /\ poll' = [poll EXCEPT ![p] = AfterFailure(p)]
    /\ response' = [response EXCEPT ![p] = {}]
    /\ UNCHANGED <<kinds, side, stubs, generator, burst, connected, cursor, shown, skipped>>

-----------------------------------------------------------------------------

Disconnect(p) ==
    /\ p \in connected
    /\ connected' = connected \ {p}
    /\ UNCHANGED <<kinds, side, stubs, generator, burst, polls, shown, skipped>>

\* The durable object is evicted, and starts again with the next request.
Restart ==
    /\ life < MaxLives
    /\ life' = life + 1 /\ history' = <<>> /\ nextId' = 1 /\ stubs' = {}
    /\ generator' = [s \in Streams |-> Generator("off", 0, {})]
    /\ burst' = FALSE /\ connected' = {}
    /\ UNCHANGED <<kinds, polls, shown, skipped>>

RoomNext ==
    \/ Post \/ Restart
    \/ \E s \in Streams : Subscribe(s) \/ Resume(s)
    \/ \E b \in Stubs : SubscribeStub(b) \/ DropStub(b)
    \/ \E p \in Pollers : Poll(p) \/ PollAnswered(p) \/ PollFails(p)
    \/ \E p \in Panes : Disconnect(p)

RoomSpec == RoomInit /\ [][RoomNext]_roomVars

\* The timer of a poller goes off and its POSTs do not fail for ever;
\* microtasks run and credit comes.
Fairness ==
    /\ \A p \in Pollers :
          WF_roomVars(Poll(p) \/ PollAnswered(p) \/ PollFails(p)) /\ SF_roomVars(PollAnswered(p))
    /\ \A s \in Streams : WF_roomVars(Resume(s))

FairRoomSpec == RoomSpec /\ Fairness

-----------------------------------------------------------------------------
(* Properties *)

RoomTypeOK ==
    /\ windowed \subseteq Streams /\ fragile \subseteq Pollers
    /\ life \in 1..MaxLives /\ nextId \in 1..(MaxPosts + 1)
    /\ history \in Seq(Messages) /\ stubs \subseteq Stubs
    /\ generator \in [Streams -> [stage : {"off", "yielded", "parked"},
                                  at : 0..(HistoryLimit + 1), held : SUBSET Messages]]
    /\ burst \in BOOLEAN /\ connected \subseteq Streams \cup Stubs
    /\ poll \in [Pollers -> {"idle", "waiting", "dead"}]
    /\ response \in [Pollers -> SUBSET Messages] /\ cursor \in [Pollers -> 0..MaxPosts]
    /\ shown \in [Panes -> SUBSET Messages] /\ skipped \in [Streams -> SUBSET Messages]

\* The history is the latest messages of this life of the room, in order.
HistoryIsLatest ==
    /\ Len(history) = Min({HistoryLimit, nextId - 1})
    /\ \A i \in 1..Len(history) :
          history[i] = [life |-> life, id |-> nextId - 1 - Len(history) + i]

\* What the for loop of the replay has before it.
Ahead(g) == IF g.at = 0 THEN {} ELSE {history[i] : i \in g.at..Len(history)}

\* A connected subscriber has or will get every message, but those posted
\* between its waking and its parking again, or moved under its replay.
StreamsUpToDate ==
    \A s \in Streams \cap connected :
        LET g == generator[s]
        IN  ToSet(history) \subseteq shown[s] \cup skipped[s] \cup g.held \cup Ahead(g)

\* A subscriber is sent messages in order, each at most once.
StreamsInOrder ==
    \A s \in Streams : \A m \in generator[s].held :
        \A n \in shown[s] : n.life = m.life => n.id < m.id

\* A connected stub has been sent every message.
StubsUpToDate == \A b \in stubs \cap connected : ToSet(history) \subseteq shown[b]

\* A message of an earlier life has as high an id: the cursor may be past m,
\* and render() may take m for one it has seen.
Overtaken(p, m) == \E n \in shown[p] : n.life < m.life /\ n.id >= m.id

\* What lies before the cursor of a poller was rendered, unless the cursor
\* is from an earlier life of the room.
CursorsTell ==
    \A p \in Pollers : \A m \in ToSet(history) :
        m.id <= cursor[p] => m \in shown[p] \/ Overtaken(p, m)

Behind(p) == \E m \in ToSet(history) : m \notin shown[p] /\ ~Overtaken(p, m)

\* A pane that polls catches up with the history, again and again, unless its
\* session ended.
PollsDeliver == \A p \in Pollers : Behind(p) ~> ~Behind(p) \/ (p \in fragile /\ poll[p] = "dead")

\* The room keeps the latest messages, stubs have them all, pollers those
\* before their cursor, and no stream gets one twice or out of order.
RoomInv ==
    /\ RoomTypeOK
    /\ HistoryIsLatest
    /\ CursorsTell
    /\ StubsUpToDate
    /\ StreamsInOrder
=============================================================================
