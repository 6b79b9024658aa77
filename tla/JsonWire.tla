----------------------------- MODULE JsonWire ------------------------------
(***************************************************************************)
(* JsonWireSession (js/capnweb_wire.mjs), the client of a capnweb server   *)
(* on a message port, with the server as the client's code takes it to be. *)
(*                                                                         *)
(* Ids are not agreed on: the client counts its calls, the server counts   *)
(* the pushes it receives, and both must count alike.  A pull names the    *)
(* client's number; a pull of an unknown number is ignored or ends the     *)
(* session, as the server likes.                                           *)
(*                                                                         *)
(* A message carries one line or several.  Lines are answers (for an id),  *)
(* an abort, or text that is not JSON.                                     *)
(***************************************************************************)
EXTENDS Naturals, Sequences, SequencesExt

CONSTANTS
    Calls,
    Unencodable,  \* the calls with an argument encodeValue refuses
    Undecodable,  \* the calls whose answer decodeExpression refuses
    Faults,       \* what may happen: "close", "hangup", "abort", "garbage"
    None

ASSUME WireAssumption ==
    /\ Unencodable \subseteq Calls /\ Undecodable \subseteq Calls
    /\ None \notin Calls

VARIABLES
    promise,       \* call -> "unissued", "thrown", "pending", or settled
    nextImportId,
    pending,       \* the entries of #pending: [id, call]
    closed,        \* #closed of the session
    toServer,      \* lines under way to the server
    toClient,      \* lines under way to the client
    exports,       \* the server's table: [id, call, pulled, answered]
    nextExport,
    hungUp,        \* the port is closed by either side
    answeredBy     \* call -> the call whose answer settled its promise

client == <<promise, nextImportId, pending, closed, answeredBy>>
server == <<exports, nextExport>>
wireVars == <<client, server, toServer, toClient, hungUp>>

WireInit ==
    /\ promise = [c \in Calls |-> "unissued"] /\ nextImportId = 1
    /\ pending = {} /\ closed = FALSE
    /\ toServer = <<>> /\ toClient = <<>>
    /\ exports = {} /\ nextExport = 1 /\ hungUp = FALSE
    /\ answeredBy = [c \in Calls |-> None]

\* Lines to the server, and from it; one that is joined is in the same
\* message as the line before it.
ServerLines == [kind : {"push", "pull", "release"}, id : Nat, call : Calls \cup {None}]
ClientLines == [kind : {"resolve", "reject", "abort", "garbage"}, id : Nat,
                call : Calls \cup {None}, joined : BOOLEAN]

Push(c) == [kind |-> "push", id |-> 0, call |-> c]
Pull(id) == [kind |-> "pull", id |-> id, call |-> None]
Release(id) == [kind |-> "release", id |-> id, call |-> None]

-----------------------------------------------------------------------------
(* The client.  The lines of a message are handled in one go: nothing else *)
(* runs on the client before the last of them.                             *)

InMessage == toClient # <<>> /\ Head(toClient).joined

\* The line is handled.
NextLine == toClient' = Tail(toClient)

\* The lines after it in the message are dropped with it.
NextMessage ==
    \E k \in 1..Len(toClient) :
        /\ \A i \in 2..k : toClient[i].joined
        /\ k < Len(toClient) => ~toClient[k + 1].joined
        /\ toClient' = SubSeq(toClient, k + 1, Len(toClient))

\* What is sent to a port that the other side has left is lost.
SendLines(lines) == toServer' = IF hungUp THEN toServer ELSE toServer \o lines

\* Slip: the waiting calls are not rejected.
ShutdownQuietly ==
    /\ closed' = TRUE /\ pending' = {}
    /\ UNCHANGED <<promise, answeredBy>>

Shutdown ==
    /\ closed' = TRUE
    /\ pending' = IF closed THEN pending ELSE {}
    /\ promise' = [c \in Calls |->
           IF ~closed /\ \E e \in pending : e.call = c THEN "rejected" ELSE promise[c]]
    /\ UNCHANGED answeredBy

\* Slip: the server is not told.
SettledOnly(e, how, by) ==
    /\ promise' = [promise EXCEPT ![e.call] = how]
    /\ answeredBy' = [answeredBy EXCEPT ![e.call] = by]
    /\ pending' = pending \ {e}
    /\ UNCHANGED <<closed, toServer>>

Settled(e, how, by) ==
    /\ promise' = [promise EXCEPT ![e.call] = how]
    /\ answeredBy' = [answeredBy EXCEPT ![e.call] = by]
    /\ pending' = pending \ {e}
    /\ SendLines(<<Release(e.id)>>)
    /\ UNCHANGED closed

\* Slip: the oldest call is answered.
EntriesInOrder(line) == {e \in pending : \A f \in pending : e.id <= f.id}

\* What a line finds in #pending.
Entries(line) == {e \in pending : e.id = line.id}

HandleResolve(line) ==
    /\ line.kind = "resolve"
    /\ \E e \in Entries(line) :
          Settled(e, IF line.call \in Undecodable THEN "rejected" ELSE "fulfilled", line.call)
    /\ NextLine

HandleReject(line) ==
    /\ line.kind = "reject" /\ line.call \notin Undecodable
    /\ \E e \in Entries(line) : Settled(e, "rejected", line.call)
    /\ NextLine

\* decodeExpression throws after the entry is gone, out of #handleLine.
HandleBadReject(line) ==
    /\ line.kind = "reject" /\ line.call \in Undecodable
    /\ \E e \in Entries(line) : pending' = pending \ {e}
    /\ NextMessage
    /\ UNCHANGED <<promise, closed, answeredBy, toServer>>

HandleUnknown(line) ==
    /\ line.kind \in {"resolve", "reject"} /\ Entries(line) = {}
    /\ NextLine
    /\ UNCHANGED <<promise, pending, closed, answeredBy, toServer>>

HandleAbort(line) ==
    /\ line.kind = "abort"
    /\ Shutdown /\ NextLine
    /\ UNCHANGED toServer

\* JSON.parse throws.
HandleGarbage(line) ==
    /\ line.kind = "garbage"
    /\ Shutdown /\ NextMessage
    /\ UNCHANGED toServer

HandleLine ==
    /\ toClient # <<>>
    /\ LET line == Head(toClient)
       IN  \/ HandleResolve(line) \/ HandleReject(line) \/ HandleBadReject(line)
           \/ HandleUnknown(line) \/ HandleAbort(line) \/ HandleGarbage(line)
    /\ UNCHANGED <<nextImportId, server, hungUp>>

Call(c) ==
    /\ promise[c] = "unissued" /\ ~InMessage
    /\ ~closed
    /\ nextImportId' = nextImportId + 1
    /\ IF c \in Unencodable
       THEN promise' = [promise EXCEPT ![c] = "thrown"] /\ UNCHANGED <<toServer, pending>>
       ELSE /\ SendLines(<<Push(c), Pull(nextImportId)>>)
            /\ promise' = [promise EXCEPT ![c] = "pending"]
            /\ pending' = pending \cup {[id |-> nextImportId, call |-> c]}
    /\ UNCHANGED <<closed, answeredBy, server, toClient, hungUp>>

CallClosed(c) ==
    /\ promise[c] = "unissued" /\ closed /\ ~InMessage
    /\ promise' = [promise EXCEPT ![c] = "thrown"]
    /\ UNCHANGED <<nextImportId, pending, closed, answeredBy, server, toServer, toClient, hungUp>>

\* The port's handler is gone, and the peer hears of it.
Close ==
    /\ "close" \in Faults /\ ~closed /\ ~InMessage
    /\ Shutdown
    /\ hungUp' = TRUE /\ toClient' = <<>>
    /\ UNCHANGED <<nextImportId, server, toServer>>

-----------------------------------------------------------------------------
(* The server *)

\* Lines go in one message with those that still wait to travel, or alone.
SendToClient(kind, id, call) ==
    \E joined \in BOOLEAN :
        /\ joined => \E i \in DOMAIN toClient : ~toClient[i].joined
        /\ toClient' = Append(toClient, [kind |-> kind, id |-> id, call |-> call, joined |-> joined])

ReceivePush ==
    /\ toServer # <<>> /\ Head(toServer).kind = "push"
    /\ exports' = exports \cup {[id |-> nextExport, call |-> Head(toServer).call,
                                 pulled |-> FALSE, answered |-> FALSE]}
    /\ nextExport' = nextExport + 1
    /\ toServer' = Tail(toServer)
    /\ UNCHANGED <<client, toClient, hungUp>>

ReceivePull ==
    /\ toServer # <<>> /\ Head(toServer).kind = "pull"
    /\ LET known == {e \in exports : e.id = Head(toServer).id}
       IN  /\ exports' = (exports \ known) \cup {[e EXCEPT !.pulled = TRUE] : e \in known}
           /\ \/ UNCHANGED toClient
              \/ known = {} /\ SendToClient("abort", 0, None)
    /\ toServer' = Tail(toServer)
    /\ UNCHANGED <<client, nextExport, hungUp>>

ReceiveRelease ==
    /\ toServer # <<>> /\ Head(toServer).kind = "release"
    /\ exports' = {e \in exports : e.id # Head(toServer).id}
    /\ toServer' = Tail(toServer)
    /\ UNCHANGED <<client, nextExport, toClient, hungUp>>

AnswerCall ==
    /\ ~hungUp
    /\ \E e \in exports, how \in {"resolve", "reject"} :
          /\ e.pulled /\ ~e.answered
          /\ exports' = (exports \ {e}) \cup {[e EXCEPT !.answered = TRUE]}
          /\ SendToClient(how, e.id, e.call)
    /\ UNCHANGED <<client, nextExport, toServer, hungUp>>

\* Bound: one abort or unreadable line is under way.
Disturb ==
    /\ ~hungUp
    /\ \A i \in DOMAIN toClient : toClient[i].kind \notin {"abort", "garbage"}
    /\ \E how \in Faults \cap {"abort", "garbage"} : ~closed /\ SendToClient(how, 0, None)
    /\ UNCHANGED <<client, server, toServer, hungUp>>

\* The server leaves; its last message is null.
HangUp ==
    /\ "hangup" \in Faults /\ ~hungUp
    /\ hungUp' = TRUE /\ toServer' = <<>>
    /\ UNCHANGED <<client, server, toClient>>

\* The null arrives after all the others.
HearHangUp ==
    /\ hungUp /\ toClient = <<>> /\ ~closed
    /\ Shutdown
    /\ UNCHANGED <<nextImportId, server, toServer, toClient, hungUp>>

Serve == ReceivePush \/ ReceivePull \/ ReceiveRelease

WireNext ==
    \/ \E c \in Calls : Call(c) \/ CallClosed(c)
    \/ HandleLine \/ Close
    \/ Serve \/ AnswerCall \/ Disturb \/ HangUp \/ HearHangUp

WireSpec == WireInit /\ [][WireNext]_wireVars

\* Lines are delivered both ways and the server's methods end.
FairWireSpec ==
    /\ WireSpec
    /\ WF_wireVars(HandleLine) /\ WF_wireVars(Serve) /\ WF_wireVars(AnswerCall) /\ WF_wireVars(HearHangUp)

-----------------------------------------------------------------------------
(* Properties *)

Settlement == {"fulfilled", "rejected"}
KnownIds == 1..(nextImportId - 1)

WireTypeOK ==
    /\ promise \in [Calls -> {"unissued", "thrown", "pending"} \cup Settlement]
    /\ nextImportId \in Nat \ {0} /\ nextExport \in Nat \ {0}
    /\ pending \subseteq [id : KnownIds, call : Calls]
    /\ IsInjective([e \in pending |-> e.id]) /\ IsInjective([e \in pending |-> e.call])
    /\ closed \in BOOLEAN /\ hungUp \in BOOLEAN
    /\ exports \subseteq [id : 1..(nextExport - 1), call : Calls,
                          pulled : BOOLEAN, answered : BOOLEAN]
    /\ \A e \in exports : e.answered => e.pulled
    /\ toServer \in Seq(ServerLines) /\ toClient \in Seq(ClientLines)
    /\ answeredBy \in [Calls -> Calls \cup {None}]

\* A promise that is still pending is in #pending, where an answer or the end
\* of the session finds it; but an answer that cannot be decoded loses it.
PendingIsTracked ==
    \A c \in Calls : promise[c] = "pending" =>
        \/ \E e \in pending : e.call = c
        \/ c \in Undecodable

\* Whatever numbers were used up by calls that were never sent, no call is
\* given the answer of another.
AnswersAreOwned == \A c \in Calls : answeredBy[c] \in {c, None}

\* The client's count is ahead of the server's.
OutOfStep == \E c \in Unencodable : promise[c] = "thrown"

\* Every call settles, in a session without such a call and without another
\* that stays pending because its answer cannot be decoded.
EveryCallSettles ==
    \A c \in Calls : promise[c] = "pending" ~>
        promise[c] \in Settlement \/ OutOfStep \/ \E d \in Undecodable : promise[d] = "pending"

\* What was answered leaves the server's table, while the session lasts and no
\* call stays pending because its answer cannot be decoded: that call never
\* sends its release, nor do those whose answers are behind it in the message.
ExportsReleased ==
    \A c \in Calls : (\E e \in exports : e.call = c /\ e.answered) ~>
        \/ closed \/ hungUp \/ ~\E e \in exports : e.call = c
        \/ \E d \in Undecodable : promise[d] = "pending"

\* The table of pending calls finds every promise, and its own promise only.
JsonInv ==
    /\ WireTypeOK
    /\ PendingIsTracked
    /\ AnswersAreOwned
=============================================================================
