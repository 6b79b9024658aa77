------------------------------ MODULE RpcCaps ------------------------------
(***************************************************************************)
(* Capabilities in messages and their reference counts (js/rpc.mjs): the   *)
(* host session exports objects through #localCaps, the guest session      *)
(* holds RpcCap handles on them, counted in #imports and released when the *)
(* FinalizationRegistry reports them.                                      *)
(*                                                                         *)
(* A carrier brings one capability to the guest: a bootstrap question, a   *)
(* call whose handler returns one, or a call from the host with one in its *)
(* params.  All frames here pass #sendQueue, so each direction is a FIFO.  *)
(* The host was given options.bootstrap.                                   *)
(***************************************************************************)
EXTENDS Integers, Sequences, FiniteSets, SequencesExt

CONSTANTS
    Bootstraps,   \* questions made by bootstrap()
    Calls,        \* questions made by call()
    HostCalls,    \* calls of the host that carry a capability
    None,         \* absent
    Faults        \* subset of {"abort", "unread", "oversize", "close"}

Questions == Bootstraps \cup Calls
Carriers == Questions \cup HostCalls
CapIds == 0..Cardinality(Calls \cup HostCalls)   \* 0 is the bootstrap

ASSUME ConstantsAssumption ==
    /\ IsFiniteSet(Carriers) /\ None \notin Nat
    /\ Bootstraps \cap Calls = {} /\ Questions \cap HostCalls = {}
    /\ Faults \subseteq {"abort", "unread", "oversize", "close"}

VARIABLES
    handle,      \* guest: the RpcCap each carrier brought
    capOf,       \* guest: the import id in its #target
    questions,   \* guest: #questions
    used,        \* guest: questions made so far
    imports,     \* guest: keys of #imports
    gclosed,     \* guest: #closed
    c2s, s2c,    \* frames from guest to host and back
    exports,     \* host: refcount of each #localCaps entry, 0 when absent
    nextCap,     \* host: #nextLocalCapId
    running,     \* host: calls whose method runs
    hclosed,     \* host: #closed
    lost         \* ids that were thrown away on their way to a handle

guestVars == <<handle, capOf, questions, used, imports, gclosed>>
hostVars == <<exports, nextCap, running, hclosed>>
vars == <<guestVars, c2s, s2c, hostVars, lost>>

BootstrapFrame(q) == [kind |-> "bootstrap", q |-> q]
CallFrame(q, id)  == [kind |-> "call", q |-> q, id |-> id]
FinishFrame(q)    == [kind |-> "finish", q |-> q]
Release(id)       == [kind |-> "release", id |-> id]
Return(q, id)     == [kind |-> "return", q |-> q, id |-> id]
Exception(q)      == [kind |-> "exception", q |-> q]
ParamCall(p, id)  == [kind |-> "call", q |-> p, id |-> id]
Fin               == [kind |-> "fin"]

\* The constructor installs the bootstrap under id 0.
Init ==
    /\ handle = [h \in Carriers |-> "none"]
    /\ capOf = [h \in Carriers |-> None]
    /\ questions = {} /\ used = {} /\ imports = {} /\ gclosed = FALSE
    /\ c2s = <<>> /\ s2c = <<>>
    /\ exports = [id \in CapIds |-> IF id = 0 THEN 1 ELSE 0]
    /\ nextCap = 1 /\ running = {} /\ hclosed = FALSE /\ lost = {}

Connected == ~gclosed /\ ~hclosed
ToHost(ms)  == c2s' = IF Connected THEN c2s \o ms ELSE c2s
ToGuest(ms) == s2c' = IF Connected THEN s2c \o ms ELSE s2c

GuestGets(kind) ==
    /\ ~gclosed
    /\ s2c # <<>> /\ Head(s2c).kind = kind
    /\ s2c' = Tail(s2c)

HostGets(kind) ==
    /\ ~hclosed
    /\ c2s # <<>> /\ Head(c2s).kind = kind
    /\ c2s' = Tail(c2s)

-----------------------------------------------------------------------------
(* Guest.  A handle is loose until it is registered for finalization, live *)
(* while the program can reach it, then garbage until its finalizer ran.   *)

\* bootstrap() hands out a handle at once (also on a closed session); its
\* Return registers it.
Bootstrap(q) ==
    /\ q \in Bootstraps \ used
    /\ used' = used \cup {q} /\ questions' = questions \cup {q}
    /\ handle' = [handle EXCEPT ![q] = "loose"]
    /\ capOf' = [capOf EXCEPT ![q] = 0]
    /\ ToHost(<<BootstrapFrame(q)>>)
    /\ UNCHANGED <<imports, gclosed, s2c, hostVars, lost>>

Reachable(h) == handle[h] \in {"loose", "live"}

Call(q, h) ==
    /\ q \in Calls \ used /\ ~gclosed
    /\ Reachable(h)
    /\ used' = used \cup {q} /\ questions' = questions \cup {q}
    /\ ToHost(<<CallFrame(q, capOf[h])>>)
    /\ UNCHANGED <<handle, capOf, imports, gclosed, s2c, hostVars, lost>>

\* #trackImport of a new handle (a handle the program already dropped is
\* kept by its question until now).
Track(h, id) ==
    /\ handle' = [handle EXCEPT ![h] = IF @ = "dropped" THEN "garbage" ELSE "live"]
    /\ capOf' = [capOf EXCEPT ![h] = id]
    /\ imports' = imports \cup {id}

\* #handleReturn.  A Return for an aborted question is dropped unread.
HandleReturn ==
    /\ GuestGets("return")
    /\ LET m == Head(s2c) IN
       IF m.q \notin questions
       THEN lost' = lost \cup ({m.id} \ {None})
            /\ UNCHANGED <<questions, handle, capOf, imports, c2s>>
       ELSE /\ questions' = questions \ {m.q}
            /\ UNCHANGED lost
            /\ IF m.id = None THEN UNCHANGED <<handle, capOf, imports>>
               ELSE Track(m.q, m.id)
            /\ ToHost(<<FinishFrame(m.q)>>)
    /\ UNCHANGED <<used, gclosed, hostVars>>

HandleException ==
    /\ GuestGets("exception")
    /\ LET q == Head(s2c).q IN
       /\ questions' = questions \ {q}
       /\ ToHost(IF q \in questions THEN <<FinishFrame(q)>> ELSE <<>>)
    /\ UNCHANGED <<handle, capOf, used, imports, gclosed, hostVars, lost>>

\* #wireAbort, for calls.
SignalAborts(q) ==
    /\ "abort" \in Faults /\ q \in questions \cap Calls
    /\ questions' = questions \ {q}
    /\ ToHost(<<FinishFrame(q)>>)
    /\ UNCHANGED <<handle, capOf, used, imports, gclosed, s2c, hostVars, lost>>

\* A call from the host: a handler that opens the params with openParams gets
\* handles for their capabilities; one that does not leaves them unread.
HandleParams ==
    /\ GuestGets("call")
    /\ \/ Track(Head(s2c).q, Head(s2c).id) /\ UNCHANGED lost
       \/ /\ "unread" \in Faults
          /\ lost' = lost \cup {Head(s2c).id}
          /\ UNCHANGED <<handle, capOf, imports>>
    /\ UNCHANGED <<questions, used, gclosed, c2s, hostVars>>

\* The program lets go of a handle.
Drop(h) ==
    /\ Reachable(h)
    /\ handle' = [handle EXCEPT ![h] = IF @ = "loose" THEN "dropped" ELSE "garbage"]
    /\ UNCHANGED <<capOf, questions, used, imports, gclosed, c2s, s2c, hostVars, lost>>

\* Slip: the import stays in the table.
SendReleaseKeepingImport(id) ==
    /\ UNCHANGED imports
    /\ ToHost(IF gclosed THEN <<>> ELSE <<Release(id)>>)

\* Slip: the import is forgotten without a Release.
ForgetImport(id) == imports' = imports \ {id} /\ UNCHANGED c2s

SendRelease(id) ==
    IF gclosed \/ id \notin imports THEN UNCHANGED <<imports, c2s>>
    ELSE /\ imports' = imports \ {id}
         /\ ToHost(<<Release(id)>>)

\* Slip: the registry watches an object that dies before the RpcCap.
FinalizeEarly(h) ==
    /\ handle[h] \in {"live", "garbage"}
    /\ handle' = [handle EXCEPT ![h] = IF @ = "live" THEN "live" ELSE "gone"]
    /\ SendRelease(capOf[h])
    /\ UNCHANGED <<capOf, questions, used, gclosed, s2c, hostVars, lost>>

\* The FinalizationRegistry's callback, some time after the collection.
Finalize(h) ==
    /\ handle[h] = "garbage"
    /\ handle' = [handle EXCEPT ![h] = "gone"]
    /\ SendRelease(capOf[h])
    /\ UNCHANGED <<capOf, questions, used, gclosed, s2c, hostVars, lost>>

\* close(): Release for every import, in one flush, in the order of the table.
CloseGuest ==
    /\ ~gclosed
    /\ gclosed' = TRUE
    /\ \E ids \in SetToSeqs(imports) :
          ToHost([i \in 1..Len(ids) |-> Release(ids[i])] \o <<Fin>>)
    /\ imports' = {} /\ questions' = {}
    /\ UNCHANGED <<handle, capOf, used, hostVars, lost>>

GuestCloses == "close" \in Faults /\ CloseGuest /\ UNCHANGED s2c
GuestLosesPeer == GuestGets("fin") /\ CloseGuest

-----------------------------------------------------------------------------
(* Host *)

\* The entry is shared: a second Bootstrap adds no reference.
HandleBootstrap ==
    /\ HostGets("bootstrap")
    /\ exports' = [exports EXCEPT ![0] = IF @ = 0 THEN 1 ELSE @]
    /\ ToGuest(<<Return(Head(c2s).q, 0)>>)
    /\ UNCHANGED <<guestVars, nextCap, running, hclosed, lost>>

HandleCall ==
    /\ HostGets("call")
    /\ LET m == Head(c2s) IN
       IF exports[m.id] > 0
       THEN running' = running \cup {m.q} /\ UNCHANGED s2c
       ELSE ToGuest(<<Exception(m.q)>>) /\ UNCHANGED running
    /\ UNCHANGED <<guestVars, exports, nextCap, hclosed, lost>>

\* #allocLocalCapId and the new #localCaps entry.
Export ==
    /\ exports' = [exports EXCEPT ![nextCap] = 1]
    /\ nextCap' = nextCap + 1

\* The method settles.  A session closed meanwhile still exports, but what it
\* sends is lost; results too large to send leave the export behind.
HandlerReturns(q) ==
    /\ q \in running
    /\ running' = running \ {q}
    /\ \/ Export /\ ToGuest(<<Return(q, nextCap)>>) /\ UNCHANGED lost
       \/ /\ "oversize" \in Faults
          /\ Export /\ UNCHANGED s2c
          /\ lost' = lost \cup {nextCap}
       \/ /\ ToGuest(<<Return(q, None)>>) \/ ToGuest(<<Exception(q)>>)
          /\ UNCHANGED <<exports, nextCap, lost>>
    /\ UNCHANGED <<guestVars, c2s, hclosed>>

\* The host calls an object of the guest with a capability in the params.
HostSendsCap(p) ==
    /\ p \in HostCalls \ used /\ ~hclosed
    /\ used' = used \cup {p}
    /\ Export
    /\ ToGuest(<<ParamCall(p, nextCap)>>)
    /\ UNCHANGED <<handle, capOf, questions, imports, gclosed, c2s, running, hclosed, lost>>

\* A Finish touches #answers only.
HandleFinish ==
    /\ HostGets("finish")
    /\ UNCHANGED <<guestVars, s2c, hostVars, lost>>

HandleRelease ==
    /\ HostGets("release")
    /\ LET id == Head(c2s).id IN
       exports' = [exports EXCEPT ![id] = IF @ = 0 THEN 0 ELSE @ - 1]
    /\ UNCHANGED <<guestVars, s2c, nextCap, running, hclosed, lost>>

CloseHost ==
    /\ ~hclosed
    /\ hclosed' = TRUE
    /\ exports' = [id \in CapIds |-> 0]
    /\ ToGuest(<<Fin>>)
    /\ UNCHANGED <<guestVars, nextCap, running, lost>>

HostCloses == "close" \in Faults /\ CloseHost /\ UNCHANGED c2s
HostLosesPeer == HostGets("fin") /\ CloseHost

-----------------------------------------------------------------------------
Next ==
    \/ \E q \in Questions : Bootstrap(q) \/ SignalAborts(q)
    \/ \E q \in Calls, h \in Carriers : Call(q, h)
    \/ \E h \in Carriers : Drop(h) \/ Finalize(h)
    \/ HandleReturn \/ HandleException \/ HandleParams
    \/ GuestCloses \/ GuestLosesPeer
    \/ \E q \in Calls : HandlerReturns(q)
    \/ \E p \in HostCalls : HostSendsCap(p)
    \/ HandleBootstrap \/ HandleCall \/ HandleFinish \/ HandleRelease
    \/ HostCloses \/ HostLosesPeer

Spec == Init /\ [][Next]_vars

-----------------------------------------------------------------------------
(* Properties *)

HostFrames ==
    {BootstrapFrame(q) : q \in Bootstraps} \cup {CallFrame(q, id) : q \in Calls, id \in CapIds}
    \cup {FinishFrame(q) : q \in Questions} \cup {Release(id) : id \in CapIds} \cup {Fin}

GuestFrames ==
    {Return(q, 0) : q \in Bootstraps}
    \cup {Return(q, id) : q \in Calls, id \in (CapIds \ {0}) \cup {None}}
    \cup {Exception(q) : q \in Calls}
    \cup {ParamCall(p, id) : p \in HostCalls, id \in CapIds \ {0}} \cup {Fin}

TypeOK ==
    /\ handle \in [Carriers -> {"none", "loose", "dropped", "live", "garbage", "gone"}]
    /\ capOf \in [Carriers -> CapIds \cup {None}]
    /\ questions \subseteq Questions /\ used \subseteq Carriers
    /\ imports \subseteq CapIds
    /\ gclosed \in BOOLEAN /\ hclosed \in BOOLEAN
    /\ c2s \in Seq(HostFrames) /\ s2c \in Seq(GuestFrames)
    /\ exports \in [CapIds -> {0, 1}]   \* every exported object gets a new id
    /\ nextCap \in 1..Cardinality(CapIds)
    /\ running \subseteq Calls /\ lost \subseteq CapIds

Holders(id) == {h \in Carriers : handle[h] \in {"live", "garbage"} /\ capOf[h] = id}

\* #imports knows exactly the ids of the handles whose finalizer is due.
ImportsMatchHandles ==
    ~gclosed => \A id \in CapIds : id \in imports <=> Holders(id) # {}

\* Stated by the comment on #handleRelease: an export is not freed while
\* somebody still uses it.  No call that reaches the host on a handle the
\* guest held when it made the call meets an empty slot.
CallsFindTheirTarget ==
    ~hclosed /\ c2s # <<>> /\ Head(c2s).kind = "call" => exports[Head(c2s).id] > 0

Coming(id)   == {i \in 1..Len(s2c) : s2c[i].kind \in {"return", "call"} /\ s2c[i].id = id}
Releases(id) == {i \in 1..Len(c2s) : c2s[i].kind = "release" /\ c2s[i].id = id}

References(id) ==
    Cardinality(Coming(id)) + Cardinality(Holders(id)) + Cardinality(Releases(id))

\* Each reference the host counts is on its way to the guest, held by a handle
\* there, on its way back in a Release, or was thrown away on its way.
RefcountsAccounted ==
    Connected => \A id \in CapIds \ {0} :
        exports[id] = References(id) + (IF id \in lost THEN 1 ELSE 0)

\* The shape of the state, and the guest's two tables agree.
CapsInv ==
    /\ TypeOK
    /\ ImportsMatchHandles
=============================================================================
