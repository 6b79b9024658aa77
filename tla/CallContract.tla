---------------------------- MODULE CallContract ----------------------------
(***************************************************************************)
(* What an RpcSession promises the two applications it connects.  No wire, *)
(* no tables: a call is issued, its method body runs at most once at the   *)
(* peer, a call pipelined on another call's answer runs only after that    *)
(* call succeeded, and the caller's promise settles once, with success     *)
(* only when the method body did succeed.  A caller may be told of failure *)
(* at any time (abort signal, peer Abort, close, an extractor that         *)
(* throws), whatever the method body does.                                 *)
(***************************************************************************)

CONSTANTS Questions,     \* identities of the calls (question ids)
          ImportedCap,   \* target of a call made on an imported capability
          BootstrapCap,  \* target of a bootstrap() request
          None           \* "not issued yet"

VARIABLES target,        \* what each call is addressed to
          promise,       \* the caller's view: unused, pending, ok, err
          run            \* the callee's view: no, started, ok, failed

vars == <<target, promise, run>>

Init ==
    /\ target = [q \in Questions |-> None]
    /\ promise = [q \in Questions |-> "unused"]
    /\ run = [q \in Questions |-> "no"]

Issue(q, t) ==
    /\ promise[q] = "unused"
    /\ target' = [target EXCEPT ![q] = t]
    /\ promise' = [promise EXCEPT ![q] = "pending"]
    /\ UNCHANGED run

\* A method body starts once, and behind a successful target only.
Start(q) ==
    /\ promise[q] # "unused"
    /\ run[q] = "no"
    /\ target[q] \in Questions => run[target[q]] = "ok"
    /\ run' = [run EXCEPT ![q] = "started"]
    /\ UNCHANGED <<target, promise>>

\* Refused before any method body ran: broken target, released capability,
\* unknown method.
Refuse(q) ==
    /\ run[q] = "no"
    /\ promise[q] # "unused"
    /\ run' = [run EXCEPT ![q] = "failed"]
    /\ UNCHANGED <<target, promise>>

Complete(q, outcome) ==
    /\ run[q] = "started"
    /\ run' = [run EXCEPT ![q] = outcome]
    /\ UNCHANGED <<target, promise>>

Fulfil(q) ==
    /\ promise[q] = "pending"
    /\ target[q] # BootstrapCap => run[q] = "ok"
    /\ promise' = [promise EXCEPT ![q] = "ok"]
    /\ UNCHANGED <<target, run>>

Reject(S) ==
    /\ \A q \in S : promise[q] = "pending"
    /\ promise' = [q \in Questions |-> IF q \in S THEN "err" ELSE promise[q]]
    /\ UNCHANGED <<target, run>>

Next ==
    \/ \E q \in Questions, t \in Questions \cup {ImportedCap, BootstrapCap} : Issue(q, t)
    \/ \E q \in Questions : Start(q) \/ Refuse(q) \/ Fulfil(q)
    \/ \E q \in Questions, outcome \in {"ok", "failed"} : Complete(q, outcome)
    \/ \E S \in SUBSET Questions : Reject(S)

Spec == Init /\ [][Next]_vars
=============================================================================
