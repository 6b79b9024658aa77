--------------------------- MODULE StreamContract ---------------------------
(***************************************************************************)
(* What callStream() promises its reader: the chunks the server's          *)
(* generator yielded, in order and without a gap, then one verdict.  The   *)
(* verdict "done" means that the reader has had every chunk.               *)
(***************************************************************************)
EXTENDS Naturals, Sequences

VARIABLES
    produced,   \* how many chunks the generator has yielded
    received,   \* the chunks the reader was given
    verdict     \* open, done, or the reason of the failure

contractVars == <<produced, received, verdict>>

ContractInit ==
    /\ produced = 0
    /\ received = <<>>
    /\ verdict = "open"

Produce ==
    /\ verdict # "done"
    /\ produced' = produced + 1
    /\ UNCHANGED <<received, verdict>>

\* One push or read may hand over one chunk only.
Receive ==
    /\ verdict = "open"
    /\ Len(received) < produced
    /\ received' = Append(received, Len(received) + 1)
    /\ UNCHANGED <<produced, verdict>>

Conclude(v) ==
    /\ verdict = "open" /\ v # "open"
    /\ v = "done" => Len(received) = produced
    /\ verdict' = v
    /\ UNCHANGED <<produced, received>>

ContractNext ==
    \/ Produce
    \/ Receive
    \/ \E v \in {"done", "failed"} : Conclude(v)

ContractSpec == ContractInit /\ [][ContractNext]_contractVars
=============================================================================
