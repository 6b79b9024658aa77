------------------------- MODULE RpcScratch_proofs -------------------------
(***************************************************************************)
(* Proofs about RpcScratch, for any number of calls and outgoing messages: *)
(* what an idiomatic handler reads, what it writes, and which answers are  *)
(* safe.                                                                   *)
(***************************************************************************)
EXTENDS RpcScratch, FiniteSetTheorems, TLAPS

\* JavaScript runs one handler at a time.
OneRuns == \A c, d \in Running : c = d

\* A queued microtask belongs to a call that has something to continue.
JobsPending ==
    \A i \in 1..Len(jobs) :
        /\ stage[jobs[i]] \in {"blocked", "paused", "returned", "thrown"}
        /\ stage[jobs[i]] = "blocked" => stage[target[jobs[i]]] \in {"answered", "failed"}

BlockedHaveTargets ==
    \A c \in Calls : stage[c] = "blocked" => target[c] \in Calls \ {c}

\* Where a call can stand that has begun its results, has read parameters of
\* another frame, or is not async.
StagesFollow ==
    /\ \A c \in began : stage[c] \notin {"unsent", "blocked"}
    /\ \A c \in misread : stage[c] # "unsent"
    /\ \A c \in began \cap Idiomatic : stage[c] # "paused"
    /\ \A c \in Sync : stage[c] \notin {"paused", "later", "returned", "thrown"}

\* The inbound frame, and the message under construction, of an idiomatic
\* handler that runs.
FirstOwnsInbound ==
    \A c \in Idiomatic :
        stage[c] = "first" /\ target[c] = None /\ c \notin began => inbound = c

BegunOwnsBuilder == \A c \in Idiomatic \cap Running \cap began : builder.msg = c

\* The message of a safe handler is complete when it is sent, and what was
\* sent for its call is what it wrote.
SafeMessages ==
    \A c \in Idiomatic : Safe(c) /\ builder.msg = c =>
        Replied(c) \/ (c \in Running \cap Sync \cap began /\ builder.wrote \subseteq {c})

SafeReplies == \A c \in Idiomatic : Safe(c) /\ Replied(c) => reply[c] \subseteq {c}

IInv ==
    /\ TypeOK
    /\ OneRuns /\ JobsPending /\ BlockedHaveTargets /\ StagesFollow
    /\ FirstOwnsInbound /\ BegunOwnsBuilder
    /\ OwnParams /\ OwnResults
    /\ SafeMessages /\ SafeReplies /\ SafeHandlersAnswer

-----------------------------------------------------------------------------
(* Lemmas about the microtask queue and the Returns that are sent. *)

Stages == {"unsent", "blocked", "first", "paused", "later",
           "returned", "thrown", "answered", "failed"}

\* Queueing one more microtask.
LEMMA Queued ==
    ASSUME NEW j \in Seq(Calls), IsInjective(j), NEW c \in Calls,
           \A i \in 1..Len(j) : j[i] # c
    PROVE  /\ Append(j, c) \in Seq(Calls) /\ IsInjective(Append(j, c))
           /\ \A i \in 1..Len(Append(j, c)) :
                 Append(j, c)[i] = c \/ \E k \in 1..Len(j) : Append(j, c)[i] = j[k]
<1>1. /\ Append(j, c) \in Seq(Calls) /\ Len(Append(j, c)) = Len(j) + 1
      /\ \A i \in 1..Len(j) : Append(j, c)[i] = j[i]
      /\ Append(j, c)[Len(j) + 1] = c
      /\ DOMAIN j = 1..Len(j) /\ DOMAIN Append(j, c) = 1..(Len(j) + 1)
      OBVIOUS
<1>2. \A i \in 1..(Len(j) + 1) : i \in 1..Len(j) \/ i = Len(j) + 1
      OBVIOUS
<1> QED BY <1>1, <1>2 DEF IsInjective

\* Taking the next one.
LEMMA Dequeued ==
    ASSUME NEW j \in Seq(Calls), IsInjective(j), j # <<>>
    PROVE  /\ Head(j) \in Calls /\ Head(j) = j[1] /\ 1 \in 1..Len(j)
           /\ Tail(j) \in Seq(Calls) /\ IsInjective(Tail(j))
           /\ \A i \in 1..Len(Tail(j)) :
                 Tail(j)[i] # Head(j) /\ \E k \in 1..Len(j) : Tail(j)[i] = j[k]
<1>1. /\ Len(j) \in Nat \ {0} /\ Head(j) = j[1]
      /\ DOMAIN j = 1..Len(j) /\ j[1] \in Calls
      OBVIOUS
<1>2. /\ Tail(j) \in Seq(Calls) /\ Len(Tail(j)) = Len(j) - 1
      /\ DOMAIN Tail(j) = 1..(Len(j) - 1)
      /\ \A i \in 1..(Len(j) - 1) : Tail(j)[i] = j[i + 1] /\ i + 1 \in 1..Len(j) /\ i + 1 # 1
      BY <1>1
<1>3. IsInjective(Tail(j))
      BY <1>1, <1>2 DEF IsInjective
<1> QED BY <1>1, <1>2, <1>3 DEF IsInjective

\* Waking a set of calls, in any order.
LEMMA Woken ==
    ASSUME NEW j \in Seq(Calls), IsInjective(j),
           NEW S \in SUBSET Calls, NEW w \in SetToSeqs(S),
           \A i \in 1..Len(j) : j[i] \notin S
    PROVE  /\ j \o w \in Seq(Calls) /\ IsInjective(j \o w)
           /\ \A i \in 1..Len(j \o w) :
                 (j \o w)[i] \in S \/ \E k \in 1..Len(j) : (j \o w)[i] = j[k]
<1>1. Cardinality(S) \in Nat
      BY FS_Subset, FS_CardinalityType, ConstantsAssumption
<1> DEFINE n == Cardinality(S)
<1>2. w \in [1..n -> S] /\ \A i, k \in 1..n : i # k => w[i] # w[k]
      BY DEF SetToSeqs
<1> HIDE DEF n
<1>3. n \in Nat
      BY <1>1 DEF n
<1>4. w \in Seq(Calls) /\ Len(w) = n
      BY <1>2, <1>3
<1>5. /\ j \o w \in Seq(Calls) /\ Len(j \o w) = Len(j) + n
      /\ DOMAIN (j \o w) = 1..(Len(j) + n)
      /\ \A i \in 1..Len(j) : (j \o w)[i] = j[i]
      /\ \A i \in (Len(j) + 1)..(Len(j) + n) :
            (j \o w)[i] = w[i - Len(j)] /\ i - Len(j) \in 1..n
      BY <1>3, <1>4
<1>6. \A i \in 1..(Len(j) + n) : i \in 1..Len(j) \/ i \in (Len(j) + 1)..(Len(j) + n)
      BY <1>3
<1>7. \A i \in (Len(j) + 1)..(Len(j) + n) : (j \o w)[i] \in S
      BY <1>2, <1>5
<1>8. \A i, k \in (Len(j) + 1)..(Len(j) + n) :
         i # k => i - Len(j) # k - Len(j)
      BY <1>3
<1>9. \A i, k \in 1..(Len(j) + n) : (j \o w)[i] = (j \o w)[k] => i = k
  <2> SUFFICES ASSUME NEW i \in 1..(Len(j) + n), NEW k \in 1..(Len(j) + n),
                      (j \o w)[i] = (j \o w)[k]
               PROVE  i = k
      OBVIOUS
  <2>1. CASE i \in 1..Len(j) /\ k \in 1..Len(j)
        BY <1>5, <2>1 DEF IsInjective
  <2>2. CASE i \in (Len(j) + 1)..(Len(j) + n) /\ k \in (Len(j) + 1)..(Len(j) + n)
        BY <1>2, <1>5, <1>8, <2>2
  <2>3. CASE i \in 1..Len(j) /\ k \in (Len(j) + 1)..(Len(j) + n)
        BY <1>5, <1>7, <2>3
  <2>4. CASE k \in 1..Len(j) /\ i \in (Len(j) + 1)..(Len(j) + n)
        BY <1>5, <1>7, <2>4
  <2> QED BY <1>6, <2>1, <2>2, <2>3, <2>4
<1>10. IsInjective(j \o w)
      BY <1>5, <1>9 DEF IsInjective
<1> QED BY <1>5, <1>6, <1>7, <1>10

\* What was sent: nothing but the first Return for the message's call changes.
LEMMA Sent ==
    ASSUME TypeOK, NEW m, m.wrote \in SUBSET (Calls \cup Questions), Sends(m)
    PROVE  /\ reply' \in [Idiomatic -> (SUBSET (Calls \cup Questions)) \cup {None}]
           /\ \A c \in Idiomatic : Replied(c) => reply'[c] = reply[c]
           /\ \A c \in Idiomatic : c # m.msg => reply'[c] = reply[c]
           /\ \A c \in Idiomatic : c = m.msg /\ ~Replied(c) => reply'[c] = m.wrote
           /\ \A c \in Idiomatic : c = m.msg => reply'[c] # None
  BY ConstantsAssumption DEF Sends, TypeOK, Replied

-----------------------------------------------------------------------------
(* The end of #handleCall, which a handler that is not async reaches itself *)
(* and any other call in a microtask.                                       *)

LEMMA CallEnds ==
    ASSUME IInv, NEW c \in Calls, NEW how \in {"answered", "failed"},
           \/ Answer(c) /\ how = "answered"
           \/ SendException(c) /\ how = "failed",
           stage[c] \notin {"unsent", "answered", "failed"},
           Running \subseteq {c}, Running # {} => c \in Sync,
           NEW j \in Seq(Calls), IsInjective(j),
           \A i \in 1..Len(j) : j[i] # c /\ \E k \in 1..Len(jobs) : j[i] = jobs[k],
           Settle(c, how, j),
           UNCHANGED <<target, began, misread, question>>
    PROVE  IInv'
<1> USE DEF IInv
<1>1. /\ stage' = [stage EXCEPT ![c] = how]
      /\ stage \in [Calls -> Stages] /\ stage' \in [Calls -> Stages]
      /\ stage'[c] = how /\ \A d \in Calls : d # c => stage'[d] = stage[d]
      BY DEF Settle, TypeOK, Stages
<1>2. /\ jobs' \in Seq(Calls) /\ IsInjective(jobs')
      /\ \A i \in 1..Len(jobs') :
            \/ jobs'[i] \in Waiters(c, how)
            \/ \E k \in 1..Len(j) : jobs'[i] = j[k]
  <2>1. PICK w \in SetToSeqs(Waiters(c, how)) : jobs' = j \o w
        BY DEF Settle
  <2>2. Waiters(c, how) \in SUBSET Calls
        BY DEF Waiters
  <2>3. \A i \in 1..Len(j) : j[i] \notin Waiters(c, how)
    <3> SUFFICES ASSUME NEW i \in 1..Len(j), j[i] \in Waiters(c, how) PROVE FALSE
        OBVIOUS
    <3>1. PICK k \in 1..Len(jobs) : j[i] = jobs[k]
          OBVIOUS
    <3>2. stage[jobs[k]] = "blocked" /\ target[jobs[k]] = c
          BY <3>1 DEF Waiters
    <3> QED BY <3>2 DEF JobsPending
  <2> QED BY <2>1, <2>2, <2>3, Woken
<1>3. Running' = {}
      BY <1>1 DEF Running
<1>4. /\ inbound' \in Calls \cup {None}
      /\ builder' \in [msg : Calls \cup Questions \cup {None}, wrote : SUBSET (Calls \cup Questions)]
      /\ builder'.msg = c \/ (builder' = builder /\ c \in began /\ how = "answered")
      /\ builder'.msg = c => builder'.wrote \subseteq {c} \/ builder' = builder
      /\ Sends(builder')
  <2>1. CASE builder' = builder /\ inbound' = inbound /\ c \in began /\ how = "answered" /\ Sends(builder)
    <3>1. Sends(builder') <=> Sends(builder)
          BY <2>1
    <3> QED BY <2>1, <3>1 DEF TypeOK
  <2>2. CASE \E writers \in {{}, {c}} : /\ builder' = Message(c, writers) /\ inbound' = None
                                       /\ Sends(Message(c, writers))
    <3>1. PICK writers \in {{}, {c}} : /\ builder' = Message(c, writers) /\ inbound' = None
                                      /\ Sends(Message(c, writers))
          BY <2>2
    <3>2. Sends(builder') <=> Sends(Message(c, writers))
          BY <3>1
    <3>3. builder' = [msg |-> c, wrote |-> writers]
          BY <3>1 DEF Message
    <3> QED BY <3>1, <3>2, <3>3
  <2> QED BY <2>1, <2>2 DEF Answer, SendException, Finalizes
<1>5. /\ builder'.wrote \in SUBSET (Calls \cup Questions)
      BY <1>4
<1>6. /\ reply' \in [Idiomatic -> (SUBSET (Calls \cup Questions)) \cup {None}]
      /\ \A d \in Idiomatic : Replied(d) => reply'[d] = reply[d]
      /\ \A d \in Idiomatic : d # builder'.msg => reply'[d] = reply[d]
      /\ \A d \in Idiomatic : d = builder'.msg /\ ~Replied(d) => reply'[d] = builder'.wrote
      /\ \A d \in Idiomatic : d = builder'.msg => reply'[d] # None
      BY <1>4, <1>5, Sent
<1>7. \A d \in Calls : Safe(d)' <=> Safe(d)
      BY DEF Safe
<1>8. TypeOK'
      BY <1>1, <1>2, <1>4, <1>6 DEF TypeOK, Stages
<1>9. OneRuns' /\ BegunOwnsBuilder' /\ FirstOwnsInbound'
      BY <1>1, <1>3, ConstantsAssumption DEF OneRuns, BegunOwnsBuilder, FirstOwnsInbound, Running
<1>10. JobsPending'
  <2> SUFFICES ASSUME NEW i \in 1..Len(jobs')
               PROVE  /\ stage'[jobs'[i]] \in {"blocked", "paused", "returned", "thrown"}
                      /\ stage'[jobs'[i]] = "blocked" => stage'[target[jobs'[i]]] \in {"answered", "failed"}
      BY DEF JobsPending
  <2>1. CASE jobs'[i] \in Waiters(c, how)
    <3>1. /\ jobs'[i] \in Calls /\ stage[jobs'[i]] = "blocked" /\ target[jobs'[i]] = c
          BY <2>1 DEF Waiters
    <3>2. jobs'[i] # c
          BY <3>1 DEF BlockedHaveTargets
    <3> QED BY <1>1, <3>1, <3>2
  <2>2. CASE \E k \in 1..Len(j) : jobs'[i] = j[k]
    <3>1. PICK k \in 1..Len(jobs) : jobs'[i] = jobs[k] /\ jobs[k] # c
          BY <2>2
    <3>2. jobs[k] \in Calls
          BY DEF TypeOK
    <3>3. stage'[jobs[k]] = stage[jobs[k]]
          BY <1>1, <3>1, <3>2
    <3>4. stage[jobs[k]] = "blocked" =>
             target[jobs[k]] \in Calls /\ stage[target[jobs[k]]] \in {"answered", "failed"}
          BY <3>2 DEF JobsPending, BlockedHaveTargets
    <3>5. stage[jobs[k]] = "blocked" => stage'[target[jobs[k]]] \in {"answered", "failed"}
          BY <1>1, <3>4
    <3> QED BY <3>1, <3>3, <3>5 DEF JobsPending
  <2> QED BY <1>2, <2>1, <2>2
<1>11. BlockedHaveTargets' /\ StagesFollow'
      BY <1>1, ConstantsAssumption DEF BlockedHaveTargets, StagesFollow, TypeOK
<1>12. OwnParams'
      BY DEF OwnParams
<1>13. OwnResults'
  <2>1. CASE builder' = builder
        BY <2>1 DEF OwnResults
  <2>2. CASE builder' # builder
        BY <1>4, <2>2 DEF OwnResults
  <2> QED BY <2>1, <2>2
<1>14. SafeMessages'
  <2> SUFFICES ASSUME NEW d \in Idiomatic, Safe(d), builder'.msg = d
               PROVE  reply'[d] # None
      BY <1>7, ConstantsAssumption DEF SafeMessages, Replied
  <2> QED BY <1>6
<1>15. SafeReplies'
  <2> SUFFICES ASSUME NEW d \in Idiomatic, Safe(d), reply'[d] # None
               PROVE  reply'[d] \subseteq {d}
      BY <1>7, ConstantsAssumption DEF SafeReplies, Replied
  <2>1. CASE Replied(d)
        BY <1>6, <2>1 DEF SafeReplies
  <2>2. CASE ~Replied(d)
    <3>1. builder'.msg = d /\ reply'[d] = builder'.wrote
          BY <1>6, <2>2 DEF Replied
    <3>2. builder' = builder => builder.wrote \subseteq {d}
          BY <2>2, <3>1 DEF SafeMessages
    <3>3. CASE builder' = builder
          BY <3>1, <3>2, <3>3
    <3>4. CASE builder' # builder
          BY <1>4, <3>1, <3>4
    <3> QED BY <3>3, <3>4
  <2> QED BY <2>1, <2>2
<1>16. SafeHandlersAnswer'
  <2> SUFFICES ASSUME NEW d \in Idiomatic, Safe(d), stage'[d] \in {"answered", "failed"}
               PROVE  reply'[d] # None /\ reply'[d] \subseteq {d}
      BY <1>7, ConstantsAssumption DEF SafeHandlersAnswer, Replied, Over
  <2>1. CASE d # c
        BY <1>1, <1>6, <2>1, ConstantsAssumption DEF SafeHandlersAnswer, Over, Replied
  <2>2. CASE d = c
    <3>1. builder'.msg = c
      <4>1. CASE c \in began /\ builder' = builder
        <5>1. c \in Sync
              BY <2>2, <4>1 DEF Safe
        <5>2. stage[c] = "first"
              BY <1>1, <4>1, <5>1 DEF StagesFollow, Stages
        <5> QED BY <2>2, <4>1, <5>2 DEF BegunOwnsBuilder, Running
      <4> QED BY <1>4, <4>1
    <3>2. reply'[d] # None
          BY <1>6, <2>2, <3>1
    <3>3. reply'[d] \subseteq {d}
          BY <1>7, <1>15, <3>2, ConstantsAssumption DEF SafeReplies, Replied
    <3> QED BY <3>2, <3>3
  <2> QED BY <2>1, <2>2
<1> QED BY <1>8, <1>9, <1>10, <1>11, <1>12, <1>13, <1>14, <1>15, <1>16

-----------------------------------------------------------------------------
(* Frames *)

\* Queueing the continuation of a call that stands where it can be queued.
LEMMA PendingKept ==
    ASSUME IInv, NEW c \in Calls, NEW s \in Stages,
           stage' = [stage EXCEPT ![c] = s],
           \A k \in 1..Len(jobs) : jobs[k] # c,
           c \notin Over,
           \A d \in Calls : d # c => target'[d] = target[d],
           \/ jobs' = jobs
           \/ /\ jobs' = Append(jobs, c)
              /\ s \in {"blocked", "paused", "returned", "thrown"}
              /\ s = "blocked" => target'[c] \in Over \ {c}
    PROVE  jobs' \in Seq(Calls) /\ IsInjective(jobs') /\ JobsPending'
<1> USE DEF IInv
<1>1. /\ stage' \in [Calls -> Stages] /\ stage'[c] = s
      /\ \A d \in Calls : d # c => stage'[d] = stage[d]
      /\ jobs \in Seq(Calls) /\ IsInjective(jobs)
      /\ \A i \in 1..Len(jobs) : jobs[i] \in Calls
      BY DEF TypeOK, Stages
<1>2. \A i \in 1..Len(jobs) :
         /\ stage'[jobs[i]] \in {"blocked", "paused", "returned", "thrown"}
         /\ stage'[jobs[i]] = "blocked" => stage'[target'[jobs[i]]] \in {"answered", "failed"}
  <2> SUFFICES ASSUME NEW i \in 1..Len(jobs)
               PROVE  /\ stage'[jobs[i]] \in {"blocked", "paused", "returned", "thrown"}
                      /\ stage'[jobs[i]] = "blocked" =>
                            stage'[target'[jobs[i]]] \in {"answered", "failed"}
      OBVIOUS
  <2>1. stage'[jobs[i]] = stage[jobs[i]] /\ target'[jobs[i]] = target[jobs[i]]
        BY <1>1
  <2>2. stage[jobs[i]] = "blocked" =>
           /\ target[jobs[i]] \in Calls
           /\ stage[target[jobs[i]]] \in {"answered", "failed"}
        BY <1>1 DEF JobsPending, BlockedHaveTargets
  <2>3. stage[jobs[i]] = "blocked" =>
           /\ target[jobs[i]] # c
           /\ stage'[target[jobs[i]]] = stage[target[jobs[i]]]
        BY <1>1, <2>2 DEF Over
  <2> QED BY <2>1, <2>2, <2>3 DEF JobsPending
<1>3. CASE jobs' = jobs
      BY <1>1, <1>2, <1>3 DEF JobsPending
<1>4. CASE /\ jobs' = Append(jobs, c)
           /\ s \in {"blocked", "paused", "returned", "thrown"}
           /\ s = "blocked" => target'[c] \in Over \ {c}
  <2>1. /\ jobs' \in Seq(Calls) /\ IsInjective(jobs')
        /\ \A i \in 1..Len(jobs') : jobs'[i] = c \/ \E k \in 1..Len(jobs) : jobs'[i] = jobs[k]
        BY <1>1, <1>4, Queued
  <2>2. /\ stage'[c] \in {"blocked", "paused", "returned", "thrown"}
        /\ stage'[c] = "blocked" => stage'[target'[c]] \in {"answered", "failed"}
        BY <1>1, <1>4 DEF Over
  <2>3. SUFFICES ASSUME NEW i \in 1..Len(jobs')
                 PROVE  /\ stage'[jobs'[i]] \in {"blocked", "paused", "returned", "thrown"}
                        /\ stage'[jobs'[i]] = "blocked" =>
                              stage'[target'[jobs'[i]]] \in {"answered", "failed"}
        BY <2>1 DEF JobsPending
  <2>4. CASE jobs'[i] = c
        BY <2>2, <2>4
  <2>5. CASE \E k \in 1..Len(jobs) : jobs'[i] = jobs[k]
        BY <1>2, <2>5
  <2> QED BY <2>1, <2>4, <2>5
<1> QED BY <1>3, <1>4

LEMMA CallArrives ==
    ASSUME IInv, NEW c \in Calls, Receive(c)
    PROVE  IInv'
<1> USE DEF IInv
<1>1. Idle /\ stage[c] = "unsent" /\ inbound' = c
      BY DEF Receive
<1>2. UNCHANGED <<builder, began, misread, question, reply>>
      BY DEF Receive
<1>3. PICK t \in {None} \cup {d \in Calls : stage[d] # "unsent"} :
         target' = [target EXCEPT ![c] = t] /\ Dispatch(c, t)
      BY DEF Receive
<1>4. t # c
      BY <1>1, ConstantsAssumption
<1>5. /\ target' \in [Calls -> Calls \cup {None}] /\ target'[c] = t
      /\ \A d \in Calls : d # c => target'[d] = target[d]
      BY <1>3 DEF TypeOK
<1>6. \A k \in 1..Len(jobs) : jobs[k] # c
      BY <1>1 DEF JobsPending
<1>7. PICK s \in {"first", "blocked"} :
         /\ stage' = [stage EXCEPT ![c] = s]
         /\ s = "blocked" => t \in Calls
         /\ jobs' = jobs \/ (jobs' = Append(jobs, c) /\ s = "blocked" /\ t \in Over)
  <2>1. CASE t = None \/ stage[t] = "answered"
        BY <1>3, <2>1 DEF Dispatch
  <2>2. CASE ~(t = None \/ stage[t] = "answered")
        BY <1>3, <2>2 DEF Dispatch, Over
  <2> QED BY <2>1, <2>2
<1>8. /\ stage' \in [Calls -> Stages] /\ stage'[c] = s
      /\ \A d \in Calls : d # c => stage'[d] = stage[d]
      BY <1>7 DEF TypeOK, Stages
<1>9. c \notin Over /\ c \notin began /\ c \notin misread
      BY <1>1 DEF Over, StagesFollow
<1>10. jobs' \in Seq(Calls) /\ IsInjective(jobs') /\ JobsPending'
  <2>1. s \in Stages
        BY DEF Stages
  <2>2. \/ jobs' = jobs
        \/ /\ jobs' = Append(jobs, c)
           /\ s \in {"blocked", "paused", "returned", "thrown"}
           /\ s = "blocked" => target'[c] \in Over \ {c}
    <3>1. CASE jobs' = jobs
          BY <3>1
    <3>2. CASE jobs' = Append(jobs, c) /\ s = "blocked" /\ t \in Over
          BY <1>4, <1>5, <3>2
    <3> QED BY <1>7, <3>1, <3>2
  <2> QED BY <1>5, <1>6, <1>7, <1>9, <2>1, <2>2, PendingKept
<1>11. TypeOK'
      BY <1>1, <1>2, <1>5, <1>8, <1>10 DEF TypeOK, Stages
<1>12. Running' \subseteq {c} /\ Running = {} /\ Over' = Over
      BY <1>1, <1>7, <1>8 DEF Running, Idle, Over
<1>13. OneRuns'
      BY <1>12 DEF OneRuns
<1>14. BlockedHaveTargets' /\ StagesFollow'
      BY <1>2, <1>4, <1>5, <1>7, <1>8, <1>9, ConstantsAssumption
      DEF BlockedHaveTargets, StagesFollow, TypeOK
<1>15. FirstOwnsInbound'
      BY <1>1, <1>8, <1>12, ConstantsAssumption DEF FirstOwnsInbound, Running
<1>16. BegunOwnsBuilder'
      BY <1>2, <1>9, <1>12 DEF BegunOwnsBuilder
<1>17. OwnParams' /\ OwnResults'
      BY <1>2, <1>5, <1>9, ConstantsAssumption DEF OwnParams, OwnResults, TypeOK
<1>18. SafeMessages' /\ SafeReplies' /\ SafeHandlersAnswer'
      BY <1>2, <1>12 DEF SafeMessages, SafeReplies, SafeHandlersAnswer, Safe, Replied
<1> QED BY <1>10, <1>11, <1>13, <1>14, <1>15, <1>16, <1>17, <1>18

LEMMA OtherFrame ==
    ASSUME IInv, ReceiveOther
    PROVE  IInv'
<1> USE DEF IInv, ReceiveOther, callVars
<1>1. Running' = {} /\ Running = {} /\ Over' = Over
      BY DEF Idle, Running, Over
<1>2. TypeOK' /\ OneRuns' /\ JobsPending' /\ BlockedHaveTargets' /\ StagesFollow'
      BY <1>1 DEF TypeOK, OneRuns, JobsPending, BlockedHaveTargets, StagesFollow
<1>3. FirstOwnsInbound' /\ BegunOwnsBuilder' /\ OwnParams' /\ OwnResults'
      BY <1>1, ConstantsAssumption DEF FirstOwnsInbound, BegunOwnsBuilder, OwnParams, OwnResults, Running
<1>4. SafeMessages' /\ SafeReplies' /\ SafeHandlersAnswer'
      BY <1>1 DEF SafeMessages, SafeReplies, SafeHandlersAnswer, Safe, Replied
<1> QED BY <1>2, <1>3, <1>4

-----------------------------------------------------------------------------
(* Handlers *)

LEMMA ParamsOpened ==
    ASSUME IInv, NEW c \in Calls, OpenParams(c)
    PROVE  IInv'
<1> USE DEF IInv, OpenParams
<1>1. Running' = Running /\ Over' = Over
      BY DEF Running, Over
<1>2. misread' = misread \/ (misread' = misread \cup {c} /\ c \in Idiomatic /\ inbound # c)
      OBVIOUS
<1>4. c \in Idiomatic /\ inbound # c => target[c] # None
      BY DEF FirstOwnsInbound
<1>5. TypeOK' /\ OneRuns' /\ JobsPending' /\ BlockedHaveTargets' /\ StagesFollow'
      BY <1>1, <1>2 DEF TypeOK, OneRuns, JobsPending, BlockedHaveTargets, StagesFollow, Running
<1>6. FirstOwnsInbound' /\ BegunOwnsBuilder' /\ OwnParams' /\ OwnResults'
      BY <1>1, <1>2, <1>4 DEF FirstOwnsInbound, BegunOwnsBuilder, OwnParams, OwnResults
<1>7. SafeMessages' /\ SafeReplies' /\ SafeHandlersAnswer'
      BY <1>1 DEF SafeMessages, SafeReplies, SafeHandlersAnswer, Safe, Replied
<1> QED BY <1>5, <1>6, <1>7

LEMMA ResultsBegun ==
    ASSUME IInv, NEW c \in Calls, BeginResults(c)
    PROVE  IInv'
<1> USE DEF IInv
<1>1. /\ c \in Running /\ c \notin began /\ began' = began \cup {c}
      /\ builder' = [msg |-> c, wrote |-> {}]
      /\ UNCHANGED <<inbound, stage, target, misread, jobs, question, reply>>
      BY DEF BeginResults, Begun, Message
<1>2. Running' = Running /\ Over' = Over /\ Running = {c}
      BY <1>1 DEF Running, Over, OneRuns
<1>3. TypeOK' /\ OneRuns' /\ JobsPending' /\ BlockedHaveTargets'
      BY <1>1, <1>2 DEF TypeOK, OneRuns, JobsPending, BlockedHaveTargets
<1>4. StagesFollow'
      BY <1>1 DEF StagesFollow, Running
<1>5. FirstOwnsInbound' /\ BegunOwnsBuilder' /\ OwnParams' /\ OwnResults'
      BY <1>1, <1>2 DEF FirstOwnsInbound, BegunOwnsBuilder, OwnParams, OwnResults
<1>6. \A d \in Calls : Safe(d)' => Safe(d) /\ (d = c => c \in Sync)
      BY <1>1 DEF Safe
<1>7. SafeMessages'
      BY <1>1, <1>2, <1>6, ConstantsAssumption DEF SafeMessages, Replied
<1>8. SafeReplies' /\ SafeHandlersAnswer'
      BY <1>1, <1>2, <1>6, ConstantsAssumption DEF SafeReplies, SafeHandlersAnswer, Replied
<1> QED BY <1>3, <1>4, <1>5, <1>7, <1>8

LEMMA ResultsFilled ==
    ASSUME IInv, NEW c \in Calls, Fill(c)
    PROVE  IInv'
<1> USE DEF IInv
<1>1. /\ c \in Running /\ c \in began
      /\ builder' = [builder EXCEPT !.wrote = @ \cup {c}]
      /\ inbound' \in {inbound, None}
      /\ UNCHANGED <<stage, target, began, misread, jobs, question, reply>>
      BY DEF Fill, callVars
<1>2. Running' = Running /\ Over' = Over /\ Running = {c}
      BY <1>1 DEF Running, Over, OneRuns
<1>3. builder'.msg = builder.msg /\ builder'.wrote = builder.wrote \cup {c}
      BY <1>1 DEF TypeOK
<1>4. TypeOK' /\ OneRuns' /\ JobsPending' /\ BlockedHaveTargets' /\ StagesFollow'
      BY <1>1, <1>2 DEF TypeOK, OneRuns, JobsPending, BlockedHaveTargets, StagesFollow
<1>5. FirstOwnsInbound' /\ BegunOwnsBuilder' /\ OwnParams'
      BY <1>1, <1>2, <1>3, ConstantsAssumption DEF FirstOwnsInbound, BegunOwnsBuilder, OwnParams, Running
<1>6. OwnResults'
      BY <1>1, <1>2, <1>3 DEF OwnResults, BegunOwnsBuilder
<1>7. SafeMessages'
      BY <1>1, <1>2, <1>3 DEF SafeMessages, Safe, Replied
<1>8. SafeReplies' /\ SafeHandlersAnswer'
      BY <1>1, <1>2 DEF SafeReplies, SafeHandlersAnswer, Safe, Replied
<1> QED BY <1>4, <1>5, <1>6, <1>7, <1>8

\* An async handler awaits or ends.
LEMMA HandlerLeaves ==
    ASSUME IInv, NEW c \in Calls, c \in Running \ Sync,
           NEW s \in {"paused", "returned", "thrown"},
           s = "paused" /\ c \in Idiomatic => c \notin began,
           stage' = [stage EXCEPT ![c] = s],
           jobs' = jobs \/ jobs' = Append(jobs, c),
           UNCHANGED <<inbound, builder, target, began, misread, question, reply>>
    PROVE  IInv'
<1> USE DEF IInv
<1>1. /\ stage' \in [Calls -> Stages] /\ stage'[c] = s
      /\ \A d \in Calls : d # c => stage'[d] = stage[d]
      BY DEF TypeOK, Stages
<1>2. Running = {c} /\ Running' = {} /\ Over' = Over /\ c \notin Over
      BY <1>1 DEF Running, Over, OneRuns
<1>3. jobs' \in Seq(Calls) /\ IsInjective(jobs') /\ JobsPending'
  <2>1. \A k \in 1..Len(jobs) : jobs[k] # c
        BY DEF JobsPending, Running
  <2>2. s \in Stages
        BY DEF Stages
  <2> QED BY <1>2, <2>1, <2>2, PendingKept
<1>4. TypeOK' /\ OneRuns' /\ BlockedHaveTargets'
      BY <1>1, <1>2, <1>3 DEF TypeOK, OneRuns, BlockedHaveTargets, Stages
<1>5. StagesFollow'
      BY <1>1, ConstantsAssumption DEF StagesFollow, TypeOK
<1>6. FirstOwnsInbound' /\ BegunOwnsBuilder' /\ OwnParams' /\ OwnResults'
      BY <1>1, <1>2, ConstantsAssumption
      DEF FirstOwnsInbound, BegunOwnsBuilder, OwnParams, OwnResults, Running
<1>7. SafeMessages'
      BY <1>2 DEF SafeMessages, Safe, Replied
<1>8. SafeReplies' /\ SafeHandlersAnswer'
      BY <1>2 DEF SafeReplies, SafeHandlersAnswer, Safe, Replied
<1> QED BY <1>3, <1>4, <1>5, <1>6, <1>7, <1>8

LEMMA AwaitSettles ==
    ASSUME IInv, NEW c \in Calls, Awaited(c)
    PROVE  IInv'
<1> USE DEF IInv
<1>1. /\ Idle /\ stage[c] = "paused" /\ ~Contains(jobs, c) /\ jobs' = Append(jobs, c)
      /\ UNCHANGED <<inbound, builder, stage, target, began, misread, question, reply>>
      BY DEF Awaited
<1>2. Running' = Running /\ Over' = Over /\ c \notin Over
      BY <1>1 DEF Running, Over
<1>3. jobs' \in Seq(Calls) /\ IsInjective(jobs') /\ JobsPending'
  <2>1. \A k \in 1..Len(jobs) : jobs[k] # c
        BY <1>1 DEF Contains, TypeOK
  <2>2. stage' = [stage EXCEPT ![c] = "paused"]
        BY <1>1 DEF TypeOK
  <2>3. "paused" \in Stages
        BY DEF Stages
  <2> QED BY <1>1, <1>2, <2>1, <2>2, <2>3, PendingKept
<1>4. TypeOK' /\ OneRuns' /\ BlockedHaveTargets' /\ StagesFollow'
      BY <1>1, <1>2, <1>3 DEF TypeOK, OneRuns, BlockedHaveTargets, StagesFollow
<1>5. FirstOwnsInbound' /\ BegunOwnsBuilder' /\ OwnParams' /\ OwnResults'
      BY <1>1, <1>2 DEF FirstOwnsInbound, BegunOwnsBuilder, OwnParams, OwnResults
<1>6. SafeMessages' /\ SafeReplies' /\ SafeHandlersAnswer'
      BY <1>1, <1>2 DEF SafeMessages, SafeReplies, SafeHandlersAnswer, Safe, Replied
<1> QED BY <1>3, <1>4, <1>5, <1>6

\* A microtask lets a handler go on.
LEMMA HandlerGoesOn ==
    ASSUME IInv, Idle, jobs # <<>>, NEW c, c = Head(jobs),
           NEW s \in {"first", "later"},
           stage[c] = IF s = "first" THEN "blocked" ELSE "paused",
           stage' = [stage EXCEPT ![c] = s],
           jobs' = Tail(jobs),
           UNCHANGED <<inbound, builder, target, began, misread, question, reply>>
    PROVE  IInv'
<1> USE DEF IInv
<1>1. /\ c \in Calls /\ jobs' \in Seq(Calls) /\ IsInjective(jobs')
      /\ \A i \in 1..Len(jobs') : jobs'[i] # c /\ \E k \in 1..Len(jobs) : jobs'[i] = jobs[k]
      BY Dequeued DEF TypeOK
<1>2. /\ stage' \in [Calls -> Stages] /\ stage'[c] = s
      /\ \A d \in Calls : d # c => stage'[d] = stage[d]
      BY <1>1 DEF TypeOK, Stages
<1>3. Running = {} /\ Running' = {c} /\ Over' = Over /\ c \notin Over
  <2>1. Running = {}
        BY DEF Idle
  <2> QED BY <1>1, <1>2, <2>1 DEF Running, Over
<1>4. JobsPending'
  <2> SUFFICES ASSUME NEW i \in 1..Len(jobs')
               PROVE  /\ stage'[jobs'[i]] \in {"blocked", "paused", "returned", "thrown"}
                      /\ stage'[jobs'[i]] = "blocked" =>
                            stage'[target[jobs'[i]]] \in {"answered", "failed"}
      BY DEF JobsPending
  <2>1. PICK k \in 1..Len(jobs) : jobs'[i] = jobs[k] /\ jobs[k] # c
        BY <1>1
  <2>2. jobs[k] \in Calls /\ stage'[jobs[k]] = stage[jobs[k]]
        BY <1>2, <2>1 DEF TypeOK
  <2>3. stage[jobs[k]] = "blocked" =>
           target[jobs[k]] \in Calls /\ stage[target[jobs[k]]] \in {"answered", "failed"}
        BY <2>2 DEF JobsPending, BlockedHaveTargets
  <2>4. stage[jobs[k]] = "blocked" => stage'[target[jobs[k]]] = stage[target[jobs[k]]]
        BY <1>2, <1>3, <2>3 DEF Over
  <2> QED BY <2>1, <2>2, <2>3, <2>4 DEF JobsPending
<1>5. TypeOK' /\ OneRuns'
      BY <1>1, <1>2, <1>3 DEF TypeOK, OneRuns, Stages
<1>6. BlockedHaveTargets'
      BY <1>1, <1>2 DEF BlockedHaveTargets
<1>7. StagesFollow'
  <2>1. c \in Sync => s = "first"
        BY <1>1 DEF StagesFollow
  <2> QED BY <1>1, <1>2, <2>1, ConstantsAssumption DEF StagesFollow, TypeOK
<1>8. FirstOwnsInbound'
  <2>1. s = "first" => target[c] # None
        BY <1>1, ConstantsAssumption DEF BlockedHaveTargets
  <2> QED BY <1>2, <1>3, <2>1, ConstantsAssumption DEF FirstOwnsInbound, Running
<1>9. BegunOwnsBuilder'
  <2>1. ~(c \in Idiomatic /\ c \in began)
        BY <1>1 DEF StagesFollow
  <2> QED BY <1>3, <2>1 DEF BegunOwnsBuilder
<1>10. OwnParams' /\ OwnResults'
      BY DEF OwnParams, OwnResults
<1>11. SafeMessages' /\ SafeReplies' /\ SafeHandlersAnswer'
      BY <1>3 DEF SafeMessages, SafeReplies, SafeHandlersAnswer, Safe, Replied
<1> QED BY <1>1, <1>4, <1>5, <1>6, <1>7, <1>8, <1>9, <1>10, <1>11

\* A handler that is not async answers, or throws, while #handleCall runs.
LEMMA SyncEnds ==
    ASSUME IInv, NEW c \in Calls, c \in Running \cap Sync,
           NEW how \in {"answered", "failed"},
           \/ Answer(c) /\ how = "answered"
           \/ SendException(c) /\ how = "failed",
           Settle(c, how, jobs),
           UNCHANGED <<target, began, misread, question>>
    PROVE  IInv'
<1>1. stage[c] \notin {"unsent", "answered", "failed"} /\ Running \subseteq {c}
      BY DEF Running, IInv, OneRuns
<1>2. jobs \in Seq(Calls) /\ IsInjective(jobs)
      BY DEF IInv, TypeOK
<1>3. \A i \in 1..Len(jobs) : jobs[i] # c /\ \E k \in 1..Len(jobs) : jobs[i] = jobs[k]
      BY DEF IInv, JobsPending, Running
<1> QED BY <1>1, <1>2, <1>3, CallEnds

\* The last microtask of a call.
LEMMA LastJob ==
    ASSUME IInv, Idle, jobs # <<>>, NEW c, c = Head(jobs),
           stage[c] \in {"returned", "thrown", "blocked"},
           NEW how \in {"answered", "failed"},
           \/ Answer(c) /\ how = "answered"
           \/ SendException(c) /\ how = "failed",
           Settle(c, how, Tail(jobs)),
           UNCHANGED <<target, began, misread, question>>
    PROVE  IInv'
<1>1. /\ c \in Calls /\ Tail(jobs) \in Seq(Calls) /\ IsInjective(Tail(jobs))
      /\ \A i \in 1..Len(Tail(jobs)) :
            Tail(jobs)[i] # c /\ \E k \in 1..Len(jobs) : Tail(jobs)[i] = jobs[k]
      BY Dequeued DEF IInv, TypeOK
<1>2. Running = {}
      BY DEF Idle
<1> QED BY <1>1, <1>2, CallEnds

LEMMA JobRuns ==
    ASSUME IInv, RunJob
    PROVE  IInv'
<1> DEFINE c == Head(jobs)
<1>1. Idle /\ jobs # <<>> /\ UNCHANGED <<target, began, misread, question>>
      BY DEF RunJob
<1>2. CASE /\ \/ stage[c] = "blocked" /\ stage' = [stage EXCEPT ![c] = "first"]
              \/ stage[c] = "paused" /\ stage' = [stage EXCEPT ![c] = "later"]
           /\ jobs' = Tail(jobs) /\ UNCHANGED <<inbound, builder, reply>>
      BY <1>1, <1>2, HandlerGoesOn
<1>3. CASE stage[c] = "returned" /\ Answer(c) /\ Settle(c, "answered", Tail(jobs))
      BY <1>1, <1>3, LastJob
<1>4. CASE /\ stage[c] \in {"thrown", "blocked"}
           /\ SendException(c) /\ Settle(c, "failed", Tail(jobs))
      BY <1>1, <1>4, LastJob
<1> QED BY <1>2, <1>3, <1>4 DEF RunJob

-----------------------------------------------------------------------------
(* Callers *)

LEMMA OneGoSent ==
    ASSUME IInv, Send
    PROVE  IInv'
<1> USE DEF IInv
<1>1. /\ Running \cap Idiomatic = {} /\ builder' = [msg |-> None, wrote |-> {}]
      /\ inbound' = None
      /\ UNCHANGED <<stage, target, began, misread, jobs, question, reply>>
      BY DEF Send, MaySend, Message, callVars
<1>2. Running' = Running /\ Over' = Over
      BY <1>1 DEF Running, Over
<1>3. TypeOK' /\ OneRuns' /\ JobsPending' /\ BlockedHaveTargets' /\ StagesFollow'
      BY <1>1, <1>2 DEF TypeOK, OneRuns, JobsPending, BlockedHaveTargets, StagesFollow
<1>4. FirstOwnsInbound' /\ BegunOwnsBuilder' /\ OwnParams' /\ OwnResults'
      BY <1>1, <1>2, ConstantsAssumption
      DEF FirstOwnsInbound, BegunOwnsBuilder, OwnParams, OwnResults, Running
<1>5. SafeMessages'
      BY <1>1, ConstantsAssumption DEF SafeMessages
<1>6. SafeReplies' /\ SafeHandlersAnswer'
      BY <1>1, <1>2 DEF SafeReplies, SafeHandlersAnswer, Safe, Replied
<1> QED BY <1>3, <1>4, <1>5, <1>6

LEMMA QuestionBegun ==
    ASSUME IInv, NEW q \in Questions, CallBuilder(q)
    PROVE  IInv'
<1> USE DEF IInv
<1>1. /\ Running \cap Idiomatic = {} /\ builder' = [msg |-> q, wrote |-> {q}]
      /\ question' = [question EXCEPT ![q] = "filling"]
      /\ UNCHANGED <<inbound, stage, target, began, misread, jobs, reply>>
      BY DEF CallBuilder, MaySend, Message, callVars
<1>2. Running' = Running /\ Over' = Over
      BY <1>1 DEF Running, Over
<1>3. q \notin Idiomatic
      BY ConstantsAssumption
<1>4. TypeOK' /\ OneRuns' /\ JobsPending' /\ BlockedHaveTargets' /\ StagesFollow'
      BY <1>1, <1>2 DEF TypeOK, OneRuns, JobsPending, BlockedHaveTargets, StagesFollow
<1>5. FirstOwnsInbound' /\ BegunOwnsBuilder' /\ OwnParams' /\ OwnResults'
      BY <1>1, <1>2, <1>3 DEF FirstOwnsInbound, BegunOwnsBuilder, OwnParams, OwnResults
<1>6. SafeMessages'
      BY <1>1, <1>3 DEF SafeMessages
<1>7. SafeReplies' /\ SafeHandlersAnswer'
      BY <1>1, <1>2 DEF SafeReplies, SafeHandlersAnswer, Safe, Replied
<1> QED BY <1>4, <1>5, <1>6, <1>7

LEMMA QuestionSent ==
    ASSUME IInv, NEW q \in Questions, CompleteSend(q)
    PROVE  IInv'
<1> USE DEF IInv
<1>1. /\ Running \cap Idiomatic = {} /\ Sends(builder)
      /\ question' = [question EXCEPT ![q] = "sent"]
      /\ UNCHANGED <<inbound, builder, stage, target, began, misread, jobs>>
      BY DEF CompleteSend, MaySend, callVars
<1>2. Running' = Running /\ Over' = Over
      BY <1>1 DEF Running, Over
<1>3. builder.wrote \in SUBSET (Calls \cup Questions)
      BY DEF TypeOK
<1>4. /\ reply' \in [Idiomatic -> (SUBSET (Calls \cup Questions)) \cup {None}]
      /\ \A c \in Idiomatic : Replied(c) => reply'[c] = reply[c]
      /\ \A c \in Idiomatic : c # builder.msg => reply'[c] = reply[c]
      /\ \A c \in Idiomatic : c = builder.msg => reply'[c] # None
      BY <1>1, <1>3, Sent
<1>5. TypeOK' /\ OneRuns' /\ JobsPending' /\ BlockedHaveTargets' /\ StagesFollow'
      BY <1>1, <1>2, <1>4 DEF TypeOK, OneRuns, JobsPending, BlockedHaveTargets, StagesFollow
<1>6. FirstOwnsInbound' /\ BegunOwnsBuilder' /\ OwnParams' /\ OwnResults'
      BY <1>1, <1>2 DEF FirstOwnsInbound, BegunOwnsBuilder, OwnParams, OwnResults
<1>7. SafeMessages'
      BY <1>1, <1>4 DEF SafeMessages, Safe, Replied
<1>8. \A c \in Idiomatic : Safe(c) => reply'[c] = reply[c]
  <2> SUFFICES ASSUME NEW c \in Idiomatic, Safe(c), builder.msg = c PROVE Replied(c)
      BY <1>4 DEF Replied
  <2> QED BY <1>1 DEF SafeMessages
<1>9. SafeReplies' /\ SafeHandlersAnswer'
      BY <1>1, <1>2, <1>8 DEF SafeReplies, SafeHandlersAnswer, Safe, Replied
<1> QED BY <1>5, <1>6, <1>7, <1>9

-----------------------------------------------------------------------------
(* The invariant *)

LEMMA Initially == Init => IInv
<1> SUFFICES ASSUME Init PROVE IInv
    OBVIOUS
<1> USE DEF Init, Message
<1>1. Running = {} /\ Over = {}
      BY DEF Running, Over
<1>2. TypeOK
  <2>1. jobs \in Seq(Calls) /\ DOMAIN jobs = {}
        OBVIOUS
  <2>2. IsInjective(jobs)
        BY <2>1 DEF IsInjective
  <2>3. /\ builder \in [msg : Calls \cup Questions \cup {None}, wrote : SUBSET (Calls \cup Questions)]
        /\ inbound \in Calls \cup {None}
        OBVIOUS
  <2>4. stage \in [Calls -> Stages]
        BY DEF Stages
  <2>5. target \in [Calls -> Calls \cup {None}]
        OBVIOUS
  <2>6. question \in [Questions -> {"unused", "filling", "sent"}]
        OBVIOUS
  <2>7. reply \in [Idiomatic -> (SUBSET (Calls \cup Questions)) \cup {None}]
        OBVIOUS
  <2> HIDE DEF Init
  <2>8. began = {} /\ misread = {}
        BY DEF Init
  <2> QED BY <2>1, <2>2, <2>3, <2>4, <2>5, <2>6, <2>7, <2>8 DEF TypeOK, Stages
<1>3. OneRuns /\ JobsPending /\ BlockedHaveTargets /\ StagesFollow
      BY <1>1, ConstantsAssumption DEF OneRuns, JobsPending, BlockedHaveTargets, StagesFollow
<1>4. FirstOwnsInbound /\ BegunOwnsBuilder /\ OwnParams /\ OwnResults
      BY <1>1, ConstantsAssumption DEF FirstOwnsInbound, BegunOwnsBuilder, OwnParams, OwnResults
<1>5. SafeMessages /\ SafeReplies /\ SafeHandlersAnswer
      BY <1>1, ConstantsAssumption DEF SafeMessages, SafeReplies, SafeHandlersAnswer, Replied
<1> QED BY <1>2, <1>3, <1>4, <1>5 DEF IInv

LEMMA Preserved == IInv /\ [Next]_vars => IInv'
<1> SUFFICES ASSUME IInv, [Next]_vars PROVE IInv'
    OBVIOUS
<1>1. CASE ReceiveOther
      BY <1>1, OtherFrame
<1>2. CASE RunJob
      BY <1>2, JobRuns
<1>3. CASE Send
      BY <1>3, OneGoSent
<1>4. ASSUME NEW c \in Calls, Receive(c) PROVE IInv'
      BY <1>4, CallArrives
<1>5. ASSUME NEW c \in Calls, OpenParams(c) PROVE IInv'
      BY <1>5, ParamsOpened
<1>6. ASSUME NEW c \in Calls, BeginResults(c) PROVE IInv'
      BY <1>6, ResultsBegun
<1>7. ASSUME NEW c \in Calls, Fill(c) PROVE IInv'
      BY <1>7, ResultsFilled
<1>8. ASSUME NEW c \in Calls, Await(c) PROVE IInv'
      BY <1>8, HandlerLeaves DEF Await
<1>9. ASSUME NEW c \in Calls, Awaited(c) PROVE IInv'
      BY <1>9, AwaitSettles
<1>10. ASSUME NEW c \in Calls, Return(c) PROVE IInv'
  <2>1. CASE End(c, "returned")
        BY <1>10, <2>1, HandlerLeaves DEF Return, End
  <2>2. CASE c \in Running \cap Sync /\ Answer(c) /\ Settle(c, "answered", jobs)
        BY <1>10, <2>2, SyncEnds DEF Return
  <2> QED BY <1>10, <2>1, <2>2 DEF Return
<1>11. ASSUME NEW c \in Calls, Throw(c) PROVE IInv'
  <2>1. CASE End(c, "thrown")
        BY <1>11, <2>1, HandlerLeaves DEF Throw, End
  <2>2. CASE c \in Running \cap Sync /\ SendException(c) /\ Settle(c, "failed", jobs)
        BY <1>11, <2>2, SyncEnds DEF Throw
  <2> QED BY <1>11, <2>1, <2>2 DEF Throw
<1>12. ASSUME NEW q \in Questions, CallBuilder(q) PROVE IInv'
      BY <1>12, QuestionBegun
<1>13. ASSUME NEW q \in Questions, CompleteSend(q) PROVE IInv'
      BY <1>13, QuestionSent
<1>14. CASE UNCHANGED vars
      BY <1>14 DEF vars, callVars, IInv, TypeOK, OneRuns, JobsPending, BlockedHaveTargets,
         StagesFollow, FirstOwnsInbound, BegunOwnsBuilder, OwnParams, OwnResults,
         SafeMessages, SafeReplies, SafeHandlersAnswer, Safe, Replied, Over, Running
<1> QED BY <1>1, <1>2, <1>3, <1>4, <1>5, <1>6, <1>7, <1>8, <1>9, <1>10, <1>11, <1>12,
           <1>13, <1>14 DEF Next

LEMMA Inductive == Spec => []IInv
  BY Initially, Preserved, PTL DEF Spec

-----------------------------------------------------------------------------
(* What a handler can rely on *)

\* The shape of the state, and whatever is built in the shared memory, a
\* handler that begins and fills its results after its last await writes in
\* no other message.
THEOREM OwnMessage == Spec => []ScratchInv
<1>1. IInv => ScratchInv
      BY DEF IInv, ScratchInv
<1> QED BY <1>1, Inductive, PTL

\* A handler that reads its parameters before any await gets its own, unless
\* #handleCall has awaited the call it is pipelined on.
THEOREM ReadsItsOwn == Spec => []OwnParams
<1>1. IInv => OwnParams
      BY DEF IInv
<1> QED BY <1>1, Inductive, PTL

\* When the handler is not async, or returns bytes, a call that is over has
\* been answered, and by what its own handler wrote.
THEOREM SafeAnswers == Spec => []SafeHandlersAnswer
<1>1. IInv => SafeHandlersAnswer
      BY DEF IInv
<1> QED BY <1>1, Inductive, PTL
=============================================================================
