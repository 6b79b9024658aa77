--------------------------- MODULE RpcCaps_proofs ---------------------------
(***************************************************************************)
(* Proofs about RpcCaps, for every set of questions and every combination  *)
(* of faults: each reference the host counts is on its way, held, on its   *)
(* way back or known to be lost; and, with one bootstrap question, the     *)
(* table of imports is that of the handles, and no call meets an empty     *)
(* slot.                                                                   *)
(***************************************************************************)
EXTENDS RpcCaps, FiniteSetTheorems, SequenceTheorems, TLAPS

\* What a handle is before its carrier arrived, by the kind of carrier.
HandlesStand ==
    /\ \A b \in Bootstraps :
          /\ b \notin used => handle[b] = "none"
          /\ b \in questions => handle[b] \in {"loose", "dropped"}
    /\ \A q \in Calls \cup HostCalls : handle[q] \notin {"loose", "dropped"}
    /\ \A q \in Calls : q \notin used \/ q \in questions => handle[q] = "none"
    /\ \A p \in HostCalls : p \notin used => handle[p] = "none"
    /\ questions \subseteq used

\* A handle that may be used or finalized names an export, and only a handle
\* of bootstrap() names export 0.
HandlesNameExports ==
    \A h \in Carriers :
        /\ handle[h] \in {"loose", "dropped"} => capOf[h] = 0
        /\ handle[h] \in {"live", "garbage"} => capOf[h] \in CapIds
        /\ capOf[h] = 0 => h \in Bootstraps

\* A capability of the host's call arrives once.
ParamsOnce ==
    /\ \A i \in 1..Len(s2c) : s2c[i].kind = "call" =>
          s2c[i].q \in used /\ handle[s2c[i].q] = "none"
    /\ \A i, k \in 1..Len(s2c) :
          s2c[i].kind = "call" /\ s2c[k].kind = "call" /\ s2c[i].q = s2c[k].q => i = k

\* A call runs once.
CallsOnce ==
    /\ running \subseteq used
    /\ \A i \in 1..Len(c2s) : c2s[i].kind = "call" =>
          c2s[i].q \in used /\ c2s[i].q \notin running
    /\ \A i, k \in 1..Len(c2s) :
          c2s[i].kind = "call" /\ c2s[k].kind = "call" /\ c2s[i].q = c2s[k].q => i = k

\* The carriers that have exported what they ever will.
Spent ==
    {p \in HostCalls : p \in used}
    \cup {q \in Calls : q \in used /\ q \notin running
                        /\ \A i \in 1..Len(c2s) : c2s[i].kind = "call" => c2s[i].q # q}

\* Ids are enough, and those not given out yet are free.
IdsLast ==
    /\ nextCap <= 1 + Cardinality(Spent)
    /\ \A id \in CapIds : id >= nextCap => exports[id] = 0

\* An export other than the bootstrap has one handle at most, now or later.
OneHandle ==
    \A id \in CapIds \ {0} : Cardinality(Coming(id)) + Cardinality(Holders(id)) <= 1

\* Apart from the bootstrap, the guest's tables agree.
ImportsHeld ==
    ~gclosed => \A id \in CapIds \ {0} : id \in imports <=> Holders(id) # {}

\* The inductive invariant.
IInv ==
    /\ TypeOK
    /\ HandlesStand
    /\ HandlesNameExports
    /\ ParamsOnce
    /\ CallsOnce
    /\ IdsLast
    /\ OneHandle
    /\ ImportsHeld
    /\ RefcountsAccounted

\* What the session promises is for one bootstrap question: a second one
\* shares export 0 and its reference.
OneBootstrap == \A a, b \in Bootstraps : a = b

\* While its handle is not gone, the bootstrap stays exported and imported.
BootstrapKept ==
    \A b \in Bootstraps : handle[b] # "gone" =>
        /\ ~gclosed => Releases(0) = {}
        /\ Connected => exports[0] = 1

\* Calls in flight have a live target and are ahead of its Release.
CallsAhead ==
    ~hclosed => \A i \in 1..Len(c2s) : c2s[i].kind = "call" =>
        /\ exports[c2s[i].id] = 1
        /\ \A k \in Releases(c2s[i].id) : i < k

\* What is inductive on top of IInv when there is one bootstrap question.
SingleInv ==
    /\ ImportsMatchHandles
    /\ BootstrapKept
    /\ CallsAhead

-----------------------------------------------------------------------------
(* Constants, frames and queues *)

USE ConstantsAssumption DEF guestVars, hostVars

\* Export 0 and one id for each carrier that exports.
LEMMA Ids ==
    /\ IsFiniteSet(Calls \cup HostCalls) /\ IsFiniteSet(Carriers)
    /\ Cardinality(Calls \cup HostCalls) \in Nat
    /\ CapIds = 0..Cardinality(Calls \cup HostCalls)
    /\ Cardinality(CapIds) = Cardinality(Calls \cup HostCalls) + 1
    /\ None \notin CapIds /\ 0 \in CapIds /\ IsFiniteSet(CapIds)
<1>1. Calls \cup HostCalls \in SUBSET Carriers
  BY DEF Carriers, Questions
<1>2. IsFiniteSet(Calls \cup HostCalls) /\ Cardinality(Calls \cup HostCalls) \in Nat
  BY <1>1, FS_Subset, FS_CardinalityType
<1>3. \A n \in Nat : IsFiniteSet(0..n) /\ Cardinality(0..n) = n + 1
  BY FS_Interval
<1> QED
  BY <1>2, <1>3 DEF CapIds

\* Queues stay well typed.
LEMMA QueuesTyped ==
    ASSUME NEW S, NEW s \in Seq(S)
    PROVE  /\ \A t \in Seq(S) : s \o t \in Seq(S)
           /\ s # <<>> => Head(s) \in S /\ Tail(s) \in Seq(S)
           /\ s \o <<>> = s
           /\ \A m \in S : <<m>> \in Seq(S)
           /\ <<>> \in Seq(S)
  OBVIOUS

\* A frame at the back of a queue.
LEMMA Appended ==
    ASSUME NEW S, NEW s \in Seq(S), NEW m \in S
    PROVE  /\ s \o <<m>> \in Seq(S)
           /\ Len(s \o <<m>>) = Len(s) + 1 /\ Len(s) \in Nat
           /\ (s \o <<m>>)[Len(s) + 1] = m
           /\ \A i \in 1..Len(s) : (s \o <<m>>)[i] = s[i]
           /\ 1..Len(s \o <<m>>) = 1..Len(s) \cup {Len(s) + 1}
  OBVIOUS

\* What is left behind the first frame of a queue.
LEMMA Taken ==
    ASSUME NEW S, NEW s \in Seq(S), s # <<>>
    PROVE  /\ Head(s) = s[1] /\ s[1] \in S /\ Len(s) \in Nat /\ 1 \in 1..Len(s)
           /\ Tail(s) \in Seq(S)
           /\ Len(Tail(s)) = Len(s) - 1
           /\ \A i \in 1..Len(Tail(s)) : Tail(s)[i] = s[i + 1] /\ i + 1 \in 1..Len(s)
           /\ \A i \in 1..Len(s) : i # 1 => i - 1 \in 1..Len(Tail(s)) /\ Tail(s)[i - 1] = s[i]
  OBVIOUS

\* A queue behind a queue.
LEMMA Joined ==
    ASSUME NEW S, NEW s \in Seq(S), NEW t \in Seq(S)
    PROVE  /\ s \o t \in Seq(S)
           /\ Len(s \o t) = Len(s) + Len(t) /\ Len(s) \in Nat /\ Len(t) \in Nat
           /\ \A i \in 1..Len(s) : (s \o t)[i] = s[i]
           /\ \A i \in 1..Len(t) : (s \o t)[Len(s) + i] = t[i]
           /\ \A i \in 1..Len(s \o t) : i \in 1..Len(s) \/ i - Len(s) \in 1..Len(t)
  OBVIOUS

Positions(s, K) == {i \in 1..Len(s) : s[i] \in K}

\* The positions of certain frames can be counted.
LEMMA PositionsCount ==
    ASSUME NEW S, NEW s \in Seq(S), NEW K
    PROVE  IsFiniteSet(Positions(s, K)) /\ Cardinality(Positions(s, K)) \in Nat
<1>1. IsFiniteSet(1..Len(s)) /\ Positions(s, K) \in SUBSET (1..Len(s))
  BY FS_Interval DEF Positions
<1> QED
  BY <1>1, FS_Subset, FS_CardinalityType

\* A frame at the back counts if it is one of them.
LEMMA PositionsAppended ==
    ASSUME NEW S, NEW s \in Seq(S), NEW m \in S, NEW K
    PROVE  Cardinality(Positions(s \o <<m>>, K))
              = Cardinality(Positions(s, K)) + (IF m \in K THEN 1 ELSE 0)
<1>1. IsFiniteSet(Positions(s, K)) /\ Cardinality(Positions(s, K)) \in Nat
  BY PositionsCount
<1>2. Len(s) + 1 \notin Positions(s, K)
  BY Appended DEF Positions
<1>3. Positions(s \o <<m>>, K) = IF m \in K THEN Positions(s, K) \cup {Len(s) + 1} ELSE Positions(s, K)
  BY Appended DEF Positions
<1>4. Cardinality(Positions(s, K) \cup {Len(s) + 1}) = Cardinality(Positions(s, K)) + 1
  BY <1>1, <1>2, FS_AddElement
<1>5. CASE m \in K
  BY <1>1, <1>3, <1>4, <1>5, Zenon
<1>6. CASE m \notin K
  <2>1. Positions(s \o <<m>>, K) = Positions(s, K)
    BY <1>3, <1>6, Zenon
  <2> QED
    BY <1>1, <1>6, <2>1
<1> QED
  BY <1>5, <1>6

\* The first frame no longer counts when it was taken.
LEMMA PositionsTaken ==
    ASSUME NEW S, NEW s \in Seq(S), s # <<>>, NEW K
    PROVE  Cardinality(Positions(s, K))
              = Cardinality(Positions(Tail(s), K)) + (IF Head(s) \in K THEN 1 ELSE 0)
<1> DEFINE W == Positions(s, K)
           T == Positions(Tail(s), K)
           f == [i \in T |-> i + 1]
<1>1. IsFiniteSet(T) /\ IsFiniteSet(W) /\ Cardinality(W) \in Nat
  BY PositionsCount, Taken
<1>2. \A i \in T : i \in Int /\ i + 1 \in W \ {1}
  BY Taken DEF Positions
<1>3. \A j \in W \ {1} : j - 1 \in T /\ j \in Int
  BY Taken DEF Positions
<1>4. f \in Bijection(T, W \ {1})
  <2>1. f \in [T -> W \ {1}]
    BY <1>2
  <2>2. \A a, b \in T : f[a] = f[b] => a = b
    BY <1>2
  <2>3. \A j \in W \ {1} : \E a \in T : f[a] = j
    BY <1>3
  <2> QED
    BY <2>1, <2>2, <2>3 DEF Bijection, Injection, Surjection, IsInjective
<1>5. Cardinality(W \ {1}) = Cardinality(T)
  BY <1>1, <1>4, FS_Bijection DEF ExistsBijection
<1>6. 1 \in W <=> Head(s) \in K
  BY Taken DEF Positions
<1>7. Cardinality(W \ {1}) = IF 1 \in W THEN Cardinality(W) - 1 ELSE Cardinality(W)
  BY <1>1, FS_RemoveElement
<1> HIDE DEF W, T
<1> QED
  BY <1>1, <1>5, <1>6, <1>7 DEF W, T

\* What the frames to the host are about.
LEMMA HostFrameFields ==
    ASSUME NEW m \in HostFrames
    PROVE  /\ m.kind = "bootstrap" => m.q \in Bootstraps /\ m = BootstrapFrame(m.q)
           /\ m.kind = "call" => m.q \in Calls /\ m.id \in CapIds /\ m = CallFrame(m.q, m.id)
           /\ m.kind = "release" => m.id \in CapIds /\ m = Release(m.id)
  BY DEF HostFrames, BootstrapFrame, CallFrame, FinishFrame, Release, Fin

\* What the frames to the guest are about.
LEMMA GuestFrameFields ==
    ASSUME NEW m \in GuestFrames
    PROVE  /\ m.kind = "return" =>
                 \/ m.q \in Bootstraps /\ m.id = 0
                 \/ m.q \in Calls /\ m.id \in (CapIds \ {0}) \cup {None}
           /\ m.kind = "exception" => m.q \in Calls
           /\ m.kind = "call" => m.q \in HostCalls /\ m.id \in CapIds \ {0}
  BY DEF GuestFrames, Return, Exception, ParamCall, Fin

\* The frames each side sends.
LEMMA FramesTyped ==
    /\ \A q \in Bootstraps : BootstrapFrame(q) \in HostFrames /\ Return(q, 0) \in GuestFrames
    /\ \A q \in Calls, id \in CapIds : CallFrame(q, id) \in HostFrames
    /\ \A q \in Questions : FinishFrame(q) \in HostFrames
    /\ \A id \in CapIds : Release(id) \in HostFrames
    /\ \A q \in Calls : Exception(q) \in GuestFrames /\ Return(q, None) \in GuestFrames
    /\ \A q \in Calls, id \in CapIds \ {0} : Return(q, id) \in GuestFrames
    /\ \A p \in HostCalls, id \in CapIds \ {0} : ParamCall(p, id) \in GuestFrames
    /\ Fin \in HostFrames /\ Fin \in GuestFrames
  BY DEF HostFrames, GuestFrames

\* What close() sends are Releases and the end.
LEMMA ClosingFrames ==
    ASSUME imports \subseteq CapIds, NEW ids \in SetToSeqs(imports)
    PROVE  LET frames == [i \in 1..Len(ids) |-> Release(ids[i])] \o <<Fin>>
           IN  /\ frames \in Seq(HostFrames)
               /\ \A i \in 1..Len(frames) : frames[i].kind \in {"release", "fin"}
<1>1. Cardinality(imports) \in Nat
  BY Ids, FS_Subset, FS_CardinalityType
<1>2. ids \in [1..Cardinality(imports) -> imports]
  BY DEF SetToSeqs
<1>3. ids \in Seq(CapIds)
  BY <1>1, <1>2
<1> DEFINE releases == [i \in 1..Len(ids) |-> Release(ids[i])]
<1>4. /\ releases \in Seq(HostFrames) /\ Len(releases) = Len(ids) /\ Len(ids) \in Nat
      /\ \A i \in 1..Len(releases) : releases[i].kind = "release"
  BY <1>3, FramesTyped DEF Release
<1>5. Fin \in HostFrames /\ Fin.kind = "fin"
  BY FramesTyped DEF Fin
<1> HIDE DEF releases
<1>6. /\ releases \o <<Fin>> \in Seq(HostFrames)
      /\ \A i \in 1..Len(releases \o <<Fin>>) : (releases \o <<Fin>>)[i].kind \in {"release", "fin"}
  BY <1>4, <1>5, Appended
<1> QED
  BY <1>6 DEF releases

-----------------------------------------------------------------------------
(* Type correctness *)

\* What is sent and what is left of a queue are frames.
LEMMA SentTyped ==
    ASSUME TypeOK
    PROVE  /\ \A ms \in Seq(HostFrames) : ToHost(ms) => c2s' \in Seq(HostFrames)
           /\ \A ms \in Seq(GuestFrames) : ToGuest(ms) => s2c' \in Seq(GuestFrames)
           /\ \A m \in HostFrames : ToHost(<<m>>) => c2s' \in Seq(HostFrames)
           /\ \A m \in GuestFrames : ToGuest(<<m>>) => s2c' \in Seq(GuestFrames)
           /\ ToHost(<<>>) => c2s' = c2s
           /\ \A kind : GuestGets(kind) =>
                 s2c' \in Seq(GuestFrames) /\ Head(s2c) \in GuestFrames /\ Head(s2c).kind = kind
           /\ \A kind : HostGets(kind) =>
                 c2s' \in Seq(HostFrames) /\ Head(c2s) \in HostFrames /\ Head(c2s).kind = kind
<1>1. c2s \in Seq(HostFrames) /\ s2c \in Seq(GuestFrames)
  BY DEF TypeOK
<1>2. /\ \A ms \in Seq(HostFrames) : ToHost(ms) => c2s' \in Seq(HostFrames)
      /\ \A ms \in Seq(GuestFrames) : ToGuest(ms) => s2c' \in Seq(GuestFrames)
  <2>1. ASSUME NEW ms \in Seq(HostFrames), ToHost(ms) PROVE c2s' \in Seq(HostFrames)
    BY <1>1, <2>1, QueuesTyped DEF ToHost
  <2>2. ASSUME NEW ms \in Seq(GuestFrames), ToGuest(ms) PROVE s2c' \in Seq(GuestFrames)
    BY <1>1, <2>2, QueuesTyped DEF ToGuest
  <2> QED
    BY <2>1, <2>2
<1>3. /\ \A m \in HostFrames : <<m>> \in Seq(HostFrames)
      /\ \A m \in GuestFrames : <<m>> \in Seq(GuestFrames)
  BY <1>1, QueuesTyped
<1>4. ToHost(<<>>) => c2s' = c2s
  BY <1>1, QueuesTyped DEF ToHost
<1>5. \A kind : GuestGets(kind) =>
         s2c' \in Seq(GuestFrames) /\ Head(s2c) \in GuestFrames /\ Head(s2c).kind = kind
  BY <1>1, QueuesTyped DEF GuestGets
<1>6. \A kind : HostGets(kind) =>
         c2s' \in Seq(HostFrames) /\ Head(c2s) \in HostFrames /\ Head(c2s).kind = kind
  BY <1>1, QueuesTyped DEF HostGets
<1> QED
  BY <1>2, <1>3, <1>4, <1>5, <1>6

\* Some of the carriers can be counted.
LEMMA CarriersCount ==
    ASSUME NEW S \in SUBSET (Calls \cup HostCalls)
    PROVE  /\ IsFiniteSet(S) /\ Cardinality(S) \in Nat
           /\ Cardinality(S) <= Cardinality(Calls \cup HostCalls)
           /\ \A T \in SUBSET S : Cardinality(T) \in Nat /\ Cardinality(T) <= Cardinality(S)
           /\ \A q \in (Calls \cup HostCalls) \ S :
                 /\ Cardinality(S \cup {q}) = Cardinality(S) + 1
                 /\ Cardinality(S) + 1 <= Cardinality(Calls \cup HostCalls)
<1>1. /\ IsFiniteSet(S) /\ Cardinality(S) \in Nat
      /\ Cardinality(S) <= Cardinality(Calls \cup HostCalls)
  BY Ids, FS_Subset, FS_CardinalityType
<1>2. \A T \in SUBSET S : Cardinality(T) \in Nat /\ Cardinality(T) <= Cardinality(S)
  BY <1>1, FS_Subset, FS_CardinalityType
<1>3. ASSUME NEW q \in (Calls \cup HostCalls) \ S
      PROVE  /\ Cardinality(S \cup {q}) = Cardinality(S) + 1
             /\ Cardinality(S \cup {q}) <= Cardinality(Calls \cup HostCalls)
  <2>1. S \cup {q} \in SUBSET (Calls \cup HostCalls)
    OBVIOUS
  <2> QED
    BY <1>1, <2>1, Ids, FS_Subset, FS_AddElement
<1> QED
  BY <1>1, <1>2, <1>3

\* There is an id for whoever has not exported yet.
LEMMA Room ==
    ASSUME IInv, NEW q, q \in running \/ q \in HostCalls \ used
    PROVE  /\ q \in Calls \cup HostCalls /\ q \notin Spent
           /\ nextCap \in CapIds \ {0} /\ nextCap \in Nat
           /\ nextCap + 1 \in 1..Cardinality(CapIds)
<1>1. q \in Calls \cup HostCalls /\ q \notin Spent
  BY DEF IInv, TypeOK, Spent, Questions
<1>0. Spent \in SUBSET (Calls \cup HostCalls)
  BY DEF Spent
<1>2. nextCap \in 1..Cardinality(CapIds) /\ nextCap <= 1 + Cardinality(Spent)
  BY DEF IInv, TypeOK, IdsLast
<1>3. Cardinality(Spent) + 1 <= Cardinality(Calls \cup HostCalls)
  BY <1>0, <1>1, CarriersCount
<1> DEFINE n == Cardinality(Calls \cup HostCalls)
<1>4. /\ Cardinality(Spent) \in Nat /\ n \in Nat /\ CapIds = 0..n
      /\ Cardinality(CapIds) = n + 1
  BY <1>0, CarriersCount, Ids
<1> HIDE DEF n
<1>5. nextCap \in Nat /\ nextCap # 0 /\ nextCap <= n
  BY <1>2, <1>3, <1>4 DEF n
<1> QED
  BY <1>1, <1>4, <1>5

\* A new handle is typed.
LEMMA TrackTyped ==
    ASSUME TypeOK, NEW h \in Carriers, NEW id \in CapIds, Track(h, id)
    PROVE  /\ handle' \in [Carriers -> {"none", "loose", "dropped", "live", "garbage", "gone"}]
           /\ capOf' \in [Carriers -> CapIds \cup {None}]
           /\ imports' \subseteq CapIds
  BY DEF TypeOK, Track

\* Every step keeps the state typed.
LEMMA TypeStep == IInv /\ [Next]_vars => TypeOK'
<1> SUFFICES ASSUME IInv, [Next]_vars PROVE TypeOK'
  OBVIOUS
<1>0. TypeOK
  BY DEF IInv
<1>1. ASSUME NEW q \in Questions, Bootstrap(q) PROVE TypeOK'
  <2>1. q \in Carriers /\ 0 \in CapIds /\ q \in Bootstraps
    BY <1>1, Ids DEF Bootstrap, Carriers
  <2>2. c2s' \in Seq(HostFrames)
    BY <1>0, <1>1, <2>1, SentTyped, FramesTyped DEF Bootstrap
  <2> QED
    BY <1>0, <1>1, <2>1, <2>2 DEF Bootstrap, TypeOK
<1>2. ASSUME NEW q \in Questions, SignalAborts(q) PROVE TypeOK'
  <2>1. c2s' \in Seq(HostFrames)
    BY <1>0, <1>2, SentTyped, FramesTyped DEF SignalAborts
  <2> QED
    BY <1>0, <1>2, <2>1 DEF SignalAborts, TypeOK
<1>3. ASSUME NEW q \in Calls, NEW h \in Carriers, Call(q, h) PROVE TypeOK'
  <2>1. q \in Questions /\ q \in Carriers /\ capOf[h] \in CapIds
    BY <1>3, Ids DEF Call, Reachable, IInv, HandlesNameExports, Questions, Carriers
  <2>2. c2s' \in Seq(HostFrames)
    BY <1>0, <1>3, <2>1, SentTyped, FramesTyped DEF Call
  <2> QED
    BY <1>0, <1>3, <2>1, <2>2 DEF Call, TypeOK
<1>4. ASSUME NEW h \in Carriers, Drop(h) PROVE TypeOK'
  BY <1>0, <1>4 DEF Drop, TypeOK
<1>5. ASSUME NEW h \in Carriers, Finalize(h) PROVE TypeOK'
  <2>1. capOf[h] \in CapIds
    BY <1>5 DEF Finalize, IInv, HandlesNameExports
  <2>2. c2s' \in Seq(HostFrames) /\ imports' \subseteq CapIds
    BY <1>0, <1>5, <2>1, SentTyped, FramesTyped DEF Finalize, SendRelease, TypeOK
  <2> QED
    BY <1>0, <1>5, <2>2 DEF Finalize, TypeOK
<1>6. CASE HandleReturn
  <2> DEFINE m == Head(s2c)
  <2>1. m \in GuestFrames /\ m.kind = "return" /\ s2c' \in Seq(GuestFrames)
    BY <1>0, <1>6, SentTyped DEF HandleReturn
  <2>2. m.q \in Questions /\ m.q \in Carriers /\ m.id \in CapIds \cup {None}
    BY <2>1, GuestFrameFields, Ids DEF Questions, Carriers
  <2> HIDE DEF m
  <2>3. CASE m.q \notin questions
    BY <1>0, <1>6, <2>1, <2>2, <2>3 DEF HandleReturn, TypeOK, m
  <2>4. CASE m.q \in questions
    <3>1. c2s' \in Seq(HostFrames)
      BY <1>0, <1>6, <2>2, <2>4, SentTyped, FramesTyped DEF HandleReturn, m
    <3>2. /\ handle' \in [Carriers -> {"none", "loose", "dropped", "live", "garbage", "gone"}]
          /\ capOf' \in [Carriers -> CapIds \cup {None}]
          /\ imports' \subseteq CapIds
      BY <1>0, <1>6, <2>2, <2>4, TrackTyped DEF HandleReturn, m, TypeOK
    <3> QED
      BY <1>0, <1>6, <2>1, <2>4, <3>1, <3>2 DEF HandleReturn, TypeOK, m
  <2> QED
    BY <2>3, <2>4
<1>7. CASE HandleException
  <2>1. Head(s2c) \in GuestFrames /\ Head(s2c).kind = "exception" /\ s2c' \in Seq(GuestFrames)
    BY <1>0, <1>7, SentTyped DEF HandleException
  <2>2. Head(s2c).q \in Questions
    BY <2>1, GuestFrameFields DEF Questions
  <2>3. c2s' \in Seq(HostFrames)
    BY <1>0, <1>7, <2>2, SentTyped, FramesTyped, QueuesTyped DEF HandleException, TypeOK
  <2> QED
    BY <1>0, <1>7, <2>1, <2>3 DEF HandleException, TypeOK
<1>8. CASE HandleParams
  <2> DEFINE m == Head(s2c)
  <2>1. m \in GuestFrames /\ m.kind = "call" /\ s2c' \in Seq(GuestFrames)
    BY <1>0, <1>8, SentTyped DEF HandleParams
  <2>2. m.q \in Carriers /\ m.id \in CapIds
    BY <2>1, GuestFrameFields DEF Carriers
  <2> HIDE DEF m
  <2>3. /\ handle' \in [Carriers -> {"none", "loose", "dropped", "live", "garbage", "gone"}]
        /\ capOf' \in [Carriers -> CapIds \cup {None}]
        /\ imports' \subseteq CapIds
    BY <1>0, <1>8, <2>2, TrackTyped DEF HandleParams, m, TypeOK
  <2> QED
    BY <1>0, <1>8, <2>1, <2>2, <2>3 DEF HandleParams, TypeOK, m
<1>9. ASSUME CloseGuest PROVE c2s' \in Seq(HostFrames) /\ gclosed' \in BOOLEAN
  <2>1. PICK ids \in SetToSeqs(imports) : ToHost([i \in 1..Len(ids) |-> Release(ids[i])] \o <<Fin>>)
    BY <1>9 DEF CloseGuest
  <2> QED
    BY <1>0, <1>9, <2>1, ClosingFrames, SentTyped DEF CloseGuest, TypeOK
<1>10. CASE GuestCloses
  BY <1>0, <1>9, <1>10 DEF GuestCloses, CloseGuest, TypeOK
<1>11. CASE GuestLosesPeer
  <2>1. s2c' \in Seq(GuestFrames)
    BY <1>0, <1>11, SentTyped DEF GuestLosesPeer
  <2> QED
    BY <1>0, <1>9, <1>11, <2>1 DEF GuestLosesPeer, CloseGuest, TypeOK
<1>12. ASSUME NEW q \in Calls, HandlerReturns(q) PROVE TypeOK'
  <2>1. /\ nextCap \in CapIds \ {0} /\ nextCap \in Nat
        /\ nextCap + 1 \in 1..Cardinality(CapIds)
    BY <1>12, Room DEF HandlerReturns
  <2>2. s2c' \in Seq(GuestFrames)
    BY <1>0, <1>12, <2>1, SentTyped, FramesTyped DEF HandlerReturns, TypeOK
  <2>3. exports' \in [CapIds -> {0, 1}] /\ nextCap' \in 1..Cardinality(CapIds) /\ lost' \subseteq CapIds
    BY <1>0, <1>12, <2>1 DEF HandlerReturns, Export, TypeOK
  <2> QED
    BY <1>0, <1>12, <2>2, <2>3 DEF HandlerReturns, TypeOK
<1>13. ASSUME NEW p \in HostCalls, HostSendsCap(p) PROVE TypeOK'
  <2>1. /\ nextCap \in CapIds \ {0} /\ nextCap \in Nat
        /\ nextCap + 1 \in 1..Cardinality(CapIds)
    BY <1>13, Room DEF HostSendsCap
  <2>2. s2c' \in Seq(GuestFrames)
    BY <1>0, <1>13, <2>1, SentTyped, FramesTyped DEF HostSendsCap
  <2>3. exports' \in [CapIds -> {0, 1}] /\ nextCap' \in 1..Cardinality(CapIds)
    BY <1>0, <1>13, <2>1 DEF HostSendsCap, Export, TypeOK
  <2> QED
    BY <1>0, <1>13, <2>2, <2>3 DEF HostSendsCap, TypeOK, Carriers
<1>14. CASE HandleBootstrap
  <2>1. Head(c2s).q \in Bootstraps /\ c2s' \in Seq(HostFrames)
    BY <1>0, <1>14, SentTyped, HostFrameFields DEF HandleBootstrap
  <2>2. s2c' \in Seq(GuestFrames)
    BY <1>0, <1>14, <2>1, SentTyped, FramesTyped DEF HandleBootstrap
  <2> QED
    BY <1>0, <1>14, <2>1, <2>2, Ids DEF HandleBootstrap, TypeOK
<1>15. CASE HandleCall
  <2>1. Head(c2s).q \in Calls /\ c2s' \in Seq(HostFrames)
    BY <1>0, <1>15, SentTyped, HostFrameFields DEF HandleCall
  <2>2. s2c' \in Seq(GuestFrames)
    BY <1>0, <1>15, <2>1, SentTyped, FramesTyped DEF HandleCall, TypeOK
  <2> QED
    BY <1>0, <1>15, <2>1, <2>2 DEF HandleCall, TypeOK
<1>16. CASE HandleFinish
  <2>1. c2s' \in Seq(HostFrames)
    BY <1>0, <1>16, SentTyped DEF HandleFinish
  <2> QED
    BY <1>0, <1>16, <2>1 DEF HandleFinish, TypeOK
<1>17. CASE HandleRelease
  <2>1. c2s' \in Seq(HostFrames) /\ Head(c2s).id \in CapIds
    BY <1>0, <1>17, SentTyped, HostFrameFields DEF HandleRelease
  <2> QED
    BY <1>0, <1>17, <2>1 DEF HandleRelease, TypeOK
<1>18. ASSUME CloseHost
       PROVE  s2c' \in Seq(GuestFrames) /\ exports' \in [CapIds -> {0, 1}] /\ hclosed' \in BOOLEAN
  BY <1>0, <1>18, SentTyped, FramesTyped DEF CloseHost
<1>19. CASE HostCloses
  BY <1>0, <1>18, <1>19 DEF HostCloses, CloseHost, TypeOK
<1>20. CASE HostLosesPeer
  <2>1. c2s' \in Seq(HostFrames)
    BY <1>0, <1>20, SentTyped DEF HostLosesPeer
  <2> QED
    BY <1>0, <1>18, <1>20, <2>1 DEF HostLosesPeer, CloseHost, TypeOK
<1>21. CASE UNCHANGED vars
  BY <1>0, <1>21 DEF vars, TypeOK
<1> QED
  BY <1>1, <1>2, <1>3, <1>4, <1>5, <1>6, <1>7, <1>8, <1>10, <1>11, <1>12, <1>13, <1>14, <1>15,
     <1>16, <1>17, <1>19, <1>20, <1>21 DEF Next

-----------------------------------------------------------------------------
(* Handles and the frames that bring them *)

\* What becomes of a Return: it is unread, it brings nothing, or a handle.
LEMMA Returned ==
    ASSUME TypeOK, HandleReturn, NEW m, m = Head(s2c)
    PROVE  /\ m \in GuestFrames /\ m.kind = "return" /\ s2c # <<>> /\ s2c' = Tail(s2c)
           /\ \/ m.q \in Bootstraps /\ m.id = 0
              \/ m.q \in Calls /\ m.id \in (CapIds \ {0}) \cup {None}
           /\ ~gclosed
           /\ UNCHANGED <<used, gclosed, hostVars>>
           /\ \/ /\ m.q \notin questions /\ lost' = lost \cup ({m.id} \ {None})
                 /\ UNCHANGED <<questions, handle, capOf, imports, c2s>>
              \/ /\ m.q \in questions /\ m.id = None
                 /\ questions' = questions \ {m.q} /\ ToHost(<<FinishFrame(m.q)>>)
                 /\ UNCHANGED <<lost, handle, capOf, imports>>
              \/ /\ m.q \in questions /\ m.id # None
                 /\ questions' = questions \ {m.q} /\ ToHost(<<FinishFrame(m.q)>>)
                 /\ Track(m.q, m.id) /\ UNCHANGED lost
<1>1. m \in GuestFrames /\ m.kind = "return"
  BY SentTyped DEF HandleReturn
<1> QED
  BY <1>1, GuestFrameFields DEF HandleReturn, GuestGets

\* What becomes of a capability in the params of the host's call.
LEMMA ParamsCome ==
    ASSUME TypeOK, HandleParams, NEW m, m = Head(s2c)
    PROVE  /\ m \in GuestFrames /\ m.kind = "call" /\ s2c # <<>> /\ s2c' = Tail(s2c)
           /\ m.q \in HostCalls /\ m.id \in CapIds \ {0}
           /\ ~gclosed
           /\ UNCHANGED <<questions, used, gclosed, c2s, hostVars>>
           /\ \/ Track(m.q, m.id) /\ UNCHANGED lost
              \/ lost' = lost \cup {m.id} /\ UNCHANGED <<handle, capOf, imports>>
<1>1. m \in GuestFrames /\ m.kind = "call"
  BY SentTyped DEF HandleParams
<1> QED
  BY <1>1, GuestFrameFields DEF HandleParams, GuestGets

\* No carrier brings its handle twice.
LEMMA HandlesStandStep == IInv /\ [Next]_vars => HandlesStand'
<1> SUFFICES ASSUME IInv, [Next]_vars PROVE HandlesStand'
  OBVIOUS
<1>0. TypeOK /\ HandlesStand
  BY DEF IInv
<1>1. ASSUME NEW q \in Questions, Bootstrap(q) PROVE HandlesStand'
  BY <1>0, <1>1 DEF Bootstrap, TypeOK, HandlesStand, Questions, Carriers
<1>2. ASSUME NEW q \in Questions, SignalAborts(q) PROVE HandlesStand'
  BY <1>0, <1>2 DEF SignalAborts, HandlesStand
<1>3. ASSUME NEW q \in Calls, NEW h \in Carriers, Call(q, h) PROVE HandlesStand'
  BY <1>0, <1>3 DEF Call, TypeOK, HandlesStand, Questions, Carriers
<1>4. ASSUME NEW h \in Carriers, Drop(h) PROVE HandlesStand'
  BY <1>0, <1>4 DEF Drop, Reachable, TypeOK, HandlesStand, Questions, Carriers
<1>5. ASSUME NEW h \in Carriers, Finalize(h) PROVE HandlesStand'
  BY <1>0, <1>5 DEF Finalize, TypeOK, HandlesStand, Questions, Carriers
<1>6. CASE HandleReturn
  <2> DEFINE m == Head(s2c)
  <2>1. m.q \in Bootstraps \/ m.q \in Calls
    BY <1>0, <1>6, Returned
  <2>2. \/ UNCHANGED <<handle, questions, used>>
        \/ UNCHANGED <<handle, used>> /\ questions' = questions \ {m.q}
        \/ /\ UNCHANGED used /\ questions' = questions \ {m.q} /\ m.q \in questions
           /\ handle' = [handle EXCEPT ![m.q] = IF @ = "dropped" THEN "garbage" ELSE "live"]
    BY <1>0, <1>6, Returned DEF Track
  <2> HIDE DEF m
  <2> QED
    BY <1>0, <2>1, <2>2 DEF TypeOK, HandlesStand, Questions, Carriers
<1>7. CASE HandleException
  BY <1>0, <1>7 DEF HandleException, HandlesStand
<1>8. CASE HandleParams
  <2>1. Head(s2c).q \in used
    BY <1>0, <1>8, ParamsCome, Taken DEF TypeOK, IInv, ParamsOnce
  <2> QED
    BY <1>0, <1>8, <2>1, ParamsCome DEF Track, TypeOK, HandlesStand, Questions, Carriers
<1>9. CASE GuestCloses \/ GuestLosesPeer
  BY <1>0, <1>9 DEF GuestCloses, GuestLosesPeer, CloseGuest, HandlesStand
<1>10. ASSUME NEW p \in HostCalls, HostSendsCap(p) PROVE HandlesStand'
  BY <1>0, <1>10 DEF HostSendsCap, TypeOK, HandlesStand, Questions, Carriers
<1>11. CASE UNCHANGED guestVars
  BY <1>0, <1>11 DEF HandlesStand
<1> QED
  BY <1>1, <1>2, <1>3, <1>4, <1>5, <1>6, <1>7, <1>8, <1>9, <1>10, <1>11
     DEF Next, vars, HandlerReturns, HandleBootstrap, HandleCall, HandleFinish, HandleRelease,
         HostCloses, HostLosesPeer, CloseHost

\* A handle that counts has the id of an export.
LEMMA HandlesNameExportsStep == IInv /\ [Next]_vars => HandlesNameExports'
<1> SUFFICES ASSUME IInv, [Next]_vars PROVE HandlesNameExports'
  OBVIOUS
<1>0. TypeOK /\ HandlesNameExports /\ HandlesStand
  BY DEF IInv
<1>1. ASSUME NEW q \in Questions, Bootstrap(q) PROVE HandlesNameExports'
  BY <1>0, <1>1 DEF Bootstrap, TypeOK, HandlesNameExports
<1>4. ASSUME NEW h \in Carriers, Drop(h) PROVE HandlesNameExports'
  BY <1>0, <1>4 DEF Drop, Reachable, TypeOK, HandlesNameExports
<1>5. ASSUME NEW h \in Carriers, Finalize(h) PROVE HandlesNameExports'
  BY <1>0, <1>5 DEF Finalize, TypeOK, HandlesNameExports
<1>6. CASE HandleReturn
  <2> DEFINE m == Head(s2c)
  <2>1. /\ m.id # None => m.id \in CapIds
        /\ m.q \in Bootstraps \/ m.id # 0
    BY <1>0, <1>6, Returned, Ids
  <2>2. \/ UNCHANGED <<handle, capOf>>
        \/ /\ m.id # None
           /\ handle' = [handle EXCEPT ![m.q] = IF @ = "dropped" THEN "garbage" ELSE "live"]
           /\ capOf' = [capOf EXCEPT ![m.q] = m.id]
    BY <1>0, <1>6, Returned DEF Track
  <2> HIDE DEF m
  <2> QED
    BY <1>0, <2>1, <2>2 DEF TypeOK, HandlesNameExports
<1>8. CASE HandleParams
  BY <1>0, <1>8, ParamsCome DEF Track, TypeOK, HandlesNameExports
<1>9. CASE UNCHANGED <<handle, capOf>>
  BY <1>0, <1>9 DEF HandlesNameExports
<1> QED
  BY <1>1, <1>4, <1>5, <1>6, <1>8, <1>9
     DEF Next, vars, SignalAborts, Call, HandleException, GuestCloses, GuestLosesPeer, CloseGuest,
         HostSendsCap, HandlerReturns, HandleBootstrap, HandleCall, HandleFinish, HandleRelease,
         HostCloses, HostLosesPeer, CloseHost

\* Taking a frame leaves those of the host's calls alone.
LEMMA ParamsTaken ==
    ASSUME TypeOK, ParamsOnce, s2c # <<>>, s2c' = Tail(s2c), used \subseteq used',
           \A p \in HostCalls :
              handle[p] = "none" => \/ handle'[p] = "none"
                                    \/ Head(s2c).kind = "call" /\ Head(s2c).q = p
    PROVE  ParamsOnce'
<1>1. /\ Head(s2c) = s2c[1] /\ 1 \in 1..Len(s2c)
      /\ \A i \in 1..Len(s2c') :
            s2c'[i] = s2c[i + 1] /\ i + 1 \in 1..Len(s2c) /\ i + 1 # 1 /\ i \in Int
            /\ s2c[i + 1] \in GuestFrames
  <2>1. s2c \in Seq(GuestFrames)
    BY DEF TypeOK
  <2> QED
    BY <2>1, Taken
<1>2. \A i, k \in 1..Len(s2c') : i + 1 = k + 1 => i = k
  BY <1>1
<1>3. \A i \in 1..Len(s2c') : s2c'[i].kind = "call" =>
         s2c'[i].q \in used' /\ handle'[s2c'[i].q] = "none"
  BY <1>1, GuestFrameFields DEF ParamsOnce
<1>4. \A i, k \in 1..Len(s2c') :
         s2c'[i].kind = "call" /\ s2c'[k].kind = "call" /\ s2c'[i].q = s2c'[k].q => i = k
  BY <1>1, <1>2 DEF ParamsOnce
<1> QED
  BY <1>3, <1>4 DEF ParamsOnce

\* So does sending another frame.
LEMMA ParamsSent ==
    ASSUME TypeOK, ParamsOnce, NEW m \in GuestFrames, m.kind # "call", ToGuest(<<m>>),
           UNCHANGED <<used, handle>>
    PROVE  ParamsOnce'
<1>1. s2c \in Seq(GuestFrames)
  BY DEF TypeOK
<1>2. CASE s2c' = s2c \o <<m>>
  <2>1. /\ 1..Len(s2c') = 1..Len(s2c) \cup {Len(s2c) + 1}
        /\ s2c'[Len(s2c) + 1] = m
        /\ \A i \in 1..Len(s2c) : s2c'[i] = s2c[i]
    BY <1>1, <1>2, Appended
  <2>2. \A i \in 1..Len(s2c') : s2c'[i].kind = "call" =>
           i \in 1..Len(s2c) /\ s2c'[i] = s2c[i]
    BY <2>1
  <2> QED
    BY <2>2 DEF ParamsOnce
<1>3. CASE s2c' = s2c
  BY <1>3 DEF ParamsOnce
<1> QED
  BY <1>2, <1>3 DEF ToGuest

\* A capability of the host's call comes once, to a handle that is not there yet.
LEMMA ParamsOnceStep == IInv /\ [Next]_vars => ParamsOnce'
<1> SUFFICES ASSUME IInv, [Next]_vars PROVE ParamsOnce'
  OBVIOUS
<1>0. TypeOK /\ ParamsOnce /\ HandlesStand
  BY DEF IInv
<1>a. \A i \in 1..Len(s2c) : s2c[i].kind = "call" => s2c[i].q \in HostCalls
  BY <1>0, GuestFrameFields DEF TypeOK
<1>1. ASSUME NEW q \in Questions, Bootstrap(q) PROVE ParamsOnce'
  BY <1>0, <1>a, <1>1 DEF Bootstrap, TypeOK, ParamsOnce, Questions
<1>3. ASSUME NEW q \in Calls, NEW h \in Carriers, Call(q, h) PROVE ParamsOnce'
  BY <1>0, <1>3 DEF Call, ParamsOnce
<1>4. ASSUME NEW h \in Carriers, Drop(h) PROVE ParamsOnce'
  BY <1>0, <1>a, <1>4 DEF Drop, Reachable, TypeOK, ParamsOnce, Carriers
<1>5. ASSUME NEW h \in Carriers, Finalize(h) PROVE ParamsOnce'
  BY <1>0, <1>a, <1>5 DEF Finalize, TypeOK, ParamsOnce, Carriers
<1>6. CASE HandleReturn
  <2> DEFINE m == Head(s2c)
  <2>1. /\ m.q \in Questions /\ s2c # <<>> /\ s2c' = Tail(s2c) /\ UNCHANGED used
        /\ \/ UNCHANGED handle
           \/ handle' = [handle EXCEPT ![m.q] = IF @ = "dropped" THEN "garbage" ELSE "live"]
    BY <1>0, <1>6, Returned DEF Track, Questions
  <2>2. \A p \in HostCalls : p # m.q
    BY <2>1
  <2>3. \A p \in HostCalls : handle'[p] = handle[p]
    BY <1>0, <2>1, <2>2 DEF TypeOK, Carriers
  <2> QED
    BY <1>0, <2>1, <2>3, ParamsTaken
<1>7. CASE HandleException
  BY <1>0, <1>7, ParamsTaken DEF HandleException, GuestGets
<1>8. CASE HandleParams
  <2> DEFINE m == Head(s2c)
  <2>1. /\ m.kind = "call" /\ s2c # <<>> /\ s2c' = Tail(s2c) /\ UNCHANGED used
        /\ \/ UNCHANGED handle
           \/ handle' = [handle EXCEPT ![m.q] = IF @ = "dropped" THEN "garbage" ELSE "live"]
    BY <1>0, <1>8, ParamsCome DEF Track
  <2>2. \A p \in HostCalls : p # m.q => handle'[p] = handle[p]
    BY <1>0, <2>1 DEF TypeOK, Carriers
  <2> QED
    BY <1>0, <2>1, <2>2, ParamsTaken
<1>9. CASE GuestLosesPeer
  BY <1>0, <1>9, ParamsTaken DEF GuestLosesPeer, CloseGuest, GuestGets
<1>10. ASSUME NEW q \in Calls, HandlerReturns(q) PROVE ParamsOnce'
  <2>1. nextCap \in CapIds \ {0}
    BY <1>10, Room DEF HandlerReturns
  <2>2. UNCHANGED <<used, handle>>
    BY <1>10 DEF HandlerReturns
  <2>3. \/ UNCHANGED s2c
        \/ \E m \in GuestFrames : m.kind # "call" /\ ToGuest(<<m>>)
    <3>1. /\ Return(q, nextCap) \in GuestFrames /\ Return(q, None) \in GuestFrames
          /\ Exception(q) \in GuestFrames
      BY <2>1, FramesTyped
    <3>2. /\ Return(q, nextCap).kind # "call" /\ Return(q, None).kind # "call"
          /\ Exception(q).kind # "call"
      BY DEF Return, Exception
    <3>3. \/ ToGuest(<<Return(q, nextCap)>>) \/ UNCHANGED s2c
          \/ ToGuest(<<Return(q, None)>>) \/ ToGuest(<<Exception(q)>>)
      BY <1>10 DEF HandlerReturns
    <3> QED
      BY <3>1, <3>2, <3>3
  <2> QED
    BY <1>0, <2>2, <2>3, ParamsSent DEF ParamsOnce
<1>11. ASSUME NEW p \in HostCalls, HostSendsCap(p) PROVE ParamsOnce'
  <2> DEFINE m == ParamCall(p, nextCap)
  <2>1. nextCap \in CapIds \ {0}
    BY <1>11, Room DEF HostSendsCap
  <2>2. m \in GuestFrames /\ m.kind = "call" /\ m.q = p
    BY <2>1, FramesTyped DEF ParamCall
  <2>3. /\ used' = used \cup {p} /\ UNCHANGED handle /\ ToGuest(<<m>>)
        /\ p \notin used /\ handle[p] = "none"
    BY <1>0, <1>11 DEF HostSendsCap, HandlesStand
  <2> HIDE DEF m
  <2>4. CASE s2c' = s2c
    BY <1>0, <2>3, <2>4 DEF ParamsOnce
  <2>5. CASE s2c' = s2c \o <<m>>
    <3>1. /\ Len(s2c) \in Nat /\ 1..Len(s2c') = 1..Len(s2c) \cup {Len(s2c) + 1}
          /\ s2c'[Len(s2c) + 1] = m
          /\ \A i \in 1..Len(s2c) : s2c'[i] = s2c[i]
      BY <1>0, <2>2, <2>5, Appended DEF TypeOK
    <3>2. \A i \in 1..Len(s2c) : s2c[i].kind = "call" => s2c[i].q # p
      BY <1>0, <2>3 DEF ParamsOnce
    <3>3. \A i \in 1..Len(s2c') : i = Len(s2c) + 1 \/ (i \in 1..Len(s2c) /\ s2c'[i] = s2c[i])
      BY <3>1
    <3>4. \A i \in 1..Len(s2c') : s2c'[i].kind = "call" =>
             s2c'[i].q \in used' /\ handle'[s2c'[i].q] = "none"
      BY <1>0, <2>2, <2>3, <3>1, <3>3 DEF ParamsOnce
    <3>5. \A i, k \in 1..Len(s2c') :
             s2c'[i].kind = "call" /\ s2c'[k].kind = "call" /\ s2c'[i].q = s2c'[k].q => i = k
      BY <1>0, <2>2, <3>1, <3>2, <3>3 DEF ParamsOnce
    <3> QED
      BY <3>4, <3>5 DEF ParamsOnce
  <2> QED
    BY <2>3, <2>4, <2>5 DEF ToGuest
<1>12. CASE HandleBootstrap
  <2>1. Head(c2s).q \in Bootstraps
    BY <1>0, <1>12, SentTyped, HostFrameFields DEF HandleBootstrap
  <2>2. Return(Head(c2s).q, 0) \in GuestFrames /\ Return(Head(c2s).q, 0).kind # "call"
    BY <2>1, FramesTyped DEF Return
  <2> QED
    BY <1>0, <1>12, <2>2, ParamsSent DEF HandleBootstrap
<1>13. CASE HandleCall
  <2>1. Head(c2s).q \in Calls
    BY <1>0, <1>13, SentTyped, HostFrameFields DEF HandleCall
  <2>2. Exception(Head(c2s).q) \in GuestFrames /\ Exception(Head(c2s).q).kind # "call"
    BY <2>1, FramesTyped DEF Exception
  <2>3. ToGuest(<<Exception(Head(c2s).q)>>) \/ UNCHANGED s2c
    BY <1>13 DEF HandleCall
  <2> QED
    BY <1>0, <1>13, <2>2, <2>3, ParamsSent DEF HandleCall, ParamsOnce
<1>14. ASSUME CloseHost PROVE ParamsOnce'
  <2>1. Fin \in GuestFrames /\ Fin.kind # "call"
    BY FramesTyped DEF Fin
  <2> QED
    BY <1>0, <1>14, <2>1, ParamsSent DEF CloseHost
<1>15. CASE UNCHANGED <<s2c, used, handle>>
  BY <1>0, <1>15 DEF ParamsOnce
<1> QED
  BY <1>1, <1>3, <1>4, <1>5, <1>6, <1>7, <1>8, <1>9, <1>10, <1>11, <1>12, <1>13, <1>14, <1>15
     DEF Next, vars, SignalAborts, GuestCloses, CloseGuest, HandleFinish, HandleRelease,
         HostCloses, HostLosesPeer

-----------------------------------------------------------------------------
(* Calls, and the ids they export under *)

\* Taking a frame leaves the calls behind it alone.
LEMMA CallsTaken ==
    ASSUME TypeOK, CallsOnce, c2s # <<>>, c2s' = Tail(c2s),
           used \subseteq used', running' \subseteq used',
           \A q \in running' : q \in running \/ (Head(c2s).kind = "call" /\ Head(c2s).q = q)
    PROVE  CallsOnce'
<1>1. /\ Head(c2s) = c2s[1] /\ 1 \in 1..Len(c2s)
      /\ \A i \in 1..Len(c2s') :
            c2s'[i] = c2s[i + 1] /\ i + 1 \in 1..Len(c2s) /\ i + 1 # 1 /\ i \in Int
  <2>1. c2s \in Seq(HostFrames)
    BY DEF TypeOK
  <2> QED
    BY <2>1, Taken
<1>2. \A i, k \in 1..Len(c2s') : i + 1 = k + 1 => i = k
  BY <1>1
<1>3. \A i \in 1..Len(c2s') : c2s'[i].kind = "call" =>
         c2s'[i].q \in used' /\ c2s'[i].q \notin running'
  BY <1>1 DEF CallsOnce
<1>4. \A i, k \in 1..Len(c2s') :
         c2s'[i].kind = "call" /\ c2s'[k].kind = "call" /\ c2s'[i].q = c2s'[k].q => i = k
  BY <1>1, <1>2 DEF CallsOnce
<1> QED
  BY <1>3, <1>4 DEF CallsOnce

\* So does sending anything else.
LEMMA CallsSent ==
    ASSUME TypeOK, CallsOnce, NEW ms \in Seq(HostFrames), ToHost(ms),
           \A i \in 1..Len(ms) : ms[i].kind # "call",
           used \subseteq used', UNCHANGED running
    PROVE  CallsOnce'
<1>1. c2s \in Seq(HostFrames)
  BY DEF TypeOK
<1>2. CASE c2s' = c2s \o ms
  <2>1. /\ \A i \in 1..Len(c2s) : c2s'[i] = c2s[i]
        /\ \A i \in 1..Len(ms) : c2s'[Len(c2s) + i] = ms[i]
        /\ \A i \in 1..Len(c2s') : i \in 1..Len(c2s) \/ i - Len(c2s) \in 1..Len(ms)
        /\ Len(c2s) \in Nat /\ Len(c2s') \in Nat
    BY <1>1, <1>2, Joined
  <2>2. \A i \in 1..Len(c2s') : i \in Int /\ i = Len(c2s) + (i - Len(c2s))
    BY <2>1
  <2>3. ASSUME NEW i \in 1..Len(c2s'), c2s'[i].kind = "call"
        PROVE  i \in 1..Len(c2s) /\ c2s'[i] = c2s[i]
    <3>1. CASE i \in 1..Len(c2s)
      BY <2>1, <3>1
    <3>2. CASE i - Len(c2s) \in 1..Len(ms)
      <4>1. c2s'[Len(c2s) + (i - Len(c2s))] = ms[i - Len(c2s)]
        BY <2>1, <3>2
      <4>2. c2s'[i] = ms[i - Len(c2s)]
        BY <2>2, <4>1
      <4> QED
        BY <2>3, <3>2, <4>2
    <3> QED
      BY <2>1, <3>1, <3>2
  <2> QED
    BY <2>3 DEF CallsOnce
<1>3. CASE c2s' = c2s
  BY <1>3 DEF CallsOnce
<1> QED
  BY <1>2, <1>3 DEF ToHost

\* A single frame that is not a call.
LEMMA CallsSentOne ==
    ASSUME TypeOK, CallsOnce, NEW m \in HostFrames, ToHost(<<m>>), m.kind # "call",
           used \subseteq used', UNCHANGED running
    PROVE  CallsOnce'
<1>1. /\ <<m>> \in Seq(HostFrames)
      /\ \A i \in 1..Len(<<m>>) : <<m>>[i].kind # "call"
  OBVIOUS
<1> QED
  BY <1>1, CallsSent

\* What the frames of the guest other than calls are.
LEMMA NotCalls ==
    /\ \A q \in Bootstraps : BootstrapFrame(q) \in HostFrames /\ BootstrapFrame(q).kind = "bootstrap"
    /\ \A q \in Questions : FinishFrame(q) \in HostFrames /\ FinishFrame(q).kind = "finish"
    /\ \A id \in CapIds : Release(id) \in HostFrames /\ Release(id).kind = "release" /\ Release(id).id = id
    /\ Fin \in HostFrames /\ Fin.kind = "fin"
  BY FramesTyped DEF BootstrapFrame, FinishFrame, Release, Fin

\* The call's frame at the back of the queue, if the session can send.
LEMMA CallSent ==
    ASSUME TypeOK, NEW q \in Calls, NEW h \in Carriers, capOf[h] \in CapIds, Call(q, h)
    PROVE  \/ ~Connected /\ c2s' = c2s
           \/ /\ Connected
              /\ Len(c2s) \in Nat /\ Len(c2s') = Len(c2s) + 1
              /\ \A i \in 1..Len(c2s) : c2s'[i] = c2s[i]
              /\ c2s'[Len(c2s) + 1] = CallFrame(q, capOf[h])
              /\ \A i \in 1..Len(c2s') : i = Len(c2s) + 1 \/ (i \in 1..Len(c2s) /\ c2s'[i] = c2s[i])
<1> DEFINE m == CallFrame(q, capOf[h])
<1>1. m \in HostFrames /\ c2s \in Seq(HostFrames)
  BY FramesTyped DEF TypeOK
<1>2. ToHost(<<m>>)
  BY DEF Call
<1> HIDE DEF m
<1>3. CASE Connected
  <2>1. c2s' = c2s \o <<m>>
    BY <1>2, <1>3 DEF ToHost
  <2>2. /\ Len(c2s) \in Nat /\ Len(c2s') = Len(c2s) + 1
        /\ \A i \in 1..Len(c2s) : c2s'[i] = c2s[i]
        /\ c2s'[Len(c2s) + 1] = m
        /\ 1..Len(c2s') = 1..Len(c2s) \cup {Len(c2s) + 1}
    BY <1>1, <2>1, Appended
  <2> QED
    BY <1>3, <2>2 DEF m
<1>4. CASE ~Connected
  BY <1>2, <1>4 DEF ToHost
<1> QED
  BY <1>3, <1>4

\* A call runs once, and only after it came.
LEMMA CallsOnceStep == IInv /\ [Next]_vars => CallsOnce'
<1> SUFFICES ASSUME IInv, [Next]_vars PROVE CallsOnce'
  OBVIOUS
<1>0. TypeOK /\ CallsOnce
  BY DEF IInv
<1>1. ASSUME NEW q \in Questions, Bootstrap(q) PROVE CallsOnce'
  BY <1>0, <1>1, NotCalls, CallsSentOne DEF Bootstrap
<1>2. ASSUME NEW q \in Questions, SignalAborts(q) PROVE CallsOnce'
  BY <1>0, <1>2, NotCalls, CallsSentOne DEF SignalAborts
<1>3. ASSUME NEW q \in Calls, NEW h \in Carriers, Call(q, h) PROVE CallsOnce'
  <2>1. capOf[h] \in CapIds
    BY <1>3, Ids DEF Call, Reachable, IInv, HandlesNameExports
  <2>2. q \notin used /\ used' = used \cup {q} /\ UNCHANGED running
    BY <1>3 DEF Call
  <2>3. CASE c2s' = c2s
    BY <1>0, <2>2, <2>3 DEF CallsOnce
  <2>4. CASE Connected
    <3>1. /\ Len(c2s) \in Nat
          /\ \A i \in 1..Len(c2s') : i = Len(c2s) + 1 \/ (i \in 1..Len(c2s) /\ c2s'[i] = c2s[i])
          /\ c2s'[Len(c2s) + 1] = CallFrame(q, capOf[h])
      BY <1>0, <1>3, <2>1, <2>4, CallSent
    <3>2. CallFrame(q, capOf[h]).q = q
      BY DEF CallFrame
    <3>3. q \notin running
      BY <1>0, <2>2 DEF CallsOnce
    <3>4. \A i \in 1..Len(c2s) : c2s[i].kind = "call" => c2s[i].q # q
      BY <1>0, <2>2 DEF CallsOnce
    <3>5. \A i \in 1..Len(c2s') : c2s'[i].kind = "call" =>
             c2s'[i].q \in used' /\ c2s'[i].q \notin running'
      BY <1>0, <2>2, <3>1, <3>2, <3>3 DEF CallsOnce
    <3>6. \A i, k \in 1..Len(c2s') :
             c2s'[i].kind = "call" /\ c2s'[k].kind = "call" /\ c2s'[i].q = c2s'[k].q => i = k
      BY <1>0, <3>1, <3>2, <3>4 DEF CallsOnce
    <3> QED
      BY <1>0, <2>2, <3>5, <3>6 DEF CallsOnce
  <2> QED
    BY <1>0, <1>3, <2>1, <2>3, <2>4, CallSent
<1>5. ASSUME NEW h \in Carriers, Finalize(h) PROVE CallsOnce'
  <2>1. capOf[h] \in CapIds
    BY <1>5 DEF Finalize, IInv, HandlesNameExports
  <2>2. UNCHANGED c2s \/ ToHost(<<Release(capOf[h])>>)
    BY <1>5 DEF Finalize, SendRelease
  <2> QED
    BY <1>0, <1>5, <2>1, <2>2, NotCalls, CallsSentOne DEF Finalize, CallsOnce
<1>6. CASE HandleReturn
  <2> DEFINE m == Head(s2c)
  <2>1. m.q \in Questions /\ (UNCHANGED c2s \/ ToHost(<<FinishFrame(m.q)>>)) /\ UNCHANGED <<used, running>>
    BY <1>0, <1>6, Returned DEF Questions
  <2> HIDE DEF m
  <2> QED
    BY <1>0, <2>1, NotCalls, CallsSentOne DEF CallsOnce
<1>7. CASE HandleException
  <2> DEFINE q == Head(s2c).q
  <2>1. ToHost(<<>>) \/ (q \in questions /\ ToHost(<<FinishFrame(q)>>))
    BY <1>7 DEF HandleException
  <2>2. UNCHANGED <<used, running>>
    BY <1>7 DEF HandleException
  <2> HIDE DEF q
  <2>3. q \in questions => q \in Questions
    BY <1>0 DEF TypeOK
  <2>4. ToHost(<<>>) => c2s' = c2s
    BY <1>0, SentTyped
  <2> QED
    BY <1>0, <2>1, <2>2, <2>3, <2>4, NotCalls, CallsSentOne DEF CallsOnce
<1>8. CASE GuestCloses \/ GuestLosesPeer
  <2>1. CloseGuest
    BY <1>8 DEF GuestCloses, GuestLosesPeer
  <2>2. PICK ids \in SetToSeqs(imports) : ToHost([i \in 1..Len(ids) |-> Release(ids[i])] \o <<Fin>>)
    BY <2>1 DEF CloseGuest
  <2> DEFINE ms == [i \in 1..Len(ids) |-> Release(ids[i])] \o <<Fin>>
  <2>3. ms \in Seq(HostFrames) /\ \A i \in 1..Len(ms) : ms[i].kind \in {"release", "fin"}
    BY <1>0, ClosingFrames DEF TypeOK
  <2>4. ToHost(ms)
    BY <2>2
  <2> HIDE DEF ms
  <2> QED
    BY <1>0, <2>1, <2>3, <2>4, CallsSent DEF CloseGuest
<1>10. ASSUME NEW q \in Calls, HandlerReturns(q) PROVE CallsOnce'
  BY <1>0, <1>10 DEF HandlerReturns, CallsOnce
<1>11. ASSUME NEW p \in HostCalls, HostSendsCap(p) PROVE CallsOnce'
  BY <1>0, <1>11 DEF HostSendsCap, CallsOnce
<1>12. CASE HandleBootstrap \/ HandleFinish \/ HandleRelease
  BY <1>0, <1>12, CallsTaken DEF HandleBootstrap, HandleFinish, HandleRelease, HostGets, CallsOnce
<1>13. CASE HandleCall
  <2> DEFINE m == Head(c2s)
  <2>1. /\ m.kind = "call" /\ c2s # <<>> /\ c2s' = Tail(c2s) /\ UNCHANGED used
        /\ running' = running \cup {m.q} \/ running' = running
    BY <1>13 DEF HandleCall, HostGets
  <2>2. m.q \in used
    BY <1>0, <2>1, Taken DEF TypeOK, CallsOnce
  <2>3. running \subseteq used
    BY <1>0 DEF CallsOnce
  <2> HIDE DEF m
  <2>4. running' \subseteq used' /\ \A q \in running' : q \in running \/ (m.kind = "call" /\ m.q = q)
    BY <2>1, <2>2, <2>3
  <2> QED
    BY <1>0, <2>1, <2>4, CallsTaken DEF m
<1>14. CASE HostLosesPeer
  BY <1>0, <1>14, CallsTaken DEF HostLosesPeer, CloseHost, HostGets, CallsOnce
<1>15. CASE UNCHANGED <<c2s, used, running>>
  BY <1>0, <1>15 DEF CallsOnce
<1> QED
  BY <1>1, <1>2, <1>3, <1>5, <1>6, <1>7, <1>8, <1>10, <1>11, <1>12, <1>13, <1>14, <1>15
     DEF Next, vars, Drop, HandleParams, HostCloses, CloseHost

\* Who is done stays done.
LEMMA SpentGrows ==
    ASSUME Spent \subseteq Spent', nextCap' = nextCap, IdsLast, TypeOK,
           \A id \in CapIds : id >= nextCap => exports'[id] = 0
    PROVE  IdsLast'
<1>1. Spent' \in SUBSET (Calls \cup HostCalls)
  BY DEF Spent
<1>2. Cardinality(Spent) <= Cardinality(Spent)' /\ Cardinality(Spent) \in Nat /\ Cardinality(Spent)' \in Nat
  BY <1>1, CarriersCount
<1>3. nextCap \in Nat /\ nextCap <= 1 + Cardinality(Spent)
  BY Ids DEF TypeOK, IdsLast
<1>4. nextCap' <= 1 + Cardinality(Spent)'
  BY <1>2, <1>3
<1> QED
  BY <1>4 DEF IdsLast

\* A carrier exports once.
LEMMA SpentExports ==
    ASSUME IInv, NEW q, q \in running \/ q \in HostCalls \ used,
           Export, Spent' = Spent \cup {q}
    PROVE  IdsLast'
<1>1. Spent \in SUBSET (Calls \cup HostCalls)
  BY DEF Spent
<1>2. Cardinality(Spent)' = Cardinality(Spent) + 1 /\ Cardinality(Spent) \in Nat
  BY <1>1, Room, CarriersCount
<1>3. nextCap \in Nat /\ nextCap <= 1 + Cardinality(Spent) /\ nextCap' = nextCap + 1
  BY Room DEF IInv, IdsLast, Export
<1>4. nextCap' <= 1 + Cardinality(Spent)'
  BY <1>2, <1>3
<1>5. \A id \in CapIds : id >= nextCap' => exports'[id] = 0
  <2>1. \A id \in CapIds : id >= nextCap + 1 => id # nextCap /\ id >= nextCap
    BY <1>3, Ids
  <2> QED
    BY <1>3, <2>1 DEF IInv, IdsLast, Export, TypeOK
<1> QED
  BY <1>4, <1>5 DEF IdsLast

\* There are ids for all carriers, and the next one is free.
LEMMA IdsLastStep == IInv /\ [Next]_vars => IdsLast'
<1> SUFFICES ASSUME IInv, [Next]_vars PROVE IdsLast'
  OBVIOUS
<1>0. TypeOK /\ CallsOnce /\ IdsLast
  BY DEF IInv
<1>a. ASSUME NEW q \in Calls, q \in Spent
      PROVE  q \in used /\ q \notin running /\ \A i \in 1..Len(c2s) : c2s[i].kind = "call" => c2s[i].q # q
  BY <1>a DEF Spent, IInv, TypeOK, Questions
<1>b. ASSUME NEW ms \in Seq(HostFrames), ToHost(ms), \A i \in 1..Len(ms) : ms[i].kind # "call",
             used \subseteq used', UNCHANGED <<running, nextCap, exports>>
      PROVE  IdsLast'
  <2>1. \A i \in 1..Len(c2s') : c2s'[i].kind = "call" => \E k \in 1..Len(c2s) : c2s'[i] = c2s[k]
    <3>1. c2s \in Seq(HostFrames)
      BY <1>0 DEF TypeOK
    <3>2. CASE c2s' = c2s \o ms
      <4>1. /\ \A i \in 1..Len(c2s) : c2s'[i] = c2s[i]
            /\ \A i \in 1..Len(ms) : c2s'[Len(c2s) + i] = ms[i]
            /\ \A i \in 1..Len(c2s') : i \in 1..Len(c2s) \/ i - Len(c2s) \in 1..Len(ms)
            /\ Len(c2s) \in Nat /\ Len(c2s') \in Nat
        BY <1>b, <3>1, <3>2, Joined
      <4>2. \A i \in 1..Len(c2s') : i \in Int /\ i = Len(c2s) + (i - Len(c2s))
        BY <4>1
      <4>3. \A i \in 1..Len(c2s') : i - Len(c2s) \in 1..Len(ms) => c2s'[i] = ms[i - Len(c2s)]
        BY <4>1, <4>2
      <4> QED
        BY <1>b, <4>1, <4>3
    <3> QED
      BY <1>b, <3>2 DEF ToHost
  <2>2. Spent \subseteq Spent'
    BY <1>b, <2>1 DEF Spent
  <2> QED
    BY <1>0, <1>b, <2>2, SpentGrows DEF IdsLast
<1>c. ASSUME NEW m \in HostFrames, ToHost(<<m>>), m.kind # "call",
             used \subseteq used', UNCHANGED <<running, nextCap, exports>>
      PROVE  IdsLast'
  <2>1. <<m>> \in Seq(HostFrames) /\ \A i \in 1..Len(<<m>>) : <<m>>[i].kind # "call"
    BY <1>c
  <2> QED
    BY <1>b, <1>c, <2>1
<1>d. ASSUME c2s # <<>>, c2s' = Tail(c2s)
      PROVE  \A i \in 1..Len(c2s') : \E k \in 1..Len(c2s) : k # 1 /\ c2s'[i] = c2s[k]
  <2>1. c2s \in Seq(HostFrames)
    BY <1>0 DEF TypeOK
  <2> QED
    BY <1>d, <2>1, Taken
<1>e. ASSUME UNCHANGED <<c2s, used, running, nextCap, exports>> PROVE IdsLast'
  BY <1>0, <1>e DEF IdsLast, Spent
<1>1. ASSUME NEW q \in Questions, Bootstrap(q) PROVE IdsLast'
  BY <1>c, <1>1, NotCalls DEF Bootstrap
<1>2. ASSUME NEW q \in Questions, SignalAborts(q) PROVE IdsLast'
  BY <1>c, <1>2, NotCalls DEF SignalAborts
<1>3. ASSUME NEW q \in Calls, NEW h \in Carriers, Call(q, h) PROVE IdsLast'
  <2>1. capOf[h] \in CapIds
    BY <1>3, Ids DEF Call, Reachable, IInv, HandlesNameExports
  <2>2. q \notin used /\ used' = used \cup {q} /\ UNCHANGED <<running, nextCap, exports>>
    BY <1>3 DEF Call
  <2>3. q \notin Spent
    BY <1>a, <2>2
  <2>4. \A i \in 1..Len(c2s') : c2s'[i].q = q \/ \E k \in 1..Len(c2s) : c2s'[i] = c2s[k]
    <3>1. CallFrame(q, capOf[h]).q = q
      BY DEF CallFrame
    <3>2. CASE c2s' = c2s
      BY <3>2
    <3>3. CASE Connected
      <4>1. /\ \A i \in 1..Len(c2s') : i = Len(c2s) + 1 \/ (i \in 1..Len(c2s) /\ c2s'[i] = c2s[i])
            /\ c2s'[Len(c2s) + 1] = CallFrame(q, capOf[h])
        BY <1>0, <1>3, <2>1, <3>3, CallSent
      <4> QED
        BY <3>1, <4>1
    <3> QED
      BY <1>0, <1>3, <2>1, <3>2, <3>3, CallSent
  <2>5. Spent \subseteq Spent'
    BY <2>2, <2>3, <2>4 DEF Spent
  <2> QED
    BY <1>0, <2>2, <2>5, SpentGrows DEF IdsLast
<1>5. ASSUME NEW h \in Carriers, Finalize(h) PROVE IdsLast'
  <2>1. capOf[h] \in CapIds
    BY <1>5 DEF Finalize, IInv, HandlesNameExports
  <2>2. UNCHANGED c2s \/ ToHost(<<Release(capOf[h])>>)
    BY <1>5 DEF Finalize, SendRelease
  <2> QED
    BY <1>5, <1>c, <1>e, <2>1, <2>2, NotCalls DEF Finalize
<1>6. CASE HandleReturn
  <2> DEFINE m == Head(s2c)
  <2>1. /\ m.q \in Questions /\ (UNCHANGED c2s \/ ToHost(<<FinishFrame(m.q)>>))
        /\ UNCHANGED <<used, running, nextCap, exports>>
    BY <1>0, <1>6, Returned DEF Questions
  <2> HIDE DEF m
  <2> QED
    BY <1>c, <1>e, <2>1, NotCalls
<1>7. CASE HandleException
  <2> DEFINE q == Head(s2c).q
  <2>1. ToHost(<<>>) \/ (q \in questions /\ ToHost(<<FinishFrame(q)>>))
    BY <1>7 DEF HandleException
  <2>2. UNCHANGED <<used, running, nextCap, exports>>
    BY <1>7 DEF HandleException
  <2> HIDE DEF q
  <2>3. q \in questions => q \in Questions
    BY <1>0 DEF TypeOK
  <2>4. ToHost(<<>>) => c2s' = c2s
    BY <1>0, SentTyped
  <2> QED
    BY <1>c, <1>e, <2>1, <2>2, <2>3, <2>4, NotCalls
<1>8. CASE GuestCloses \/ GuestLosesPeer
  <2>1. CloseGuest
    BY <1>8 DEF GuestCloses, GuestLosesPeer
  <2>2. PICK ids \in SetToSeqs(imports) : ToHost([i \in 1..Len(ids) |-> Release(ids[i])] \o <<Fin>>)
    BY <2>1 DEF CloseGuest
  <2> DEFINE ms == [i \in 1..Len(ids) |-> Release(ids[i])] \o <<Fin>>
  <2>3. ms \in Seq(HostFrames) /\ \A i \in 1..Len(ms) : ms[i].kind \in {"release", "fin"}
    BY <1>0, ClosingFrames DEF TypeOK
  <2>4. ToHost(ms)
    BY <2>2
  <2> HIDE DEF ms
  <2> QED
    BY <1>b, <2>1, <2>3, <2>4 DEF CloseGuest
<1>10. ASSUME NEW q \in Calls, HandlerReturns(q) PROVE IdsLast'
  <2>1. /\ q \in running /\ running' = running \ {q} /\ UNCHANGED <<c2s, used>>
        /\ Export \/ UNCHANGED <<exports, nextCap>>
    BY <1>10 DEF HandlerReturns
  <2>2. q \in used /\ \A i \in 1..Len(c2s) : c2s[i].kind = "call" => c2s[i].q # q
    BY <1>0, <2>1 DEF CallsOnce
  <2>3. Spent' = Spent \cup {q}
    BY <2>1, <2>2 DEF Spent
  <2> QED
    BY <1>0, <2>1, <2>3, SpentExports, SpentGrows DEF IdsLast
<1>11. ASSUME NEW p \in HostCalls, HostSendsCap(p) PROVE IdsLast'
  <2>1. Spent' = Spent \cup {p}
    BY <1>11 DEF HostSendsCap, Spent, Questions
  <2> QED
    BY <1>11, <2>1, SpentExports DEF HostSendsCap
<1>12. CASE HandleBootstrap
  <2>1. Spent \subseteq Spent'
    BY <1>d, <1>12 DEF HandleBootstrap, HostGets, Spent
  <2>2. \A id \in CapIds : id >= nextCap => id # 0
    BY <1>0, Ids DEF TypeOK
  <2> QED
    BY <1>0, <1>12, <2>1, <2>2, SpentGrows DEF HandleBootstrap, IdsLast, TypeOK
<1>13. CASE HandleFinish
  <2>1. Spent \subseteq Spent'
    BY <1>d, <1>13 DEF HandleFinish, HostGets, Spent
  <2> QED
    BY <1>0, <1>13, <2>1, SpentGrows DEF HandleFinish, IdsLast
<1>14. CASE HandleRelease
  <2>u. UNCHANGED <<used, running>> /\ HostGets("release")
    BY <1>14 DEF HandleRelease
  <2>1. Spent \subseteq Spent'
    BY <1>d, <2>u DEF HostGets, Spent
  <2> QED
    BY <1>0, <1>14, <2>1, SpentGrows DEF HandleRelease, IdsLast, TypeOK
<1>15. CASE HandleCall
  <2> DEFINE m == Head(c2s)
  <2>1. /\ m.kind = "call" /\ c2s # <<>> /\ c2s' = Tail(c2s) /\ UNCHANGED <<used, nextCap, exports>>
        /\ running' = running \cup {m.q} \/ running' = running
    BY <1>15 DEF HandleCall, HostGets
  <2>2. \E i \in 1..Len(c2s) : c2s[i] = m
    BY <1>0, <2>1, Taken DEF TypeOK
  <2> HIDE DEF m
  <2>3. m.q \in Calls => m.q \notin Spent
    BY <1>a, <2>1, <2>2
  <2>4. Spent \subseteq Spent'
    BY <1>d, <2>1, <2>3 DEF Spent
  <2> QED
    BY <1>0, <2>1, <2>4, SpentGrows DEF IdsLast
<1>16. CASE HostCloses
  <2>1. Spent = Spent' /\ UNCHANGED nextCap /\ exports' = [id \in CapIds |-> 0]
    BY <1>16 DEF HostCloses, CloseHost, Spent
  <2> QED
    BY <1>0, <2>1, SpentGrows
<1>17. CASE HostLosesPeer
  <2>1. Spent \subseteq Spent' /\ UNCHANGED nextCap /\ exports' = [id \in CapIds |-> 0]
    BY <1>d, <1>17 DEF HostLosesPeer, CloseHost, HostGets, Spent
  <2> QED
    BY <1>0, <2>1, SpentGrows
<1>18. CASE UNCHANGED <<c2s, used, running, nextCap, exports>>
  BY <1>18, <1>e
<1> QED
  BY <1>1, <1>2, <1>3, <1>5, <1>6, <1>7, <1>8, <1>10, <1>11, <1>12, <1>13, <1>14, <1>15, <1>16,
     <1>17, <1>18
     DEF Next, vars, Drop, HandleParams

-----------------------------------------------------------------------------
(* Counting references *)

Bringing(id)  == {m \in GuestFrames : m.kind \in {"return", "call"} /\ m.id = id}
Releasing(id) == {m \in HostFrames : m.kind = "release" /\ m.id = id}

\* The three places of a reference, as positions and as sets that can be counted.
LEMMA Places ==
    ASSUME TypeOK, NEW id
    PROVE  /\ Coming(id) = Positions(s2c, Bringing(id)) /\ Cardinality(Coming(id)) \in Nat
           /\ Releases(id) = Positions(c2s, Releasing(id)) /\ Cardinality(Releases(id)) \in Nat
           /\ IsFiniteSet(Holders(id)) /\ Cardinality(Holders(id)) \in Nat
<1>1. s2c \in Seq(GuestFrames) /\ c2s \in Seq(HostFrames)
  BY DEF TypeOK
<1>2. \A i \in 1..Len(s2c) : s2c[i] \in GuestFrames
  BY <1>1
<1>3. \A i \in 1..Len(c2s) : c2s[i] \in HostFrames
  BY <1>1
<1>4. Coming(id) = Positions(s2c, Bringing(id))
  BY <1>2 DEF Coming, Positions, Bringing
<1>5. Releases(id) = Positions(c2s, Releasing(id))
  BY <1>3 DEF Releases, Positions, Releasing
<1>6. Holders(id) \in SUBSET Carriers
  BY DEF Holders
<1>7. IsFiniteSet(Holders(id)) /\ Cardinality(Holders(id)) \in Nat
  BY <1>6, Ids, FS_Subset, FS_CardinalityType
<1> QED
  BY <1>1, <1>4, <1>5, <1>7, PositionsCount

\* The same of the next state.
LEMMA PlacesNext ==
    ASSUME TypeOK', NEW id
    PROVE  /\ Coming(id)' = Positions(s2c', Bringing(id))
           /\ Releases(id)' = Positions(c2s', Releasing(id))
<1>1. s2c' \in Seq(GuestFrames) /\ c2s' \in Seq(HostFrames)
  BY DEF TypeOK
<1>2. \A i \in 1..Len(s2c') : s2c'[i] \in GuestFrames
  BY <1>1
<1>3. \A i \in 1..Len(c2s') : c2s'[i] \in HostFrames
  BY <1>1
<1>4. Coming(id)' = Positions(s2c', Bringing(id))
  BY <1>2 DEF Coming, Positions, Bringing
<1>5. Releases(id)' = Positions(c2s', Releasing(id))
  BY <1>3 DEF Releases, Positions, Releasing
<1> QED
  BY <1>4, <1>5

\* A frame to the guest that brings a capability adds one to those that come.
LEMMA ComingSent ==
    ASSUME TypeOK, TypeOK', NEW m \in GuestFrames, s2c' = s2c \o <<m>>, NEW id
    PROVE  Cardinality(Coming(id))'
              = Cardinality(Coming(id)) + (IF m \in Bringing(id) THEN 1 ELSE 0)
<1>1. s2c \in Seq(GuestFrames)
  BY DEF TypeOK
<1> QED
  BY <1>1, Places, PlacesNext, PositionsAppended

\* Taking a frame takes away what it brings.
LEMMA ComingTaken ==
    ASSUME TypeOK, TypeOK', s2c # <<>>, s2c' = Tail(s2c), NEW id
    PROVE  Cardinality(Coming(id))
              = Cardinality(Coming(id))' + (IF Head(s2c) \in Bringing(id) THEN 1 ELSE 0)
<1>1. s2c \in Seq(GuestFrames)
  BY DEF TypeOK
<1>2. Cardinality(Positions(s2c, Bringing(id)))
         = Cardinality(Positions(Tail(s2c), Bringing(id)))
           + (IF Head(s2c) \in Bringing(id) THEN 1 ELSE 0)
  BY <1>1, PositionsTaken
<1>3. Coming(id) = Positions(s2c, Bringing(id)) /\ Coming(id)' = Positions(Tail(s2c), Bringing(id))
  BY Places, PlacesNext
<1> QED
  BY <1>2, <1>3

\* A Release adds one to those on the way.
LEMMA ReleasesSent ==
    ASSUME TypeOK, TypeOK', NEW m \in HostFrames, c2s' = c2s \o <<m>>, NEW id
    PROVE  Cardinality(Releases(id))'
              = Cardinality(Releases(id)) + (IF m \in Releasing(id) THEN 1 ELSE 0)
<1>1. c2s \in Seq(HostFrames)
  BY DEF TypeOK
<1> QED
  BY <1>1, Places, PlacesNext, PositionsAppended

\* Taking a frame of the guest takes away what it releases.
LEMMA ReleasesTaken ==
    ASSUME TypeOK, TypeOK', c2s # <<>>, c2s' = Tail(c2s), NEW id
    PROVE  Cardinality(Releases(id))
              = Cardinality(Releases(id))' + (IF Head(c2s) \in Releasing(id) THEN 1 ELSE 0)
<1>1. c2s \in Seq(HostFrames)
  BY DEF TypeOK
<1>2. Cardinality(Positions(c2s, Releasing(id)))
         = Cardinality(Positions(Tail(c2s), Releasing(id)))
           + (IF Head(c2s) \in Releasing(id) THEN 1 ELSE 0)
  BY <1>1, PositionsTaken
<1>3. Releases(id) = Positions(c2s, Releasing(id)) /\ Releases(id)' = Positions(Tail(c2s), Releasing(id))
  BY Places, PlacesNext
<1> QED
  BY <1>2, <1>3

\* What sends no Release leaves those on the way alone.
LEMMA ReleasesKept ==
    ASSUME TypeOK, TypeOK', NEW m \in HostFrames, m.kind # "release",
           ToHost(<<m>>), NEW id
    PROVE  Cardinality(Releases(id))' = Cardinality(Releases(id))
<1>1. m \notin Releasing(id)
  BY DEF Releasing
<1>2. CASE c2s' = c2s \o <<m>>
  BY <1>1, <1>2, ReleasesSent, Places
<1>3. CASE c2s' = c2s
  BY <1>3 DEF Releases
<1> QED
  BY <1>2, <1>3 DEF ToHost

\* What brings no capability leaves those that come alone.
LEMMA ComingKept ==
    ASSUME TypeOK, TypeOK', NEW m \in GuestFrames, NEW id, m \notin Bringing(id),
           ToGuest(<<m>>)
    PROVE  Cardinality(Coming(id))' = Cardinality(Coming(id))
<1>2. CASE s2c' = s2c \o <<m>>
  BY <1>2, ComingSent, Places
<1>3. CASE s2c' = s2c
  BY <1>3 DEF Coming
<1> QED
  BY <1>2, <1>3 DEF ToGuest

\* A handle that becomes live is one more holder of its id.
LEMMA HoldersGained ==
    ASSUME TypeOK, NEW h \in Carriers, handle[h] \notin {"live", "garbage"},
           NEW new, Track(h, new), NEW id
    PROVE  /\ Cardinality(Holders(id))' = Cardinality(Holders(id)) + (IF id = new THEN 1 ELSE 0)
           /\ Holders(id)' # {} <=> Holders(id) # {} \/ id = new
<1>1. /\ handle'[h] \in {"live", "garbage"} /\ capOf'[h] = new
      /\ \A g \in Carriers : g # h => handle'[g] = handle[g] /\ capOf'[g] = capOf[g]
  BY DEF TypeOK, Track
<1>2. h \notin Holders(id)
  BY DEF Holders
<1>3. IsFiniteSet(Holders(id)) /\ Cardinality(Holders(id)) \in Nat
  BY Places
<1>4. CASE id = new
  <2>1. Holders(id)' = Holders(id) \cup {h}
    BY <1>1, <1>4 DEF Holders
  <2> QED
    BY <1>2, <1>3, <1>4, <2>1, FS_AddElement
<1>5. CASE id # new
  <2>1. Holders(id)' = Holders(id)
    BY <1>1, <1>2, <1>5 DEF Holders
  <2> QED
    BY <1>3, <1>5, <2>1
<1> QED
  BY <1>4, <1>5

\* A handle whose finalizer ran is one holder less.
LEMMA HoldersLost ==
    ASSUME TypeOK, NEW h \in Carriers, Finalize(h), NEW id
    PROVE  /\ Holders(id)' = Holders(id) \ {h}
           /\ h \in Holders(id) <=> id = capOf[h]
           /\ Cardinality(Holders(id)) = Cardinality(Holders(id))' + (IF id = capOf[h] THEN 1 ELSE 0)
           /\ Cardinality(Holders(id))' \in Nat
<1>1. /\ handle[h] = "garbage" /\ handle'[h] = "gone"
      /\ \A g \in Carriers : g # h => handle'[g] = handle[g]
      /\ capOf' = capOf
  BY DEF TypeOK, Finalize
<1>2. Holders(id)' = Holders(id) \ {h}
  BY <1>1 DEF Holders
<1>3. h \in Holders(id) <=> id = capOf[h]
  BY <1>1 DEF Holders
<1>4. IsFiniteSet(Holders(id)) /\ Cardinality(Holders(id)) \in Nat
  BY Places
<1>5. Cardinality(Holders(id) \ {h})
         = IF h \in Holders(id) THEN Cardinality(Holders(id)) - 1 ELSE Cardinality(Holders(id))
  BY <1>4, FS_RemoveElement
<1>6. Cardinality(Holders(id) \ {h}) \in Nat
  BY <1>4, FS_RemoveElement, FS_CardinalityType
<1> QED
  BY <1>2, <1>3, <1>4, <1>5, <1>6

\* Nothing else changes the holders.
LEMMA HoldersKept ==
    ASSUME IInv, NEW id,
           \/ UNCHANGED <<handle, capOf>>
           \/ \E h \in Carriers : Drop(h)
           \/ \E q \in Questions : Bootstrap(q)
    PROVE  Holders(id)' = Holders(id)
<1>1. CASE UNCHANGED <<handle, capOf>>
  BY <1>1 DEF Holders
<1>2. ASSUME NEW h \in Carriers, Drop(h) PROVE Holders(id)' = Holders(id)
  BY <1>2 DEF Drop, Reachable, Holders, IInv, TypeOK
<1>3. ASSUME NEW q \in Questions, Bootstrap(q) PROVE Holders(id)' = Holders(id)
  BY <1>3 DEF Bootstrap, Holders, IInv, TypeOK, HandlesStand
<1> QED
  BY <1>1, <1>2, <1>3

\* What was closed stays closed.
LEMMA StaysClosed == TypeOK /\ [Next]_vars => (Connected' => Connected)
<1> SUFFICES ASSUME TypeOK, [Next]_vars PROVE Connected' => Connected
  OBVIOUS
<1>1. (gclosed' = TRUE \/ gclosed' = gclosed) /\ (hclosed' = TRUE \/ hclosed' = hclosed)
  BY DEF Next, vars, Bootstrap, SignalAborts, Call, Drop, Finalize, HandleReturn, HandleException,
         HandleParams, GuestCloses, GuestLosesPeer, CloseGuest, HandlerReturns, HostSendsCap,
         HandleBootstrap, HandleCall, HandleFinish, HandleRelease, HostCloses, HostLosesPeer, CloseHost
<1> QED
  BY <1>1 DEF Connected

\* The next id has no reference yet.
LEMMA NextIsFree ==
    ASSUME IInv, Connected, nextCap \in CapIds \ {0}
    PROVE  /\ exports[nextCap] = 0 /\ Cardinality(Coming(nextCap)) = 0
           /\ Cardinality(Holders(nextCap)) = 0 /\ Cardinality(Releases(nextCap)) = 0
           /\ nextCap \notin lost
<1>1. exports[nextCap] = 0
  BY Ids DEF IInv, IdsLast
<1>2. exports[nextCap] = References(nextCap) + (IF nextCap \in lost THEN 1 ELSE 0)
  BY DEF IInv, RefcountsAccounted
<1>3. /\ Cardinality(Coming(nextCap)) \in Nat /\ Cardinality(Holders(nextCap)) \in Nat
      /\ Cardinality(Releases(nextCap)) \in Nat
  BY Places DEF IInv
<1>4. nextCap \in lost => (IF nextCap \in lost THEN 1 ELSE 0) = 1
  OBVIOUS
<1>5. (IF nextCap \in lost THEN 1 ELSE 0) \in {0, 1}
  OBVIOUS
<1> DEFINE l == IF nextCap \in lost THEN 1 ELSE 0
<1>6. l \in {0, 1} /\ (nextCap \in lost => l = 1)
  BY <1>4, <1>5
<1>7. 0 = Cardinality(Coming(nextCap)) + Cardinality(Holders(nextCap))
           + Cardinality(Releases(nextCap)) + l
  BY <1>1, <1>2 DEF References
<1> HIDE DEF l
<1> DEFINE a == Cardinality(Coming(nextCap))
           b == Cardinality(Holders(nextCap))
           d == Cardinality(Releases(nextCap))
<1>9. a \in Nat /\ b \in Nat /\ d \in Nat /\ l \in {0, 1} /\ 0 = a + b + d + l
  BY <1>3, <1>6, <1>7
<1> HIDE DEF a, b, d
<1>10. a = 0 /\ b = 0 /\ d = 0 /\ l = 0
  BY <1>9
<1> QED
  BY <1>1, <1>6, <1>10 DEF a, b, d

\* References move, and only the next id gets one.
LEMMA TallyStep == IInv /\ TypeOK' /\ [Next]_vars => OneHandle' /\ RefcountsAccounted'
<1> SUFFICES ASSUME IInv, TypeOK', [Next]_vars, NEW id \in CapIds \ {0}
             PROVE  /\ Cardinality(Coming(id))' + Cardinality(Holders(id))' <= 1
                    /\ Connected' => exports'[id] = References(id)' + (IF id \in lost' THEN 1 ELSE 0)
  BY DEF OneHandle, RefcountsAccounted
<1>0. TypeOK /\ TypeOK'
  BY DEF IInv
<1>p. PICK c, c1, h, h1, r, r1, e, e1, l, l1 :
         /\ c = Cardinality(Coming(id)) /\ c1 = Cardinality(Coming(id))'
         /\ h = Cardinality(Holders(id)) /\ h1 = Cardinality(Holders(id))'
         /\ r = Cardinality(Releases(id)) /\ r1 = Cardinality(Releases(id))'
         /\ e = exports[id] /\ e1 = exports'[id]
         /\ l = IF id \in lost THEN 1 ELSE 0
         /\ l1 = IF id \in lost' THEN 1 ELSE 0
  OBVIOUS
<1> DEFINE Goal == c1 + h1 <= 1 /\ (Connected' => e1 = c1 + h1 + r1 + l1)
<1>a. /\ c \in Nat /\ h \in Nat /\ r \in Nat /\ e \in {0, 1} /\ l \in {0, 1} /\ l1 \in {0, 1}
      /\ c + h <= 1
      /\ Connected => e = c + h + r + l
  <2>1. /\ c \in Nat /\ h \in Nat /\ r \in Nat /\ e \in {0, 1} /\ l \in {0, 1} /\ l1 \in {0, 1}
    BY <1>0, <1>p, Places DEF TypeOK
  <2>2. c + h <= 1
    BY <1>p DEF IInv, OneHandle
  <2>3. Connected => exports[id] = References(id) + (IF id \in lost THEN 1 ELSE 0)
    BY DEF IInv, RefcountsAccounted
  <2> QED
    BY <1>p, <2>1, <2>2, <2>3 DEF References
<1>j. c1 \in Nat /\ h1 \in Nat /\ r1 \in Nat
  <2>1. s2c' \in Seq(GuestFrames) /\ c2s' \in Seq(HostFrames)
    BY <1>0 DEF TypeOK
  <2>2. c1 \in Nat /\ r1 \in Nat
    BY <1>0, <1>p, <2>1, PlacesNext, PositionsCount
  <2>3. Holders(id)' \in SUBSET Carriers
    BY DEF Holders
  <2>4. h1 \in Nat
    BY <1>p, <2>3, Ids, FS_Subset, FS_CardinalityType
  <2> QED
    BY <2>2, <2>4
<1>b. Connected' => Connected
  BY <1>0, StaysClosed
<1>c. UNCHANGED s2c => c1 = c
  BY <1>p DEF Coming
<1>d. UNCHANGED c2s => r1 = r
  BY <1>p DEF Releases
<1>e. UNCHANGED <<handle, capOf>> => h1 = h
  BY <1>p, HoldersKept
<1>f. ASSUME NEW m \in HostFrames, m.kind # "release", ToHost(<<m>>) PROVE r1 = r
  BY <1>0, <1>f, <1>p, ReleasesKept
<1>g. ASSUME NEW m \in GuestFrames, m \notin Bringing(id), ToGuest(<<m>>) PROVE c1 = c
  BY <1>0, <1>g, <1>p, ComingKept
<1>h. ASSUME s2c # <<>>, s2c' = Tail(s2c)
      PROVE  IF Head(s2c) \in Bringing(id) THEN c = c1 + 1 ELSE c1 = c
  <2>1. c = c1 + (IF Head(s2c) \in Bringing(id) THEN 1 ELSE 0)
    BY <1>0, <1>h, <1>p, ComingTaken
  <2> QED
    BY <1>a, <1>j, <2>1
<1>i. ASSUME c2s # <<>>, c2s' = Tail(c2s)
      PROVE  IF Head(c2s) \in Releasing(id) THEN r = r1 + 1 ELSE r1 = r
  <2>1. r = r1 + (IF Head(c2s) \in Releasing(id) THEN 1 ELSE 0)
    BY <1>0, <1>i, <1>p, ReleasesTaken
  <2> QED
    BY <1>a, <1>j, <2>1
<1>m. /\ UNCHANGED lost => l1 = l
      /\ UNCHANGED exports => e1 = e
      /\ exports'[id] = exports[id] => e1 = e
      /\ id \in lost' <=> l1 = 1
      /\ id \in lost <=> l = 1
      /\ (id \in lost' <=> id \in lost) => l1 = l
  BY <1>p
<1>k. c1 = c /\ h1 = h /\ r1 = r /\ e1 = e /\ l1 = l => Goal
  BY <1>a, <1>b
<1>n. c = c1 + 1 /\ h1 = h + 1 /\ r1 = r /\ e1 = e /\ l1 = l => Goal
  BY <1>a, <1>b, <1>j
<1>o. c = c1 + 1 /\ h1 = h /\ r1 = r /\ e1 = e /\ l1 = 1 => Goal
  BY <1>a, <1>b, <1>j
<1>q. c1 = c /\ h = h1 + 1 /\ (Connected => r1 = r + 1) /\ e1 = e /\ l1 = l => Goal
  BY <1>a, <1>b, <1>j
<1>r. c1 = c /\ h1 = h /\ r = r1 + 1 /\ e1 = (IF e = 0 THEN 0 ELSE e - 1) /\ l1 = l => Goal
  BY <1>a, <1>b, <1>j
<1>s. (c = c1 + 1 \/ c1 = c) /\ h1 = h /\ ~Connected' => Goal
  BY <1>a, <1>j
<1>t. c = 0 /\ h = 0 /\ r = 0 /\ l = 0 /\ c1 = c + 1 /\ h1 = h /\ r1 = r /\ e1 = 1 /\ l1 = l => Goal
  BY <1>a
<1>u. c = 0 /\ h = 0 /\ r = 0 /\ l = 0 /\ c1 = c /\ h1 = h /\ r1 = r /\ e1 = 1 /\ l1 = 1 => Goal
  BY <1>a
<1>l. Goal => /\ Cardinality(Coming(id))' + Cardinality(Holders(id))' <= 1
              /\ Connected' => exports'[id] = References(id)' + (IF id \in lost' THEN 1 ELSE 0)
  BY <1>p DEF References
<1> HIDE DEF Goal
<1> SUFFICES Goal
  BY <1>l
<1>1. ASSUME NEW q \in Questions, Bootstrap(q) PROVE Goal
  <2>1. h1 = h
    BY <1>p, <1>1, HoldersKept
  <2> QED
    BY <1>1, <1>c, <1>f, <1>k, <1>m, <2>1, NotCalls DEF Bootstrap
<1>2. ASSUME NEW q \in Questions, SignalAborts(q) PROVE Goal
  BY <1>2, <1>c, <1>e, <1>f, <1>k, <1>m, NotCalls DEF SignalAborts
<1>3. ASSUME NEW q \in Calls, NEW g \in Carriers, Call(q, g) PROVE Goal
  <2>1. capOf[g] \in CapIds
    BY <1>3, Ids DEF Call, Reachable, IInv, HandlesNameExports
  <2>2. CallFrame(q, capOf[g]) \in HostFrames /\ CallFrame(q, capOf[g]).kind # "release"
    BY <2>1, FramesTyped DEF CallFrame
  <2>3. r1 = r
    BY <1>3, <1>f, <2>2 DEF Call
  <2> QED
    BY <1>3, <1>c, <1>e, <1>k, <1>m, <2>3 DEF Call
<1>4. ASSUME NEW g \in Carriers, Drop(g) PROVE Goal
  <2>1. h1 = h
    BY <1>p, <1>4, HoldersKept
  <2> QED
    BY <1>4, <1>c, <1>d, <1>k, <1>m, <2>1 DEF Drop
<1>5. ASSUME NEW g \in Carriers, Finalize(g) PROVE Goal
  <2>1. capOf[g] \in CapIds
    BY <1>5 DEF Finalize, IInv, HandlesNameExports
  <2>2. /\ id = capOf[g] => h = h1 + 1 /\ Holders(id) # {}
        /\ id # capOf[g] => h1 = h
    BY <1>0, <1>a, <1>j, <1>p, <1>5, HoldersLost
  <2>3. c1 = c /\ e1 = e /\ l1 = l
    BY <1>5, <1>c, <1>m DEF Finalize
  <2>4. CASE id # capOf[g]
    <3>1. Release(capOf[g]) \notin Releasing(id)
      BY <2>4 DEF Releasing, Release
    <3>2. UNCHANGED c2s \/ ToHost(<<Release(capOf[g])>>)
      BY <1>5 DEF Finalize, SendRelease
    <3>3. ASSUME c2s' = c2s \o <<Release(capOf[g])>> PROVE r1 = r
      <4>1. Release(capOf[g]) \in HostFrames
        BY <2>1, NotCalls
      <4>2. Cardinality(Releases(id))' = Cardinality(Releases(id)) + 0
        BY <1>0, <3>1, <3>3, <4>1, ReleasesSent
      <4> QED
        BY <1>a, <1>p, <4>2
    <3>4. r1 = r
      BY <3>2, <3>3, <1>d DEF ToHost
    <3> QED
      BY <1>k, <2>2, <2>3, <2>4, <3>4
  <2>5. CASE id = capOf[g]
    <3>1. ASSUME Connected PROVE r1 = r + 1
      <4>1. ~gclosed /\ id \in imports
        BY <2>2, <2>5, <3>1 DEF IInv, ImportsHeld, Connected
      <4>2. c2s' = c2s \o <<Release(id)>>
        BY <1>5, <2>5, <3>1, <4>1 DEF Finalize, SendRelease, ToHost
      <4>3. Release(id) \in HostFrames /\ Release(id) \in Releasing(id)
        BY NotCalls DEF Releasing
      <4> QED
        BY <1>0, <1>p, <4>2, <4>3, ReleasesSent
    <3> QED
      BY <1>q, <2>2, <2>3, <2>5, <3>1
  <2> QED
    BY <2>4, <2>5
<1>6. CASE HandleReturn
  <2> DEFINE m == Head(s2c)
  <2>1. /\ m \in GuestFrames /\ m.kind = "return" /\ s2c # <<>> /\ s2c' = Tail(s2c)
        /\ m.q \in Carriers /\ m.q \in Questions /\ UNCHANGED exports
    BY <1>0, <1>6, Returned DEF Questions, Carriers
  <2>2. (m.id = id => c = c1 + 1) /\ (m.id # id => c1 = c) /\ e1 = e
    BY <1>h, <1>m, <2>1 DEF Bringing
  <2>3. \/ lost' = lost \cup ({m.id} \ {None}) /\ UNCHANGED <<handle, capOf, c2s>>
        \/ m.q \in questions /\ m.id = None /\ ToHost(<<FinishFrame(m.q)>>) /\ UNCHANGED <<lost, handle, capOf>>
        \/ m.q \in questions /\ ToHost(<<FinishFrame(m.q)>>) /\ Track(m.q, m.id) /\ UNCHANGED lost
    BY <1>0, <1>6, Returned
  <2> HIDE DEF m
  <2>4. id # None
    BY Ids
  <2>5. CASE lost' = lost \cup ({m.id} \ {None}) /\ UNCHANGED <<handle, capOf, c2s>>
    <3>1. h1 = h /\ r1 = r
      BY <2>5, <1>d, <1>e
    <3>2. CASE m.id = id
      <4>1. id \in lost'
        BY <2>4, <2>5, <3>2
      <4> QED
        BY <1>m, <1>o, <2>2, <3>1, <3>2, <4>1
    <3>3. CASE m.id # id
      <4>1. id \in lost' <=> id \in lost
        BY <2>5, <3>3
      <4> QED
        BY <1>k, <1>m, <2>2, <3>1, <3>3, <4>1
    <3> QED
      BY <3>2, <3>3
  <2>6. CASE m.q \in questions /\ m.id = None /\ ToHost(<<FinishFrame(m.q)>>) /\ UNCHANGED <<lost, handle, capOf>>
    <3>1. h1 = h /\ r1 = r /\ l1 = l
      BY <2>1, <2>6, <1>e, <1>f, <1>m, NotCalls
    <3> QED
      BY <1>k, <2>2, <2>4, <2>6, <3>1
  <2>7. CASE m.q \in questions /\ ToHost(<<FinishFrame(m.q)>>) /\ Track(m.q, m.id) /\ UNCHANGED lost
    <3>1. handle[m.q] \notin {"live", "garbage"}
      BY <2>1, <2>7 DEF IInv, HandlesStand, Questions
    <3>2. (id = m.id => h1 = h + 1) /\ (id # m.id => h1 = h)
      BY <1>0, <1>a, <1>p, <2>1, <2>7, <3>1, HoldersGained
    <3>3. r1 = r /\ l1 = l
      BY <2>1, <2>7, <1>f, <1>m, NotCalls
    <3> QED
      BY <1>k, <1>n, <2>2, <3>2, <3>3
  <2> QED
    BY <2>3, <2>5, <2>6, <2>7
<1>7. CASE HandleException
  <2> DEFINE m == Head(s2c)
  <2>1. m \notin Bringing(id) /\ s2c # <<>> /\ s2c' = Tail(s2c)
    BY <1>7 DEF HandleException, GuestGets, Bringing
  <2>2. c1 = c
    BY <1>h, <2>1
  <2>3. ToHost(<<>>) \/ (m.q \in questions /\ ToHost(<<FinishFrame(m.q)>>))
    BY <1>7 DEF HandleException
  <2> HIDE DEF m
  <2>4. m.q \in questions => m.q \in Questions
    BY <1>0 DEF TypeOK
  <2>5. r1 = r
    BY <1>0, <1>d, <1>f, <2>3, <2>4, NotCalls, SentTyped
  <2>6. h1 = h /\ e1 = e /\ l1 = l
    BY <1>7, <1>e, <1>m DEF HandleException
  <2> QED
    BY <1>k, <2>2, <2>5, <2>6
<1>8. CASE HandleParams
  <2> DEFINE m == Head(s2c)
  <2>1. /\ m \in GuestFrames /\ m.kind = "call" /\ s2c # <<>> /\ s2c' = Tail(s2c)
        /\ m.q \in Carriers /\ m.id # None /\ UNCHANGED <<c2s, exports>>
        /\ \/ Track(m.q, m.id) /\ UNCHANGED lost
           \/ lost' = lost \cup {m.id} /\ UNCHANGED <<handle, capOf>>
    BY <1>0, <1>8, ParamsCome, Ids DEF Carriers
  <2>2. (m.id = id => c = c1 + 1) /\ (m.id # id => c1 = c) /\ e1 = e
    BY <1>h, <1>m, <2>1 DEF Bringing
  <2>3. handle[m.q] = "none"
    <3>1. s2c \in Seq(GuestFrames)
      BY <1>0 DEF TypeOK
    <3>2. m = s2c[1] /\ 1 \in 1..Len(s2c)
      BY <2>1, <3>1, Taken
    <3> QED
      BY <2>1, <3>2 DEF IInv, ParamsOnce
  <2> HIDE DEF m
  <2>4. r1 = r
    BY <2>1, <1>d
  <2>5. CASE Track(m.q, m.id) /\ UNCHANGED lost
    <3>1. Cardinality(Holders(id))' = Cardinality(Holders(id)) + (IF id = m.id THEN 1 ELSE 0)
      BY <1>0, <2>1, <2>3, <2>5, HoldersGained
    <3>2. (id = m.id => h1 = h + 1) /\ (id # m.id => h1 = h)
      BY <1>a, <1>p, <3>1
    <3> QED
      BY <1>k, <1>m, <1>n, <2>2, <2>4, <2>5, <3>2
  <2>6. CASE lost' = lost \cup {m.id} /\ UNCHANGED <<handle, capOf>>
    <3>1. h1 = h
      BY <2>6, <1>e
    <3>2. CASE m.id = id
      <4>1. id \in lost'
        BY <2>6, <3>2
      <4> QED
        BY <1>m, <1>o, <2>2, <2>4, <3>1, <3>2, <4>1
    <3>3. CASE m.id # id
      <4>1. id \in lost' <=> id \in lost
        BY <2>6, <3>3
      <4> QED
        BY <1>k, <1>m, <2>2, <2>4, <3>1, <3>3, <4>1
    <3> QED
      BY <3>2, <3>3
  <2> QED
    BY <2>1, <2>5, <2>6
<1>9. CASE GuestCloses \/ GuestLosesPeer
  <2>1. h1 = h /\ ~Connected'
    BY <1>9, <1>e DEF GuestCloses, GuestLosesPeer, CloseGuest, Connected
  <2>2. UNCHANGED s2c \/ (s2c # <<>> /\ s2c' = Tail(s2c))
    BY <1>9 DEF GuestCloses, GuestLosesPeer, GuestGets
  <2>3. c = c1 + 1 \/ c1 = c
    BY <1>c, <1>h, <2>2
  <2> QED
    BY <1>s, <2>1, <2>3
<1>10. ASSUME nextCap \in CapIds \ {0}, Export, NEW m \in GuestFrames, ToGuest(<<m>>),
              m \in Bringing(nextCap), \A n \in CapIds : n # nextCap => m \notin Bringing(n),
              UNCHANGED <<handle, capOf, c2s, lost, gclosed, hclosed>>
       PROVE  Goal
  <2>1. h1 = h /\ r1 = r /\ l1 = l
    BY <1>10, <1>d, <1>e, <1>m
  <2>2. CASE id # nextCap
    <3>1. c1 = c
      BY <1>10, <1>g, <2>2
    <3>2. exports'[id] = exports[id]
      BY <1>0, <1>10, <2>2 DEF Export, TypeOK
    <3> QED
      BY <1>k, <1>m, <2>1, <3>1, <3>2
  <2>3. CASE id = nextCap /\ Connected
    <3>1. c = 0 /\ h = 0 /\ r = 0 /\ l = 0
      BY <1>p, <1>10, <2>3, NextIsFree
    <3>2. c1 = c + 1
      BY <1>0, <1>p, <1>10, <2>3, ComingSent DEF ToGuest
    <3>3. e1 = 1
      BY <1>0, <1>p, <1>10, <2>3 DEF Export, TypeOK
    <3> QED
      BY <1>t, <2>1, <3>1, <3>2, <3>3
  <2>4. CASE ~Connected
    <3>1. c1 = c
      BY <1>10, <1>c, <2>4 DEF ToGuest
    <3> QED
      BY <1>b, <1>s, <2>1, <2>4, <3>1
  <2> QED
    BY <2>2, <2>3, <2>4
<1>11. ASSUME NEW q \in Calls, HandlerReturns(q) PROVE Goal
  <2>1. nextCap \in CapIds \ {0}
    BY <1>11, Room DEF HandlerReturns
  <2>2. UNCHANGED <<handle, capOf, c2s, gclosed, hclosed>>
    BY <1>11 DEF HandlerReturns
  <2>3. CASE Export /\ ToGuest(<<Return(q, nextCap)>>) /\ UNCHANGED lost
    <3> DEFINE m == Return(q, nextCap)
    <3>1. /\ m \in GuestFrames /\ m \in Bringing(nextCap)
          /\ \A n \in CapIds : n # nextCap => m \notin Bringing(n)
      BY <2>1, FramesTyped DEF Bringing, Return
    <3> HIDE DEF m
    <3> QED
      BY <1>10, <2>1, <2>2, <2>3, <3>1 DEF m
  <2>4. CASE Export /\ UNCHANGED s2c /\ lost' = lost \cup {nextCap}
    <3>1. c1 = c /\ h1 = h /\ r1 = r
      BY <2>2, <2>4, <1>c, <1>d, <1>e
    <3>2. CASE id # nextCap
      <4>1. exports'[id] = exports[id]
        BY <1>0, <2>4, <3>2 DEF Export, TypeOK
      <4>2. id \in lost' <=> id \in lost
        BY <2>4, <3>2
      <4> QED
        BY <1>k, <1>m, <3>1, <4>1, <4>2
    <3>3. CASE id = nextCap
      <4>1. e1 = 1 /\ l1 = 1
        BY <1>0, <1>p, <2>4, <3>3 DEF Export, TypeOK
      <4>2. Connected => c = 0 /\ h = 0 /\ r = 0 /\ l = 0
        BY <1>p, <2>1, <3>3, NextIsFree
      <4>3. CASE Connected
        BY <1>u, <3>1, <4>1, <4>2, <4>3
      <4>4. CASE ~Connected
        BY <1>b, <1>s, <3>1, <4>4
      <4> QED
        BY <4>3, <4>4
    <3> QED
      BY <3>2, <3>3
  <2>5. CASE /\ ToGuest(<<Return(q, None)>>) \/ ToGuest(<<Exception(q)>>)
             /\ UNCHANGED <<exports, nextCap, lost>>
    <3>1. Return(q, None) \in GuestFrames /\ Exception(q) \in GuestFrames
      BY FramesTyped
    <3>2. Return(q, None) \notin Bringing(id) /\ Exception(q) \notin Bringing(id)
      BY Ids DEF Bringing, Return, Exception
    <3>3. c1 = c
      BY <1>g, <2>5, <3>1, <3>2
    <3>4. h1 = h /\ r1 = r /\ e1 = e /\ l1 = l
      BY <1>d, <1>e, <1>m, <2>2, <2>5
    <3> QED
      BY <1>k, <3>3, <3>4
  <2> QED
    BY <1>11, <2>3, <2>4, <2>5 DEF HandlerReturns
<1>12. ASSUME NEW p \in HostCalls, HostSendsCap(p) PROVE Goal
  <2> DEFINE m == ParamCall(p, nextCap)
  <2>1. nextCap \in CapIds \ {0}
    BY <1>12, Room DEF HostSendsCap
  <2>2. /\ m \in GuestFrames /\ m \in Bringing(nextCap)
        /\ \A n \in CapIds : n # nextCap => m \notin Bringing(n)
    BY <2>1, FramesTyped DEF Bringing, ParamCall
  <2>3. ToGuest(<<m>>) /\ Export
    BY <1>12 DEF HostSendsCap
  <2> HIDE DEF m
  <2> QED
    BY <1>10, <1>12, <2>1, <2>2, <2>3 DEF HostSendsCap
<1>13. CASE HandleBootstrap
  <2> DEFINE m == Return(Head(c2s).q, 0)
  <2>1. /\ Head(c2s).kind = "bootstrap" /\ c2s # <<>> /\ c2s' = Tail(c2s)
        /\ ToGuest(<<m>>) /\ UNCHANGED <<handle, capOf, lost>>
        /\ exports'[id] = exports[id]
    BY <1>0, <1>13 DEF HandleBootstrap, HostGets, TypeOK
  <2>2. Head(c2s).q \in Bootstraps
    BY <1>0, <1>13, SentTyped, HostFrameFields DEF HandleBootstrap
  <2>3. m \in GuestFrames /\ m \notin Bringing(id)
    BY <2>2, FramesTyped DEF Bringing, Return
  <2> HIDE DEF m
  <2>4. c1 = c
    BY <1>g, <2>1, <2>3
  <2>5. r1 = r
    <3>1. Head(c2s) \notin Releasing(id)
      BY <2>1 DEF Releasing
    <3> QED
      BY <1>i, <2>1, <3>1
  <2>6. h1 = h /\ e1 = e /\ l1 = l
    BY <1>e, <1>m, <2>1
  <2> QED
    BY <1>k, <2>4, <2>5, <2>6
<1>14. CASE HandleCall
  <2>1. /\ Head(c2s).kind = "call" /\ c2s # <<>> /\ c2s' = Tail(c2s)
        /\ ToGuest(<<Exception(Head(c2s).q)>>) \/ UNCHANGED s2c
        /\ UNCHANGED <<handle, capOf, lost, exports>>
    BY <1>14 DEF HandleCall, HostGets
  <2>2. Head(c2s).q \in Calls
    BY <1>0, <1>14, SentTyped, HostFrameFields DEF HandleCall
  <2>3. Exception(Head(c2s).q) \in GuestFrames /\ Exception(Head(c2s).q) \notin Bringing(id)
    BY <2>2, FramesTyped DEF Bringing, Exception
  <2>4. c1 = c
    BY <1>c, <1>g, <2>1, <2>3
  <2>5. r1 = r
    <3>1. Head(c2s) \notin Releasing(id)
      BY <2>1 DEF Releasing
    <3> QED
      BY <1>i, <2>1, <3>1
  <2>6. h1 = h /\ e1 = e /\ l1 = l
    BY <1>e, <1>m, <2>1
  <2> QED
    BY <1>k, <2>4, <2>5, <2>6
<1>15. CASE HandleFinish
  <2>1. /\ Head(c2s).kind = "finish" /\ c2s # <<>> /\ c2s' = Tail(c2s)
        /\ UNCHANGED <<handle, capOf, lost, exports, s2c>>
    BY <1>15 DEF HandleFinish, HostGets
  <2>2. r1 = r
    <3>1. Head(c2s) \notin Releasing(id)
      BY <2>1 DEF Releasing
    <3> QED
      BY <1>i, <2>1, <3>1
  <2>3. c1 = c /\ h1 = h /\ e1 = e /\ l1 = l
    BY <1>c, <1>e, <1>m, <2>1
  <2> QED
    BY <1>k, <2>2, <2>3
<1>16. CASE HandleRelease
  <2> DEFINE m == Head(c2s)
  <2>1. /\ m.kind = "release" /\ c2s # <<>> /\ c2s' = Tail(c2s)
        /\ UNCHANGED <<handle, capOf, lost, s2c>>
        /\ exports' = [exports EXCEPT ![m.id] = IF @ = 0 THEN 0 ELSE @ - 1]
    BY <1>16 DEF HandleRelease, HostGets
  <2>2. m \in HostFrames
    BY <1>0, <1>16, SentTyped DEF HandleRelease
  <2>3. (m.id = id => r = r1 + 1) /\ (m.id # id => r1 = r)
    BY <1>i, <2>1, <2>2 DEF Releasing
  <2> HIDE DEF m
  <2>4. c1 = c /\ h1 = h /\ l1 = l
    BY <1>c, <1>e, <1>m, <2>1
  <2>5. CASE m.id = id
    <3>1. e1 = IF e = 0 THEN 0 ELSE e - 1
      BY <1>0, <1>p, <2>1, <2>5 DEF TypeOK
    <3> QED
      BY <1>r, <2>3, <2>4, <2>5, <3>1
  <2>6. CASE m.id # id
    <3>1. exports'[id] = exports[id]
      BY <1>0, <2>1, <2>6 DEF TypeOK
    <3> QED
      BY <1>k, <1>m, <2>3, <2>4, <2>6, <3>1
  <2> QED
    BY <2>5, <2>6
<1>17. ASSUME CloseHost PROVE Goal
  <2>1. Fin \in GuestFrames /\ Fin \notin Bringing(id)
    BY FramesTyped DEF Bringing, Fin
  <2>2. c1 = c /\ h1 = h /\ ~Connected'
    BY <1>17, <1>e, <1>g, <2>1 DEF CloseHost, Connected
  <2> QED
    BY <1>s, <2>2
<1>18. CASE UNCHANGED vars
  <2>1. UNCHANGED <<s2c, c2s, handle, capOf, exports, lost>>
    BY <1>18 DEF vars
  <2> QED
    BY <1>c, <1>d, <1>e, <1>k, <1>m, <2>1
<1> QED
  BY <1>1, <1>2, <1>3, <1>4, <1>5, <1>6, <1>7, <1>8, <1>9, <1>11, <1>12, <1>13, <1>14, <1>15,
     <1>16, <1>17, <1>18
     DEF Next, HostCloses, HostLosesPeer

-----------------------------------------------------------------------------
(* The table of imports *)

\* An id is imported as long as somebody holds it, if nobody else does.
LEMMA ImportsStep ==
    ASSUME IInv, [Next]_vars, NEW id \in CapIds,
           ~gclosed => (id \in imports <=> Holders(id) # {}),
           \A g \in Holders(id) : Holders(id) = {g}
    PROVE  ~gclosed' => (id \in imports' <=> Holders(id)' # {})
<1> DEFINE Goal == ~gclosed' => (id \in imports' <=> Holders(id)' # {})
<1>0. TypeOK
  BY DEF IInv
<1>1. ASSUME Holders(id)' = Holders(id), UNCHANGED <<imports, gclosed>> PROVE Goal
  BY <1>1
<1>2. ASSUME NEW h \in Carriers, handle[h] \notin {"live", "garbage"}, NEW new, Track(h, new),
             UNCHANGED gclosed
      PROVE  Goal
  <2>1. Holders(id)' # {} <=> Holders(id) # {} \/ id = new
    BY <1>0, <1>2, HoldersGained
  <2>2. imports' = imports \cup {new}
    BY <1>2 DEF Track
  <2> QED
    BY <1>2, <2>1, <2>2
<1>3. ASSUME NEW h \in Carriers, Finalize(h) PROVE Goal
  <2>1. Holders(id)' = Holders(id) \ {h} /\ (h \in Holders(id) <=> id = capOf[h])
    BY <1>0, <1>3, HoldersLost
  <2>2. imports' = imports \/ imports' = imports \ {capOf[h]}
    BY <1>3 DEF Finalize, SendRelease
  <2>3. CASE id # capOf[h]
    BY <1>3, <2>1, <2>2, <2>3 DEF Finalize
  <2>4. CASE id = capOf[h]
    <3>1. Holders(id)' = {}
      BY <2>1, <2>4
    <3>2. ~gclosed => imports' = imports \ {id}
      BY <1>3, <2>1, <2>4 DEF Finalize, SendRelease
    <3> QED
      BY <1>3, <3>1, <3>2 DEF Finalize
  <2> QED
    BY <2>3, <2>4
<1>4. CASE HandleReturn
  <2> DEFINE m == Head(s2c)
  <2>1. /\ m.q \in Carriers /\ m.q \in Questions /\ UNCHANGED gclosed
        /\ \/ UNCHANGED <<handle, capOf, imports>>
           \/ m.q \in questions /\ Track(m.q, m.id)
    BY <1>0, <1>4, Returned DEF Questions, Carriers
  <2>2. m.q \in questions => handle[m.q] \notin {"live", "garbage"}
    BY <2>1 DEF IInv, HandlesStand, Questions
  <2> HIDE DEF m
  <2>3. CASE UNCHANGED <<handle, capOf, imports>>
    BY <1>1, <2>1, <2>3, HoldersKept
  <2>4. CASE m.q \in questions /\ Track(m.q, m.id)
    BY <1>2, <2>1, <2>2, <2>4
  <2> QED
    BY <2>1, <2>3, <2>4
<1>5. CASE HandleParams
  <2> DEFINE m == Head(s2c)
  <2>1. /\ m.q \in Carriers /\ m.kind = "call" /\ s2c # <<>> /\ UNCHANGED gclosed
        /\ \/ UNCHANGED <<handle, capOf, imports>>
           \/ Track(m.q, m.id)
    BY <1>0, <1>5, ParamsCome DEF Carriers
  <2>2. handle[m.q] = "none"
    <3>1. s2c \in Seq(GuestFrames)
      BY <1>0 DEF TypeOK
    <3>2. m = s2c[1] /\ 1 \in 1..Len(s2c)
      BY <2>1, <3>1, Taken
    <3> QED
      BY <2>1, <3>2 DEF IInv, ParamsOnce
  <2> HIDE DEF m
  <2>3. CASE UNCHANGED <<handle, capOf, imports>>
    BY <1>1, <2>1, <2>3, HoldersKept
  <2>4. CASE Track(m.q, m.id)
    BY <1>2, <2>1, <2>2, <2>4
  <2> QED
    BY <2>1, <2>3, <2>4
<1>6. CASE GuestCloses \/ GuestLosesPeer
  BY <1>6 DEF GuestCloses, GuestLosesPeer, CloseGuest
<1>7. ASSUME NEW q \in Questions, Bootstrap(q) PROVE Goal
  BY <1>1, <1>7, HoldersKept DEF Bootstrap
<1>8. ASSUME NEW h \in Carriers, Drop(h) PROVE Goal
  BY <1>1, <1>8, HoldersKept DEF Drop
<1>9. CASE UNCHANGED <<handle, capOf, imports, gclosed>>
  BY <1>1, <1>9, HoldersKept
<1> QED
  BY <1>3, <1>4, <1>5, <1>6, <1>7, <1>8, <1>9
     DEF Next, vars, SignalAborts, Call, HandleException, HandlerReturns, HostSendsCap,
         HandleBootstrap, HandleCall, HandleFinish, HandleRelease, HostCloses, HostLosesPeer, CloseHost

\* A set with at most one element is empty or a singleton.
LEMMA OneElement ==
    ASSUME NEW S, IsFiniteSet(S), Cardinality(S) <= 1, NEW g \in S
    PROVE  S = {g}
<1>1. Cardinality(S) \in Nat /\ IsFiniteSet(S \ {g})
      /\ Cardinality(S \ {g}) = Cardinality(S) - 1 /\ Cardinality(S \ {g}) \in Nat
  BY FS_CardinalityType, FS_RemoveElement
<1>2. Cardinality(S \ {g}) = 0
  BY <1>1
<1>3. S \ {g} = {}
  BY <1>1, <1>2, FS_EmptySet
<1> QED
  BY <1>3

\* Apart from the bootstrap, the guest's tables agree after every step.
LEMMA ImportsHeldStep == IInv /\ [Next]_vars => ImportsHeld'
<1> SUFFICES ASSUME IInv, [Next]_vars, NEW id \in CapIds \ {0}
             PROVE  ~gclosed' => (id \in imports' <=> Holders(id)' # {})
  BY DEF ImportsHeld
<1>1. /\ IsFiniteSet(Holders(id)) /\ Cardinality(Holders(id)) \in Nat
      /\ Cardinality(Coming(id)) \in Nat
      /\ Cardinality(Coming(id)) + Cardinality(Holders(id)) <= 1
  BY Places DEF IInv, OneHandle
<1>2. Cardinality(Holders(id)) <= 1
  BY <1>1
<1>3. \A g \in Holders(id) : Holders(id) = {g}
  BY <1>1, <1>2, OneElement
<1>4. ~gclosed => (id \in imports <=> Holders(id) # {})
  BY DEF IInv, ImportsHeld
<1> QED
  BY <1>3, <1>4, ImportsStep

-----------------------------------------------------------------------------
(* The invariant *)

\* At first only the bootstrap is exported.
LEMMA InitIInv == Init => IInv
<1> SUFFICES ASSUME Init PROVE IInv
  OBVIOUS
<1>1. TypeOK
  <2>1. c2s \in Seq(HostFrames) /\ s2c \in Seq(GuestFrames)
    BY DEF Init
  <2>2. exports \in [CapIds -> {0, 1}]
    BY DEF Init
  <2>3. nextCap \in 1..Cardinality(CapIds)
    <3> DEFINE n == Cardinality(CapIds)
               c == Cardinality(Calls \cup HostCalls)
    <3>1. c \in Nat /\ n = c + 1
      BY Ids
    <3>2. nextCap = 1
      BY DEF Init
    <3> HIDE DEF n, c
    <3>3. nextCap \in 1..n
      BY <3>1, <3>2
    <3> QED
      BY <3>3 DEF n
  <2> QED
    BY <2>1, <2>2, <2>3 DEF Init, TypeOK
<1>2. HandlesStand /\ HandlesNameExports
  BY Ids DEF Init, HandlesStand, HandlesNameExports, Carriers, Questions
<1>3. ParamsOnce /\ CallsOnce
  BY DEF Init, ParamsOnce, CallsOnce
<1>4. IdsLast
  <2>1. Spent = {}
    BY DEF Init, Spent
  <2>2. Cardinality(Spent) = 0
    BY <2>1, FS_EmptySet
  <2> QED
    BY <2>2, Ids DEF Init, IdsLast
<1>5. ASSUME NEW id \in CapIds
      PROVE  Cardinality(Coming(id)) = 0 /\ Cardinality(Releases(id)) = 0
             /\ Cardinality(Holders(id)) = 0 /\ Holders(id) = {}
  <2>1. Coming(id) = {} /\ Releases(id) = {} /\ Holders(id) = {}
    BY DEF Init, Coming, Releases, Holders
  <2> QED
    BY <2>1, FS_EmptySet
<1>6. OneHandle /\ ImportsHeld
  BY <1>5 DEF Init, OneHandle, ImportsHeld
<1>7. RefcountsAccounted
  BY <1>5 DEF Init, RefcountsAccounted, References
<1> QED
  BY <1>1, <1>2, <1>3, <1>4, <1>6, <1>7 DEF IInv

\* Every step preserves the invariant.
LEMMA NextIInv == IInv /\ [Next]_vars => IInv'
  BY TypeStep, HandlesStandStep, HandlesNameExportsStep, ParamsOnceStep, CallsOnceStep, IdsLastStep,
     TallyStep, ImportsHeldStep DEF IInv

\* The inductive invariant holds, with any number of bootstrap questions.
THEOREM Inductive == Spec => []IInv
<1>1. Init => IInv
  BY InitIInv
<1>2. IInv /\ [Next]_vars => IInv'
  BY NextIInv
<1> QED
  BY <1>1, <1>2, PTL DEF Spec

\* Every reference that the host counts is on its way to the guest, held
\* there, on its way back in a Release, or was lost in an unread frame.
THEOREM ReferencesKept == Spec => []RefcountsAccounted
<1>1. IInv => RefcountsAccounted
  BY DEF IInv
<1> QED
  BY <1>1, Inductive, PTL

-----------------------------------------------------------------------------
(* One bootstrap question *)

\* Somebody holds the bootstrap alone.
LEMMA OneHolder ==
    ASSUME OneBootstrap, IInv, NEW id \in CapIds, NEW g \in Holders(id)
    PROVE  Holders(id) = {g}
<1>1. CASE id = 0
  BY <1>1 DEF IInv, HandlesNameExports, Holders, OneBootstrap
<1>2. CASE id # 0
  <2>1. /\ IsFiniteSet(Holders(id)) /\ Cardinality(Holders(id)) \in Nat
        /\ Cardinality(Coming(id)) \in Nat
        /\ Cardinality(Coming(id)) + Cardinality(Holders(id)) <= 1
    BY <1>2, Places DEF IInv, OneHandle
  <2>2. Cardinality(Holders(id)) <= 1
    BY <2>1
  <2> QED
    BY <2>1, <2>2, OneElement
<1> QED
  BY <1>1, <1>2

\* The table of imports is that of the handles after every step.
LEMMA ImportsMatchStep ==
    ASSUME OneBootstrap
    PROVE  IInv /\ ImportsMatchHandles /\ [Next]_vars => ImportsMatchHandles'
<1> SUFFICES ASSUME IInv, ImportsMatchHandles, [Next]_vars, NEW id \in CapIds
             PROVE  ~gclosed' => (id \in imports' <=> Holders(id)' # {})
  BY DEF ImportsMatchHandles
<1>1. ~gclosed => (id \in imports <=> Holders(id) # {})
  BY DEF ImportsMatchHandles
<1> QED
  BY <1>1, OneHolder, ImportsStep

\* A frame that is not a Release leaves the way free of Releases.
LEMMA WayStaysFree ==
    ASSUME TypeOK, TypeOK', NEW id, Releases(id) = {},
           \/ UNCHANGED c2s
           \/ c2s # <<>> /\ c2s' = Tail(c2s)
           \/ \E m \in HostFrames : (m.kind # "release" \/ m.id # id) /\ ToHost(<<m>>)
    PROVE  Releases(id)' = {}
<1>1. \A i \in 1..Len(c2s) : ~(c2s[i].kind = "release" /\ c2s[i].id = id)
  BY DEF Releases
<1>2. c2s \in Seq(HostFrames)
  BY DEF TypeOK
<1>3. CASE UNCHANGED c2s
  BY <1>3 DEF Releases
<1>4. CASE c2s # <<>> /\ c2s' = Tail(c2s)
  <2>1. \A i \in 1..Len(c2s') : c2s'[i] = c2s[i + 1] /\ i + 1 \in 1..Len(c2s)
    BY <1>2, <1>4, Taken
  <2> QED
    BY <1>1, <2>1 DEF Releases
<1>5. ASSUME NEW m \in HostFrames, m.kind # "release" \/ m.id # id, ToHost(<<m>>)
      PROVE  Releases(id)' = {}
  <2>1. CASE c2s' = c2s \o <<m>>
    <3>1. /\ \A i \in 1..Len(c2s) : c2s'[i] = c2s[i]
          /\ c2s'[Len(c2s) + 1] = m
          /\ 1..Len(c2s') = 1..Len(c2s) \cup {Len(c2s) + 1}
      BY <1>2, <2>1, Appended
    <3> QED
      BY <1>1, <1>5, <3>1 DEF Releases
  <2>2. CASE c2s' = c2s
    BY <2>2 DEF Releases
  <2> QED
    BY <1>5, <2>1, <2>2 DEF ToHost
<1> QED
  BY <1>3, <1>4, <1>5

\* The bootstrap is kept for its handle.
LEMMA BootstrapKeptStep ==
    ASSUME OneBootstrap
    PROVE  IInv /\ TypeOK' /\ BootstrapKept /\ [Next]_vars => BootstrapKept'
<1> SUFFICES ASSUME IInv, TypeOK', BootstrapKept, [Next]_vars,
                    NEW b \in Bootstraps, handle'[b] # "gone"
             PROVE  /\ ~gclosed' => Releases(0)' = {}
                    /\ Connected' => exports'[0] = 1
  BY DEF BootstrapKept
<1>0. TypeOK /\ TypeOK' /\ b \in Carriers /\ 0 \in CapIds /\ nextCap # 0
  <2>1. TypeOK /\ TypeOK' /\ b \in Carriers /\ 0 \in CapIds
    BY Ids DEF IInv, Carriers, Questions
  <2>2. nextCap \in 1..Cardinality(CapIds)
    BY DEF IInv, TypeOK
  <2>3. nextCap # 0
    BY <2>2, Ids
  <2> QED
    BY <2>1, <2>3
<1> DEFINE Goal == (~gclosed' => Releases(0)' = {}) /\ (Connected' => exports'[0] = 1)
<1>1. Connected' => Connected
  BY <1>0, StaysClosed
<1>2. handle[b] # "gone"
  <2>1. ASSUME handle[b] = "gone" PROVE b \notin questions /\ b \in used
    BY <2>1 DEF IInv, HandlesStand
  <2>2. ASSUME handle[b] = "gone" PROVE handle'[b] = "gone"
    <3>1. CASE HandleReturn
      <4> DEFINE m == Head(s2c)
      <4>1. \/ UNCHANGED handle
            \/ m.q \in questions /\ handle' = [handle EXCEPT ![m.q] = IF @ = "dropped" THEN "garbage" ELSE "live"]
        BY <1>0, <3>1, Returned DEF Track
      <4> HIDE DEF m
      <4> QED
        BY <1>0, <2>1, <2>2, <4>1 DEF TypeOK
    <3>2. CASE HandleParams
      <4> DEFINE m == Head(s2c)
      <4>1. /\ m.q \in HostCalls
            /\ \/ UNCHANGED handle
               \/ handle' = [handle EXCEPT ![m.q] = IF @ = "dropped" THEN "garbage" ELSE "live"]
        BY <1>0, <3>2, ParamsCome DEF Track
      <4>2. b # m.q
        BY <4>1 DEF Questions
      <4> HIDE DEF m
      <4> QED
        BY <1>0, <2>2, <4>1, <4>2 DEF TypeOK
    <3>3. ASSUME NEW q \in Questions, Bootstrap(q) PROVE handle'[b] = "gone"
      BY <1>0, <2>1, <2>2, <3>3 DEF Bootstrap, TypeOK
    <3>4. ASSUME NEW h \in Carriers, Drop(h) PROVE handle'[b] = "gone"
      BY <1>0, <2>2, <3>4 DEF Drop, Reachable, TypeOK
    <3>5. ASSUME NEW h \in Carriers, Finalize(h) PROVE handle'[b] = "gone"
      BY <1>0, <2>2, <3>5 DEF Finalize, TypeOK
    <3>6. CASE UNCHANGED handle
      BY <2>2, <3>6
    <3> QED
      BY <3>1, <3>2, <3>3, <3>4, <3>5, <3>6
         DEF Next, vars, SignalAborts, Call, HandleException, GuestCloses, GuestLosesPeer, CloseGuest,
             HostSendsCap, HandlerReturns, HandleBootstrap, HandleCall, HandleFinish, HandleRelease,
             HostCloses, HostLosesPeer, CloseHost
  <2> QED
    BY <2>2
<1>3. /\ ~gclosed => Releases(0) = {}
      /\ Connected => exports[0] = 1
  BY <1>2 DEF BootstrapKept
<1>4. ASSUME \/ UNCHANGED c2s
             \/ c2s # <<>> /\ c2s' = Tail(c2s)
             \/ \E m \in HostFrames : (m.kind # "release" \/ m.id # 0) /\ ToHost(<<m>>),
             ~gclosed' => ~gclosed, Connected => exports'[0] = exports[0]
      PROVE  Goal
  BY <1>0, <1>1, <1>3, <1>4, WayStaysFree
<1>5. ASSUME Export PROVE exports'[0] = exports[0]
  BY <1>0, <1>5 DEF Export, TypeOK
<1> SUFFICES Goal
  OBVIOUS
<1> HIDE DEF Goal
<1>6. ASSUME NEW q \in Questions, Bootstrap(q) PROVE Goal
  BY <1>4, <1>6, NotCalls DEF Bootstrap
<1>7. ASSUME NEW q \in Questions, SignalAborts(q) PROVE Goal
  BY <1>4, <1>7, NotCalls DEF SignalAborts
<1>8. ASSUME NEW q \in Calls, NEW h \in Carriers, Call(q, h) PROVE Goal
  <2>1. capOf[h] \in CapIds
    BY <1>8, Ids DEF Call, Reachable, IInv, HandlesNameExports
  <2>2. CallFrame(q, capOf[h]) \in HostFrames /\ CallFrame(q, capOf[h]).kind # "release"
    BY <2>1, FramesTyped DEF CallFrame
  <2> QED
    BY <1>4, <1>8, <2>2 DEF Call
<1>9. ASSUME NEW h \in Carriers, Finalize(h) PROVE Goal
  <2>1. capOf[h] \in CapIds
    BY <1>9 DEF Finalize, IInv, HandlesNameExports
  <2>2. capOf[h] # 0
    <3>1. ASSUME capOf[h] = 0 PROVE FALSE
      <4>1. h = b
        BY <3>1 DEF IInv, HandlesNameExports, OneBootstrap
      <4> QED
        BY <1>0, <1>9, <4>1 DEF Finalize, TypeOK
    <3> QED
      BY <3>1
  <2>3. UNCHANGED c2s \/ ToHost(<<Release(capOf[h])>>)
    BY <1>9 DEF Finalize, SendRelease
  <2>4. Release(capOf[h]) \in HostFrames /\ Release(capOf[h]).id # 0
    BY <2>1, <2>2, NotCalls
  <2> QED
    BY <1>4, <1>9, <2>3, <2>4 DEF Finalize
<1>10. CASE HandleReturn
  <2> DEFINE m == Head(s2c)
  <2>1. m.q \in Questions /\ (UNCHANGED c2s \/ ToHost(<<FinishFrame(m.q)>>)) /\ UNCHANGED <<gclosed, exports>>
    BY <1>0, <1>10, Returned DEF Questions
  <2> HIDE DEF m
  <2> QED
    BY <1>4, <2>1, NotCalls
<1>11. CASE HandleException
  <2> DEFINE q == Head(s2c).q
  <2>1. ToHost(<<>>) \/ (q \in questions /\ ToHost(<<FinishFrame(q)>>))
    BY <1>11 DEF HandleException
  <2>2. UNCHANGED <<gclosed, exports>>
    BY <1>11 DEF HandleException
  <2> HIDE DEF q
  <2>3. q \in questions => q \in Questions
    BY <1>0 DEF TypeOK
  <2>4. ToHost(<<>>) => c2s' = c2s
    BY <1>0, SentTyped
  <2> QED
    BY <1>4, <2>1, <2>2, <2>3, <2>4, NotCalls
<1>12. CASE GuestCloses \/ GuestLosesPeer
  <2>1. gclosed'
    BY <1>12 DEF GuestCloses, GuestLosesPeer, CloseGuest
  <2> QED
    BY <2>1 DEF Goal, Connected
<1>13. ASSUME NEW q \in Calls, HandlerReturns(q) PROVE Goal
  <2>1. UNCHANGED c2s /\ UNCHANGED gclosed /\ exports'[0] = exports[0]
    BY <1>5, <1>13 DEF HandlerReturns
  <2> QED
    BY <1>4, <2>1
<1>14. ASSUME NEW p \in HostCalls, HostSendsCap(p) PROVE Goal
  BY <1>4, <1>5, <1>14 DEF HostSendsCap
<1>15. CASE HandleBootstrap
  <2>1. c2s # <<>> /\ c2s' = Tail(c2s) /\ UNCHANGED gclosed
    BY <1>15 DEF HandleBootstrap, HostGets
  <2>2. Connected => exports'[0] = exports[0]
    BY <1>0, <1>3, <1>15 DEF HandleBootstrap, TypeOK
  <2> QED
    BY <1>4, <2>1, <2>2
<1>16. CASE HandleCall \/ HandleFinish
  BY <1>4, <1>16 DEF HandleCall, HandleFinish, HostGets
<1>17. CASE HandleRelease
  <2>1. /\ Head(c2s).kind = "release" /\ c2s # <<>> /\ c2s' = Tail(c2s) /\ UNCHANGED gclosed
        /\ exports' = [exports EXCEPT ![Head(c2s).id] = IF @ = 0 THEN 0 ELSE @ - 1]
    BY <1>17 DEF HandleRelease, HostGets
  <2>2. Head(c2s) = c2s[1] /\ 1 \in 1..Len(c2s)
    BY <1>0, <2>1, Taken DEF TypeOK
  <2>3. Connected => Head(c2s).id # 0
    BY <1>3, <2>1, <2>2 DEF Releases, Connected
  <2>4. Connected => exports'[0] = exports[0]
    BY <1>0, <2>1, <2>3 DEF TypeOK
  <2> QED
    BY <1>4, <2>1, <2>4
<1>18. ASSUME CloseHost, UNCHANGED c2s \/ (c2s # <<>> /\ c2s' = Tail(c2s)) PROVE Goal
  <2>1. hclosed' /\ UNCHANGED gclosed
    BY <1>18 DEF CloseHost
  <2>2. ~gclosed' => Releases(0)' = {}
    BY <1>0, <1>3, <1>18, <2>1, WayStaysFree
  <2> QED
    BY <2>1, <2>2 DEF Goal, Connected
<1>19. CASE UNCHANGED <<c2s, gclosed, exports>>
  BY <1>4, <1>19
<1> QED
  BY <1>6, <1>7, <1>8, <1>9, <1>10, <1>11, <1>12, <1>13, <1>14, <1>15, <1>16, <1>17, <1>18, <1>19
     DEF Next, vars, Drop, HandleParams, HostCloses, HostLosesPeer, HostGets

-----------------------------------------------------------------------------
(* Calls and Releases in one queue *)

Ahead(queue, of, i) == \A k \in 1..Len(queue) :
    queue[k].kind = "release" /\ queue[k].id = of => i < k

\* CallsAhead, frame by frame.
LEMMA AheadMeans ==
    CallsAhead <=>
        (~hclosed => \A i \in 1..Len(c2s) : c2s[i].kind = "call" =>
            exports[c2s[i].id] = 1 /\ Ahead(c2s, c2s[i].id, i))
  BY DEF CallsAhead, Releases, Ahead

\* The same of the next state.
LEMMA AheadMeansNext ==
    CallsAhead' <=>
        (~hclosed' => \A i \in 1..Len(c2s') : c2s'[i].kind = "call" =>
            exports'[c2s'[i].id] = 1 /\ Ahead(c2s', c2s'[i].id, i))
  BY DEF CallsAhead, Releases, Ahead

\* What comes behind a call is no hazard to it.
LEMMA AheadSent ==
    ASSUME TypeOK, CallsAhead, NEW ms \in Seq(HostFrames), ToHost(ms),
           \A i \in 1..Len(ms) : ms[i].kind # "call", UNCHANGED <<exports, hclosed>>
    PROVE  CallsAhead'
<1> SUFFICES ASSUME ~hclosed', NEW i \in 1..Len(c2s'), c2s'[i].kind = "call"
             PROVE  exports'[c2s'[i].id] = 1 /\ Ahead(c2s', c2s'[i].id, i)
  BY AheadMeansNext
<1>1. c2s \in Seq(HostFrames) /\ ~hclosed
  BY DEF TypeOK
<1>2. CASE c2s' = c2s
  BY <1>1, <1>2, AheadMeans
<1>3. CASE c2s' = c2s \o ms
  <2>1. /\ \A k \in 1..Len(c2s) : c2s'[k] = c2s[k]
        /\ \A k \in 1..Len(ms) : c2s'[Len(c2s) + k] = ms[k]
        /\ \A k \in 1..Len(c2s') : k \in 1..Len(c2s) \/ k - Len(c2s) \in 1..Len(ms)
        /\ Len(c2s) \in Nat /\ Len(c2s') \in Nat /\ Len(ms) \in Nat
    BY <1>1, <1>3, Joined
  <2>2. \A k \in 1..Len(c2s') : k \in Int /\ k = Len(c2s) + (k - Len(c2s))
    BY <2>1
  <2>3. i \in 1..Len(c2s)
    <3>1. ASSUME i - Len(c2s) \in 1..Len(ms) PROVE FALSE
      <4>1. c2s'[Len(c2s) + (i - Len(c2s))] = ms[i - Len(c2s)]
        BY <2>1, <3>1
      <4> QED
        BY <2>2, <3>1, <4>1
    <3> QED
      BY <2>1, <3>1
  <2>4. exports[c2s[i].id] = 1 /\ Ahead(c2s, c2s[i].id, i) /\ c2s'[i] = c2s[i]
    BY <1>1, <2>1, <2>3, AheadMeans
  <2>5. ASSUME NEW k \in 1..Len(c2s'), c2s'[k].kind = "release", c2s'[k].id = c2s'[i].id
        PROVE  i < k
    <3>1. CASE k \in 1..Len(c2s)
      BY <2>1, <2>4, <2>5, <3>1 DEF Ahead
    <3>2. CASE k \notin 1..Len(c2s)
      BY <2>1, <2>2, <2>3, <3>2
    <3> QED
      BY <3>1, <3>2
  <2> QED
    BY <2>4, <2>5 DEF Ahead
<1> QED
  BY <1>2, <1>3 DEF ToHost

\* A single frame that is not a call.
LEMMA AheadSentOne ==
    ASSUME TypeOK, CallsAhead, NEW m \in HostFrames, ToHost(<<m>>), m.kind # "call",
           UNCHANGED <<exports, hclosed>>
    PROVE  CallsAhead'
<1>1. /\ <<m>> \in Seq(HostFrames)
      /\ \A i \in 1..Len(<<m>>) : <<m>>[i].kind # "call"
  OBVIOUS
<1> QED
  BY <1>1, AheadSent

\* What is taken in front of a call keeps its order.
LEMMA AheadTaken ==
    ASSUME TypeOK, CallsAhead, c2s # <<>>, c2s' = Tail(c2s), UNCHANGED hclosed,
           \A i \in 1..Len(c2s) :
              i # 1 /\ c2s[i].kind = "call" /\ exports[c2s[i].id] = 1 /\ Ahead(c2s, c2s[i].id, i)
                 => exports'[c2s[i].id] = 1
    PROVE  CallsAhead'
<1> SUFFICES ASSUME ~hclosed', NEW i \in 1..Len(c2s'), c2s'[i].kind = "call"
             PROVE  exports'[c2s'[i].id] = 1 /\ Ahead(c2s', c2s'[i].id, i)
  BY AheadMeansNext
<1>1. c2s \in Seq(HostFrames) /\ ~hclosed
  BY DEF TypeOK
<1>2. \A k \in 1..Len(c2s') : c2s'[k] = c2s[k + 1] /\ k + 1 \in 1..Len(c2s) /\ k \in Int /\ k + 1 # 1
  BY <1>1, Taken
<1>3. exports[c2s[i + 1].id] = 1 /\ Ahead(c2s, c2s[i + 1].id, i + 1)
  BY <1>1, <1>2, AheadMeans
<1>4. exports'[c2s'[i].id] = 1
  BY <1>2, <1>3
<1>5. ASSUME NEW k \in 1..Len(c2s'), c2s'[k].kind = "release", c2s'[k].id = c2s'[i].id
      PROVE  i < k
  <2>1. i + 1 < k + 1
    BY <1>2, <1>3, <1>5 DEF Ahead
  <2> QED
    BY <1>2, <2>1
<1> QED
  BY <1>4, <1>5 DEF Ahead

\* A handle that the program can use has a live export, and no Release of it
\* is on its way.
LEMMA ReachableTarget ==
    ASSUME IInv, BootstrapKept, Connected, NEW h \in Carriers, Reachable(h)
    PROVE  capOf[h] \in CapIds /\ exports[capOf[h]] = 1 /\ Releases(capOf[h]) = {}
<1>1. capOf[h] \in CapIds /\ (capOf[h] = 0 => h \in Bootstraps)
  BY Ids DEF Reachable, IInv, HandlesNameExports
<1>2. CASE capOf[h] = 0
  <2>1. h \in Bootstraps /\ handle[h] # "gone"
    BY <1>1, <1>2 DEF Reachable
  <2> QED
    BY <1>1, <1>2, <2>1 DEF BootstrapKept, Connected
<1>3. CASE capOf[h] # 0
  <2>1. h \in Holders(capOf[h])
    BY <1>3 DEF Reachable, Holders, IInv, HandlesNameExports
  <2>2. PICK c, n, r, e, l :
           /\ c = Cardinality(Coming(capOf[h])) /\ n = Cardinality(Holders(capOf[h]))
           /\ r = Cardinality(Releases(capOf[h])) /\ e = exports[capOf[h]]
           /\ l = IF capOf[h] \in lost THEN 1 ELSE 0
    OBVIOUS
  <2>3. /\ IsFiniteSet(Holders(capOf[h])) /\ c \in Nat /\ n \in Nat /\ r \in Nat
        /\ l \in {0, 1} /\ e \in {0, 1}
    BY <1>1, <2>2, Places DEF IInv, TypeOK
  <2>4. n # 0
    BY <2>1, <2>2, <2>3, FS_EmptySet
  <2>5. e = c + n + r + l
    BY <1>1, <1>3, <2>2 DEF IInv, RefcountsAccounted, References
  <2>6. e = 1 /\ r = 0
    BY <2>3, <2>4, <2>5
  <2>7. IsFiniteSet(Releases(capOf[h]))
    <3>1. c2s \in Seq(HostFrames)
      BY DEF IInv, TypeOK
    <3>2. Releases(capOf[h]) = Positions(c2s, Releasing(capOf[h]))
      BY Places DEF IInv
    <3> QED
      BY <3>1, <3>2, PositionsCount
  <2> QED
    BY <1>1, <2>2, <2>6, <2>7, FS_EmptySet
<1> QED
  BY <1>2, <1>3

\* Calls in flight stay ahead of the Release of what they are on.
LEMMA CallsAheadStep ==
    IInv /\ BootstrapKept /\ CallsAhead /\ [Next]_vars => CallsAhead'
<1> SUFFICES ASSUME IInv, BootstrapKept, CallsAhead, [Next]_vars PROVE CallsAhead'
  OBVIOUS
<1>0. TypeOK /\ 0 \in CapIds
  BY Ids DEF IInv
<1>a. ASSUME UNCHANGED <<c2s, hclosed>>, \A id \in CapIds : exports[id] = 1 => exports'[id] = 1
      PROVE  CallsAhead'
  <2>1. \A i \in 1..Len(c2s) : c2s[i].kind = "call" => c2s[i].id \in CapIds
    BY <1>0, HostFrameFields DEF TypeOK
  <2> QED
    BY <1>a, <2>1 DEF CallsAhead, Releases
<1>b. ASSUME Export PROVE \A id \in CapIds : exports[id] = 1 => exports'[id] = 1
  BY <1>0, <1>b DEF Export, TypeOK
<1>1. ASSUME NEW q \in Questions, Bootstrap(q) PROVE CallsAhead'
  BY <1>0, <1>1, NotCalls, AheadSentOne DEF Bootstrap
<1>2. ASSUME NEW q \in Questions, SignalAborts(q) PROVE CallsAhead'
  BY <1>0, <1>2, NotCalls, AheadSentOne DEF SignalAborts
<1>3. ASSUME NEW q \in Calls, NEW h \in Carriers, Call(q, h) PROVE CallsAhead'
  <2>1. capOf[h] \in CapIds /\ Reachable(h) /\ UNCHANGED <<exports, hclosed>>
    BY <1>3, Ids DEF Call, Reachable, IInv, HandlesNameExports
  <2>2. CASE c2s' = c2s
    BY <1>a, <2>1, <2>2
  <2>3. CASE Connected
    <3>1. exports[capOf[h]] = 1 /\ Releases(capOf[h]) = {}
      BY <2>1, <2>3, ReachableTarget
    <3>2. /\ Len(c2s) \in Nat
          /\ \A i \in 1..Len(c2s') : i = Len(c2s) + 1 \/ (i \in 1..Len(c2s) /\ c2s'[i] = c2s[i])
          /\ c2s'[Len(c2s) + 1] = CallFrame(q, capOf[h])
      BY <1>0, <1>3, <2>1, <2>3, CallSent
    <3>3. CallFrame(q, capOf[h]).kind = "call" /\ CallFrame(q, capOf[h]).id = capOf[h]
      BY DEF CallFrame
    <3> SUFFICES ASSUME ~hclosed', NEW i \in 1..Len(c2s'), c2s'[i].kind = "call"
                 PROVE  exports'[c2s'[i].id] = 1 /\ Ahead(c2s', c2s'[i].id, i)
      BY AheadMeansNext
    <3>4. CASE i = Len(c2s) + 1
      <4>1. c2s'[i].id = capOf[h]
        BY <3>2, <3>3, <3>4
      <4>2. \A k \in 1..Len(c2s') : ~(c2s'[k].kind = "release" /\ c2s'[k].id = capOf[h])
        BY <3>1, <3>2, <3>3 DEF Releases
      <4> QED
        BY <2>1, <3>1, <4>1, <4>2 DEF Ahead
    <3>5. CASE i \in 1..Len(c2s) /\ c2s'[i] = c2s[i]
      <4>1. exports[c2s[i].id] = 1 /\ Ahead(c2s, c2s[i].id, i)
        BY <2>1, <3>5, AheadMeans
      <4>2. Ahead(c2s', c2s'[i].id, i)
        BY <3>2, <3>3, <3>5, <4>1 DEF Ahead
      <4> QED
        BY <2>1, <3>5, <4>1, <4>2
    <3> QED
      BY <3>2, <3>4, <3>5
  <2> QED
    BY <1>0, <1>3, <2>1, <2>2, <2>3, CallSent
<1>4. ASSUME NEW h \in Carriers, Finalize(h) PROVE CallsAhead'
  <2>1. capOf[h] \in CapIds
    BY <1>4 DEF Finalize, IInv, HandlesNameExports
  <2>2. (UNCHANGED c2s \/ ToHost(<<Release(capOf[h])>>)) /\ UNCHANGED <<exports, hclosed>>
    BY <1>4 DEF Finalize, SendRelease
  <2> QED
    BY <1>0, <1>a, <2>1, <2>2, NotCalls, AheadSentOne
<1>5. CASE HandleReturn
  <2> DEFINE m == Head(s2c)
  <2>1. m.q \in Questions /\ (UNCHANGED c2s \/ ToHost(<<FinishFrame(m.q)>>)) /\ UNCHANGED <<exports, hclosed>>
    BY <1>0, <1>5, Returned DEF Questions
  <2> HIDE DEF m
  <2> QED
    BY <1>0, <1>a, <2>1, NotCalls, AheadSentOne
<1>6. CASE HandleException
  <2> DEFINE q == Head(s2c).q
  <2>1. ToHost(<<>>) \/ (q \in questions /\ ToHost(<<FinishFrame(q)>>))
    BY <1>6 DEF HandleException
  <2>2. UNCHANGED <<exports, hclosed>>
    BY <1>6 DEF HandleException
  <2> HIDE DEF q
  <2>3. q \in questions => q \in Questions
    BY <1>0 DEF TypeOK
  <2>4. ToHost(<<>>) => c2s' = c2s
    BY <1>0, SentTyped
  <2> QED
    BY <1>0, <1>a, <2>1, <2>2, <2>3, <2>4, NotCalls, AheadSentOne
<1>7. CASE GuestCloses \/ GuestLosesPeer
  <2>1. CloseGuest
    BY <1>7 DEF GuestCloses, GuestLosesPeer
  <2>2. PICK ids \in SetToSeqs(imports) : ToHost([i \in 1..Len(ids) |-> Release(ids[i])] \o <<Fin>>)
    BY <2>1 DEF CloseGuest
  <2> DEFINE ms == [i \in 1..Len(ids) |-> Release(ids[i])] \o <<Fin>>
  <2>3. ms \in Seq(HostFrames) /\ \A i \in 1..Len(ms) : ms[i].kind \in {"release", "fin"}
    BY <1>0, ClosingFrames DEF TypeOK
  <2>4. ToHost(ms)
    BY <2>2
  <2> HIDE DEF ms
  <2> QED
    BY <1>0, <2>1, <2>3, <2>4, AheadSent DEF CloseGuest
<1>8. ASSUME NEW q \in Calls, HandlerReturns(q) PROVE CallsAhead'
  <2>1. UNCHANGED <<c2s, hclosed>> /\ (Export \/ UNCHANGED exports)
    BY <1>8 DEF HandlerReturns
  <2> QED
    BY <1>a, <1>b, <2>1
<1>9. ASSUME NEW p \in HostCalls, HostSendsCap(p) PROVE CallsAhead'
  BY <1>a, <1>b, <1>9 DEF HostSendsCap
<1>10. CASE HandleBootstrap
  <2>1. c2s # <<>> /\ c2s' = Tail(c2s) /\ UNCHANGED hclosed
    BY <1>10 DEF HandleBootstrap, HostGets
  <2>2. \A id \in CapIds : exports[id] = 1 => exports'[id] = 1
    BY <1>0, <1>10 DEF HandleBootstrap, TypeOK
  <2>3. \A i \in 1..Len(c2s) : c2s[i].kind = "call" => c2s[i].id \in CapIds
    BY <1>0, HostFrameFields DEF TypeOK
  <2> QED
    BY <1>0, <2>1, <2>2, <2>3, AheadTaken
<1>11. CASE HandleCall \/ HandleFinish
  BY <1>0, <1>11, AheadTaken DEF HandleCall, HandleFinish, HostGets
<1>12. CASE HandleRelease
  <2> DEFINE m == Head(c2s)
  <2>1. /\ m.kind = "release" /\ c2s # <<>> /\ c2s' = Tail(c2s) /\ UNCHANGED hclosed
        /\ exports' = [exports EXCEPT ![m.id] = IF @ = 0 THEN 0 ELSE @ - 1]
    BY <1>12 DEF HandleRelease, HostGets
  <2>2. m = c2s[1] /\ 1 \in 1..Len(c2s)
    BY <1>0, <2>1, Taken DEF TypeOK
  <2> HIDE DEF m
  <2>3. ASSUME NEW i \in 1..Len(c2s), i # 1, c2s[i].kind = "call", exports[c2s[i].id] = 1,
               Ahead(c2s, c2s[i].id, i)
        PROVE  exports'[c2s[i].id] = 1
    <3>1. ~(i < 1)
      OBVIOUS
    <3>2. c2s[i].id # m.id
      BY <2>1, <2>2, <2>3, <3>1 DEF Ahead
    <3>3. c2s[i].id \in CapIds
      BY <1>0, <2>3, HostFrameFields DEF TypeOK
    <3> QED
      BY <1>0, <2>1, <2>3, <3>2, <3>3 DEF TypeOK
  <2> QED
    BY <1>0, <2>1, <2>3, AheadTaken DEF m
<1>13. ASSUME CloseHost PROVE CallsAhead'
  BY <1>13 DEF CloseHost, CallsAhead
<1>14. CASE UNCHANGED <<c2s, exports, hclosed>>
  BY <1>a, <1>14
<1> QED
  BY <1>1, <1>2, <1>3, <1>4, <1>5, <1>6, <1>7, <1>8, <1>9, <1>10, <1>11, <1>12, <1>13, <1>14
     DEF Next, vars, Drop, HandleParams, HostCloses, HostLosesPeer

\* With one bootstrap question, the rest is inductive too.
LEMMA SingleStep ==
    ASSUME OneBootstrap
    PROVE  IInv /\ SingleInv /\ [Next]_vars => SingleInv'
<1>1. IInv /\ [Next]_vars => TypeOK'
  BY TypeStep
<1> QED
  BY <1>1, ImportsMatchStep, BootstrapKeptStep, CallsAheadStep DEF SingleInv

\* The rest holds at first.
LEMMA InitSingle == Init => SingleInv
<1> SUFFICES ASSUME Init PROVE SingleInv
  OBVIOUS
<1>1. \A id \in CapIds : Releases(id) = {} /\ Holders(id) = {} /\ imports = {}
  BY DEF Init, Releases, Holders
<1>2. 0 \in CapIds /\ exports[0] = 1 /\ c2s = <<>>
  BY Ids DEF Init
<1> QED
  BY <1>1, <1>2 DEF SingleInv, ImportsMatchHandles, BootstrapKept, CallsAhead

\* While one question asks for the bootstrap, the guest's table of imports is
\* exactly that of the handles whose finalizer is due, ...
THEOREM TablesAgree ==
    ASSUME OneBootstrap
    PROVE  Spec => []CapsInv
<1>1. Init => SingleInv
  BY InitSingle
<1>2. IInv /\ SingleInv /\ [Next]_vars => SingleInv'
  BY SingleStep
<1>3. IInv /\ SingleInv => CapsInv
  BY DEF IInv, SingleInv, CapsInv
<1> QED
  BY <1>1, <1>2, <1>3, Inductive, PTL DEF Spec

\* ... and no call made on a handle the guest held meets an empty slot.
THEOREM CallsReach ==
    ASSUME OneBootstrap
    PROVE  Spec => []CallsFindTheirTarget
<1>1. Init => SingleInv
  BY InitSingle
<1>2. IInv /\ SingleInv /\ [Next]_vars => SingleInv'
  BY SingleStep
<1>3. IInv /\ SingleInv => CallsFindTheirTarget
  <2> SUFFICES ASSUME IInv, SingleInv, ~hclosed, c2s # <<>>, Head(c2s).kind = "call"
               PROVE  exports[Head(c2s).id] > 0
    BY DEF CallsFindTheirTarget
  <2>1. Head(c2s) = c2s[1] /\ 1 \in 1..Len(c2s)
    BY Taken DEF IInv, TypeOK
  <2>2. exports[Head(c2s).id] = 1
    BY <2>1 DEF SingleInv, CallsAhead
  <2> QED
    BY <2>2
<1> QED
  BY <1>1, <1>2, <1>3, Inductive, PTL DEF Spec

=============================================================================
