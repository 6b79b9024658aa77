--------------------------- MODULE RpcCalls_proofs ---------------------------
(***************************************************************************)
(* Theorems about RpcCalls, for every set of questions and every choice of *)
(* the other constants.                                                    *)
(***************************************************************************)
EXTENDS RpcCalls, TLAPS

\* A queue starts well typed.
LEMMA EmptyTyped ==
    ASSUME NEW S
    PROVE  <<>> \in Seq(S)
  OBVIOUS

\* Appending a frame keeps a queue well typed, whether or not it is carried.
LEMMA AppendTyped ==
    ASSUME NEW S, NEW s \in Seq(S), NEW m \in S
    PROVE  Append(s, m) \in Seq(S)
  OBVIOUS

\* What the transport still delivers of a broken direction is well typed.
LEMMA PrefixTyped ==
    ASSUME NEW S, NEW s \in Seq(S), NEW n \in 0..Len(s)
    PROVE  SubSeq(s, 1, n) \in Seq(S)
  OBVIOUS

LEMMA HeadTailTyped ==
    ASSUME NEW S, NEW s \in Seq(S), s # <<>>
    PROVE  Head(s) \in S /\ Tail(s) \in Seq(S)
  OBVIOUS

USE DEF clientVars, serverVars

\* The frames each constructor yields.
LEMMA FramesTyped ==
    /\ \A q \in Questions : /\ Frame("bootstrap", q, None) \in ClientFrames
                            /\ Frame("finish", q, None) \in ClientFrames
                            /\ \A t \in Questions \cup {ImportedCap} :
                                  Frame("call", q, t) \in ClientFrames
                            /\ \A o \in {"ok", "err"} : Frame("return", q, o) \in ServerFrames
    /\ Fin \in ClientFrames /\ Abort \in ClientFrames
    /\ Fin \in ServerFrames /\ Abort \in ServerFrames
  BY DEF Frame, ClientFrames, ServerFrames, FrameSet, Fin, Abort

\* The kind of a frame fixes its other fields.
LEMMA FrameKinds ==
    /\ \A m \in ClientFrames :
          /\ m.kind \in {"bootstrap", "finish", "call"} => m.q \in Questions
          /\ m.kind = "call" => m.arg \in Questions \cup {ImportedCap}
    /\ \A m \in ServerFrames :
          m.kind = "return" => m.q \in Questions /\ m.arg \in {"ok", "err"}
  BY DEF ClientFrames, ServerFrames, FrameSet

-----------------------------------------------------------------------------
(* Type correctness *)

\* Sending keeps the queues well typed.
LEMMA SendTyped ==
    ASSUME NEW m
    PROVE  /\ m \in ClientFrames /\ c2s \in Seq(ClientFrames) /\ ToServer(m) => c2s' \in Seq(ClientFrames)
           /\ m \in ServerFrames /\ s2c \in Seq(ServerFrames) /\ ToClient(m) => s2c' \in Seq(ServerFrames)
  BY AppendTyped DEF ToServer, ToClient

\* #sendException and the dispatch keep the types they touch.
LEMMA DispatchTyped ==
    ASSUME TypeOK, NEW q \in Questions, NEW table \in [Questions -> Records \cup {None}],
           Dispatch(q, table) \/ SendException(q, table)
    PROVE  /\ ready' \in [Records -> {"pending", "resolved", "rejected"}]
           /\ handler' \in [Questions -> {"none", "waiting", "running", "done", "failed", "unsent"}]
           /\ s2c' \in Seq(ServerFrames)
<1>1. CASE SendException(q, table)
  <2>1. s2c' \in Seq(ServerFrames)
    BY <1>1, SendTyped, FramesTyped DEF SendException, TypeOK
  <2> QED
    BY <1>1, <2>1 DEF SendException, TypeOK
<1>2. CASE handler' = [handler EXCEPT ![q] = "running"] /\ UNCHANGED <<ready, s2c>>
  BY <1>2 DEF TypeOK
<1> QED
  BY <1>1, <1>2 DEF Dispatch

\* Creating a record on demand keeps the table a table of records.
LEMMA GetOrCreateTyped ==
    ASSUME NEW table \in [Questions -> Records \cup {None}], NEW k \in Questions, NEW r \in Records
    PROVE  GetOrCreate(table, k, r) \in [Questions -> Records \cup {None}]
  BY DEF GetOrCreate

\* Both ends' close() keeps the types.
LEMMA CloseTyped ==
    ASSUME TypeOK, NEW m, m = Fin \/ m = Abort
    PROVE  /\ CloseClient(m) => TypeOK'
           /\ CloseServer(m) /\ ready' \in [Records -> {"pending", "resolved", "rejected"}] => TypeOK'
<1>1. m \in ClientFrames /\ m \in ServerFrames
  BY FramesTyped
<1>2. ASSUME CloseClient(m) PROVE TypeOK'
  <2>1. c2s' \in Seq(ClientFrames)
    BY <1>1, <1>2, SendTyped DEF CloseClient, TypeOK
  <2> QED
    BY <1>2, <2>1 DEF CloseClient, TypeOK
<1>3. ASSUME CloseServer(m), ready' \in [Records -> {"pending", "resolved", "rejected"}] PROVE TypeOK'
  <2>1. s2c' \in Seq(ServerFrames)
    BY <1>1, <1>3, SendTyped DEF CloseServer, TypeOK
  <2> QED
    BY <1>3, <2>1 DEF CloseServer, TypeOK
<1> QED
  BY <1>2, <1>3

LEMMA TypeStep == TypeOK /\ [Next]_vars => TypeOK'
<1> SUFFICES ASSUME TypeOK, [Next]_vars PROVE TypeOK'
  OBVIOUS
<1>1. ASSUME NEW q \in Questions, Bootstrap(q) PROVE TypeOK'
  <2>1. c2s' \in Seq(ClientFrames)
    BY <1>1, SendTyped, FramesTyped DEF Bootstrap, TypeOK
  <2> QED
    BY <1>1, <2>1 DEF Bootstrap, Issue, TypeOK, Sentinels
<1>2. ASSUME NEW q \in Questions, NEW t \in Questions \cup {ImportedCap}, Call(q, t) PROVE TypeOK'
  <2>1. c2s' \in Seq(ClientFrames)
    BY <1>2, SendTyped, FramesTyped DEF Call, TypeOK
  <2> QED
    BY <1>2, <2>1 DEF Call, Issue, TypeOK, Sentinels
<1>3. ASSUME NEW q \in Questions, SignalAborts(q) PROVE TypeOK'
  <2>1. c2s' \in Seq(ClientFrames)
    BY <1>3, SendTyped, FramesTyped DEF SignalAborts, TypeOK
  <2> QED
    BY <1>3, <2>1 DEF SignalAborts, TypeOK
<1>4. CASE HandleReturn
  <2>1. /\ Head(s2c) \in ServerFrames /\ s2c' \in Seq(ServerFrames)
        /\ Head(s2c).q \in Questions /\ Head(s2c).arg \in {"ok", "err"}
    BY <1>4, HeadTailTyped, FrameKinds DEF HandleReturn, ClientGets, TypeOK
  <2>2. c2s' \in Seq(ClientFrames)
    BY <1>4, <2>1, SendTyped, FramesTyped DEF HandleReturn, TypeOK
  <2> QED
    BY <1>4, <2>1, <2>2 DEF HandleReturn, TypeOK
<1>5. CASE ClientLosesPeer \/ ClientCloses
  BY <1>5, CloseTyped DEF ClientLosesPeer, ClientCloses
<1>6. CASE HandleBootstrap
  <2>1. Head(c2s).q \in Questions /\ c2s' \in Seq(ClientFrames)
    BY <1>6, HeadTailTyped, FrameKinds DEF HandleBootstrap, ServerGets, TypeOK
  <2>2. s2c' \in Seq(ServerFrames)
    BY <1>6, <2>1, SendTyped, FramesTyped DEF HandleBootstrap, TypeOK
  <2> QED
    BY <1>6, <2>1, <2>2 DEF HandleBootstrap, TypeOK
<1>7. CASE HandleCall
  <2> DEFINE q == Head(c2s).q
             t == Head(c2s).arg
             own == GetOrCreate(answers, q, <<q, "own">>)
  <2>1. q \in Questions /\ t \in Questions \cup {ImportedCap} /\ c2s' \in Seq(ClientFrames)
    BY <1>7, HeadTailTyped, FrameKinds DEF HandleCall, ServerGets, TypeOK
  <2>2. own \in [Questions -> Records \cup {None}]
    BY <2>1, GetOrCreateTyped DEF TypeOK, Records
  <2>3. stash' \in [Questions -> Records \cup {None}]
    BY <1>7, <2>1, <2>2 DEF HandleCall, TypeOK
  <2>4. CASE t = ImportedCap /\ answers' = own /\ UNCHANGED awaits /\ Dispatch(q, own)
    <3>1. /\ ready' \in [Records -> {"pending", "resolved", "rejected"}]
          /\ handler' \in [Questions -> {"none", "waiting", "running", "done", "failed", "unsent"}]
          /\ s2c' \in Seq(ServerFrames)
      BY <2>1, <2>2, <2>4, DispatchTyped
    <3> QED
      BY <1>7, <2>1, <2>2, <2>3, <2>4, <3>1 DEF HandleCall, TypeOK
  <2>5. CASE /\ t \in Questions
             /\ answers' = GetOrCreate(own, t, <<q, "target">>)
             /\ awaits' = [awaits EXCEPT ![q] = answers'[t]]
             /\ IF ready[answers'[t]] = "resolved"
                THEN Dispatch(q, answers')
                ELSE /\ handler' = [handler EXCEPT ![q] = "waiting"]
                     /\ UNCHANGED <<ready, s2c>>
    <3>1. answers' \in [Questions -> Records \cup {None}]
      BY <2>1, <2>2, <2>5, GetOrCreateTyped DEF Records
    <3>2. awaits' \in [Questions -> Records \cup {None}]
      BY <2>5, <3>1 DEF TypeOK
    <3>3. /\ ready' \in [Records -> {"pending", "resolved", "rejected"}]
          /\ handler' \in [Questions -> {"none", "waiting", "running", "done", "failed", "unsent"}]
          /\ s2c' \in Seq(ServerFrames)
      <4>1. CASE Dispatch(q, answers')
        BY <2>1, <3>1, <4>1, DispatchTyped
      <4>2. CASE ~Dispatch(q, answers')
        BY <2>1, <2>5, <4>2 DEF TypeOK
      <4> QED
        BY <4>1, <4>2
    <3> QED
      BY <1>7, <2>1, <2>3, <3>1, <3>2, <3>3 DEF HandleCall, TypeOK
  <2> QED
    BY <1>7, <2>4, <2>5 DEF HandleCall
<1>8. CASE HandleFinish
  BY <1>8, HeadTailTyped DEF HandleFinish, ServerGets, TypeOK
<1>9. CASE ServerLosesPeer \/ ServerCloses
  BY <1>9, CloseTyped DEF ServerLosesPeer, ServerCloses, TypeOK
<1>10. CASE HandleAbort
  <2>1. ready' \in [Records -> {"pending", "resolved", "rejected"}]
    BY <1>10 DEF HandleAbort, TypeOK
  <2> QED
    BY <1>10, <2>1, CloseTyped DEF HandleAbort
<1>11. ASSUME NEW q \in Questions, ResumePipelined(q) PROVE TypeOK'
  <2>1. Dispatch(q, answers) \/ SendException(q, answers)
    BY <1>11 DEF ResumePipelined
  <2>2. answers \in [Questions -> Records \cup {None}]
    BY DEF TypeOK
  <2> QED
    BY <1>11, <2>1, <2>2, DispatchTyped DEF ResumePipelined, TypeOK
<1>12. ASSUME NEW q \in Questions, HandlerReturns(q) PROVE TypeOK'
  <2>1. CASE SendException(q, answers)
    <3>1. answers \in [Questions -> Records \cup {None}]
      BY DEF TypeOK
    <3> QED
      BY <1>12, <2>1, <3>1, DispatchTyped DEF HandlerReturns, TypeOK
  <2>2. CASE HandlerSucceeds(q)
    <3>1. s2c' \in Seq(ServerFrames)
      BY <2>2, SendTyped, FramesTyped DEF HandlerSucceeds, TypeOK
    <3> QED
      BY <1>12, <2>2, <3>1 DEF HandlerReturns, HandlerSucceeds, Resolved, TypeOK
  <2>3. CASE HandlerOverflows(q)
    BY <1>12, <2>3 DEF HandlerReturns, HandlerOverflows, Resolved, TypeOK
  <2> QED
    BY <1>12, <2>1, <2>2, <2>3 DEF HandlerReturns
<1>13. CASE PeerAborts
  BY <1>13, CloseTyped DEF PeerAborts, TypeOK
<1>14. CASE Disconnect
  <2>1. c2s' \in Seq(ClientFrames)
    BY <1>14, PrefixTyped, AppendTyped, FramesTyped DEF Disconnect, TypeOK
  <2>2. s2c' \in Seq(ServerFrames)
    BY <1>14, PrefixTyped, AppendTyped, FramesTyped DEF Disconnect, TypeOK
  <2> QED
    BY <1>14, <2>1, <2>2 DEF Disconnect, TypeOK
<1>15. CASE UNCHANGED vars
  BY <1>15 DEF vars, TypeOK
<1> QED
  BY <1>1, <1>2, <1>3, <1>4, <1>5, <1>6, <1>7, <1>8, <1>9, <1>10, <1>11, <1>12, <1>13,
     <1>14, <1>15 DEF Next, ClientStep, ServerStep

LEMMA InitTyped == Init => TypeOK
<1> SUFFICES ASSUME Init PROVE TypeOK
  OBVIOUS
<1>1. c2s \in Seq(ClientFrames) /\ s2c \in Seq(ServerFrames)
  BY EmptyTyped DEF Init
<1>2. cclosed \in BOOLEAN /\ sclosed \in BOOLEAN /\ linkUp \in BOOLEAN
  BY DEF Init
<1>3. /\ target \in [Questions -> Questions \cup Sentinels]
      /\ promise \in [Questions -> {"unused", "pending", "ok", "err"}]
      /\ questions \subseteq Questions
  BY DEF Init, Sentinels
<1>4. /\ answers \in [Questions -> Records \cup {None}]
      /\ ready \in [Records -> {"pending", "resolved", "rejected"}]
      /\ stash \in [Questions -> Records \cup {None}]
      /\ awaits \in [Questions -> Records \cup {None}]
      /\ handler \in [Questions -> {"none", "waiting", "running", "done", "failed", "unsent"}]
  BY DEF Init
<1> QED
  BY <1>1, <1>2, <1>3, <1>4 DEF TypeOK

\* Every variable of the two sessions and of the wire keeps its type.
THEOREM TypeCorrect == Spec => []TypeOK
  BY InitTyped, TypeStep, PTL DEF Spec

-----------------------------------------------------------------------------
(* Sequences by index *)

LEMMA AppendAt ==
    ASSUME NEW S, NEW s \in Seq(S), NEW m \in S
    PROVE  /\ Len(Append(s, m)) = Len(s) + 1
           /\ \A i \in 1..Len(s) : Append(s, m)[i] = s[i]
           /\ Append(s, m)[Len(s) + 1] = m
  OBVIOUS

LEMMA TailAt ==
    ASSUME NEW S, NEW s \in Seq(S), s # <<>>
    PROVE  /\ Len(s) \in Nat /\ Len(s) >= 1
           /\ Head(s) = s[1]
           /\ Len(Tail(s)) = Len(s) - 1
           /\ \A i \in 1..(Len(s) - 1) : Tail(s)[i] = s[i + 1]
  OBVIOUS

LEMMA PrefixAt ==
    ASSUME NEW S, NEW s \in Seq(S), NEW n \in 0..Len(s)
    PROVE  /\ Len(SubSeq(s, 1, n)) = n
           /\ \A i \in 1..n : SubSeq(s, 1, n)[i] = s[i]
  OBVIOUS

-----------------------------------------------------------------------------
(* What the two directions of the wire say, as predicates of the wire and  *)
(* of the two functions they are compared with.                            *)

Fresh(w, t, h) ==
    \A i \in 1..Len(w) :
        /\ w[i].kind = "bootstrap" => t[w[i].q] = BootstrapCap
        /\ w[i].kind = "call" =>
              /\ w[i].arg = t[w[i].q]
              /\ h[w[i].q] = "none"
              /\ \A j \in 1..Len(w) :
                    w[j].kind = "call" /\ w[j].q = w[i].q => j = i

Truthful(w, t, h) ==
    \A i \in 1..Len(w) :
        w[i].kind = "return" /\ w[i].arg = "ok" =>
            h[w[i].q] = "done" \/ t[w[i].q] = BootstrapCap

LEMMA WireParts ==
    /\ RequestsAreFresh <=> Fresh(c2s, target, handler)
    /\ RequestsAreFresh' <=> Fresh(c2s', target', handler')
    /\ RepliesAreTrue <=> Truthful(s2c, target, handler)
    /\ RepliesAreTrue' <=> Truthful(s2c', target', handler')
  BY DEF RequestsAreFresh, RepliesAreTrue, Fresh, Truthful

\* A request may be appended once, as it was issued and before it is handled;
\* other frames may be appended at any time.
LEMMA FreshAppend ==
    ASSUME NEW w \in Seq(ClientFrames), NEW t, NEW h, Fresh(w, t, h), NEW m \in ClientFrames,
           m.kind = "bootstrap" => t[m.q] = BootstrapCap,
           m.kind = "call" => /\ m.arg = t[m.q] /\ h[m.q] = "none"
                              /\ \A i \in 1..Len(w) : w[i].kind = "call" => w[i].q # m.q
    PROVE  Fresh(Append(w, m), t, h)
<1> DEFINE x == Append(w, m)
<1>1. /\ Len(w) \in Nat /\ Len(x) = Len(w) + 1
      /\ \A i \in 1..Len(w) : x[i] = w[i]
      /\ x[Len(w) + 1] = m
  BY AppendAt
<1> HIDE DEF x
<1>2. \A i \in 1..Len(x) : i \in 1..Len(w) \/ i = Len(w) + 1
  BY <1>1
<1> QED
  BY <1>1, <1>2 DEF Fresh, x

LEMMA FreshTail ==
    ASSUME NEW w \in Seq(ClientFrames), NEW t, NEW h, Fresh(w, t, h), w # <<>>
    PROVE  Fresh(Tail(w), t, h)
<1> DEFINE x == Tail(w)
<1>1. /\ Len(w) \in Nat /\ Len(x) = Len(w) - 1
      /\ \A i \in 1..Len(x) : x[i] = w[i + 1] /\ i + 1 \in 1..Len(w)
  BY TailAt
<1> HIDE DEF x
<1> SUFFICES ASSUME NEW i \in 1..Len(x)
             PROVE  /\ x[i].kind = "bootstrap" => t[x[i].q] = BootstrapCap
                    /\ x[i].kind = "call" =>
                          /\ x[i].arg = t[x[i].q]
                          /\ h[x[i].q] = "none"
                          /\ \A j \in 1..Len(x) :
                                x[j].kind = "call" /\ x[j].q = x[i].q => j = i
  BY DEF Fresh, x
<1>2. /\ w[i + 1].kind = "bootstrap" => t[w[i + 1].q] = BootstrapCap
      /\ w[i + 1].kind = "call" =>
            /\ w[i + 1].arg = t[w[i + 1].q]
            /\ h[w[i + 1].q] = "none"
            /\ \A j \in 1..Len(w) : w[j].kind = "call" /\ w[j].q = w[i + 1].q => j = i + 1
  BY <1>1 DEF Fresh
<1>3. ASSUME NEW j \in 1..Len(x), x[i].kind = "call", x[j].kind = "call", x[j].q = x[i].q
      PROVE  j = i
  <2>1. j + 1 = i + 1
    BY <1>1, <1>2, <1>3
  <2> QED
    BY <2>1
<1> QED
  BY <1>1, <1>2, <1>3

LEMMA FreshPrefix ==
    ASSUME NEW w \in Seq(ClientFrames), NEW t, NEW h, Fresh(w, t, h), NEW n \in 0..Len(w)
    PROVE  Fresh(SubSeq(w, 1, n), t, h)
<1> DEFINE x == SubSeq(w, 1, n)
<1>1. /\ Len(w) \in Nat /\ Len(x) = n
      /\ \A i \in 1..Len(x) : x[i] = w[i] /\ i \in 1..Len(w)
  BY PrefixAt
<1> HIDE DEF x
<1> QED
  BY <1>1 DEF Fresh, x

LEMMA TruthfulAppend ==
    ASSUME NEW w \in Seq(ServerFrames), NEW t, NEW h, Truthful(w, t, h), NEW m \in ServerFrames,
           m.kind = "return" /\ m.arg = "ok" => h[m.q] = "done" \/ t[m.q] = BootstrapCap
    PROVE  Truthful(Append(w, m), t, h)
<1> DEFINE x == Append(w, m)
<1>1. /\ Len(w) \in Nat /\ Len(x) = Len(w) + 1
      /\ \A i \in 1..Len(w) : x[i] = w[i]
      /\ x[Len(w) + 1] = m
  BY AppendAt
<1> HIDE DEF x
<1>2. \A i \in 1..Len(x) : i \in 1..Len(w) \/ i = Len(w) + 1
  BY <1>1
<1> QED
  BY <1>1, <1>2 DEF Truthful, x

LEMMA TruthfulTail ==
    ASSUME NEW w \in Seq(ServerFrames), NEW t, NEW h, Truthful(w, t, h), w # <<>>
    PROVE  Truthful(Tail(w), t, h)
<1> DEFINE x == Tail(w)
<1>1. /\ Len(w) \in Nat /\ Len(x) = Len(w) - 1
      /\ \A i \in 1..Len(x) : x[i] = w[i + 1] /\ i + 1 \in 1..Len(w)
  BY TailAt
<1> HIDE DEF x
<1> QED
  BY <1>1 DEF Truthful, x

LEMMA TruthfulPrefix ==
    ASSUME NEW w \in Seq(ServerFrames), NEW t, NEW h, Truthful(w, t, h), NEW n \in 0..Len(w)
    PROVE  Truthful(SubSeq(w, 1, n), t, h)
<1> DEFINE x == SubSeq(w, 1, n)
<1>1. /\ Len(w) \in Nat /\ Len(x) = n
      /\ \A i \in 1..Len(x) : x[i] = w[i] /\ i \in 1..Len(w)
  BY PrefixAt
<1> HIDE DEF x
<1> QED
  BY <1>1 DEF Truthful, x

LEMMA EmptyWires ==
    ASSUME NEW t, NEW h
    PROVE  Fresh(<<>>, t, h) /\ Truthful(<<>>, t, h)
  BY DEF Fresh, Truthful

\* Neither predicate is disturbed by functions that agree where it looks.
LEMMA FreshMoves ==
    ASSUME NEW w \in Seq(ClientFrames), NEW t, NEW h, NEW t2, NEW h2, Fresh(w, t, h),
           \A q \in Questions : t[q] = BootstrapCap => t2[q] = BootstrapCap,
           \A q \in Questions : t[q] \in Questions \cup {ImportedCap} => t2[q] = t[q],
           \A i \in 1..Len(w) : w[i].kind = "call" => h2[w[i].q] = "none"
    PROVE  Fresh(w, t2, h2)
<1>1. \A i \in 1..Len(w) : w[i] \in ClientFrames
  OBVIOUS
<1> QED
  BY <1>1, FrameKinds DEF Fresh

LEMMA TruthfulMoves ==
    ASSUME NEW w \in Seq(ServerFrames), NEW t, NEW h, NEW t2, NEW h2, Truthful(w, t, h),
           \A q \in Questions : t[q] = BootstrapCap => t2[q] = BootstrapCap,
           \A q \in Questions : h[q] = "done" => h2[q] = "done"
    PROVE  Truthful(w, t2, h2)
<1>1. \A i \in 1..Len(w) : w[i] \in ServerFrames
  OBVIOUS
<1> QED
  BY <1>1, FrameKinds DEF Truthful

-----------------------------------------------------------------------------
(* Parts of IInv that whole groups of steps leave alone *)

\* The kinds of frames sent below.
LEMMA KindsSent ==
    /\ Fin.kind = "fin" /\ Abort.kind = "abort"
    /\ \A k, q, a : Frame(k, q, a).kind = k /\ Frame(k, q, a).q = q /\ Frame(k, q, a).arg = a
  BY DEF Fin, Abort, Frame

\* Sending a Finish, an Abort or the close adds no request.
LEMMA SendQuiet ==
    ASSUME TypeOK, RequestsAreFresh, UNCHANGED <<target, handler>>,
           NEW m \in ClientFrames, m.kind \notin {"call", "bootstrap"}, ToServer(m)
    PROVE  RequestsAreFresh'
<1>1. Fresh(Append(c2s, m), target, handler)
  BY WireParts, FreshAppend DEF TypeOK
<1> QED
  BY <1>1, WireParts DEF ToServer

\* The server takes a frame.
LEMMA TakeRequest ==
    ASSUME TypeOK, RequestsAreFresh, UNCHANGED <<target, handler>>, c2s # <<>>, c2s' = Tail(c2s)
    PROVE  RequestsAreFresh'
<1>1. Fresh(Tail(c2s), target, handler)
  BY WireParts, FreshTail DEF TypeOK
<1> QED
  BY <1>1, WireParts

\* The server sends a frame that is true of the handlers after the step.
LEMMA ReplyTrue ==
    ASSUME TypeOK, RepliesAreTrue, UNCHANGED target,
           \A q \in Questions : handler[q] = "done" => handler'[q] = "done",
           NEW m \in ServerFrames,
           m.kind = "return" /\ m.arg = "ok" => handler'[m.q] = "done" \/ target[m.q] = BootstrapCap,
           ToClient(m) \/ UNCHANGED s2c
    PROVE  RepliesAreTrue'
<1>1. Truthful(s2c, target', handler')
  BY WireParts, TruthfulMoves DEF TypeOK
<1>2. Truthful(Append(s2c, m), target', handler')
  BY <1>1, TruthfulAppend DEF TypeOK
<1> QED
  BY <1>1, <1>2, WireParts DEF ToClient

\* The client takes a frame.
LEMMA TakeReply ==
    ASSUME TypeOK, RepliesAreTrue, UNCHANGED <<target, handler>>, s2c # <<>>, s2c' = Tail(s2c)
    PROVE  RepliesAreTrue'
<1>1. Truthful(Tail(s2c), target, handler)
  BY WireParts, TruthfulTail DEF TypeOK
<1> QED
  BY <1>1, WireParts

\* Steps that only forget records, and resolve none.
LEMMA RecordsForgotten ==
    ASSUME IInv, TypeOK', UNCHANGED <<target, handler, stash, awaits>>,
           \A q \in Questions : answers'[q] = answers[q] \/ answers'[q] = None,
           \A r \in Records : ready'[r] = "resolved" => ready[r] = "resolved"
    PROVE  RecordsFollowCalls' /\ PipelinesBehindSuccess'
<1>1. RecordsFollowCalls'
  BY DEF IInv, TypeOK, RecordsFollowCalls, CallOf
<1> QED
  BY <1>1 DEF IInv, PipelinesBehindSuccess

\* Steps of the server leave what the client knows true.
LEMMA ClientKept ==
    ASSUME IInv, UNCHANGED <<target, promise, questions>>,
           \A q \in Questions : handler[q] = "done" => handler'[q] = "done"
    PROVE  IssuedHaveTargets' /\ PendingIsTracked' /\ FulfilledOnlyBySuccess'
  BY DEF IInv, IssuedHaveTargets, PendingIsTracked, FulfilledOnlyBySuccess

\* Questions settle in a way the handlers justify.
LEMMA QuestionsSettle ==
    ASSUME IInv, UNCHANGED <<target, handler>>, NEW S \in SUBSET Questions,
           questions' = questions \ S,
           \A q \in Questions : promise'[q] = promise[q] \/ (q \in questions /\ q \in S),
           \A q \in questions \cap S :
               \/ promise'[q] = "err"
               \/ promise'[q] = "ok" /\ (handler[q] = "done" \/ target[q] = BootstrapCap)
    PROVE  IssuedHaveTargets' /\ PendingIsTracked' /\ FulfilledOnlyBySuccess'
<1> USE DEF IInv, TypeOK, IssuedHaveTargets, PendingIsTracked, FulfilledOnlyBySuccess
<1>1. ASSUME NEW q \in Questions
      PROVE  /\ promise'[q] = "unused" <=> promise[q] = "unused"
             /\ q \in questions' <=> promise'[q] = "pending"
             /\ promise'[q] = "ok" => handler[q] = "done" \/ target[q] = BootstrapCap
  <2>1. CASE q \in questions /\ q \in S
    BY <2>1
  <2>2. CASE q \notin questions
    BY <2>2
  <2>3. CASE q \in questions /\ q \notin S
    BY <2>3
  <2> QED
    BY <2>1, <2>2, <2>3
<1> QED
  BY <1>1

-----------------------------------------------------------------------------
(* Issuing a question *)

\* Only a question without a target gets one, so no record changes its call.
LEMMA CallsStay ==
    ASSUME IInv, NEW q \in Questions, NEW t, Issue(q, t)
    PROVE  /\ target[q] = None /\ handler[q] = "none"
           /\ target' = [target EXCEPT ![q] = t]
           /\ \A r \in Records : CallOf(r) # None => CallOf(r)' = CallOf(r)
<1>1. target[q] = None
  BY DEF IInv, IssuedHaveTargets, Issue
<1>2. target' = [target EXCEPT ![q] = t] /\ DOMAIN target = Questions
  BY DEF Issue, IInv, TypeOK
<1>3. handler[q] = "none"
  BY <1>1 DEF IInv, RecordsFollowCalls
<1> QED
  BY <1>1, <1>2, <1>3 DEF CallOf, Records

LEMMA IssueStep ==
    ASSUME IInv, NEW q \in Questions, NEW t \in Questions \cup {ImportedCap, BootstrapCap},
           Issue(q, t)
    PROVE  /\ IssuedHaveTargets' /\ PendingIsTracked' /\ FulfilledOnlyBySuccess'
           /\ RecordsFollowCalls' /\ PipelinesBehindSuccess' /\ RepliesAreTrue'
           /\ target'[q] = t /\ handler'[q] = "none"
           /\ Fresh(c2s, target', handler')
           /\ \A i \in 1..Len(c2s) : c2s[i].kind = "call" => c2s[i].q # q
<1>1. /\ target[q] = None /\ handler[q] = "none"
      /\ target' = [target EXCEPT ![q] = t]
      /\ \A r \in Records : CallOf(r) # None => CallOf(r)' = CallOf(r)
  BY CallsStay
<1>2. UNCHANGED <<answers, ready, stash, awaits, handler, s2c>>
  BY DEF Issue
<1>3. None \notin Questions /\ t # None /\ BootstrapCap # None /\ ImportedCap # None
  BY ConstantsAssumption DEF Sentinels
<1>4. \A p \in Questions : target'[p] = IF p = q THEN t ELSE target[p]
  BY <1>1 DEF IInv, TypeOK
<1>5. /\ \A p \in Questions : target[p] = BootstrapCap => target'[p] = BootstrapCap
      /\ \A p \in Questions :
            target[p] \in Questions \cup {ImportedCap} => target'[p] = target[p]
  BY <1>1, <1>3, <1>4
<1>6. /\ IssuedHaveTargets' /\ PendingIsTracked' /\ FulfilledOnlyBySuccess'
  BY <1>1, <1>2, <1>3, <1>4 DEF IInv, TypeOK, Issue, IssuedHaveTargets, PendingIsTracked,
     FulfilledOnlyBySuccess
<1>7. RecordsFollowCalls'
  <2>1. \A p \in Questions : answers[p] # None =>
           answers[p] \in Records /\ CallOf(answers[p]) = p /\ CallOf(answers[p])' = p
    BY <1>1, <1>2, <1>3 DEF IInv, TypeOK, RecordsFollowCalls
  <2>2. \A p \in Questions : handler[p] # "none" =>
           /\ stash[p] # None /\ CallOf(stash[p])' = p
           /\ target[p] # None /\ target'[p] = target[p]
    BY <1>1, <1>2, <1>3, <1>4 DEF IInv, TypeOK, RecordsFollowCalls
  <2>3. \A p \in Questions : handler[p] = "waiting" =>
           awaits[p] # None /\ CallOf(awaits[p])' = target'[p]
    BY <1>1, <1>2, <1>3, <2>2 DEF IInv, TypeOK, RecordsFollowCalls
  <2>4. \A r \in Records : ready[r] = "resolved" =>
           CallOf(r)' \in Questions /\ handler[CallOf(r)'] \in {"done", "unsent"}
    BY <1>1, <1>2, <1>3 DEF IInv, TypeOK, RecordsFollowCalls
  <2>5. \A r \in Records : CallOf(r)' = IF r[2] = "own" THEN r[1] ELSE target'[r[1]]
    BY DEF CallOf
  <2> QED
    BY <1>2, <1>3, <2>1, <2>2, <2>3, <2>4 DEF RecordsFollowCalls
<1>8. PipelinesBehindSuccess'
  BY <1>1, <1>2, <1>3, <1>4 DEF IInv, PipelinesBehindSuccess
<1>9. RepliesAreTrue'
  <2>1. Truthful(s2c, target', handler)
    <3>1. s2c \in Seq(ServerFrames) /\ Truthful(s2c, target, handler)
      BY WireParts DEF IInv, TypeOK
    <3> QED
      BY <3>1, <1>5, TruthfulMoves
  <2> QED
    BY <1>2, <2>1, WireParts
<1>10. \A i \in 1..Len(c2s) : c2s[i].kind = "call" => c2s[i].q # q
  <2>1. \A i \in 1..Len(c2s) : c2s[i] \in ClientFrames
    BY DEF IInv, TypeOK
  <2> QED
    BY <1>1, <1>3, <2>1, FrameKinds DEF IInv, RequestsAreFresh
<1>11. Fresh(c2s, target', handler)
  <2>1. c2s \in Seq(ClientFrames) /\ Fresh(c2s, target, handler)
    BY WireParts DEF IInv, TypeOK
  <2>2. \A i \in 1..Len(c2s) : c2s[i].kind = "call" => handler[c2s[i].q] = "none"
    BY DEF IInv, RequestsAreFresh
  <2> QED
    BY <2>1, <2>2, <1>5, FreshMoves
<1> QED
  BY <1>1, <1>2, <1>4, <1>6, <1>7, <1>8, <1>9, <1>10, <1>11

\* The frame of the new question is the only request for it.
LEMMA RequestSent ==
    ASSUME IInv, NEW q \in Questions, NEW t \in Questions \cup {ImportedCap, BootstrapCap},
           Issue(q, t), NEW m \in ClientFrames, m.q = q, ToServer(m),
           m.kind = "bootstrap" => t = BootstrapCap,
           m.kind = "call" => m.arg = t
    PROVE  RequestsAreFresh'
<1>1. /\ target'[q] = t /\ handler'[q] = "none"
      /\ Fresh(c2s, target', handler')
      /\ \A i \in 1..Len(c2s) : c2s[i].kind = "call" => c2s[i].q # q
  BY IssueStep
<1>2. Fresh(Append(c2s, m), target', handler')
  BY <1>1, FreshAppend DEF IInv, TypeOK
<1> QED
  BY <1>1, <1>2, WireParts DEF ToServer

-----------------------------------------------------------------------------
(* Handlers *)

\* One handler moves on, with its local variables naming records of the
\* right calls; it resolves at most the records of its own call.
LEMMA HandlerMoves ==
    ASSUME IInv, TypeOK', NEW q \in Questions, NEW x, UNCHANGED target,
           handler[q] \notin {"done", "unsent"}, target[q] # None,
           handler' = [handler EXCEPT ![q] = x],
           \A p \in Questions \ {q} : stash'[p] = stash[p] /\ awaits'[p] = awaits[p],
           stash'[q] # None /\ CallOf(stash'[q]) = q,
           x = "waiting" => awaits'[q] # None /\ CallOf(awaits'[q]) = target[q],
           \A p \in Questions : answers'[p] = answers[p] \/ CallOf(answers'[p]) = p,
           \A r \in Records : ready'[r] = "resolved" =>
               ready[r] = "resolved" \/ (CallOf(r) = q /\ x \in {"done", "unsent"}),
           x \in {"running", "done", "unsent"} /\ target[q] \in Questions =>
               handler[target[q]] \in {"done", "unsent"}
    PROVE  RecordsFollowCalls' /\ PipelinesBehindSuccess'
<1>1. /\ handler'[q] = x
      /\ \A p \in Questions \ {q} : handler'[p] = handler[p]
  BY DEF IInv, TypeOK
<1>2. \A r : CallOf(r)' = CallOf(r)
  BY DEF CallOf
<1>3. \A p \in Questions : answers'[p] # None => CallOf(answers'[p]) = p
  BY DEF IInv, RecordsFollowCalls
<1>4. \A p \in Questions : handler'[p] # "none" =>
         stash'[p] # None /\ CallOf(stash'[p]) = p /\ target[p] # None
  BY <1>1 DEF IInv, RecordsFollowCalls
<1>5. \A p \in Questions : handler'[p] = "waiting" =>
         awaits'[p] # None /\ CallOf(awaits'[p]) = target[p]
  BY <1>1 DEF IInv, RecordsFollowCalls
<1>6. \A r \in Records : ready'[r] = "resolved" =>
         CallOf(r) \in Questions /\ handler'[CallOf(r)] \in {"done", "unsent"}
  <2> SUFFICES ASSUME NEW r \in Records, ready'[r] = "resolved"
               PROVE  CallOf(r) \in Questions /\ handler'[CallOf(r)] \in {"done", "unsent"}
    OBVIOUS
  <2>1. CASE ready[r] = "resolved"
    <3>1. CallOf(r) \in Questions /\ handler[CallOf(r)] \in {"done", "unsent"}
      BY <2>1 DEF IInv, RecordsFollowCalls
    <3> QED
      BY <3>1, <1>1
  <2>2. CASE CallOf(r) = q /\ x \in {"done", "unsent"}
    BY <2>2, <1>1
  <2> QED
    BY <2>1, <2>2
<1>7. RecordsFollowCalls'
  BY <1>2, <1>3, <1>4, <1>5, <1>6 DEF RecordsFollowCalls
<1>8. PipelinesBehindSuccess'
  <2>1. \A p \in Questions : handler[p] \in {"done", "unsent"} => handler'[p] = handler[p]
    BY <1>1
  <2> QED
    BY <1>1, <2>1 DEF IInv, PipelinesBehindSuccess
<1> QED
  BY <1>7, <1>8

\* The requests still on the wire are not touched by a handler that has
\* already started.
LEMMA RequestsKept ==
    ASSUME IInv, NEW q \in Questions, NEW x, UNCHANGED <<target, c2s>>,
           handler[q] # "none", handler' = [handler EXCEPT ![q] = x]
    PROVE  RequestsAreFresh'
<1>1. c2s \in Seq(ClientFrames) /\ Fresh(c2s, target, handler)
  BY WireParts DEF IInv, TypeOK
<1>2. \A i \in 1..Len(c2s) : c2s[i].kind = "call" => handler'[c2s[i].q] = "none"
  <2>1. \A p \in Questions \ {q} : handler'[p] = handler[p]
    BY DEF IInv, TypeOK
  <2>2. \A i \in 1..Len(c2s) : c2s[i].kind = "call" => c2s[i].q \in Questions
    <3>1. \A i \in 1..Len(c2s) : c2s[i] \in ClientFrames
      BY <1>1
    <3> QED
      BY <3>1, FrameKinds
  <2> QED
    BY <2>1, <2>2 DEF IInv, RequestsAreFresh
<1>3. Fresh(c2s, target, handler')
  BY <1>1, <1>2, FreshMoves
<1> QED
  BY <1>3, WireParts

\* #sendException fails the handler, resolves nothing, replies "err".
LEMMA SendExceptionEffect ==
    ASSUME TypeOK, NEW q \in Questions, NEW table \in [Questions -> Records \cup {None}],
           SendException(q, table)
    PROVE  /\ handler' = [handler EXCEPT ![q] = "failed"]
           /\ \A r \in Records : ready'[r] = "resolved" => ready[r] = "resolved"
           /\ ToClient(Frame("return", q, "err"))
  BY DEF SendException, TypeOK

\* Dispatching starts the method body or fails.
LEMMA DispatchEffect ==
    ASSUME TypeOK, NEW q \in Questions, NEW table \in [Questions -> Records \cup {None}],
           Dispatch(q, table)
    PROVE  \E x \in {"running", "failed"} :
              /\ handler' = [handler EXCEPT ![q] = x]
              /\ \A r \in Records : ready'[r] = "resolved" => ready[r] = "resolved"
              /\ ToClient(Frame("return", q, "err")) \/ UNCHANGED s2c
<1>1. CASE handler' = [handler EXCEPT ![q] = "running"] /\ UNCHANGED <<ready, s2c>>
  BY <1>1
<1>2. CASE SendException(q, table)
  BY <1>2, SendExceptionEffect
<1> QED
  BY <1>1, <1>2 DEF Dispatch

\* An error Return, or none, is always true.
LEMMA ErrorReply ==
    ASSUME IInv, NEW q \in Questions, UNCHANGED target,
           \A p \in Questions : handler[p] = "done" => handler'[p] = "done",
           ToClient(Frame("return", q, "err")) \/ UNCHANGED s2c
    PROVE  RepliesAreTrue'
<1>1. Frame("return", q, "err") \in ServerFrames
  BY FramesTyped
<1>2. /\ Frame("return", q, "err").kind = "return"
      /\ Frame("return", q, "err").arg = "err"
  BY KindsSent
<1> QED
  BY <1>1, <1>2, ReplyTrue DEF IInv

\* A waiting call starts behind a success, or fails.
LEMMA ResumeEffect ==
    ASSUME IInv, NEW q \in Questions, ResumePipelined(q)
    PROVE  /\ handler[q] = "waiting" /\ target[q] # None
           /\ stash[q] # None /\ CallOf(stash[q]) = q
           /\ UNCHANGED <<target, promise, questions, c2s, answers, stash, awaits>>
           /\ \E x \in {"running", "failed"} :
                 /\ handler' = [handler EXCEPT ![q] = x]
                 /\ \A r \in Records : ready'[r] = "resolved" => ready[r] = "resolved"
                 /\ ToClient(Frame("return", q, "err")) \/ UNCHANGED s2c
                 /\ x = "running" /\ target[q] \in Questions =>
                       handler[target[q]] \in {"done", "unsent"}
<1>1. /\ handler[q] = "waiting"
      /\ UNCHANGED <<target, promise, questions, c2s, answers, stash, awaits>>
  BY DEF ResumePipelined
<1>2. /\ stash[q] # None /\ CallOf(stash[q]) = q
      /\ awaits[q] \in Records /\ CallOf(awaits[q]) = target[q] /\ target[q] # None
  BY <1>1 DEF IInv, TypeOK, RecordsFollowCalls
<1>3. answers \in [Questions -> Records \cup {None}] /\ TypeOK
  BY DEF IInv, TypeOK
<1>4. \E x \in {"running", "failed"} :
         /\ handler' = [handler EXCEPT ![q] = x]
         /\ \A r \in Records : ready'[r] = "resolved" => ready[r] = "resolved"
         /\ ToClient(Frame("return", q, "err")) \/ UNCHANGED s2c
         /\ x = "running" => ready[awaits[q]] = "resolved"
  <2>1. CASE SendException(q, answers)
    BY <1>3, <2>1, SendExceptionEffect
  <2>2. CASE Dispatch(q, answers) /\ ready[awaits[q]] = "resolved"
    BY <1>3, <2>2, DispatchEffect
  <2> QED
    BY <2>1, <2>2 DEF ResumePipelined
<1>5. ready[awaits[q]] = "resolved" => handler[target[q]] \in {"done", "unsent"}
  BY <1>2 DEF IInv, RecordsFollowCalls
<1> QED
  BY <1>1, <1>2, <1>4, <1>5

LEMMA ResumeStep ==
    ASSUME IInv, TypeOK', NEW q \in Questions, ResumePipelined(q)
    PROVE  IInv'
<1>1. /\ handler[q] = "waiting" /\ target[q] # None
      /\ stash[q] # None /\ CallOf(stash[q]) = q
      /\ UNCHANGED <<target, promise, questions, c2s, answers, stash, awaits>>
  BY ResumeEffect
<1>2. PICK x \in {"running", "failed"} :
         /\ handler' = [handler EXCEPT ![q] = x]
         /\ \A r \in Records : ready'[r] = "resolved" => ready[r] = "resolved"
         /\ ToClient(Frame("return", q, "err")) \/ UNCHANGED s2c
         /\ x = "running" /\ target[q] \in Questions => handler[target[q]] \in {"done", "unsent"}
  BY ResumeEffect
<1>3. RecordsFollowCalls' /\ PipelinesBehindSuccess'
  <2>1. \A p \in Questions \ {q} : stash'[p] = stash[p] /\ awaits'[p] = awaits[p]
    BY <1>1
  <2>2. \A p \in Questions : answers'[p] = answers[p] \/ CallOf(answers'[p]) = p
    BY <1>1
  <2> QED
    BY <1>1, <1>2, <2>1, <2>2, HandlerMoves
<1>4. \A p \in Questions : handler[p] = "done" => handler'[p] = "done"
  BY <1>1, <1>2 DEF IInv, TypeOK
<1>5. RepliesAreTrue'
  BY <1>1, <1>2, <1>4, ErrorReply
<1>6. RequestsAreFresh'
  BY <1>1, <1>2, RequestsKept
<1>7. IssuedHaveTargets' /\ PendingIsTracked' /\ FulfilledOnlyBySuccess'
  BY <1>1, <1>4, ClientKept
<1> QED
  BY <1>3, <1>5, <1>6, <1>7 DEF IInv

\* A running method body succeeds, resolving the record of its own call, or
\* fails.
LEMMA ReturnEffect ==
    ASSUME IInv, NEW q \in Questions, HandlerReturns(q)
    PROVE  /\ handler[q] = "running" /\ target[q] # None
           /\ stash[q] \in Records /\ CallOf(stash[q]) = q
           /\ UNCHANGED <<target, promise, questions, c2s, answers, stash, awaits>>
           /\ \E x \in {"failed", "done", "unsent"} :
                 /\ handler' = [handler EXCEPT ![q] = x]
                 /\ \A r \in Records : ready'[r] = "resolved" =>
                       ready[r] = "resolved" \/ (CallOf(r) = q /\ x \in {"done", "unsent"})
                 /\ \/ ToClient(Frame("return", q, "err"))
                    \/ x = "done" /\ ToClient(Frame("return", q, "ok"))
                    \/ UNCHANGED s2c
<1>1. /\ handler[q] = "running"
      /\ UNCHANGED <<target, promise, questions, c2s, answers, stash, awaits>>
  BY DEF HandlerReturns
<1>2. stash[q] \in Records /\ CallOf(stash[q]) = q /\ target[q] # None
  BY <1>1 DEF IInv, TypeOK, RecordsFollowCalls
<1>3. /\ answers \in [Questions -> Records \cup {None}] /\ TypeOK
      /\ ready \in [Records -> {"pending", "resolved", "rejected"}]
  BY DEF IInv, TypeOK
<1>4. CASE SendException(q, answers)
  BY <1>1, <1>2, <1>3, <1>4, SendExceptionEffect
<1>5. \A r \in Records : Resolved(stash[q])[r] = "resolved" => ready[r] = "resolved" \/ r = stash[q]
  BY <1>2, <1>3 DEF Resolved
<1>6. CASE HandlerSucceeds(q)
  BY <1>1, <1>2, <1>5, <1>6 DEF HandlerSucceeds
<1>7. CASE HandlerOverflows(q)
  BY <1>1, <1>2, <1>5, <1>7 DEF HandlerOverflows
<1> QED
  BY <1>4, <1>6, <1>7 DEF HandlerReturns

LEMMA ReturnStep ==
    ASSUME IInv, TypeOK', NEW q \in Questions, HandlerReturns(q)
    PROVE  IInv'
<1>1. /\ handler[q] = "running" /\ target[q] # None
      /\ stash[q] \in Records /\ CallOf(stash[q]) = q
      /\ UNCHANGED <<target, promise, questions, c2s, answers, stash, awaits>>
  BY ReturnEffect
<1>2. stash[q] # None
  BY <1>1 DEF IInv, RecordsFollowCalls
<1>3. target[q] \in Questions => handler[target[q]] \in {"done", "unsent"}
  BY <1>1 DEF IInv, PipelinesBehindSuccess
<1>4. PICK x \in {"failed", "done", "unsent"} :
         /\ handler' = [handler EXCEPT ![q] = x]
         /\ \A r \in Records : ready'[r] = "resolved" =>
               ready[r] = "resolved" \/ (CallOf(r) = q /\ x \in {"done", "unsent"})
         /\ \/ ToClient(Frame("return", q, "err"))
            \/ x = "done" /\ ToClient(Frame("return", q, "ok"))
            \/ UNCHANGED s2c
  BY ReturnEffect
<1>5. RecordsFollowCalls' /\ PipelinesBehindSuccess'
  <2>1. \A p \in Questions \ {q} : stash'[p] = stash[p] /\ awaits'[p] = awaits[p]
    BY <1>1
  <2>2. \A p \in Questions : answers'[p] = answers[p] \/ CallOf(answers'[p]) = p
    BY <1>1
  <2> QED
    BY <1>1, <1>2, <1>3, <1>4, <2>1, <2>2, HandlerMoves
<1>6. /\ \A p \in Questions : handler[p] = "done" => handler'[p] = "done"
      /\ handler'[q] = x
  BY <1>1, <1>4 DEF IInv, TypeOK
<1>7. RepliesAreTrue'
  <2>1. CASE ToClient(Frame("return", q, "err")) \/ UNCHANGED s2c
    BY <1>1, <1>6, <2>1, ErrorReply
  <2>2. CASE x = "done" /\ ToClient(Frame("return", q, "ok"))
    <3>1. Frame("return", q, "ok") \in ServerFrames /\ Frame("return", q, "ok").q = q
      BY FramesTyped, KindsSent
    <3> QED
      BY <1>1, <1>6, <2>2, <3>1, ReplyTrue DEF IInv
  <2> QED
    BY <1>4, <2>1, <2>2
<1>8. RequestsAreFresh'
  BY <1>1, <1>4, RequestsKept
<1>9. IssuedHaveTargets' /\ PendingIsTracked' /\ FulfilledOnlyBySuccess'
  BY <1>1, <1>6, ClientKept
<1> QED
  BY <1>5, <1>7, <1>8, <1>9 DEF IInv

\* GetOrCreate leaves a record of the right call at the key, and changes no
\* other entry.
LEMMA GetOrCreateOwned ==
    ASSUME NEW table \in [Questions -> Records \cup {None}], NEW k \in Questions,
           NEW r \in Records, CallOf(r) = k, r # None,
           \A p \in Questions : table[p] # None => CallOf(table[p]) = p
    PROVE  /\ GetOrCreate(table, k, r) \in [Questions -> Records \cup {None}]
           /\ GetOrCreate(table, k, r)[k] # None
           /\ \A p \in Questions :
                 GetOrCreate(table, k, r)[p] # None => CallOf(GetOrCreate(table, k, r)[p]) = p
           /\ \A p \in Questions : table[p] # None => GetOrCreate(table, k, r)[p] # None
  BY DEF GetOrCreate

\* The first request on the wire is handled: its call is fresh, its record is
\* found or made, and it waits, starts behind a success, or fails.
LEMMA CallEffect ==
    ASSUME IInv, HandleCall, NEW q, q = Head(c2s).q
    PROVE  /\ q \in Questions /\ handler[q] = "none" /\ target[q] # None
           /\ c2s # <<>> /\ c2s' = Tail(c2s) /\ Head(c2s).kind = "call"
           /\ UNCHANGED <<target, promise, questions>>
           /\ \A p \in Questions \ {q} : stash'[p] = stash[p]
           /\ stash'[q] # None /\ CallOf(stash'[q]) = q
           /\ \E x \in {"waiting", "running", "failed"} :
                 /\ handler' = [handler EXCEPT ![q] = x]
                 /\ \A r \in Records : ready'[r] = "resolved" => ready[r] = "resolved"
                 /\ ToClient(Frame("return", q, "err")) \/ UNCHANGED s2c
                 /\ \A p \in Questions \ {q} : awaits'[p] = awaits[p]
                 /\ x = "waiting" => awaits'[q] # None /\ CallOf(awaits'[q]) = target[q]
                 /\ \A p \in Questions : answers'[p] = answers[p] \/ CallOf(answers'[p]) = p
                 /\ x = "running" /\ target[q] \in Questions =>
                       handler[target[q]] \in {"done", "unsent"}
<1> DEFINE t == Head(c2s).arg
           own == GetOrCreate(answers, q, <<q, "own">>)
<1>1. /\ c2s # <<>> /\ c2s' = Tail(c2s) /\ Head(c2s).kind = "call"
      /\ UNCHANGED <<target, promise, questions>>
      /\ stash' = [stash EXCEPT ![q] = own[q]]
  BY DEF HandleCall, ServerGets
<1>2. /\ c2s \in Seq(ClientFrames) /\ Head(c2s) \in ClientFrames
      /\ Len(c2s) \in Nat /\ Len(c2s) >= 1 /\ Head(c2s) = c2s[1]
  BY <1>1, HeadTailTyped, TailAt DEF IInv, TypeOK
<1>3. q \in Questions /\ t \in Questions \cup {ImportedCap}
  BY <1>1, <1>2, FrameKinds
<1>4. handler[q] = "none" /\ target[q] = t
  BY <1>1, <1>2 DEF IInv, RequestsAreFresh
<1>5. t # None /\ ImportedCap \notin Questions
  BY <1>3, ConstantsAssumption DEF Sentinels
<1>6. /\ <<q, "own">> \in Records /\ CallOf(<<q, "own">>) = q
      /\ <<q, "target">> \in Records /\ CallOf(<<q, "target">>) = t
  BY <1>3, <1>4 DEF Records, CallOf
<1>7. /\ answers \in [Questions -> Records \cup {None}]
      /\ \A p \in Questions : answers[p] # None => CallOf(answers[p]) = p
  BY DEF IInv, TypeOK, RecordsFollowCalls
<1>8. /\ own \in [Questions -> Records \cup {None}] /\ own[q] # None
      /\ \A p \in Questions : own[p] # None => CallOf(own[p]) = p
  <2> DEFINE r == <<q, "own">>
  <2>1. r \in Records /\ CallOf(r) = q /\ r # None
    BY <1>6, ConstantsAssumption
  <2> HIDE DEF r
  <2>2. /\ GetOrCreate(answers, q, r) \in [Questions -> Records \cup {None}]
        /\ GetOrCreate(answers, q, r)[q] # None
        /\ \A p \in Questions :
              GetOrCreate(answers, q, r)[p] # None => CallOf(GetOrCreate(answers, q, r)[p]) = p
    BY <1>3, <1>7, <2>1, GetOrCreateOwned
  <2> QED
    BY <2>2 DEF r
<1> HIDE DEF t, own
<1>9. /\ stash' = [stash EXCEPT ![q] = own[q]]
      /\ \A p \in Questions \ {q} : stash'[p] = stash[p]
      /\ stash'[q] # None /\ CallOf(stash'[q]) = q
  <2>1. stash \in [Questions -> Records \cup {None}]
    BY DEF IInv, TypeOK
  <2> QED
    BY <1>1, <1>3, <1>8, <2>1
<1>10. \E x \in {"waiting", "running", "failed"} :
          /\ handler' = [handler EXCEPT ![q] = x]
          /\ \A r \in Records : ready'[r] = "resolved" => ready[r] = "resolved"
          /\ ToClient(Frame("return", q, "err")) \/ UNCHANGED s2c
          /\ \A p \in Questions \ {q} : awaits'[p] = awaits[p]
          /\ x = "waiting" => awaits'[q] # None /\ CallOf(awaits'[q]) = target[q]
          /\ \A p \in Questions : answers'[p] = answers[p] \/ CallOf(answers'[p]) = p
          /\ x = "running" /\ target[q] \in Questions => handler[target[q]] \in {"done", "unsent"}
  <2>1. CASE t = ImportedCap /\ answers' = own /\ UNCHANGED awaits /\ Dispatch(q, own)
    <3>1. PICK x \in {"running", "failed"} :
             /\ handler' = [handler EXCEPT ![q] = x]
             /\ \A r \in Records : ready'[r] = "resolved" => ready[r] = "resolved"
             /\ ToClient(Frame("return", q, "err")) \/ UNCHANGED s2c
      BY <1>3, <1>8, <2>1, DispatchEffect DEF IInv
    <3>2. \A p \in Questions : answers'[p] = answers[p] \/ CallOf(answers'[p]) = p
      BY <1>6, <1>7, <1>8, <2>1 DEF own, GetOrCreate
    <3> QED
      BY <1>4, <1>5, <2>1, <3>1, <3>2
  <2>2. CASE /\ t \in Questions
             /\ answers' = GetOrCreate(own, t, <<q, "target">>)
             /\ awaits' = [awaits EXCEPT ![q] = answers'[t]]
             /\ IF ready[answers'[t]] = "resolved"
                THEN Dispatch(q, answers')
                ELSE /\ handler' = [handler EXCEPT ![q] = "waiting"]
                     /\ UNCHANGED <<ready, s2c>>
    <3>1. /\ answers' \in [Questions -> Records \cup {None}] /\ answers'[t] # None
          /\ \A p \in Questions : answers'[p] # None => CallOf(answers'[p]) = p
          /\ \A p \in Questions : own[p] # None => answers'[p] # None
      <4> DEFINE r == <<q, "target">>
      <4>1. r \in Records /\ CallOf(r) = t /\ r # None
        BY <1>6, ConstantsAssumption
      <4> HIDE DEF r
      <4>2. /\ GetOrCreate(own, t, r) \in [Questions -> Records \cup {None}]
            /\ GetOrCreate(own, t, r)[t] # None
            /\ \A p \in Questions :
                  GetOrCreate(own, t, r)[p] # None => CallOf(GetOrCreate(own, t, r)[p]) = p
            /\ \A p \in Questions : own[p] # None => GetOrCreate(own, t, r)[p] # None
        BY <1>8, <2>2, <4>1, GetOrCreateOwned
      <4> QED
        BY <2>2, <4>2 DEF r
    <3>2. \A p \in Questions : answers'[p] = answers[p] \/ CallOf(answers'[p]) = p
      <4>1. \A p \in Questions : answers'[p] = own[p] \/ answers'[p] # None
        BY <1>8, <3>1
      <4>2. \A p \in Questions : own[p] = answers[p] \/ own[p] # None
        BY <1>3, <1>6, <1>7 DEF own, GetOrCreate
      <4> QED
        BY <1>8, <3>1, <4>1, <4>2
    <3>3. /\ \A p \in Questions \ {q} : awaits'[p] = awaits[p]
          /\ awaits'[q] = answers'[t] /\ CallOf(awaits'[q]) = target[q]
      BY <1>3, <1>4, <2>2, <3>1 DEF IInv, TypeOK
    <3>4. CASE ready[answers'[t]] = "resolved" /\ Dispatch(q, answers')
      <4>1. PICK x \in {"running", "failed"} :
               /\ handler' = [handler EXCEPT ![q] = x]
               /\ \A r \in Records : ready'[r] = "resolved" => ready[r] = "resolved"
               /\ ToClient(Frame("return", q, "err")) \/ UNCHANGED s2c
        BY <1>3, <3>1, <3>4, DispatchEffect DEF IInv
      <4>2. handler[target[q]] \in {"done", "unsent"}
        BY <2>2, <3>1, <3>3, <3>4 DEF IInv, RecordsFollowCalls
      <4> QED
        BY <3>1, <3>2, <3>3, <4>1, <4>2
    <3>5. CASE handler' = [handler EXCEPT ![q] = "waiting"] /\ UNCHANGED <<ready, s2c>>
      BY <3>1, <3>2, <3>3, <3>5
    <3> QED
      BY <2>2, <3>4, <3>5
  <2> QED
    BY <2>1, <2>2 DEF HandleCall, t, own
<1> QED
  BY <1>1, <1>3, <1>4, <1>5, <1>9, <1>10

LEMMA CallStep ==
    ASSUME IInv, TypeOK', HandleCall
    PROVE  IInv'
<1> DEFINE q == Head(c2s).q
<1>1. /\ q \in Questions /\ handler[q] = "none" /\ target[q] # None
      /\ c2s # <<>> /\ c2s' = Tail(c2s) /\ Head(c2s).kind = "call"
      /\ UNCHANGED <<target, promise, questions>>
      /\ \A p \in Questions \ {q} : stash'[p] = stash[p]
      /\ stash'[q] # None /\ CallOf(stash'[q]) = q
  BY CallEffect
<1>2. /\ c2s \in Seq(ClientFrames) /\ Head(c2s) \in ClientFrames
      /\ Len(c2s) \in Nat /\ Len(c2s) >= 1 /\ Head(c2s) = c2s[1]
  BY <1>1, HeadTailTyped, TailAt DEF IInv, TypeOK
<1>3. PICK x \in {"waiting", "running", "failed"} :
          /\ handler' = [handler EXCEPT ![q] = x]
          /\ \A r \in Records : ready'[r] = "resolved" => ready[r] = "resolved"
          /\ ToClient(Frame("return", q, "err")) \/ UNCHANGED s2c
          /\ \A p \in Questions \ {q} : awaits'[p] = awaits[p]
          /\ x = "waiting" => awaits'[q] # None /\ CallOf(awaits'[q]) = target[q]
          /\ \A p \in Questions : answers'[p] = answers[p] \/ CallOf(answers'[p]) = p
          /\ x = "running" /\ target[q] \in Questions => handler[target[q]] \in {"done", "unsent"}
  BY CallEffect
<1> HIDE DEF q
<1>4. RecordsFollowCalls' /\ PipelinesBehindSuccess'
  BY <1>1, <1>3, HandlerMoves
<1>5. /\ \A p \in Questions : handler[p] = "done" => handler'[p] = "done"
      /\ \A p \in Questions \ {q} : handler'[p] = handler[p]
  BY <1>1, <1>3 DEF IInv, TypeOK
<1>6. RepliesAreTrue'
  BY <1>1, <1>3, <1>5, ErrorReply
<1>7. RequestsAreFresh'
  <2> DEFINE w == Tail(c2s)
  <2>1. w \in Seq(ClientFrames) /\ Fresh(w, target, handler)
    BY <1>1, <1>2, HeadTailTyped, FreshTail, WireParts DEF IInv, TypeOK
  <2>2. /\ Len(w) = Len(c2s) - 1
        /\ \A i \in 1..Len(w) : w[i] = c2s[i + 1] /\ i + 1 \in 1..Len(c2s)
    BY <1>1, <1>2, TailAt
  <2>3. \A i \in 1..Len(w) : w[i] \in ClientFrames
    BY <2>1
  <2> HIDE DEF w
  <2>4. \A i \in 1..Len(w) : w[i].kind = "call" =>
           w[i].q \in Questions \ {q} /\ handler[w[i].q] = "none"
    <3> SUFFICES ASSUME NEW i \in 1..Len(w), w[i].kind = "call"
                 PROVE  w[i].q \in Questions \ {q} /\ handler[w[i].q] = "none"
      OBVIOUS
    <3>1. w[i].q \in Questions
      BY <2>3, FrameKinds
    <3>2. handler[w[i].q] = "none"
      BY <2>1 DEF Fresh
    <3>3. w[i].q # q
      <4>1. c2s[i + 1].kind = "call" /\ i + 1 \in 1..Len(c2s) /\ 1 \in 1..Len(c2s) /\ i + 1 # 1
        BY <1>2, <2>2
      <4>2. w[i] = c2s[i + 1] /\ q = c2s[1].q /\ c2s[1].kind = "call"
        BY <1>1, <1>2, <2>2 DEF q
      <4>3. \A j, k \in 1..Len(c2s) :
               c2s[j].kind = "call" /\ c2s[k].kind = "call" /\ c2s[j].q = c2s[k].q => j = k
        BY DEF IInv, RequestsAreFresh
      <4> QED
        BY <4>1, <4>2, <4>3
    <3> QED
      BY <3>1, <3>2, <3>3
  <2>5. \A i \in 1..Len(w) : w[i].kind = "call" => handler'[w[i].q] = "none"
    BY <1>5, <2>4
  <2>6. Fresh(w, target, handler')
    BY <2>1, <2>5, FreshMoves
  <2> QED
    BY <1>1, <2>6, WireParts DEF w
<1>8. IssuedHaveTargets' /\ PendingIsTracked' /\ FulfilledOnlyBySuccess'
  BY <1>1, <1>5, ClientKept
<1> QED
  BY <1>4, <1>6, <1>7, <1>8 DEF IInv

-----------------------------------------------------------------------------
(* The other steps *)

\* close() on the client rejects every question in the table.
LEMMA CloseClientStep ==
    ASSUME IInv, TypeOK', NEW m, m = Fin \/ m = Abort, CloseClient(m)
    PROVE  IInv'
<1>1. m \in ClientFrames /\ m.kind \notin {"call", "bootstrap"}
  BY FramesTyped, KindsSent
<1>2. RequestsAreFresh'
  BY <1>1, SendQuiet DEF CloseClient, IInv
<1>3. RepliesAreTrue'
  BY WireParts, EmptyWires DEF CloseClient
<1>4. IssuedHaveTargets' /\ PendingIsTracked' /\ FulfilledOnlyBySuccess'
  <2>1. /\ UNCHANGED <<target, handler>> /\ questions \subseteq Questions /\ questions' = {}
        /\ promise' = [q \in Questions |-> IF q \in questions THEN "err" ELSE promise[q]]
    BY DEF CloseClient, IInv, TypeOK
  <2>2. /\ questions' = questions \ questions /\ questions \in SUBSET Questions
        /\ \A q \in Questions : promise'[q] = promise[q] \/ (q \in questions /\ q \in questions)
        /\ \A q \in questions \cap questions : promise'[q] = "err"
    BY <2>1
  <2> QED
    BY <2>1, <2>2, QuestionsSettle
<1>5. RecordsFollowCalls' /\ PipelinesBehindSuccess'
  BY RecordsForgotten DEF CloseClient
<1> QED
  BY <1>2, <1>3, <1>4, <1>5 DEF IInv

\* close() on the server forgets every answer.
LEMMA CloseServerStep ==
    ASSUME IInv, TypeOK', NEW m, m = Fin \/ m = Abort, CloseServer(m),
           \A r \in Records : ready'[r] = "resolved" => ready[r] = "resolved"
    PROVE  IInv'
<1>1. m \in ServerFrames /\ m.kind # "return"
  BY FramesTyped, KindsSent
<1>2. UNCHANGED <<target, promise, questions, handler, stash, awaits>> /\ c2s' = <<>> /\ ToClient(m)
  BY DEF CloseServer
<1>3. RequestsAreFresh'
  BY <1>2, WireParts, EmptyWires
<1>4. RepliesAreTrue'
  BY <1>1, <1>2, ReplyTrue DEF IInv
<1>5. IssuedHaveTargets' /\ PendingIsTracked' /\ FulfilledOnlyBySuccess'
  BY <1>2, ClientKept
<1>6. RecordsFollowCalls' /\ PipelinesBehindSuccess'
  <2>1. \A q \in Questions : answers'[q] = None
    BY DEF CloseServer
  <2> QED
    BY <1>2, <2>1, RecordsForgotten
<1> QED
  BY <1>3, <1>4, <1>5, <1>6 DEF IInv

LEMMA AbortStep ==
    ASSUME IInv, TypeOK', NEW q \in Questions, SignalAborts(q)
    PROVE  IInv'
<1>1. Frame("finish", q, None) \in ClientFrames /\ Frame("finish", q, None).kind = "finish"
  BY FramesTyped, KindsSent
<1>2. UNCHANGED <<target, s2c, answers, ready, stash, awaits, handler>>
  BY DEF SignalAborts
<1>3. RequestsAreFresh'
  BY <1>1, <1>2, SendQuiet DEF SignalAborts, IInv
<1>4. RepliesAreTrue'
  BY <1>2, WireParts DEF IInv
<1>5. IssuedHaveTargets' /\ PendingIsTracked' /\ FulfilledOnlyBySuccess'
  <2>1. /\ questions' = questions \ {q} /\ {q} \in SUBSET Questions
        /\ \A p \in Questions : promise'[p] = promise[p] \/ (p \in questions /\ p \in {q})
        /\ \A p \in questions \cap {q} : promise'[p] = "err"
    <3>1. q \in questions /\ promise' = [promise EXCEPT ![q] = "err"] /\ questions' = questions \ {q}
      BY DEF SignalAborts
    <3>2. promise \in [Questions -> {"unused", "pending", "ok", "err"}] /\ questions \subseteq Questions
      BY DEF IInv, TypeOK
    <3> QED
      BY <3>1, <3>2
  <2> QED
    BY <1>2, <2>1, QuestionsSettle
<1>6. RecordsFollowCalls' /\ PipelinesBehindSuccess'
  BY <1>2, RecordsForgotten
<1> QED
  BY <1>3, <1>4, <1>5, <1>6 DEF IInv

LEMMA HandleReturnStep ==
    ASSUME IInv, TypeOK', HandleReturn
    PROVE  IInv'
<1> DEFINE q == Head(s2c).q
<1>1. /\ s2c # <<>> /\ s2c' = Tail(s2c) /\ Head(s2c).kind = "return"
      /\ UNCHANGED <<target, answers, ready, stash, awaits, handler>>
  BY DEF HandleReturn, ClientGets
<1>2. /\ s2c \in Seq(ServerFrames) /\ Head(s2c) \in ServerFrames
      /\ Len(s2c) \in Nat /\ Len(s2c) >= 1 /\ Head(s2c) = s2c[1]
  BY <1>1, HeadTailTyped, TailAt DEF IInv, TypeOK
<1>3. q \in Questions /\ Head(s2c).arg \in {"ok", "err"}
  BY <1>1, <1>2, FrameKinds
<1>4. Head(s2c).arg = "ok" => handler[q] = "done" \/ target[q] = BootstrapCap
  <2>1. 1 \in 1..Len(s2c)
    BY <1>2
  <2> QED
    BY <1>1, <1>2, <2>1 DEF IInv, RepliesAreTrue
<1>5. RepliesAreTrue'
  BY <1>1, TakeReply DEF IInv
<1>6. RecordsFollowCalls' /\ PipelinesBehindSuccess'
  BY <1>1, RecordsForgotten
<1>7. CASE q \notin questions /\ UNCHANGED <<promise, questions, c2s>>
  <2>1. RequestsAreFresh'
    BY <1>1, <1>7, WireParts DEF IInv
  <2>2. IssuedHaveTargets' /\ PendingIsTracked' /\ FulfilledOnlyBySuccess'
    BY <1>1, <1>7, ClientKept
  <2> QED
    BY <1>5, <1>6, <2>1, <2>2 DEF IInv
<1>8. CASE /\ q \in questions
           /\ questions' = questions \ {q}
           /\ \E settled \in {"ok", "err"} :
                 /\ settled = Head(s2c).arg \/ (settled = "err" /\ target[q] # BootstrapCap)
                 /\ promise' = [promise EXCEPT ![q] = settled]
           /\ ToServer(Frame("finish", q, None))
  <2>1. Frame("finish", q, None) \in ClientFrames /\ Frame("finish", q, None).kind = "finish"
    BY <1>3, FramesTyped, KindsSent
  <2>2. RequestsAreFresh'
    BY <1>1, <1>8, <2>1, SendQuiet DEF IInv
  <2>3. IssuedHaveTargets' /\ PendingIsTracked' /\ FulfilledOnlyBySuccess'
    <3>1. /\ questions' = questions \ {q} /\ {q} \in SUBSET Questions
          /\ \A p \in Questions : promise'[p] = promise[p] \/ (p \in questions /\ p \in {q})
          /\ \A p \in questions \cap {q} :
                \/ promise'[p] = "err"
                \/ promise'[p] = "ok" /\ (handler[p] = "done" \/ target[p] = BootstrapCap)
      <4>1. PICK settled \in {"ok", "err"} :
               /\ settled = Head(s2c).arg \/ settled = "err"
               /\ promise' = [promise EXCEPT ![q] = settled]
        BY <1>8
      <4>2. promise \in [Questions -> {"unused", "pending", "ok", "err"}] /\ q \in questions
        BY <1>8 DEF IInv, TypeOK
      <4>3. promise'[q] = settled /\ \A p \in Questions \ {q} : promise'[p] = promise[p]
        BY <1>3, <4>1, <4>2
      <4>4. settled = "err" \/ (settled = "ok" /\ (handler[q] = "done" \/ target[q] = BootstrapCap))
        BY <1>4, <4>1
      <4> HIDE DEF q
      <4> QED
        BY <1>3, <1>8, <4>2, <4>3, <4>4
    <3> QED
      BY <1>1, <3>1, QuestionsSettle
  <2> QED
    BY <1>5, <1>6, <2>2, <2>3 DEF IInv
<1> QED
  BY <1>7, <1>8 DEF HandleReturn

\* The server answers a bootstrap request, or drops a record at a Finish.
LEMMA BootstrapAnswered ==
    ASSUME IInv, TypeOK', HandleBootstrap
    PROVE  IInv'
<1> DEFINE q == Head(c2s).q
           m == Frame("return", q, IF HasBootstrap THEN "ok" ELSE "err")
<1>1. /\ c2s # <<>> /\ c2s' = Tail(c2s) /\ Head(c2s).kind = "bootstrap" /\ ToClient(m)
      /\ UNCHANGED <<target, promise, questions, answers, ready, stash, awaits, handler>>
  BY DEF HandleBootstrap, ServerGets
<1>2. /\ c2s \in Seq(ClientFrames) /\ Head(c2s) \in ClientFrames
      /\ Len(c2s) \in Nat /\ Len(c2s) >= 1 /\ Head(c2s) = c2s[1]
  BY <1>1, HeadTailTyped, TailAt DEF IInv, TypeOK
<1>3. q \in Questions /\ target[q] = BootstrapCap
  <2>1. 1 \in 1..Len(c2s)
    BY <1>2
  <2> QED
    BY <1>1, <1>2, <2>1, FrameKinds DEF IInv, RequestsAreFresh
<1>4. m \in ServerFrames /\ m.q = q
  BY <1>3, FramesTyped, KindsSent
<1>5. RequestsAreFresh'
  BY <1>1, TakeRequest DEF IInv
<1>6. RepliesAreTrue'
  BY <1>1, <1>3, <1>4, ReplyTrue DEF IInv
<1>7. IssuedHaveTargets' /\ PendingIsTracked' /\ FulfilledOnlyBySuccess'
  BY <1>1, ClientKept
<1>8. RecordsFollowCalls' /\ PipelinesBehindSuccess'
  BY <1>1, RecordsForgotten
<1> QED
  BY <1>5, <1>6, <1>7, <1>8 DEF IInv

LEMMA FinishStep ==
    ASSUME IInv, TypeOK', HandleFinish
    PROVE  IInv'
<1>1. /\ c2s # <<>> /\ c2s' = Tail(c2s)
      /\ UNCHANGED <<target, promise, questions, s2c, ready, stash, awaits, handler>>
      /\ \A q \in Questions : answers'[q] = answers[q] \/ answers'[q] = None
  BY DEF HandleFinish, ServerGets, IInv, TypeOK
<1>2. RequestsAreFresh'
  BY <1>1, TakeRequest DEF IInv
<1>3. RepliesAreTrue'
  BY <1>1, WireParts DEF IInv
<1>4. IssuedHaveTargets' /\ PendingIsTracked' /\ FulfilledOnlyBySuccess'
  BY <1>1, ClientKept
<1>5. RecordsFollowCalls' /\ PipelinesBehindSuccess'
  BY <1>1, RecordsForgotten
<1> QED
  BY <1>2, <1>3, <1>4, <1>5 DEF IInv

\* A broken connection delivers a prefix of what was under way.
LEMMA DisconnectStep ==
    ASSUME IInv, TypeOK', Disconnect
    PROVE  IInv'
<1>1. UNCHANGED <<target, promise, questions, answers, ready, stash, awaits, handler>>
  BY DEF Disconnect
<1>2. /\ Fin \in ClientFrames /\ Fin \in ServerFrames /\ Fin.kind = "fin"
      /\ c2s \in Seq(ClientFrames) /\ Fresh(c2s, target, handler)
      /\ s2c \in Seq(ServerFrames) /\ Truthful(s2c, target, handler)
  BY FramesTyped, KindsSent, WireParts DEF IInv, TypeOK
<1>3. RequestsAreFresh'
  <2>1. PICK n \in 0..Len(c2s) : c2s' = Append(SubSeq(c2s, 1, n), Fin)
    BY DEF Disconnect
  <2>2. SubSeq(c2s, 1, n) \in Seq(ClientFrames) /\ Fresh(SubSeq(c2s, 1, n), target, handler)
    BY <1>2, PrefixTyped, FreshPrefix
  <2>3. Fresh(Append(SubSeq(c2s, 1, n), Fin), target, handler)
    BY <1>2, <2>2, FreshAppend
  <2> QED
    BY <1>1, <2>1, <2>3, WireParts
<1>4. RepliesAreTrue'
  <2>1. PICK n \in 0..Len(s2c) : s2c' = Append(SubSeq(s2c, 1, n), Fin)
    BY DEF Disconnect
  <2>2. SubSeq(s2c, 1, n) \in Seq(ServerFrames) /\ Truthful(SubSeq(s2c, 1, n), target, handler)
    BY <1>2, PrefixTyped, TruthfulPrefix
  <2>3. Truthful(Append(SubSeq(s2c, 1, n), Fin), target, handler)
    BY <1>2, <2>2, TruthfulAppend
  <2> QED
    BY <1>1, <2>1, <2>3, WireParts
<1>5. IssuedHaveTargets' /\ PendingIsTracked' /\ FulfilledOnlyBySuccess'
  BY <1>1, ClientKept
<1>6. RecordsFollowCalls' /\ PipelinesBehindSuccess'
  BY <1>1, RecordsForgotten
<1> QED
  BY <1>3, <1>4, <1>5, <1>6 DEF IInv

-----------------------------------------------------------------------------
(* The invariant of the specification *)

LEMMA InitInv == Init => IInv
<1> SUFFICES ASSUME Init PROVE IInv
  OBVIOUS
<1>1. TypeOK
  BY InitTyped
<1>2. IssuedHaveTargets /\ PendingIsTracked /\ FulfilledOnlyBySuccess
  BY DEF Init, IssuedHaveTargets, PendingIsTracked, FulfilledOnlyBySuccess
<1>3. RecordsFollowCalls /\ PipelinesBehindSuccess
  BY DEF Init, RecordsFollowCalls, PipelinesBehindSuccess
<1>4. RequestsAreFresh /\ RepliesAreTrue
  BY WireParts, EmptyWires DEF Init
<1> QED
  BY <1>1, <1>2, <1>3, <1>4 DEF IInv

LEMMA StepInv == IInv /\ [Next]_vars => IInv'
<1> SUFFICES ASSUME IInv, [Next]_vars PROVE IInv'
  OBVIOUS
<1>1. TypeOK'
  BY TypeStep DEF IInv
<1>2. ASSUME NEW q \in Questions, Bootstrap(q) PROVE IInv'
  <2>1. /\ Frame("bootstrap", q, None) \in ClientFrames
        /\ Frame("bootstrap", q, None).kind = "bootstrap" /\ Frame("bootstrap", q, None).q = q
    BY FramesTyped, KindsSent
  <2>2. RequestsAreFresh'
    BY <1>2, <2>1, RequestSent DEF Bootstrap
  <2> QED
    BY <1>1, <1>2, <2>2, IssueStep DEF Bootstrap, IInv
<1>3. ASSUME NEW q \in Questions, NEW t \in Questions \cup {ImportedCap}, Call(q, t) PROVE IInv'
  <2>1. /\ Frame("call", q, t) \in ClientFrames
        /\ Frame("call", q, t).kind = "call" /\ Frame("call", q, t).q = q /\ Frame("call", q, t).arg = t
    BY FramesTyped, KindsSent
  <2>2. RequestsAreFresh'
    BY <1>3, <2>1, RequestSent DEF Call
  <2> QED
    BY <1>1, <1>3, <2>2, IssueStep DEF Call, IInv
<1>4. ASSUME NEW q \in Questions, SignalAborts(q) PROVE IInv'
  BY <1>1, <1>4, AbortStep
<1>5. CASE HandleReturn
  BY <1>1, <1>5, HandleReturnStep
<1>6. CASE ClientLosesPeer \/ ClientCloses
  BY <1>1, <1>6, CloseClientStep DEF ClientLosesPeer, ClientCloses
<1>7. CASE HandleBootstrap
  BY <1>1, <1>7, BootstrapAnswered
<1>8. CASE HandleCall
  BY <1>1, <1>8, CallStep
<1>9. CASE HandleFinish
  BY <1>1, <1>9, FinishStep
<1>10. CASE ServerLosesPeer \/ ServerCloses
  BY <1>1, <1>10, CloseServerStep DEF ServerLosesPeer, ServerCloses
<1>11. CASE HandleAbort
  BY <1>1, <1>11, CloseServerStep DEF HandleAbort
<1>12. ASSUME NEW q \in Questions, ResumePipelined(q) PROVE IInv'
  BY <1>1, <1>12, ResumeStep
<1>13. ASSUME NEW q \in Questions, HandlerReturns(q) PROVE IInv'
  BY <1>1, <1>13, ReturnStep
<1>14. CASE PeerAborts
  BY <1>1, <1>14, CloseClientStep, CloseServerStep DEF PeerAborts
<1>15. CASE Disconnect
  BY <1>1, <1>15, DisconnectStep
<1>16. CASE UNCHANGED vars
  <2>1. UNCHANGED <<target, promise, questions, c2s, s2c, answers, ready, stash, awaits, handler>>
    BY <1>16 DEF vars
  <2>2. RequestsAreFresh' /\ RepliesAreTrue'
    BY <2>1, WireParts DEF IInv
  <2> QED
    BY <1>1, <2>1, <2>2, ClientKept, RecordsForgotten DEF IInv
<1> QED
  BY <1>2, <1>3, <1>4, <1>5, <1>6, <1>7, <1>8, <1>9, <1>10, <1>11, <1>12, <1>13, <1>14,
     <1>15, <1>16 DEF Next, ClientStep, ServerStep

\* IInv is inductive: in every reachable state the tables, the local variables
\* of the handlers and the frames on the wire agree about every call.
THEOREM Inductive == Spec => []IInv
  BY InitInv, StepInv, PTL DEF Spec

\* rpc.mjs, #handleReturn and #wireAbort: a promise is pending exactly while
\* its question is in the table.
THEOREM PendingTracked == Spec => []PendingIsTracked
<1>1. IInv => PendingIsTracked
  BY DEF IInv
<1> QED
  BY <1>1, Inductive, PTL

\* A caller's promise is fulfilled only if the method body of that very call
\* succeeded, whatever the interleaving of Returns, Finishes, aborts and closes.
THEOREM Fulfilment == Spec => []FulfilledOnlyBySuccess
<1>1. IInv => FulfilledOnlyBySuccess
  BY DEF IInv
<1> QED
  BY <1>1, Inductive, PTL

\* No method body runs on the answer of a call that has not succeeded, also
\* when answer records are dropped and re-created under the same question id.
THEOREM Pipelining == Spec => []PipelinesBehindSuccess
<1>1. IInv => PipelinesBehindSuccess
  BY DEF IInv
<1> QED
  BY <1>1, Inductive, PTL

-----------------------------------------------------------------------------
(* No call is lost: an open question is at some place where it will be     *)
(* answered, or the client is about to learn that nothing will be.         *)

\* Where a question can wait to be answered.
Accounted(q) ==
    \/ InFlight(c2s, "call", q) \/ InFlight(c2s, "bootstrap", q)
    \/ handler[q] \in {"waiting", "running", "unsent"}
    \/ InFlight(s2c, "return", q)

\* When frames go nowhere, an open client has the news on its way.
LossIsTold == ~cclosed /\ ~Carries => Closing(s2c)

DInv == TypeOK /\ LossIsTold /\ NoCallLost

-----------------------------------------------------------------------------
(* Frames on the wire *)

LEMMA SentFlies ==
    ASSUME NEW S, NEW s \in Seq(S), NEW m \in S
    PROVE  /\ \A k, q : InFlight(s, k, q) => InFlight(Append(s, m), k, q)
           /\ InFlight(Append(s, m), m.kind, m.q)
           /\ Closing(s) => Closing(Append(s, m))
           /\ m.kind \in {"fin", "abort"} => Closing(Append(s, m))
<1>1. /\ Len(s) \in Nat /\ Len(Append(s, m)) = Len(s) + 1
      /\ \A i \in 1..Len(s) : Append(s, m)[i] = s[i] /\ i \in 1..(Len(s) + 1)
      /\ Append(s, m)[Len(s) + 1] = m
      /\ Len(s) + 1 \in 1..(Len(s) + 1)
      OBVIOUS
<1>2. \A k, q : InFlight(s, k, q) => InFlight(Append(s, m), k, q)
      BY <1>1 DEF InFlight
<1>3. InFlight(Append(s, m), m.kind, m.q)
      BY <1>1 DEF InFlight
<1>4. Closing(s) => Closing(Append(s, m))
      BY <1>1 DEF Closing
<1>5. m.kind \in {"fin", "abort"} => Closing(Append(s, m))
      BY <1>1 DEF Closing
<1> QED BY <1>2, <1>3, <1>4, <1>5

LEMMA RestFlies ==
    ASSUME NEW S, NEW s \in Seq(S), s # <<>>
    PROVE  /\ \A k, q : InFlight(s, k, q) /\ ~(Head(s).kind = k /\ Head(s).q = q)
                           => InFlight(Tail(s), k, q)
           /\ Closing(s) /\ Head(s).kind \notin {"fin", "abort"} => Closing(Tail(s))
<1>1. /\ Len(s) \in Nat \ {0} /\ Head(s) = s[1] /\ Len(Tail(s)) = Len(s) - 1
      /\ \A i \in 1..(Len(s) - 1) : Tail(s)[i] = s[i + 1]
      OBVIOUS
<1>2. \A i \in 1..Len(s) : i # 1 => i - 1 \in 1..(Len(s) - 1) /\ (i - 1) + 1 = i
      BY <1>1
<1>3. \A i \in 1..Len(s) : i # 1 => i - 1 \in 1..Len(Tail(s)) /\ Tail(s)[i - 1] = s[i]
      BY <1>1, <1>2
<1>4. ASSUME NEW k, NEW q, InFlight(s, k, q), ~(Head(s).kind = k /\ Head(s).q = q)
      PROVE  InFlight(Tail(s), k, q)
  <2>1. PICK i \in 1..Len(s) : s[i].kind = k /\ s[i].q = q
        BY <1>4 DEF InFlight
  <2>2. i # 1
        BY <1>1, <1>4, <2>1
  <2> QED BY <1>3, <2>1, <2>2 DEF InFlight
<1>5. ASSUME Closing(s), Head(s).kind \notin {"fin", "abort"}
      PROVE  Closing(Tail(s))
  <2>1. PICK i \in 1..Len(s) : s[i].kind \in {"fin", "abort"}
        BY <1>5 DEF Closing
  <2>2. i # 1
        BY <1>1, <1>5, <2>1
  <2> QED BY <1>3, <2>1, <2>2 DEF Closing
<1> QED BY <1>4, <1>5

\* Sending to the server takes nothing off the wire.
LEMMA ToServerFlies ==
    ASSUME TypeOK, NEW m \in ClientFrames, ToServer(m)
    PROVE  /\ \A k, q : InFlight(c2s, k, q) => InFlight(c2s', k, q)
           /\ Carries => InFlight(c2s', m.kind, m.q)
  BY SentFlies DEF ToServer, TypeOK

\* Nor does sending to the client, which is told when it is not carried.
LEMMA ToClientFlies ==
    ASSUME TypeOK, LossIsTold, ~cclosed, NEW m \in ServerFrames, ToClient(m)
    PROVE  /\ \A k, q : InFlight(s2c, k, q) => InFlight(s2c', k, q)
           /\ InFlight(s2c', m.kind, m.q) \/ Closing(s2c')
           /\ Closing(s2c) => Closing(s2c')
           /\ m.kind \in {"fin", "abort"} => Closing(s2c')
<1>1. s2c \in Seq(ServerFrames)
      BY DEF TypeOK
<1>2. CASE Carries
      BY <1>1, <1>2, SentFlies DEF ToClient
<1>3. CASE ~Carries
      BY <1>3 DEF ToClient, LossIsTold
<1> QED BY <1>2, <1>3

-----------------------------------------------------------------------------
(* Steps *)

\* What each step has to show.
LEMMA Delivered ==
    ASSUME DInv, TypeOK',
           ~cclosed' =>
               /\ ~cclosed
               /\ Closing(s2c) => Closing(s2c')
               /\ ~Carries' => ~Carries \/ Closing(s2c')
               /\ \A q \in questions' : Accounted(q)' \/ Closing(s2c')
    PROVE  DInv'
<1>1. LossIsTold'
      BY DEF DInv, LossIsTold
<1>2. NoCallLost'
      BY DEF NoCallLost, Accounted
<1> QED BY <1>1, <1>2 DEF DInv

LEMMA Known ==
    ASSUME DInv, ~cclosed, NEW q \in questions
    PROVE  Accounted(q) \/ Closing(s2c)
  BY DEF DInv, NoCallLost, Accounted

\* bootstrap() and call().
LEMMA IssueDelivered ==
    ASSUME DInv, TypeOK', NEW q \in Questions, NEW t, Issue(q, t),
           NEW m \in ClientFrames, m.kind \in {"call", "bootstrap"}, m.q = q, ToServer(m)
    PROVE  DInv'
<1>1. /\ questions' = questions \cup {q} /\ TypeOK
      /\ UNCHANGED <<cclosed, s2c, linkUp, handler, sclosed>>
      BY DEF Issue, DInv
<1>2. Carries' <=> Carries
      BY <1>1 DEF Carries
<1>3. ASSUME ~cclosed, NEW p \in questions' PROVE Accounted(p)' \/ Closing(s2c')
  <2>1. CASE p \in questions
        BY <1>1, <1>3, <2>1, Known, ToServerFlies DEF Accounted
  <2>2. CASE p = q
    <3>1. Carries => InFlight(c2s', m.kind, q)
          BY <1>1, ToServerFlies
    <3>2. ~Carries => Closing(s2c')
          BY <1>1, <1>3 DEF DInv, LossIsTold
    <3> QED BY <2>2, <3>1, <3>2 DEF Accounted
  <2> QED BY <1>1, <1>3, <2>1, <2>2
<1> QED BY <1>1, <1>2, <1>3, Delivered

LEMMA AbortDelivered ==
    ASSUME DInv, TypeOK', NEW q \in Questions, SignalAborts(q)
    PROVE  DInv'
<1>1. /\ questions' = questions \ {q} /\ TypeOK
      /\ UNCHANGED <<cclosed, s2c, linkUp, handler, sclosed>>
      /\ ToServer(Frame("finish", q, None))
      BY DEF SignalAborts, DInv
<1>2. Carries' <=> Carries
      BY <1>1 DEF Carries
<1>3. \A k, p : InFlight(c2s, k, p) => InFlight(c2s', k, p)
      BY <1>1, ToServerFlies, FramesTyped
<1>4. ASSUME ~cclosed, NEW p \in questions' PROVE Accounted(p)' \/ Closing(s2c')
      BY <1>1, <1>3, <1>4, Known DEF Accounted
<1> QED BY <1>1, <1>2, <1>4, Delivered

LEMMA ReturnDelivered ==
    ASSUME DInv, TypeOK', HandleReturn
    PROVE  DInv'
<1> DEFINE q == Head(s2c).q
<1>1. /\ TypeOK /\ ~cclosed /\ s2c # <<>> /\ Head(s2c).kind = "return" /\ s2c' = Tail(s2c)
      /\ UNCHANGED <<cclosed, linkUp, handler, sclosed>>
      /\ s2c \in Seq(ServerFrames)
      BY DEF HandleReturn, ClientGets, DInv, TypeOK
<1>2. q \in Questions
      BY <1>1, HeadTailTyped, FrameKinds
<1>3. questions' = questions \ {q} /\ (c2s' = c2s \/ ToServer(Frame("finish", q, None)))
      BY DEF HandleReturn
<1> HIDE DEF q
<1>4. \A k, p : InFlight(c2s, k, p) => InFlight(c2s', k, p)
  <2>1. CASE c2s' = c2s
        BY <2>1
  <2>2. CASE ToServer(Frame("finish", q, None))
        BY <1>1, <1>2, <2>2, ToServerFlies, FramesTyped
  <2> QED BY <1>3, <2>1, <2>2
<1>5. Closing(s2c) => Closing(s2c')
      BY <1>1, RestFlies
<1>6. Carries' <=> Carries
      BY <1>1 DEF Carries
<1>7. ASSUME NEW p \in questions' PROVE Accounted(p)' \/ Closing(s2c')
  <2>1. p \in questions /\ p # q
        BY <1>3
  <2>2. InFlight(s2c, "return", p) => InFlight(s2c', "return", p)
        BY <1>1, <2>1, RestFlies DEF q
  <2> QED BY <1>1, <1>4, <1>5, <2>1, <2>2, Known DEF Accounted
<1> QED BY <1>1, <1>5, <1>6, <1>7, Delivered

LEMMA ClientClosedDelivered ==
    ASSUME DInv, TypeOK', NEW m, CloseClient(m)
    PROVE  DInv'
<1>1. cclosed'
      BY DEF CloseClient
<1> QED BY <1>1, Delivered

LEMMA ServerClosedDelivered ==
    ASSUME DInv, TypeOK', NEW m \in {Fin, Abort}, CloseServer(m)
    PROVE  DInv'
<1>1. /\ ToClient(m) /\ cclosed' = cclosed /\ TypeOK /\ LossIsTold
      BY DEF CloseServer, DInv
<1>2. m \in ServerFrames /\ m.kind \in {"fin", "abort"}
      BY FramesTyped DEF Fin, Abort, Frame
<1>3. ~cclosed => Closing(s2c')
      BY <1>1, <1>2, ToClientFlies
<1> QED BY <1>1, <1>3, Delivered

\* The server takes a frame off the wire: what it was is accounted for.
LEMMA TakenDelivered ==
    ASSUME DInv, TypeOK', c2s # <<>>, c2s' = Tail(c2s), NEW q, q = Head(c2s).q,
           UNCHANGED <<cclosed, linkUp, sclosed, questions>>,
           \A k, p : InFlight(s2c, k, p) => InFlight(s2c', k, p),
           Closing(s2c) => Closing(s2c'),
           \A p \in Questions : p # q => handler'[p] = handler[p],
           \/ Head(c2s).kind \notin {"call", "bootstrap"} /\ handler' = handler
           \/ Accounted(q)' \/ Closing(s2c') \/ cclosed
    PROVE  DInv'
<1>1. TypeOK /\ c2s \in Seq(ClientFrames) /\ questions \subseteq Questions
      BY DEF DInv, TypeOK
<1>2. Carries' <=> Carries
      BY DEF Carries
<1>3. ASSUME ~cclosed, NEW p \in questions' PROVE Accounted(p)' \/ Closing(s2c')
  <2>1. p \in Questions /\ (Accounted(p) \/ Closing(s2c))
        BY <1>1, <1>3, Known
  <2>2. CASE p = q /\ Head(c2s).kind \in {"call", "bootstrap"}
        BY <1>3, <2>2
  <2>3. CASE ~(p = q /\ Head(c2s).kind \in {"call", "bootstrap"})
    <3>1. \A k \in {"call", "bootstrap"} : InFlight(c2s, k, p) => InFlight(c2s', k, p)
          BY <1>1, <2>3, RestFlies
    <3>2. handler'[p] = handler[p] \/ Accounted(p)' \/ Closing(s2c')
          BY <1>3, <2>1
    <3> QED BY <2>1, <3>1, <3>2 DEF Accounted
  <2> QED BY <2>2, <2>3
<1> QED BY <1>2, <1>3, Delivered

LEMMA BootstrapDelivered ==
    ASSUME DInv, TypeOK', HandleBootstrap
    PROVE  DInv'
<1>0. PICK q : q = Head(c2s).q
      OBVIOUS
<1> DEFINE m == Frame("return", q, IF HasBootstrap THEN "ok" ELSE "err")
<1>1. /\ TypeOK /\ LossIsTold /\ c2s # <<>> /\ Head(c2s).kind = "bootstrap" /\ c2s' = Tail(c2s)
      /\ UNCHANGED <<cclosed, linkUp, sclosed, questions, handler>>
      /\ ToClient(m)
      BY <1>0 DEF HandleBootstrap, ServerGets, DInv
<1>2. q \in Questions
      BY <1>0, <1>1, HeadTailTyped, FrameKinds DEF TypeOK
<1>3. m \in ServerFrames /\ m.kind = "return" /\ m.q = q
      BY <1>2, FramesTyped DEF Frame
<1> HIDE DEF m
<1>4. CASE ~cclosed
  <2>1. /\ \A k, p : InFlight(s2c, k, p) => InFlight(s2c', k, p)
        /\ InFlight(s2c', "return", q) \/ Closing(s2c')
        /\ Closing(s2c) => Closing(s2c')
        BY <1>1, <1>3, <1>4, ToClientFlies
  <2>2. Accounted(q)' \/ Closing(s2c')
        BY <2>1 DEF Accounted
  <2> QED BY <1>0, <1>1, <2>1, <2>2, TakenDelivered
<1>5. CASE cclosed
      BY <1>1, <1>5, Delivered
<1> QED BY <1>4, <1>5

LEMMA FinishDelivered ==
    ASSUME DInv, TypeOK', HandleFinish
    PROVE  DInv'
<1>1. /\ c2s # <<>> /\ Head(c2s).kind = "finish" /\ c2s' = Tail(c2s)
      /\ UNCHANGED <<cclosed, linkUp, sclosed, questions, handler, s2c>>
      BY DEF HandleFinish, ServerGets
<1>2. Head(c2s).kind \notin {"call", "bootstrap"}
      BY <1>1
<1> QED BY <1>1, <1>2, TakenDelivered

\* A call that a handler has, or that is answered, is accounted for.
HandedOn(q) ==
    \E x \in {"waiting", "running", "done", "failed", "unsent"} :
        /\ handler' = [handler EXCEPT ![q] = x]
        /\ \/ x \in {"waiting", "running", "unsent"} /\ UNCHANGED s2c
           \/ \E o \in {"ok", "err"} : ToClient(Frame("return", q, o))

LEMMA HandedOnDelivered ==
    ASSUME DInv, NEW q \in Questions, HandedOn(q), ~cclosed
    PROVE  /\ \A k, p : InFlight(s2c, k, p) => InFlight(s2c', k, p)
           /\ Closing(s2c) => Closing(s2c')
           /\ \A p \in Questions : p # q => handler'[p] = handler[p]
           /\ Accounted(q)' \/ Closing(s2c')
<1>1. TypeOK /\ LossIsTold /\ handler \in [Questions ->
           {"none", "waiting", "running", "done", "failed", "unsent"}]
      BY DEF DInv, TypeOK
<1>2. PICK x \in {"waiting", "running", "done", "failed", "unsent"} :
        /\ handler' = [handler EXCEPT ![q] = x]
        /\ \/ x \in {"waiting", "running", "unsent"} /\ UNCHANGED s2c
           \/ \E o \in {"ok", "err"} : ToClient(Frame("return", q, o))
      BY DEF HandedOn
<1>3. handler'[q] = x /\ \A p \in Questions : p # q => handler'[p] = handler[p]
      BY <1>1, <1>2
<1>4. CASE x \in {"waiting", "running", "unsent"} /\ UNCHANGED s2c
      BY <1>3, <1>4 DEF Accounted
<1>5. ASSUME NEW o \in {"ok", "err"}, ToClient(Frame("return", q, o))
      PROVE  /\ \A k, p : InFlight(s2c, k, p) => InFlight(s2c', k, p)
             /\ Closing(s2c) => Closing(s2c')
             /\ Accounted(q)' \/ Closing(s2c')
  <2> DEFINE m == Frame("return", q, o)
  <2>1. m \in ServerFrames /\ m.kind = "return" /\ m.q = q
        BY FramesTyped DEF Frame
  <2>2. ToClient(m)
        BY <1>5
  <2> HIDE DEF m
  <2>3. /\ \A k, p : InFlight(s2c, k, p) => InFlight(s2c', k, p)
        /\ InFlight(s2c', "return", q) \/ Closing(s2c')
        /\ Closing(s2c) => Closing(s2c')
        BY <1>1, <2>1, <2>2, ToClientFlies
  <2> QED BY <2>3 DEF Accounted
<1> QED BY <1>2, <1>3, <1>4, <1>5

LEMMA DispatchHandsOn ==
    ASSUME NEW q \in Questions, NEW table, Dispatch(q, table) \/ SendException(q, table)
    PROVE  HandedOn(q)
  BY DEF Dispatch, SendException, HandedOn

LEMMA CallDelivered ==
    ASSUME DInv, TypeOK', HandleCall
    PROVE  DInv'
<1>0. PICK q : q = Head(c2s).q
      OBVIOUS
<1>1. /\ TypeOK /\ c2s # <<>> /\ Head(c2s).kind = "call" /\ c2s' = Tail(c2s)
      /\ UNCHANGED <<cclosed, linkUp, sclosed, questions>>
      BY DEF HandleCall, ServerGets, DInv
<1>2. q \in Questions
      BY <1>0, <1>1, HeadTailTyped, FrameKinds DEF TypeOK
<1>3. \/ \E table : Dispatch(q, table)
      \/ handler' = [handler EXCEPT ![q] = "waiting"] /\ UNCHANGED <<ready, s2c>>
      BY <1>0 DEF HandleCall
<1>4. HandedOn(q)
  <2>1. CASE \E table : Dispatch(q, table)
        BY <1>2, <2>1, DispatchHandsOn
  <2>2. CASE handler' = [handler EXCEPT ![q] = "waiting"] /\ UNCHANGED <<ready, s2c>>
        BY <2>2 DEF HandedOn
  <2> QED BY <1>3, <2>1, <2>2
<1>5. CASE ~cclosed
  <2>1. /\ \A k, p : InFlight(s2c, k, p) => InFlight(s2c', k, p)
        /\ Closing(s2c) => Closing(s2c')
        /\ \A p \in Questions : p # q => handler'[p] = handler[p]
        /\ Accounted(q)' \/ Closing(s2c')
        BY <1>2, <1>4, <1>5, HandedOnDelivered
  <2> QED BY <1>0, <1>1, <2>1, TakenDelivered
<1>6. CASE cclosed
      BY <1>1, <1>6, Delivered
<1> QED BY <1>5, <1>6

\* The steps of a handler between two awaits, and its end.
LEMMA HandlerDelivered ==
    ASSUME DInv, TypeOK', NEW q \in Questions, ResumePipelined(q) \/ HandlerReturns(q)
    PROVE  DInv'
<1>1. UNCHANGED <<cclosed, linkUp, sclosed, questions, c2s>> /\ questions \subseteq Questions
      BY DEF ResumePipelined, HandlerReturns, DInv, TypeOK
<1>2. HandedOn(q)
  <2>1. CASE HandlerSucceeds(q)
        BY <2>1 DEF HandlerSucceeds, HandedOn
  <2>2. CASE HandlerOverflows(q)
        BY <2>2 DEF HandlerOverflows, HandedOn
  <2>3. CASE Dispatch(q, answers) \/ SendException(q, answers)
        BY <2>3, DispatchHandsOn
  <2> QED BY <2>1, <2>2, <2>3 DEF ResumePipelined, HandlerReturns
<1>3. Carries' <=> Carries
      BY <1>1 DEF Carries
<1>4. ASSUME ~cclosed PROVE /\ Closing(s2c) => Closing(s2c')
                            /\ \A p \in questions : Accounted(p)' \/ Closing(s2c')
  <2>1. /\ \A k, p : InFlight(s2c, k, p) => InFlight(s2c', k, p)
        /\ Closing(s2c) => Closing(s2c')
        /\ \A p \in Questions : p # q => handler'[p] = handler[p]
        /\ Accounted(q)' \/ Closing(s2c')
        BY <1>2, <1>4, HandedOnDelivered
  <2>2. ASSUME NEW p \in questions, p # q PROVE Accounted(p)' \/ Closing(s2c')
        BY <1>1, <1>4, <2>1, <2>2, Known DEF Accounted
  <2> QED BY <2>1, <2>2
<1> QED BY <1>1, <1>3, <1>4, Delivered

LEMMA DisconnectDelivered ==
    ASSUME DInv, TypeOK', Disconnect
    PROVE  DInv'
<1>1. PICK n \in 0..Len(s2c) : s2c' = Append(SubSeq(s2c, 1, n), Fin)
      BY DEF Disconnect
<1>2. SubSeq(s2c, 1, n) \in Seq(ServerFrames) /\ Fin \in ServerFrames
      BY PrefixTyped, FramesTyped DEF DInv, TypeOK
<1>3. Fin.kind = "fin"
      BY DEF Fin, Frame
<1>4. Closing(s2c')
      BY <1>1, <1>2, <1>3, SentFlies
<1>5. cclosed' = cclosed
      BY DEF Disconnect
<1> QED BY <1>4, <1>5, Delivered

-----------------------------------------------------------------------------
(* The invariant *)

LEMMA DeliveredInit == Init => DInv
<1> SUFFICES ASSUME Init PROVE DInv
    OBVIOUS
<1>1. TypeOK
      BY InitTyped
<1>2. LossIsTold /\ NoCallLost
      BY DEF Init, LossIsTold, NoCallLost, Carries
<1> QED BY <1>1, <1>2 DEF DInv

LEMMA DeliveredStep == DInv /\ [Next]_vars => DInv'
<1> SUFFICES ASSUME DInv, [Next]_vars PROVE DInv'
    OBVIOUS
<1>1. TypeOK'
      BY TypeStep DEF DInv
<1>2. ASSUME NEW q \in Questions, Bootstrap(q) PROVE DInv'
  <2>1. /\ Frame("bootstrap", q, None) \in ClientFrames
        /\ Frame("bootstrap", q, None).kind = "bootstrap" /\ Frame("bootstrap", q, None).q = q
        BY FramesTyped DEF Frame
  <2> QED BY <1>1, <1>2, <2>1, IssueDelivered DEF Bootstrap
<1>3. ASSUME NEW q \in Questions, NEW t \in Questions \cup {ImportedCap}, Call(q, t) PROVE DInv'
  <2>1. /\ Frame("call", q, t) \in ClientFrames
        /\ Frame("call", q, t).kind = "call" /\ Frame("call", q, t).q = q
        BY FramesTyped DEF Frame
  <2> QED BY <1>1, <1>3, <2>1, IssueDelivered DEF Call
<1>4. ASSUME NEW q \in Questions, SignalAborts(q) PROVE DInv'
      BY <1>1, <1>4, AbortDelivered
<1>5. CASE HandleReturn
      BY <1>1, <1>5, ReturnDelivered
<1>6. CASE ClientLosesPeer \/ ClientCloses
      BY <1>1, <1>6, ClientClosedDelivered DEF ClientLosesPeer, ClientCloses
<1>7. CASE HandleBootstrap
      BY <1>1, <1>7, BootstrapDelivered
<1>8. CASE HandleCall
      BY <1>1, <1>8, CallDelivered
<1>9. CASE HandleFinish
      BY <1>1, <1>9, FinishDelivered
<1>10. CASE ServerLosesPeer \/ ServerCloses \/ HandleAbort
      BY <1>1, <1>10, ServerClosedDelivered DEF ServerLosesPeer, ServerCloses, HandleAbort
<1>11. ASSUME NEW q \in Questions, ResumePipelined(q) \/ HandlerReturns(q) PROVE DInv'
      BY <1>1, <1>11, HandlerDelivered
<1>12. CASE PeerAborts
      BY <1>1, <1>12, ClientClosedDelivered, ServerClosedDelivered DEF PeerAborts
<1>13. CASE Disconnect
      BY <1>1, <1>13, DisconnectDelivered
<1>14. CASE UNCHANGED vars
  <2>1. UNCHANGED <<questions, cclosed, sclosed, linkUp, c2s, s2c, handler>>
        BY <1>14 DEF vars
  <2> QED BY <1>1, <2>1 DEF DInv, LossIsTold, NoCallLost, Carries
<1> QED BY <1>2, <1>3, <1>4, <1>5, <1>6, <1>7, <1>8, <1>9, <1>10, <1>11, <1>12, <1>13,
           <1>14 DEF Next, ClientStep, ServerStep

\* rpc.mjs, #handleMessage, #sendException and close(): while a question is
\* open its request, its handler or its answer is under way, or the news that
\* the connection is gone.
THEOREM NothingLost == Spec => []NoCallLost
<1>1. Spec => []DInv
      BY DeliveredInit, DeliveredStep, PTL DEF Spec
<1>2. DInv => NoCallLost
      BY DEF DInv
<1> QED BY <1>1, <1>2, PTL

-----------------------------------------------------------------------------
(* The two sessions implement CallContract: every step of theirs is a step *)
(* of the contract, or changes nothing the applications can see.           *)

\* The callee's view of every call, the contract's run.
Runs == [q \in Questions |-> RunView(handler[q])]

LEMMA RunViews ==
    /\ RunView("none") = "no" /\ RunView("waiting") = "no"
    /\ RunView("running") = "started"
    /\ RunView("done") = "ok" /\ RunView("unsent") = "ok"
    /\ RunView("failed") = "failed"
  BY DEF RunView

\* The contract's variables, spelled out.
LEMMA ContractVars == UNCHANGED <<target, promise, handler>> => UNCHANGED Contract!vars
  BY DEF Contract!vars

\* Steps of one handler, seen through RunView.
LEMMA RunMoves ==
    ASSUME TypeOK, NEW q \in Questions, NEW x, handler' = [handler EXCEPT ![q] = x]
    PROVE  Runs' = [Runs EXCEPT ![q] = RunView(x)]
<1>1. \A p \in Questions : handler'[p] = IF p = q THEN x ELSE handler[p]
  BY DEF TypeOK
<1>2. Runs' = [p \in Questions |-> RunView(handler'[p])]
  BY DEF Runs
<1>3. [Runs EXCEPT ![q] = RunView(x)]
        = [p \in Questions |-> IF p = q THEN RunView(x) ELSE RunView(handler[p])]
  BY DEF Runs
<1>4. \A p \in Questions : RunView(handler'[p]) = IF p = q THEN RunView(x) ELSE RunView(handler[p])
  BY <1>1
<1> QED
  BY <1>2, <1>3, <1>4

\* A handler that stays where it was, starts, refuses or completes.
LEMMA ServerMoves ==
    ASSUME IInv, NEW q \in Questions, NEW x, UNCHANGED <<target, promise>>,
           handler' = [handler EXCEPT ![q] = x], target[q] # None,
           \/ handler[q] \in {"none", "waiting"} /\ x = "waiting"
           \/ handler[q] \in {"none", "waiting"} /\ x = "failed"
           \/ /\ handler[q] \in {"none", "waiting"} /\ x = "running"
              /\ target[q] \in Questions => handler[target[q]] \in {"done", "unsent"}
           \/ handler[q] = "running" /\ x \in {"done", "unsent", "failed"}
    PROVE  Contract!Next \/ UNCHANGED Contract!vars
<1>1. Runs' = [Runs EXCEPT ![q] = RunView(x)] /\ Runs[q] = RunView(handler[q])
  BY RunMoves DEF IInv, Runs
<1>2. promise[q] # "unused"
  BY DEF IInv, IssuedHaveTargets
<1>3. CASE handler[q] \in {"none", "waiting"} /\ x = "waiting"
  <2>1. Runs' = Runs
    BY <1>1, <1>3, RunViews DEF Runs
  <2> QED
    BY <2>1 DEF Contract!vars, Runs
<1>4. CASE handler[q] \in {"none", "waiting"} /\ x = "failed"
  <2>1. Contract!Refuse(q)
    BY <1>1, <1>2, <1>4, RunViews DEF Contract!Refuse, Runs
  <2> QED
    BY <2>1 DEF Contract!Next
<1>5. CASE /\ handler[q] \in {"none", "waiting"} /\ x = "running"
           /\ target[q] \in Questions => handler[target[q]] \in {"done", "unsent"}
  <2>1. target[q] \in Questions => Runs[target[q]] = "ok"
    BY <1>5, RunViews DEF Runs
  <2>2. Contract!Start(q)
    BY <1>1, <1>2, <1>5, <2>1, RunViews DEF Contract!Start, Runs
  <2> QED
    BY <2>2 DEF Contract!Next
<1>6. CASE handler[q] = "running" /\ x \in {"done", "unsent", "failed"}
  <2>1. PICK outcome \in {"ok", "failed"} : RunView(x) = outcome
    BY <1>6, RunViews
  <2>2. Contract!Complete(q, outcome)
    BY <1>1, <1>6, <2>1, RunViews DEF Contract!Complete, Runs
  <2> QED
    BY <2>2 DEF Contract!Next
<1> QED
  BY <1>3, <1>4, <1>5, <1>6

\* Steps that settle no promise and move no handler are invisible; steps that
\* reject promises of open questions are Reject.
LEMMA PromisesRejected ==
    ASSUME IInv, UNCHANGED <<target, handler>>, NEW S \in SUBSET Questions,
           S \subseteq questions,
           promise' = [q \in Questions |-> IF q \in S THEN "err" ELSE promise[q]]
    PROVE  Contract!Next \/ UNCHANGED Contract!vars
<1>1. \A q \in S : promise[q] = "pending"
  BY DEF IInv, PendingIsTracked
<1>2. Contract!Reject(S)
  BY <1>1 DEF Contract!Reject
<1> QED
  BY <1>2 DEF Contract!Next

LEMMA IssueContract ==
    ASSUME NEW q \in Questions, NEW t \in Questions \cup {ImportedCap, BootstrapCap}, Issue(q, t)
    PROVE  Contract!Next
<1>1. Contract!Issue(q, t)
  BY DEF Issue, Contract!Issue
<1> QED
  BY <1>1 DEF Contract!Next

\* A Return fulfils or rejects its question, or is dropped.
LEMMA ReturnContract ==
    ASSUME IInv, HandleReturn
    PROVE  Contract!Next \/ UNCHANGED Contract!vars
<1> DEFINE q == Head(s2c).q
<1>1. /\ s2c # <<>> /\ Head(s2c).kind = "return" /\ UNCHANGED <<target, handler>>
  BY DEF HandleReturn, ClientGets
<1>2. /\ Head(s2c) \in ServerFrames /\ Len(s2c) \in Nat /\ Len(s2c) >= 1 /\ Head(s2c) = s2c[1]
  BY <1>1, HeadTailTyped, TailAt DEF IInv, TypeOK
<1>3. q \in Questions
  BY <1>1, <1>2, FrameKinds
<1>4. Head(s2c).arg = "ok" => handler[q] = "done" \/ target[q] = BootstrapCap
  <2>1. 1 \in 1..Len(s2c)
    BY <1>2
  <2> QED
    BY <1>1, <1>2, <2>1 DEF IInv, RepliesAreTrue
<1> HIDE DEF q
<1>5. CASE UNCHANGED <<promise, questions, c2s>>
  BY <1>1, <1>5, ContractVars
<1>6. ASSUME q \in questions, promise' = [promise EXCEPT ![q] = "err"]
      PROVE  Contract!Next \/ UNCHANGED Contract!vars
  <2>1. promise' = [p \in Questions |-> IF p \in {q} THEN "err" ELSE promise[p]]
    BY <1>6 DEF IInv, TypeOK
  <2>2. {q} \in SUBSET Questions /\ {q} \subseteq questions
    BY <1>3, <1>6
  <2> QED
    BY <1>1, <2>1, <2>2, PromisesRejected
<1>7. ASSUME q \in questions, Head(s2c).arg = "ok", promise' = [promise EXCEPT ![q] = "ok"]
      PROVE  Contract!Next
  <2>1. promise[q] = "pending"
    BY <1>3, <1>7 DEF IInv, PendingIsTracked
  <2>2. target[q] # BootstrapCap => Runs[q] = "ok"
    BY <1>3, <1>4, <1>7, RunViews DEF Runs
  <2>3. Contract!Fulfil(q)
    BY <1>1, <1>7, <2>1, <2>2 DEF Contract!Fulfil, Runs
  <2> QED
    BY <1>3, <2>3 DEF Contract!Next
<1> QED
  BY <1>5, <1>6, <1>7 DEF HandleReturn, q

LEMMA RefinesInit == Init => Contract!Init
  BY RunViews DEF Init, Contract!Init

LEMMA RefinesStep == IInv /\ [Next]_vars => [Contract!Next]_(Contract!vars)
<1> SUFFICES ASSUME IInv, [Next]_vars PROVE Contract!Next \/ UNCHANGED Contract!vars
  OBVIOUS
<1>1. ASSUME NEW q \in Questions, Bootstrap(q) PROVE Contract!Next
  BY <1>1, IssueContract DEF Bootstrap
<1>2. ASSUME NEW q \in Questions, NEW t \in Questions \cup {ImportedCap}, Call(q, t)
      PROVE  Contract!Next
  BY <1>2, IssueContract DEF Call
<1>3. ASSUME NEW q \in Questions, SignalAborts(q) PROVE Contract!Next \/ UNCHANGED Contract!vars
  <2>1. promise' = [p \in Questions |-> IF p \in {q} THEN "err" ELSE promise[p]]
    BY <1>3 DEF SignalAborts, IInv, TypeOK
  <2>2. {q} \in SUBSET Questions /\ {q} \subseteq questions /\ UNCHANGED <<target, handler>>
    BY <1>3 DEF SignalAborts
  <2> QED
    BY <2>1, <2>2, PromisesRejected
<1>4. ASSUME NEW m, CloseClient(m) PROVE Contract!Next \/ UNCHANGED Contract!vars
  <2>1. questions \in SUBSET Questions
    BY DEF IInv, TypeOK
  <2> QED
    BY <1>4, <2>1, PromisesRejected DEF CloseClient
<1>5. ASSUME NEW m, CloseServer(m) PROVE UNCHANGED Contract!vars
  BY <1>5, ContractVars DEF CloseServer
<1>6. CASE HandleBootstrap \/ HandleFinish \/ Disconnect \/ UNCHANGED vars
  BY <1>6, ContractVars DEF HandleBootstrap, HandleFinish, Disconnect, vars
<1>7. CASE HandleCall
  <2> DEFINE q == Head(c2s).q
  <2>1. q \in Questions /\ handler[q] = "none" /\ target[q] # None /\ UNCHANGED <<target, promise>>
    BY <1>7, CallEffect
  <2>2. PICK x \in {"waiting", "running", "failed"} :
           /\ handler' = [handler EXCEPT ![q] = x]
           /\ x = "running" /\ target[q] \in Questions => handler[target[q]] \in {"done", "unsent"}
    BY <1>7, CallEffect
  <2> HIDE DEF q
  <2> QED
    BY <2>1, <2>2, ServerMoves
<1>8. ASSUME NEW q \in Questions, ResumePipelined(q) PROVE Contract!Next \/ UNCHANGED Contract!vars
  <2>1. handler[q] = "waiting" /\ target[q] # None /\ UNCHANGED <<target, promise>>
    BY <1>8, ResumeEffect
  <2>2. PICK x \in {"running", "failed"} :
           /\ handler' = [handler EXCEPT ![q] = x]
           /\ x = "running" /\ target[q] \in Questions => handler[target[q]] \in {"done", "unsent"}
    BY <1>8, ResumeEffect
  <2> QED
    BY <2>1, <2>2, ServerMoves
<1>9. ASSUME NEW q \in Questions, HandlerReturns(q) PROVE Contract!Next \/ UNCHANGED Contract!vars
  <2>1. handler[q] = "running" /\ target[q] # None /\ UNCHANGED <<target, promise>>
    BY <1>9, ReturnEffect
  <2>2. PICK x \in {"failed", "done", "unsent"} : handler' = [handler EXCEPT ![q] = x]
    BY <1>9, ReturnEffect
  <2> QED
    BY <2>1, <2>2, ServerMoves
<1>10. CASE HandleReturn
  BY <1>10, ReturnContract
<1>11. CASE ClientLosesPeer \/ ClientCloses \/ PeerAborts
  BY <1>4, <1>5, <1>11 DEF ClientLosesPeer, ClientCloses, PeerAborts
<1>12. CASE ServerLosesPeer \/ ServerCloses \/ HandleAbort
  BY <1>5, <1>12 DEF ServerLosesPeer, ServerCloses, HandleAbort
<1> QED
  BY <1>1, <1>2, <1>3, <1>6, <1>7, <1>8, <1>9, <1>10, <1>11, <1>12
     DEF Next, ClientStep, ServerStep

\* The two sessions keep the contract of CallContract: a method body runs at
\* most once, behind a successful target, and a promise settles once, with
\* success only if that body succeeded.
THEOREM ImplementsContract == Spec => ContractSpec
  BY RefinesInit, RefinesStep, Inductive, PTL DEF Spec, ContractSpec, Contract!Spec
-----------------------------------------------------------------------------
(* The answer table: records are owned, and outcomes reach their waiters *)

Over == {"done", "failed", "unsent"}

\* The Call at each place of the wire is of an open question, or has the
\* Finish of its question behind it.
CallsOwned(wire, open) ==
    \A i \in 1..Len(wire) : wire[i].kind = "call" =>
        \/ wire[i].q \in open
        \/ \E j \in (i + 1)..Len(wire) : wire[j].kind = "finish" /\ wire[j].q = wire[i].q

\* AnswersAreOwned, with the calls whose records are still to be made.
Owned ==
    ~cclosed /\ ~sclosed /\ ~Closing(c2s) =>
        /\ linkUp
        /\ CallsOwned(c2s, questions)
        /\ \A q \in Questions :
              answers[q] = <<q, "own">> => q \in questions \/ InFlight(c2s, "finish", q)

\* A Finish is the end of its question.
FinishesSettle ==
    \A q \in Questions : InFlight(c2s, "finish", q) => promise[q] \in {"ok", "err"}

\* Nothing is pipelined on a call that was not issued.
TargetsIssued == \A q \in Questions : target[q] \in Questions => target[target[q]] # None

\* While a question is open its record stays in the table, so that the handler
\* and those who wait for it have the same one.
AnswersStay ==
    ~sclosed => \A t \in Questions : promise[t] = "pending" =>
        /\ handler[t] # "none" => answers[t] = stash[t]
        /\ handler[t] \in Over => ready[answers[t]] # "pending"
        /\ \A q \in Questions : handler[q] = "waiting" /\ target[q] = t => awaits[q] = answers[t]

AInv == Owned /\ FinishesSettle /\ TargetsIssued /\ AnswersStay

\* What comes onto a wire with a frame.
LEMMA AddedFlies ==
    ASSUME NEW S, NEW s \in Seq(S), NEW m \in S
    PROVE  /\ \A k, q : InFlight(Append(s, m), k, q) =>
                 InFlight(s, k, q) \/ (m.kind = k /\ m.q = q)
           /\ Closing(Append(s, m)) => Closing(s) \/ m.kind \in {"fin", "abort"}
<1>1. /\ Len(s) \in Nat /\ Len(Append(s, m)) = Len(s) + 1
      /\ \A i \in 1..Len(s) : Append(s, m)[i] = s[i]
      /\ Append(s, m)[Len(s) + 1] = m
  OBVIOUS
<1>2. \A i \in 1..Len(Append(s, m)) : i \in 1..Len(s) \/ i = Len(s) + 1
  BY <1>1
<1>3. ASSUME NEW k, NEW q, InFlight(Append(s, m), k, q)
      PROVE  InFlight(s, k, q) \/ (m.kind = k /\ m.q = q)
  BY <1>1, <1>2, <1>3 DEF InFlight
<1>4. Closing(Append(s, m)) => Closing(s) \/ m.kind \in {"fin", "abort"}
  BY <1>1, <1>2 DEF Closing
<1> QED
  BY <1>3, <1>4

\* Taking a frame, or losing the last ones, brings nothing onto a wire.
LEMMA TakenFlies ==
    ASSUME NEW S, NEW s \in Seq(S)
    PROVE  /\ s # <<>> => \A k, q : InFlight(Tail(s), k, q) => InFlight(s, k, q)
           /\ \A n \in 0..Len(s) : \A k, q : InFlight(SubSeq(s, 1, n), k, q) => InFlight(s, k, q)
<1>1. ASSUME s # <<>>, NEW k, NEW q, InFlight(Tail(s), k, q) PROVE InFlight(s, k, q)
  <2>1. \A i \in 1..Len(Tail(s)) : Tail(s)[i] = s[i + 1] /\ i + 1 \in 1..Len(s)
    BY <1>1
  <2> QED
    BY <1>1, <2>1 DEF InFlight
<1>2. ASSUME NEW n \in 0..Len(s), NEW k, NEW q, InFlight(SubSeq(s, 1, n), k, q) PROVE InFlight(s, k, q)
  <2>1. /\ Len(SubSeq(s, 1, n)) = n
        /\ \A i \in 1..n : SubSeq(s, 1, n)[i] = s[i] /\ i \in 1..Len(s)
    BY PrefixAt
  <2> QED
    BY <1>2, <2>1 DEF InFlight
<1> QED
  BY <1>1, <1>2

\* A question may be opened, and one may be closed by the Finish that follows.
LEMMA OwnedAppend ==
    ASSUME NEW w \in Seq(ClientFrames), NEW m \in ClientFrames, NEW open, NEW now,
           CallsOwned(w, open),
           \A q \in open : q \in now \/ (m.kind = "finish" /\ m.q = q),
           m.kind = "call" => m.q \in now
    PROVE  CallsOwned(Append(w, m), now)
<1> DEFINE x == Append(w, m)
<1>1. /\ Len(w) \in Nat /\ Len(x) = Len(w) + 1
      /\ \A i \in 1..Len(w) : x[i] = w[i]
      /\ x[Len(w) + 1] = m
  BY AppendAt
<1> HIDE DEF x
<1> SUFFICES ASSUME NEW i \in 1..Len(x), x[i].kind = "call"
             PROVE  \/ x[i].q \in now
                    \/ \E j \in (i + 1)..Len(x) : x[j].kind = "finish" /\ x[j].q = x[i].q
  BY DEF CallsOwned, x
<1>2. CASE i = Len(w) + 1
  BY <1>1, <1>2
<1>3. CASE i \in 1..Len(w)
  <2>1. x[i] = w[i]
    BY <1>1, <1>3
  <2>2. CASE w[i].q \in open
    <3>1. Len(w) + 1 \in (i + 1)..Len(x)
      BY <1>1, <1>3
    <3> QED
      BY <1>1, <2>1, <2>2, <3>1
  <2>3. ASSUME NEW j \in (i + 1)..Len(w), w[j].kind = "finish", w[j].q = w[i].q
        PROVE  \E k \in (i + 1)..Len(x) : x[k].kind = "finish" /\ x[k].q = x[i].q
    <3>1. j \in (i + 1)..Len(x) /\ x[j] = w[j]
      BY <1>1, <1>3
    <3> QED
      BY <2>1, <2>3, <3>1
  <2> QED
    BY <1>3, <2>1, <2>2, <2>3 DEF CallsOwned
<1> QED
  BY <1>1, <1>2, <1>3

LEMMA OwnedTail ==
    ASSUME NEW w \in Seq(ClientFrames), NEW open, CallsOwned(w, open), w # <<>>
    PROVE  /\ CallsOwned(Tail(w), open)
           /\ Head(w).kind = "call" => Head(w).q \in open \/ InFlight(Tail(w), "finish", Head(w).q)
<1> DEFINE x == Tail(w)
<1>1. /\ Len(w) \in Nat /\ Len(w) >= 1 /\ Len(x) = Len(w) - 1 /\ Head(w) = w[1]
      /\ \A i \in 1..Len(x) : x[i] = w[i + 1] /\ i + 1 \in 1..Len(w)
  BY TailAt
<1> HIDE DEF x
<1>2. ASSUME NEW i \in 1..Len(w), NEW j \in (i + 1)..Len(w)
      PROVE  j - 1 \in i..Len(x) /\ j - 1 \in 1..Len(x) /\ x[j - 1] = w[j]
  BY <1>1
<1>3. CallsOwned(x, open)
  <2> SUFFICES ASSUME NEW i \in 1..Len(x), x[i].kind = "call"
               PROVE  \/ x[i].q \in open
                      \/ \E j \in (i + 1)..Len(x) : x[j].kind = "finish" /\ x[j].q = x[i].q
    BY DEF CallsOwned
  <2>1. x[i] = w[i + 1] /\ i + 1 \in 1..Len(w)
    BY <1>1
  <2>2. CASE w[i + 1].q \in open
    BY <2>1, <2>2
  <2>3. ASSUME NEW j \in ((i + 1) + 1)..Len(w), w[j].kind = "finish", w[j].q = w[i + 1].q
        PROVE  \E k \in (i + 1)..Len(x) : x[k].kind = "finish" /\ x[k].q = x[i].q
    <3>1. j - 1 \in (i + 1)..Len(x) /\ x[j - 1] = w[j]
      BY <1>2, <2>1
    <3> QED
      BY <2>1, <2>3, <3>1
  <2> QED
    BY <2>1, <2>2, <2>3 DEF CallsOwned
<1>4. ASSUME w[1].kind = "call", w[1].q \notin open PROVE InFlight(x, "finish", w[1].q)
  <2>1. 1 \in 1..Len(w)
    BY <1>1
  <2>2. PICK j \in (1 + 1)..Len(w) : w[j].kind = "finish" /\ w[j].q = w[1].q
    BY <1>4, <2>1 DEF CallsOwned
  <2>3. j - 1 \in 1..Len(x) /\ x[j - 1] = w[j]
    BY <1>2, <2>1
  <2> QED
    BY <2>2, <2>3 DEF InFlight
<1> QED
  BY <1>1, <1>3, <1>4 DEF x

-----------------------------------------------------------------------------
(* Owned, by what a step does to the wire *)

LEMMA OwnedSend ==
    ASSUME TypeOK, Owned, UNCHANGED <<cclosed, sclosed, linkUp, answers>>,
           NEW m \in ClientFrames, ToServer(m),
           \A q \in questions : q \in questions' \/ (m.kind = "finish" /\ m.q = q),
           m.kind = "call" => m.q \in questions'
    PROVE  Owned'
<1> SUFFICES ASSUME ~cclosed, ~sclosed, ~Closing(c2s')
             PROVE  /\ linkUp
                    /\ CallsOwned(c2s', questions')
                    /\ \A q \in Questions : answers[q] = <<q, "own">> =>
                          q \in questions' \/ InFlight(c2s', "finish", q)
  BY DEF Owned
<1>1. c2s \in Seq(ClientFrames)
  BY DEF TypeOK
<1>2. ~Closing(c2s)
  BY <1>1, SentFlies DEF ToServer
<1>3. /\ linkUp /\ CallsOwned(c2s, questions)
      /\ \A q \in Questions :
            answers[q] = <<q, "own">> => q \in questions \/ InFlight(c2s, "finish", q)
  BY <1>2 DEF Owned
<1>4. c2s' = Append(c2s, m)
  BY <1>3 DEF ToServer, Carries
<1>5. CallsOwned(c2s', questions')
  BY <1>1, <1>3, <1>4, OwnedAppend
<1>6. /\ \A q : InFlight(c2s, "finish", q) => InFlight(c2s', "finish", q)
      /\ InFlight(c2s', m.kind, m.q)
  BY <1>1, <1>4, SentFlies
<1> QED
  BY <1>3, <1>5, <1>6

LEMMA OwnedTake ==
    ASSUME TypeOK, Owned, UNCHANGED <<cclosed, sclosed, linkUp, questions>>,
           c2s # <<>>, c2s' = Tail(c2s), Head(c2s).kind \notin {"fin", "abort"},
           \A q \in Questions : answers'[q] = <<q, "own">> =>
               \/ answers[q] = <<q, "own">> /\ ~(Head(c2s).kind = "finish" /\ Head(c2s).q = q)
               \/ Head(c2s).kind = "call" /\ Head(c2s).q = q
    PROVE  Owned'
<1> SUFFICES ASSUME ~cclosed, ~sclosed, ~Closing(c2s')
             PROVE  /\ linkUp
                    /\ CallsOwned(c2s', questions)
                    /\ \A q \in Questions : answers'[q] = <<q, "own">> =>
                          q \in questions \/ InFlight(c2s', "finish", q)
  BY DEF Owned
<1>1. c2s \in Seq(ClientFrames)
  BY DEF TypeOK
<1>2. ~Closing(c2s)
  BY <1>1, RestFlies
<1>3. /\ linkUp /\ CallsOwned(c2s, questions)
      /\ \A q \in Questions :
            answers[q] = <<q, "own">> => q \in questions \/ InFlight(c2s, "finish", q)
  BY <1>2 DEF Owned
<1>4. /\ CallsOwned(c2s', questions)
      /\ Head(c2s).kind = "call" =>
            Head(c2s).q \in questions \/ InFlight(c2s', "finish", Head(c2s).q)
  BY <1>1, <1>3, OwnedTail
<1>5. ASSUME NEW q \in Questions, answers'[q] = <<q, "own">>
      PROVE  q \in questions \/ InFlight(c2s', "finish", q)
  <2>1. CASE Head(c2s).kind = "call" /\ Head(c2s).q = q
    BY <1>4, <2>1
  <2>2. CASE answers[q] = <<q, "own">> /\ ~(Head(c2s).kind = "finish" /\ Head(c2s).q = q)
    BY <1>1, <1>3, <2>2, RestFlies
  <2> QED
    BY <1>5, <2>1, <2>2
<1> QED
  BY <1>3, <1>4, <1>5

\* An answered question stays answered, and a new Finish is of one.
LEMMA FinishesKept ==
    ASSUME FinishesSettle,
           \A q \in Questions : promise[q] \in {"ok", "err"} => promise'[q] \in {"ok", "err"},
           \A q \in Questions : InFlight(c2s', "finish", q) =>
               InFlight(c2s, "finish", q) \/ promise'[q] \in {"ok", "err"}
    PROVE  FinishesSettle'
  BY DEF FinishesSettle

\* What the client sends besides a Finish leaves them as they are.
LEMMA FinishesSent ==
    ASSUME TypeOK, NEW m \in ClientFrames, ToServer(m)
    PROVE  \A q \in Questions : InFlight(c2s', "finish", q) =>
               InFlight(c2s, "finish", q) \/ (m.kind = "finish" /\ m.q = q)
  BY AddedFlies DEF ToServer, TypeOK

-----------------------------------------------------------------------------
(* AnswersStay, by what a step does to the tables *)

\* The server is not concerned, and no question is opened.
LEMMA StayKept ==
    ASSUME AnswersStay, UNCHANGED <<target, serverVars>>,
           \A q \in Questions : promise'[q] = "pending" => promise[q] = "pending"
    PROVE  AnswersStay'
  BY DEF AnswersStay

\* A handler that has begun goes on, or ends with its record settled.
LEMMA StayHandled ==
    ASSUME IInv, AnswersStay, UNCHANGED <<target, promise, answers, stash, awaits, sclosed>>,
           NEW q \in Questions, handler[q] # "none",
           NEW x \in {"running"} \cup Over, handler' = [handler EXCEPT ![q] = x],
           \A r \in Records : ready[r] # "pending" => ready'[r] # "pending",
           x \in Over /\ answers[q] = stash[q] => ready'[answers[q]] # "pending"
    PROVE  AnswersStay'
<1> SUFFICES ASSUME ~sclosed, NEW t \in Questions, promise[t] = "pending"
             PROVE  /\ handler'[t] # "none" => answers[t] = stash[t]
                    /\ handler'[t] \in Over => ready'[answers[t]] # "pending"
                    /\ \A p \in Questions : handler'[p] = "waiting" /\ target[p] = t =>
                          awaits[p] = answers[t]
  BY DEF AnswersStay
<1>1. /\ handler'[q] = x /\ x # "waiting"
      /\ \A p \in Questions : p # q => handler'[p] = handler[p]
  BY DEF IInv, TypeOK, Over
<1>2. /\ handler[t] # "none" => answers[t] = stash[t]
      /\ handler[t] \in Over => ready[answers[t]] # "pending"
      /\ \A p \in Questions : handler[p] = "waiting" /\ target[p] = t => awaits[p] = answers[t]
  BY DEF AnswersStay
<1>3. handler[t] # "none" => answers[t] \in Records
  <2>1. handler[t] # "none" => stash[t] # None
    BY DEF IInv, RecordsFollowCalls
  <2> QED
    BY <1>2, <2>1 DEF IInv, TypeOK
<1>4. handler'[t] # "none" => handler[t] # "none"
  BY <1>1
<1>5. handler'[t] \in Over => ready'[answers[t]] # "pending"
  <2>1. CASE t = q
    BY <1>1, <1>2, <2>1
  <2>2. CASE t # q
    BY <1>1, <1>2, <1>3, <2>2 DEF Over
  <2> QED
    BY <2>1, <2>2
<1> QED
  BY <1>1, <1>2, <1>4, <1>5

\* A question that is opened is unknown to the server.
LEMMA StayIssued ==
    ASSUME IInv, TargetsIssued, AnswersStay, NEW q \in Questions, NEW t, Issue(q, t)
    PROVE  AnswersStay'
<1> SUFFICES ASSUME ~sclosed, NEW s \in Questions, promise'[s] = "pending"
             PROVE  /\ handler[s] # "none" => answers[s] = stash[s]
                    /\ handler[s] \in Over => ready[answers[s]] # "pending"
                    /\ \A p \in Questions : handler[p] = "waiting" /\ target'[p] = s =>
                          awaits[p] = answers[s]
  BY DEF AnswersStay, Issue
<1>1. /\ target[q] = None /\ handler[q] = "none"
      /\ target' = [target EXCEPT ![q] = t]
  BY CallsStay
<1>2. promise' = [promise EXCEPT ![q] = "pending"]
  BY DEF Issue
<1>3. \A p \in Questions : p # q => target'[p] = target[p] /\ promise'[p] = promise[p]
  BY <1>1, <1>2 DEF IInv, TypeOK
<1>4. CASE s = q
  <2>1. \A p \in Questions : target[p] # q
    BY <1>1 DEF TargetsIssued
  <2> QED
    BY <1>1, <1>3, <1>4, <2>1 DEF Over
<1>5. CASE s # q
  BY <1>1, <1>3, <1>5 DEF AnswersStay
<1> QED
  BY <1>4, <1>5

\* A record is removed when its question is over.
LEMMA StayFinished ==
    ASSUME IInv, FinishesSettle, AnswersStay, HandleFinish
    PROVE  AnswersStay'
<1>1. PICK f : f = Head(c2s).q
  OBVIOUS
<1>2. /\ c2s # <<>> /\ Head(c2s).kind = "finish"
      /\ answers' = [answers EXCEPT ![f] = None]
      /\ UNCHANGED <<target, promise, ready, stash, awaits, handler, sclosed>>
  BY <1>1 DEF HandleFinish, ServerGets
<1>3. c2s \in Seq(ClientFrames) /\ Head(c2s) = c2s[1] /\ 1 \in 1..Len(c2s)
  BY <1>2, TailAt DEF IInv, TypeOK
<1>4. f \in Questions
  BY <1>1, <1>2, <1>3, HeadTailTyped, FrameKinds
<1>5. InFlight(c2s, "finish", f)
  BY <1>1, <1>2, <1>3 DEF InFlight
<1>6. promise[f] # "pending"
  BY <1>4, <1>5 DEF FinishesSettle
<1>7. \A t \in Questions : promise[t] = "pending" => answers'[t] = answers[t]
  BY <1>2, <1>6 DEF IInv, TypeOK
<1> QED
  BY <1>2, <1>7 DEF AnswersStay

-----------------------------------------------------------------------------
(* The handlers, by what they do to the table *)

\* An outcome that was settled stays settled, and a failure settles the record
\* that the table has for the call.
LEMMA DispatchSettles ==
    ASSUME TypeOK, NEW q \in Questions, NEW table \in [Questions -> Records \cup {None}],
           Dispatch(q, table) \/ SendException(q, table)
    PROVE  /\ \A r \in Records : ready[r] # "pending" => ready'[r] # "pending"
           /\ \E x \in {"running", "failed"} :
                 /\ handler' = [handler EXCEPT ![q] = x]
                 /\ x = "failed" /\ table[q] # None => ready'[table[q]] # "pending"
<1>1. ready \in [Records -> {"pending", "resolved", "rejected"}] /\ table[q] \in Records \cup {None}
  BY DEF TypeOK
<1>2. CASE handler' = [handler EXCEPT ![q] = "running"] /\ UNCHANGED <<ready, s2c>>
  BY <1>2
<1>3. CASE SendException(q, table)
  <2>1. \A r \in Records : ready[r] # "pending" => ready'[r] # "pending"
    BY <1>1, <1>3 DEF SendException
  <2>2. table[q] # None => ready'[table[q]] # "pending"
    BY <1>1, <1>3 DEF SendException
  <2> QED
    BY <1>3, <2>1, <2>2 DEF SendException
<1> QED
  BY <1>2, <1>3 DEF Dispatch

\* A record that is there is found, and one is made only where there is none.
LEMMA RecordFound ==
    ASSUME NEW table \in [Questions -> Records \cup {None}], NEW k \in Questions,
           NEW r \in Records
    PROVE  /\ GetOrCreate(table, k, r) \in [Questions -> Records \cup {None}]
           /\ GetOrCreate(table, k, r)[k] # None
           /\ \A p \in Questions : table[p] # None => GetOrCreate(table, k, r)[p] = table[p]
           /\ \A p \in Questions :
                 GetOrCreate(table, k, r)[p] = table[p] \/ (p = k /\ GetOrCreate(table, k, r)[p] = r)
  BY ConstantsAssumption DEF GetOrCreate

\* What handling a request does to the table, the record it fills and the one
\* it waits for.
LEMMA CallTable ==
    ASSUME IInv, HandleCall, NEW q, q = Head(c2s).q
    PROVE  /\ answers' \in [Questions -> Records \cup {None}] /\ answers'[q] # None
           /\ \A p \in Questions : answers[p] # None => answers'[p] = answers[p]
           /\ \A p \in Questions : answers'[p] = <<p, "own">> => answers[p] = <<p, "own">> \/ p = q
           /\ stash' = [stash EXCEPT ![q] = answers'[q]]
           /\ \A r \in Records : ready[r] # "pending" => ready'[r] # "pending"
           /\ \E x \in {"waiting", "running", "failed"} :
                 /\ handler' = [handler EXCEPT ![q] = x]
                 /\ x = "failed" => ready'[answers'[q]] # "pending"
                 /\ x = "waiting" => awaits'[q] = answers'[target[q]]
                 /\ \A p \in Questions \ {q} : awaits'[p] = awaits[p]
<1>1. PICK t : t = Head(c2s).arg
  OBVIOUS
<1>2. PICK o : o = <<q, "own">>
  OBVIOUS
<1>3. PICK own : own = GetOrCreate(answers, q, o)
  OBVIOUS
<1>4. /\ c2s # <<>> /\ Head(c2s).kind = "call"
      /\ stash' = [stash EXCEPT ![q] = own[q]]
      /\ \/ t = ImportedCap /\ answers' = own /\ UNCHANGED awaits /\ Dispatch(q, own)
         \/ /\ t \in Questions
            /\ answers' = GetOrCreate(own, t, <<q, "target">>)
            /\ awaits' = [awaits EXCEPT ![q] = answers'[t]]
            /\ IF ready[answers'[t]] = "resolved"
               THEN Dispatch(q, answers')
               ELSE /\ handler' = [handler EXCEPT ![q] = "waiting"]
                    /\ UNCHANGED <<ready, s2c>>
  BY <1>1, <1>2, <1>3 DEF HandleCall, ServerGets
<1>5. /\ c2s \in Seq(ClientFrames) /\ Head(c2s) \in ClientFrames
      /\ Len(c2s) \in Nat /\ Len(c2s) >= 1 /\ Head(c2s) = c2s[1]
  BY <1>4, HeadTailTyped, TailAt DEF IInv, TypeOK
<1>6. q \in Questions
  BY <1>4, <1>5, FrameKinds
<1>7. target[q] = t
  BY <1>1, <1>4, <1>5 DEF IInv, RequestsAreFresh
<1>8. o \in Records /\ <<q, "target">> \in Records
  BY <1>2, <1>6 DEF Records
<1>9. answers \in [Questions -> Records \cup {None}] /\ TypeOK
  BY DEF IInv, TypeOK
<1>10. /\ own \in [Questions -> Records \cup {None}] /\ own[q] # None
       /\ \A p \in Questions : answers[p] # None => own[p] = answers[p]
       /\ \A p \in Questions : own[p] = answers[p] \/ (p = q /\ own[p] = o)
  BY <1>3, <1>6, <1>8, <1>9, RecordFound
<1>11. CASE t = ImportedCap /\ answers' = own /\ UNCHANGED awaits /\ Dispatch(q, own)
  <2>1. /\ \A r \in Records : ready[r] # "pending" => ready'[r] # "pending"
        /\ \E x \in {"running", "failed"} :
              /\ handler' = [handler EXCEPT ![q] = x]
              /\ x = "failed" /\ own[q] # None => ready'[own[q]] # "pending"
    BY <1>6, <1>9, <1>10, <1>11, DispatchSettles
  <2>2. PICK x \in {"running", "failed"} :
           /\ handler' = [handler EXCEPT ![q] = x]
           /\ x = "failed" /\ own[q] # None => ready'[own[q]] # "pending"
    BY <2>1
  <2>3. /\ x \in {"waiting", "running", "failed"} /\ x # "waiting"
        /\ x = "failed" => ready'[answers'[q]] # "pending"
    BY <1>10, <1>11, <2>2
  <2>4. \A p \in Questions : answers'[p] = <<p, "own">> => answers[p] = <<p, "own">> \/ p = q
    BY <1>10, <1>11
  <2> QED
    BY <1>4, <1>10, <1>11, <2>1, <2>2, <2>3, <2>4
<1>12. CASE /\ t \in Questions
            /\ answers' = GetOrCreate(own, t, <<q, "target">>)
            /\ awaits' = [awaits EXCEPT ![q] = answers'[t]]
            /\ IF ready[answers'[t]] = "resolved"
               THEN Dispatch(q, answers')
               ELSE /\ handler' = [handler EXCEPT ![q] = "waiting"]
                    /\ UNCHANGED <<ready, s2c>>
  <2>1. /\ answers' \in [Questions -> Records \cup {None}]
        /\ \A p \in Questions : own[p] # None => answers'[p] = own[p]
        /\ \A p \in Questions : answers'[p] = own[p] \/ (p = t /\ answers'[p] = <<q, "target">>)
    <3>1. PICK r \in Records : r = <<q, "target">>
      BY <1>8
    <3>2. answers' = GetOrCreate(own, t, r) /\ t \in Questions
      BY <1>12, <3>1
    <3>3. /\ answers' \in [Questions -> Records \cup {None}]
          /\ \A p \in Questions : own[p] # None => answers'[p] = own[p]
          /\ \A p \in Questions : answers'[p] = own[p] \/ (p = t /\ answers'[p] = r)
      BY <1>10, <3>2, RecordFound
    <3> QED
      BY <3>1, <3>3
  <2>2. /\ answers'[q] # None /\ answers'[q] = own[q]
        /\ \A p \in Questions : answers[p] # None => answers'[p] = answers[p]
    BY <1>6, <1>10, <2>1
  <2>3. \A p \in Questions : answers'[p] = <<p, "own">> => answers[p] = <<p, "own">> \/ p = q
    <3>1. \A p \in Questions : <<q, "target">> # <<p, "own">>
      OBVIOUS
    <3> QED
      BY <1>10, <2>1, <3>1
  <2>4. /\ awaits'[q] = answers'[t]
        /\ \A p \in Questions \ {q} : awaits'[p] = awaits[p]
    BY <1>6, <1>12 DEF IInv, TypeOK
  <2>5. CASE Dispatch(q, answers')
    <3>1. /\ \A r \in Records : ready[r] # "pending" => ready'[r] # "pending"
          /\ \E x \in {"running", "failed"} :
                /\ handler' = [handler EXCEPT ![q] = x]
                /\ x = "failed" /\ answers'[q] # None => ready'[answers'[q]] # "pending"
      BY <1>6, <1>9, <2>1, <2>5, DispatchSettles
    <3>2. PICK x \in {"running", "failed"} :
             /\ handler' = [handler EXCEPT ![q] = x]
             /\ x = "failed" /\ answers'[q] # None => ready'[answers'[q]] # "pending"
      BY <3>1
    <3>3. /\ x \in {"waiting", "running", "failed"} /\ x # "waiting"
          /\ x = "failed" => ready'[answers'[q]] # "pending"
      BY <2>2, <3>2
    <3> QED
      BY <1>4, <2>1, <2>2, <2>3, <2>4, <3>1, <3>2, <3>3
  <2>6. CASE handler' = [handler EXCEPT ![q] = "waiting"] /\ UNCHANGED <<ready, s2c>>
    BY <1>4, <1>7, <2>1, <2>2, <2>3, <2>4, <2>6
  <2> QED
    BY <1>12, <2>5, <2>6
<1> QED
  BY <1>4, <1>11, <1>12

\* The caller of an open question and those who wait for it share its record,
\* also when a request makes it.
LEMMA StayCalled ==
    ASSUME IInv, AnswersStay, HandleCall
    PROVE  AnswersStay'
<1>1. PICK q : q = Head(c2s).q
  OBVIOUS
<1>2. /\ q \in Questions /\ handler[q] = "none"
      /\ UNCHANGED <<target, promise>>
  BY <1>1, CallEffect
<1>3. /\ answers' \in [Questions -> Records \cup {None}] /\ answers'[q] # None
      /\ \A p \in Questions : answers[p] # None => answers'[p] = answers[p]
      /\ stash' = [stash EXCEPT ![q] = answers'[q]]
      /\ \A r \in Records : ready[r] # "pending" => ready'[r] # "pending"
  BY <1>1, CallTable
<1>4. PICK x \in {"waiting", "running", "failed"} :
         /\ handler' = [handler EXCEPT ![q] = x]
         /\ x = "failed" => ready'[answers'[q]] # "pending"
         /\ x = "waiting" => awaits'[q] = answers'[target[q]]
         /\ \A p \in Questions \ {q} : awaits'[p] = awaits[p]
  BY <1>1, CallTable
<1>5. /\ handler'[q] = x /\ stash'[q] = answers'[q]
      /\ \A p \in Questions \ {q} : handler'[p] = handler[p] /\ stash'[p] = stash[p]
  BY <1>2, <1>3, <1>4 DEF IInv, TypeOK
<1>6. sclosed' = sclosed
  BY DEF HandleCall
<1> SUFFICES ASSUME ~sclosed, NEW t \in Questions, promise[t] = "pending"
             PROVE  /\ handler'[t] # "none" => answers'[t] = stash'[t]
                    /\ handler'[t] \in Over => ready'[answers'[t]] # "pending"
                    /\ \A p \in Questions : handler'[p] = "waiting" /\ target[p] = t =>
                          awaits'[p] = answers'[t]
  BY <1>2, <1>6 DEF AnswersStay
<1>7. /\ handler[t] # "none" => answers[t] = stash[t]
      /\ handler[t] \in Over => ready[answers[t]] # "pending"
      /\ \A p \in Questions : handler[p] = "waiting" /\ target[p] = t => awaits[p] = answers[t]
  BY DEF AnswersStay
<1>8. handler[t] # "none" => answers[t] \in Records /\ answers'[t] = answers[t]
  <2>1. handler[t] # "none" => stash[t] # None
    BY DEF IInv, RecordsFollowCalls
  <2> QED
    BY <1>3, <1>7, <2>1 DEF IInv, TypeOK
<1>9. handler'[t] # "none" => answers'[t] = stash'[t]
  BY <1>5, <1>7, <1>8
<1>10. handler'[t] \in Over => ready'[answers'[t]] # "pending"
  <2>1. CASE t = q
    BY <1>4, <1>5, <2>1 DEF Over
  <2>2. CASE t # q
    BY <1>3, <1>5, <1>7, <1>8, <2>2 DEF Over
  <2> QED
    BY <2>1, <2>2
<1>11. ASSUME NEW p \in Questions, handler'[p] = "waiting", target[p] = t
       PROVE  awaits'[p] = answers'[t]
  <2>1. CASE p = q
    BY <1>4, <1>5, <1>11, <2>1
  <2>2. CASE p # q
    <3>1. handler[p] = "waiting"
      BY <1>5, <1>11, <2>2
    <3>2. awaits[p] # None
      BY <3>1 DEF IInv, RecordsFollowCalls
    <3>3. answers[t] # None /\ awaits'[p] = answers[t]
      BY <1>4, <1>7, <1>11, <2>2, <3>1, <3>2
    <3> QED
      BY <1>3, <3>3
  <2> QED
    BY <2>1, <2>2
<1> QED
  BY <1>9, <1>10, <1>11

LEMMA StayResumed ==
    ASSUME IInv, AnswersStay, NEW q \in Questions, ResumePipelined(q) \/ HandlerReturns(q)
    PROVE  AnswersStay'
<1>1. /\ handler[q] \in {"waiting", "running"}
      /\ UNCHANGED <<target, promise, answers, stash, awaits, sclosed>>
  BY DEF ResumePipelined, HandlerReturns
<1>2. stash[q] \in Records
  <2>1. handler[q] # "none"
    BY <1>1
  <2> QED
    BY <2>1 DEF IInv, TypeOK, RecordsFollowCalls
<1>3. /\ answers \in [Questions -> Records \cup {None}] /\ TypeOK
      /\ ready \in [Records -> {"pending", "resolved", "rejected"}]
  BY DEF IInv, TypeOK
<1>4. stash[q] # None
  BY <1>2, ConstantsAssumption
<1>5. \E x \in {"running"} \cup Over :
         /\ handler' = [handler EXCEPT ![q] = x]
         /\ \A r \in Records : ready[r] # "pending" => ready'[r] # "pending"
         /\ x \in Over /\ answers[q] = stash[q] => ready'[answers[q]] # "pending"
  <2>1. CASE Dispatch(q, answers) \/ SendException(q, answers)
    <3>1. /\ \A r \in Records : ready[r] # "pending" => ready'[r] # "pending"
          /\ \E x \in {"running", "failed"} :
                /\ handler' = [handler EXCEPT ![q] = x]
                /\ x = "failed" /\ answers[q] # None => ready'[answers[q]] # "pending"
      BY <1>3, <2>1, DispatchSettles
    <3> QED
      BY <1>4, <3>1 DEF Over
  <2>2. ASSUME ready' = Resolved(stash[q])
        PROVE  /\ \A r \in Records : ready[r] # "pending" => ready'[r] # "pending"
               /\ ready'[stash[q]] # "pending"
    BY <1>2, <1>3, <2>2 DEF Resolved
  <2>3. CASE HandlerSucceeds(q)
    BY <2>2, <2>3 DEF HandlerSucceeds, Over
  <2>4. CASE HandlerOverflows(q)
    BY <2>2, <2>4 DEF HandlerOverflows, Over
  <2> QED
    BY <2>1, <2>3, <2>4 DEF ResumePipelined, HandlerReturns
<1>6. PICK x \in {"running"} \cup Over :
         /\ handler' = [handler EXCEPT ![q] = x]
         /\ \A r \in Records : ready[r] # "pending" => ready'[r] # "pending"
         /\ x \in Over /\ answers[q] = stash[q] => ready'[answers[q]] # "pending"
  BY <1>5
<1>7. handler[q] # "none"
  BY <1>1
<1> QED
  BY <1>1, <1>6, <1>7, StayHandled

-----------------------------------------------------------------------------
(* Every step keeps the four *)

LEMMA TargetsKept ==
    ASSUME IInv, TargetsIssued, [Next]_vars
    PROVE  TargetsIssued'
<1>1. ASSUME NEW q \in Questions, NEW t \in Questions \cup {ImportedCap, BootstrapCap}, Issue(q, t),
             t \in Questions => target[t] # None
      PROVE  TargetsIssued'
  <2>1. /\ target[q] = None /\ target' = [target EXCEPT ![q] = t]
        /\ target'[q] = t /\ t # None
        /\ \A p \in Questions : p # q => target'[p] = target[p]
    BY <1>1, CallsStay, ConstantsAssumption DEF IInv, TypeOK, Sentinels
  <2> QED
    BY <1>1, <2>1 DEF TargetsIssued
<1>2. ASSUME NEW q \in Questions, Bootstrap(q) PROVE TargetsIssued'
  BY <1>1, <1>2, ConstantsAssumption DEF Bootstrap, Sentinels
<1>3. ASSUME NEW q \in Questions, NEW t \in Questions \cup {ImportedCap}, Call(q, t)
      PROVE  TargetsIssued'
  <2>1. t \in Questions => target[t] # None
    BY <1>3, ConstantsAssumption DEF Call, PipelineTargets, Sentinels
  <2> QED
    BY <1>1, <1>3, <2>1 DEF Call
<1>4. ASSUME UNCHANGED target PROVE TargetsIssued'
  BY <1>4 DEF TargetsIssued
<1>5. \/ UNCHANGED target
      \/ \E q \in Questions : Bootstrap(q)
      \/ \E q \in Questions, t \in Questions \cup {ImportedCap} : Call(q, t)
  BY DEF Next, ClientStep, ServerStep, SignalAborts, HandleReturn, ClientCloses, ClientLosesPeer,
         CloseClient, HandleBootstrap, HandleCall, HandleFinish, ServerLosesPeer, HandleAbort,
         ServerCloses, CloseServer, ResumePipelined, HandlerReturns, PeerAborts, Disconnect, vars
<1> QED
  BY <1>2, <1>3, <1>4, <1>5

\* A request is sent for a question that has just been opened.
LEMMA IssueKeeps ==
    ASSUME IInv, AInv, TargetsIssued', NEW q \in Questions, NEW t, Issue(q, t),
           NEW m \in ClientFrames, m.kind \in {"call", "bootstrap"}, m.q = q, ToServer(m)
    PROVE  AInv'
<1>1. /\ TypeOK /\ promise[q] = "unused" /\ promise' = [promise EXCEPT ![q] = "pending"]
      /\ questions' = questions \cup {q}
      /\ UNCHANGED <<cclosed, sclosed, linkUp, answers>>
  BY DEF Issue, IInv
<1>2. Owned'
  BY <1>1, OwnedSend DEF AInv
<1>3. \A p \in Questions : promise[p] \in {"ok", "err"} => promise'[p] \in {"ok", "err"}
  BY <1>1 DEF TypeOK
<1>4. FinishesSettle'
  <2>1. \A p \in Questions : InFlight(c2s', "finish", p) => InFlight(c2s, "finish", p)
    BY <1>1, FinishesSent
  <2> QED
    BY <1>3, <2>1, FinishesKept DEF AInv
<1>5. AnswersStay'
  BY StayIssued DEF AInv
<1> QED
  BY <1>2, <1>4, <1>5 DEF AInv

\* A question ends, and its Finish is sent.
LEMMA FinishKeeps ==
    ASSUME IInv, AInv, TargetsIssued', NEW q \in Questions, NEW o \in {"ok", "err"},
           questions' = questions \ {q}, promise' = [promise EXCEPT ![q] = o],
           ToServer(Frame("finish", q, None)),
           UNCHANGED <<target, cclosed, linkUp, serverVars>>
    PROVE  AInv'
<1>1. PICK m \in ClientFrames : m = Frame("finish", q, None)
  BY FramesTyped
<1>2. m.kind = "finish" /\ m.q = q /\ ToServer(m) /\ TypeOK
  BY <1>1, KindsSent DEF IInv
<1>3. Owned'
  BY <1>2, OwnedSend DEF AInv
<1>4. promise'[q] = o /\ \A p \in Questions : p # q => promise'[p] = promise[p]
  BY <1>2 DEF TypeOK
<1>5. FinishesSettle'
  <2>1. \A p \in Questions : InFlight(c2s', "finish", p) => InFlight(c2s, "finish", p) \/ p = q
    BY <1>2, FinishesSent
  <2> QED
    BY <1>4, <2>1, FinishesKept DEF AInv
<1>6. AnswersStay'
  BY <1>4, StayKept DEF AInv
<1> QED
  BY <1>3, <1>5, <1>6 DEF AInv

LEMMA CloseClientKeeps ==
    ASSUME IInv, AInv, TargetsIssued', NEW m \in {Fin, Abort}, CloseClient(m)
    PROVE  AInv'
<1>1. /\ TypeOK /\ m \in ClientFrames /\ m.kind # "finish"
      /\ ToServer(m) /\ cclosed'
      /\ promise' = [q \in Questions |-> IF q \in questions THEN "err" ELSE promise[q]]
      /\ UNCHANGED <<target, serverVars>>
  BY FramesTyped, KindsSent DEF CloseClient, IInv
<1>2. Owned'
  BY <1>1 DEF Owned
<1>3. FinishesSettle'
  <2>1. \A p \in Questions : InFlight(c2s', "finish", p) => InFlight(c2s, "finish", p)
    BY <1>1, FinishesSent
  <2>2. \A p \in Questions : promise[p] \in {"ok", "err"} => promise'[p] \in {"ok", "err"}
    BY <1>1
  <2> QED
    BY <2>1, <2>2, FinishesKept DEF AInv
<1>4. AnswersStay'
  BY <1>1, StayKept DEF AInv
<1> QED
  BY <1>2, <1>3, <1>4 DEF AInv

LEMMA CloseServerKeeps ==
    ASSUME AInv, TargetsIssued', NEW m, CloseServer(m)
    PROVE  AInv'
<1>1. sclosed' /\ c2s' = <<>> /\ UNCHANGED promise
  BY DEF CloseServer
<1>2. \A q : ~InFlight(c2s', "finish", q)
  BY <1>1 DEF InFlight
<1> QED
  BY <1>1, <1>2, FinishesKept DEF AInv, Owned, AnswersStay

\* The server takes a frame: its Finishes are still those of before.
LEMMA FinishesTaken ==
    ASSUME TypeOK, FinishesSettle, c2s # <<>>, c2s' = Tail(c2s), UNCHANGED promise
    PROVE  FinishesSettle'
<1>1. \A q : InFlight(c2s', "finish", q) => InFlight(c2s, "finish", q)
  BY TakenFlies DEF TypeOK
<1> QED
  BY <1>1, FinishesKept

LEMMA HandleReturnKeeps ==
    ASSUME IInv, AInv, TargetsIssued', HandleReturn
    PROVE  AInv'
<1>1. PICK q : q = Head(s2c).q
  OBVIOUS
<1>2. s2c # <<>> /\ Head(s2c).kind = "return" /\ UNCHANGED <<target, cclosed, linkUp, serverVars>>
  BY DEF HandleReturn, ClientGets
<1>3. q \in Questions /\ Head(s2c).arg \in {"ok", "err"}
  BY <1>1, <1>2, HeadTailTyped, FrameKinds DEF IInv, TypeOK
<1>4. CASE UNCHANGED <<promise, questions, c2s>>
  <2>1. Owned' /\ FinishesSettle'
    BY <1>2, <1>4 DEF AInv, Owned, FinishesSettle
  <2>2. AnswersStay'
    BY <1>2, <1>4, StayKept DEF AInv
  <2> QED
    BY <2>1, <2>2 DEF AInv
<1>5. ASSUME NEW o \in {"ok", "err"}, promise' = [promise EXCEPT ![q] = o],
             questions' = questions \ {q}, ToServer(Frame("finish", q, None))
      PROVE  AInv'
  BY <1>2, <1>3, <1>5, FinishKeeps
<1> QED
  BY <1>1, <1>4, <1>5 DEF HandleReturn

LEMMA DisconnectKeeps ==
    ASSUME IInv, AInv, TargetsIssued', Disconnect
    PROVE  AInv'
<1>1. PICK n \in 0..Len(c2s) : c2s' = Append(SubSeq(c2s, 1, n), Fin)
  BY DEF Disconnect
<1>2. /\ c2s \in Seq(ClientFrames) /\ Fin \in ClientFrames /\ Fin.kind = "fin"
      /\ SubSeq(c2s, 1, n) \in Seq(ClientFrames)
  BY PrefixTyped, FramesTyped, KindsSent DEF IInv, TypeOK
<1>3. Closing(c2s')
  BY <1>1, <1>2, SentFlies
<1>4. \A q : InFlight(c2s', "finish", q) => InFlight(c2s, "finish", q)
  <2>1. \A q : InFlight(c2s', "finish", q) => InFlight(SubSeq(c2s, 1, n), "finish", q)
    BY <1>1, <1>2, AddedFlies
  <2> QED
    BY <1>2, <2>1, TakenFlies
<1>5. UNCHANGED <<clientVars, serverVars>>
  BY DEF Disconnect
<1>6. Owned'
  BY <1>3 DEF Owned
<1>7. FinishesSettle'
  BY <1>4, <1>5, FinishesKept DEF AInv
<1>8. AnswersStay'
  BY <1>5, StayKept DEF AInv
<1> QED
  BY <1>6, <1>7, <1>8 DEF AInv

LEMMA AnswersStep ==
    ASSUME IInv, AInv, [Next]_vars
    PROVE  AInv'
<1>0. TypeOK /\ TargetsIssued'
  BY TargetsKept DEF IInv, AInv
<1>1. ASSUME NEW q \in Questions, Bootstrap(q) PROVE AInv'
  <2>1. PICK m \in ClientFrames : m = Frame("bootstrap", q, None)
    BY FramesTyped
  <2>2. m.kind = "bootstrap" /\ m.q = q /\ ToServer(m) /\ Issue(q, BootstrapCap)
    BY <1>1, <2>1, KindsSent DEF Bootstrap
  <2> QED
    BY <1>0, <2>2, IssueKeeps
<1>2. ASSUME NEW q \in Questions, NEW t \in Questions \cup {ImportedCap}, Call(q, t) PROVE AInv'
  <2>1. PICK m \in ClientFrames : m = Frame("call", q, t)
    BY FramesTyped
  <2>2. m.kind = "call" /\ m.q = q /\ ToServer(m) /\ Issue(q, t)
    BY <1>2, <2>1, KindsSent DEF Call
  <2> QED
    BY <1>0, <2>2, IssueKeeps
<1>3. ASSUME NEW q \in Questions, SignalAborts(q) PROVE AInv'
  BY <1>0, <1>3, FinishKeeps DEF SignalAborts
<1>4. CASE HandleReturn
  BY <1>0, <1>4, HandleReturnKeeps
<1>5. CASE ClientLosesPeer \/ ClientCloses
  BY <1>0, <1>5, CloseClientKeeps DEF ClientLosesPeer, ClientCloses
<1>6. CASE HandleBootstrap
  <2>1. /\ c2s # <<>> /\ Head(c2s).kind = "bootstrap" /\ c2s' = Tail(c2s)
        /\ UNCHANGED <<clientVars, linkUp, serverVars>>
    BY <1>6 DEF HandleBootstrap, ServerGets
  <2>2. Owned'
    BY <1>0, <2>1, OwnedTake DEF AInv
  <2>3. FinishesSettle' /\ AnswersStay'
    BY <1>0, <2>1, FinishesTaken, StayKept DEF AInv
  <2> QED
    BY <1>0, <2>2, <2>3 DEF AInv
<1>7. CASE HandleCall
  <2>1. PICK q : q = Head(c2s).q
    OBVIOUS
  <2>2. /\ c2s # <<>> /\ Head(c2s).kind = "call" /\ c2s' = Tail(c2s)
        /\ UNCHANGED <<clientVars, linkUp, sclosed>>
    BY <1>7 DEF HandleCall, ServerGets
  <2>3. \A p \in Questions : answers'[p] = <<p, "own">> => answers[p] = <<p, "own">> \/ p = q
    BY <1>7, <2>1, CallTable
  <2>4. Owned'
    BY <1>0, <2>1, <2>2, <2>3, OwnedTake DEF AInv
  <2>5. FinishesSettle' /\ AnswersStay'
    BY <1>0, <1>7, <2>2, FinishesTaken, StayCalled DEF AInv
  <2> QED
    BY <1>0, <2>4, <2>5 DEF AInv
<1>8. CASE HandleFinish
  <2>1. PICK q : q = Head(c2s).q
    OBVIOUS
  <2>2. /\ c2s # <<>> /\ Head(c2s).kind = "finish" /\ c2s' = Tail(c2s)
        /\ UNCHANGED <<clientVars, linkUp, sclosed>>
        /\ answers' = [answers EXCEPT ![q] = None]
    BY <1>8, <2>1 DEF HandleFinish, ServerGets
  <2>3. \A p \in Questions : answers'[p] = <<p, "own">> => answers[p] = <<p, "own">> /\ p # q
    <3>1. \A p \in Questions : <<p, "own">> \in Records
      BY DEF Records
    <3>2. \A p \in Questions : <<p, "own">> # None
      BY <3>1, ConstantsAssumption
    <3>3. answers \in [Questions -> Records \cup {None}]
      BY <1>0 DEF TypeOK
    <3>4. \A p \in Questions : answers'[p] = IF p = q THEN None ELSE answers[p]
      BY <2>2, <3>3
    <3> QED
      BY <3>2, <3>4
  <2>4. Owned'
    BY <1>0, <2>1, <2>2, <2>3, OwnedTake DEF AInv
  <2>5. FinishesSettle' /\ AnswersStay'
    BY <1>0, <1>8, <2>2, FinishesTaken, StayFinished DEF AInv
  <2> QED
    BY <1>0, <2>4, <2>5 DEF AInv
<1>9. CASE ServerLosesPeer \/ ServerCloses \/ HandleAbort
  BY <1>0, <1>9, CloseServerKeeps DEF ServerLosesPeer, ServerCloses, HandleAbort
<1>10. ASSUME NEW q \in Questions, ResumePipelined(q) \/ HandlerReturns(q) PROVE AInv'
  <2>1. UNCHANGED <<clientVars, c2s, linkUp, answers, sclosed>>
    BY <1>10 DEF ResumePipelined, HandlerReturns
  <2>2. Owned' /\ FinishesSettle'
    BY <2>1 DEF AInv, Owned, FinishesSettle
  <2>3. AnswersStay'
    BY <1>10, StayResumed DEF AInv
  <2> QED
    BY <1>0, <2>2, <2>3 DEF AInv
<1>11. CASE PeerAborts
  BY <1>0, <1>11, CloseClientKeeps, CloseServerKeeps DEF PeerAborts
<1>12. CASE Disconnect
  BY <1>0, <1>12, DisconnectKeeps
<1>13. CASE UNCHANGED vars
  <2>1. Owned' /\ FinishesSettle'
    BY <1>13 DEF AInv, Owned, FinishesSettle, vars
  <2>2. AnswersStay'
    BY <1>13, StayKept DEF AInv, vars
  <2> QED
    BY <1>0, <2>1, <2>2 DEF AInv
<1> QED
  BY <1>1, <1>2, <1>3, <1>4, <1>5, <1>6, <1>7, <1>8, <1>9, <1>10, <1>11, <1>12, <1>13
     DEF Next, ClientStep, ServerStep

LEMMA AnswersInit == Init => AInv
<1> SUFFICES ASSUME Init PROVE AInv
  OBVIOUS
<1>1. c2s = <<>> /\ linkUp
  BY DEF Init
<1>2. \A q \in Questions : answers[q] = None /\ target[q] = None /\ promise[q] = "unused"
  BY DEF Init
<1>3. \A q \in Questions : <<q, "own">> # None
  <2>1. \A q \in Questions : <<q, "own">> \in Records
    BY DEF Records
  <2> QED
    BY <2>1, ConstantsAssumption
<1>4. Owned
  <2>1. CallsOwned(c2s, questions)
    BY <1>1 DEF CallsOwned
  <2>2. \A q \in Questions : answers[q] # <<q, "own">>
    BY <1>2, <1>3
  <2> QED
    BY <1>1, <2>1, <2>2 DEF Owned
<1>5. FinishesSettle
  BY <1>1 DEF FinishesSettle, InFlight
<1>6. TargetsIssued /\ AnswersStay
  BY <1>2, ConstantsAssumption DEF TargetsIssued, AnswersStay, Sentinels
<1> QED
  BY <1>4, <1>5, <1>6 DEF AInv

LEMMA AnswersInvariant == Spec => []AInv
  BY AnswersInit, AnswersStep, Inductive, PTL DEF Spec

\* js/rpc.mjs:1065 and 1172: the answer table holds the record that a call made
\* for itself only while the call's question is open or its Finish is on the
\* way, so that a session of any length does not collect answers.
THEOREM RecordsAreOwned == Spec => []AnswersAreOwned
<1>1. AInv => AnswersAreOwned
  BY DEF AInv, Owned, AnswersAreOwned
<1> QED
  BY <1>1, AnswersInvariant, PTL

\* js/rpc.mjs:861 and 1548: as long as a question is open on a session that is,
\* the end of its handler settles the very record that each call pipelined on
\* it waits for.
THEOREM WaitersAreTold == Spec => []OutcomeReachesWaiters
<1>1. AInv => OutcomeReachesWaiters
  <2> SUFFICES ASSUME AInv, NEW q \in Questions, NEW t \in Questions,
                      handler[q] = "waiting", target[q] = t,
                      handler[t] \in {"done", "failed", "unsent"},
                      promise[t] = "pending", ~sclosed
               PROVE  ready[awaits[q]] # "pending"
    BY DEF OutcomeReachesWaiters
  <2>1. awaits[q] = answers[t] /\ ready[answers[t]] # "pending"
    BY DEF AInv, AnswersStay, Over
  <2> QED
    BY <2>1
<1> QED
  BY <1>1, AnswersInvariant, PTL

=============================================================================
