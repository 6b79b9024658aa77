-------------------------- MODULE ReaderSlots_proofs --------------------------
(***************************************************************************)
(* Proofs about ReaderSlots, for any number of readers, slots and bytes:   *)
(* no two readers share a slot or bytes, C++ and JavaScript agree on which *)
(* slot is active but for slot 0, and a pooled reader reads something else *)
(* only in the ways that PooledReadsOwn names.                             *)
(***************************************************************************)
EXTENDS ReaderSlots, FiniteSetTheorems, TLAPS

USE ConstantsAssumption

-----------------------------------------------------------------------------
(* The first free slot *)

\* A finite set of numbers has a least one, which is Min: of the sets of those
\* up to each, one is minimal.
LEMMA MinFound ==
    ASSUME NEW n \in Nat, NEW S \in SUBSET (1..n), S # {}
    PROVE  Min(S) \in S
<1> DEFINE Upto(x) == {y \in S : y <= x}
           T == {Upto(x) : x \in S}
<1>1. IsFiniteSet(1..n)
  BY FS_Interval
<1>2. IsWellFoundedOn(StrictSubsetOrdering(1..n), FiniteSubsetsOf(1..n))
  BY <1>1, FS_StrictSubsetOrderingWellFounded
<1>3. T \subseteq FiniteSubsetsOf(1..n) /\ T # {}
  <2>1. \A x \in S : Upto(x) \in SUBSET (1..n)
    OBVIOUS
  <2>2. \A x \in S : IsFiniteSet(Upto(x))
    <3> SUFFICES ASSUME NEW x \in S PROVE IsFiniteSet(Upto(x))
      OBVIOUS
    <3>1. Upto(x) \in SUBSET (1..n)
      BY <2>1
    <3> HIDE DEF Upto
    <3> QED
      BY <1>1, <3>1, FS_Subset
  <2>3. \A x \in S : Upto(x) \in FiniteSubsetsOf(1..n)
    BY <2>1, <2>2, Zenon DEF FiniteSubsetsOf
  <2>4. PICK x \in S : TRUE
    OBVIOUS
  <2>5. Upto(x) \in T
    OBVIOUS
  <2> HIDE DEF Upto
  <2> QED
    BY <2>3, <2>5, Zenon
<1> HIDE DEF T
<1>4. \E X \in T : \A Y \in T : ~(<<Y, X>> \in StrictSubsetOrdering(1..n))
  BY <1>2, <1>3, WFMin
<1>5. PICK X \in T : \A Y \in T : ~(<<Y, X>> \in StrictSubsetOrdering(1..n))
  BY <1>4
<1>6. PICK x \in S : X = Upto(x)
  BY <1>5 DEF T
<1>7. ASSUME NEW y \in S, ~(x =< y) PROVE FALSE
  <2>1. Upto(y) \in T
    BY DEF T
  <2>2. Upto(y) \subseteq Upto(x) /\ x \in Upto(x) /\ x \notin Upto(y)
    <3>1. x \in Nat /\ y \in Nat /\ y < x
      BY <1>7
    <3>2. \A z \in S : z \in Nat
      OBVIOUS
    <3>3. \A z \in Upto(y) : z \in Upto(x)
      BY <3>1, <3>2
    <3>4. x \in Upto(x) /\ x \notin Upto(y)
      BY <3>1
    <3> HIDE DEF Upto
    <3> QED
      BY <3>3, <3>4
  <2>3. Upto(y) \in SUBSET (1..n) /\ Upto(x) \in SUBSET (1..n)
    OBVIOUS
  <2>4. <<Upto(y), Upto(x)>> \in StrictSubsetOrdering(1..n)
    BY <2>2, <2>3 DEF StrictSubsetOrdering
  <2> QED
    BY <1>5, <1>6, <2>1, <2>4
<1> QED
  BY <1>7 DEF Min
-----------------------------------------------------------------------------
(* The cursors of C++ *)

Worlds == [active : 0..Slots, live : Cursors, saved : [0..Slots -> Cursors],
           inUse : SUBSET (1..Slots)]

\* CursorOf in any state of C++.
Cur(w, i) == IF w.active = i THEN w.live ELSE w.saved[i]

\* The same slots are in use, and every cursor is where it was but for some.
SameBut(v, w, S) ==
    /\ v \in Worlds /\ v.inUse = w.inUse
    /\ \A k \in 0..Slots : k \notin S => Cur(v, k) = Cur(w, k)

LEMMA WorldTyped ==
    ASSUME NEW w \in Worlds
    PROVE  /\ w.active \in 0..Slots /\ w.live \in Cursors
           /\ w.saved \in [0..Slots -> Cursors] /\ w.inUse \in SUBSET (1..Slots)
           /\ \A k \in 0..Slots : w.saved[k] \in Cursors /\ Cur(w, k) \in Cursors
  BY DEF Worlds, Cur

LEMMA CursorsTyped ==
    /\ Unopened \in Cursors /\ Unopened.at = None /\ ~Unopened.deep
    /\ \A a \in Addresses : Root(a) \in Cursors /\ Root(a).at = a /\ ~Root(a).deep
    /\ \A c \in Cursors : c.at \in Addresses \cup {None} /\ c.deep \in BOOLEAN
  BY DEF Unopened, Root, Cursors

\* _useSlot saves the cursor of one slot and takes up that of another: none
\* moves.
LEMMA Used ==
    ASSUME NEW w \in Worlds, NEW i \in 0..Slots
    PROVE  SameBut(UseSlot(w, i), w, {}) /\ UseSlot(w, i).active = i
<1>1. CASE w.active = i
  BY <1>1 DEF UseSlot, SameBut
<1>2. CASE w.active # i
  <2>1. PICK v : v = UseSlot(w, i)
    OBVIOUS
  <2>2. /\ v = [w EXCEPT !.active = i, !.saved[w.active] = w.live, !.live = w.saved[i]]
    BY <1>2, <2>1 DEF UseSlot
  <2>3. /\ v.active = i /\ v.live = w.saved[i] /\ v.inUse = w.inUse
        /\ v.saved = [w.saved EXCEPT ![w.active] = w.live]
        /\ v \in Worlds
    BY <2>2, WorldTyped DEF Worlds
  <2>4. \A k \in 0..Slots : Cur(v, k) = Cur(w, k)
    BY <1>2, <2>3, WorldTyped DEF Cur
  <2> QED
    BY <2>1, <2>3, <2>4 DEF SameBut
<1> QED
  BY <1>1, <1>2

\* Opening in a slot puts its cursor at the root.
LEMMA OpenedInto ==
    ASSUME NEW w \in Worlds, NEW i \in 0..Slots, NEW a \in Addresses
    PROVE  /\ SameBut(OpenInto(w, i, a), w, {i})
           /\ Cur(OpenInto(w, i, a), i) = Root(a) /\ OpenInto(w, i, a).active = w.active
<1>1. PICK v : v = OpenInto(w, i, a)
  OBVIOUS
<1>2. /\ v.active = w.active /\ v.inUse = w.inUse
      /\ v.saved = [w.saved EXCEPT ![i] = Root(a)]
      /\ v.live = IF w.active = i THEN Root(a) ELSE w.live
      /\ v \in Worlds
  BY <1>1, WorldTyped, CursorsTyped DEF OpenInto, Worlds
<1>3. /\ Cur(v, i) = Root(a)
      /\ \A k \in 0..Slots : k # i => Cur(v, k) = Cur(w, k)
  BY <1>2, WorldTyped DEF Cur
<1> QED
  BY <1>1, <1>2, <1>3 DEF SameBut

\* cpp_open and its kin take slot 0.
LEMMA OpenedAt ==
    ASSUME NEW w \in Worlds, NEW a \in Addresses
    PROVE  /\ SameBut(OpenAt(w, a), w, {0})
           /\ OpenAt(w, a).live = Root(a) /\ OpenAt(w, a).active = 0
           /\ Cur(OpenAt(w, a), 0) = Root(a)
<1>1. PICK u : u = IF w.active = 0 THEN w
                   ELSE [w EXCEPT !.saved[w.active] = w.live, !.active = 0]
  OBVIOUS
<1>2. OpenAt(w, a) = OpenInto(u, 0, a)
  BY <1>1 DEF OpenAt
<1>3. /\ u \in Worlds /\ u.active = 0 /\ u.inUse = w.inUse
      /\ \A k \in 0..Slots : k # 0 => Cur(u, k) = Cur(w, k)
  <2>1. CASE w.active = 0
    BY <1>1, <2>1
  <2>2. CASE w.active # 0
    <3>1. u = [w EXCEPT !.saved[w.active] = w.live, !.active = 0]
      BY <1>1, <2>2
    <3>2. /\ u.active = 0 /\ u.live = w.live /\ u.inUse = w.inUse
          /\ u.saved = [w.saved EXCEPT ![w.active] = w.live]
          /\ 0 \in 0..Slots /\ [w.saved EXCEPT ![w.active] = w.live] \in [0..Slots -> Cursors]
      BY <3>1, WorldTyped DEF Worlds
    <3>3. u \in Worlds
      BY <3>1, <3>2, WorldTyped DEF Worlds
    <3>4. \A k \in 0..Slots : k # 0 => Cur(u, k) = Cur(w, k)
      BY <2>2, <3>2, WorldTyped DEF Cur
    <3> QED
      BY <3>2, <3>3, <3>4
  <2> QED
    BY <2>1, <2>2
<1>6. /\ SameBut(OpenInto(u, 0, a), u, {0})
      /\ Cur(OpenInto(u, 0, a), 0) = Root(a) /\ OpenInto(u, 0, a).active = 0
  BY <1>3, OpenedInto
<1>7. SameBut(OpenInto(u, 0, a), w, {0})
  BY <1>3, <1>6 DEF SameBut
<1> QED
  BY <1>2, <1>6, <1>7 DEF Cur

\* Opening a frame moves the cursor of the active slot.
LEMMA OpenedFrame ==
    ASSUME NEW w \in Worlds
    PROVE  /\ SameBut(OpenFrame(w), w, {w.active})
           /\ OpenFrame(w).active = w.active /\ OpenFrame(w).live = Root(In)
<1>1. In \in Addresses
  BY DEF Addresses
<1>2. PICK v : v = OpenFrame(w)
  OBVIOUS
<1>3. /\ v \in Worlds /\ v.active = w.active /\ v.live = Root(In)
      /\ v.saved = w.saved /\ v.inUse = w.inUse
  BY <1>1, <1>2, WorldTyped, CursorsTyped DEF OpenFrame, Worlds
<1> QED
  BY <1>2, <1>3 DEF SameBut, Cur

\* A released slot gives up its cursor; if it was active, slot 0 is.
LEMMA Released ==
    ASSUME NEW w \in Worlds, NEW i \in 1..Slots
    PROVE  LET v == ReleaseSlot(w, i)
           IN  /\ v \in Worlds /\ v.inUse = w.inUse \ {i}
               /\ \A k \in 0..Slots : k # i => Cur(v, k) = Cur(w, k)
               /\ v.active = IF w.active = i THEN 0 ELSE w.active
<1>1. PICK v : v = ReleaseSlot(w, i)
  OBVIOUS
<1>2. CASE w.active = i
  <2>1. v = [w EXCEPT !.inUse = @ \ {i}, !.active = 0, !.live = w.saved[0]]
    BY <1>1, <1>2 DEF ReleaseSlot
  <2>2. /\ w.inUse \ {i} \in SUBSET (1..Slots)
        /\ 0 \in 0..Slots /\ w.saved[0] \in Cursors
    BY WorldTyped
  <2>3. /\ v.active = 0 /\ v.live = w.saved[0] /\ v.saved = w.saved
        /\ v.inUse = w.inUse \ {i}
    BY <2>1 DEF Worlds
  <2>4. v \in Worlds
    BY <2>1, <2>2 DEF Worlds
  <2>5. \A k \in 0..Slots : k # i => Cur(v, k) = Cur(w, k)
    BY <1>2, <2>3 DEF Cur
  <2> QED
    BY <1>1, <1>2, <2>3, <2>4, <2>5
<1>3. CASE w.active # i
  <2>1. /\ v.active = w.active /\ v.live = w.live /\ v.saved = [w.saved EXCEPT ![i] = Unopened]
        /\ v.inUse = w.inUse \ {i} /\ v \in Worlds
    BY <1>1, <1>3, WorldTyped, CursorsTyped DEF ReleaseSlot, Worlds
  <2>2. \A k \in 0..Slots : k # i => Cur(v, k) = Cur(w, k)
    BY <2>1, WorldTyped DEF Cur
  <2> QED
    BY <1>1, <1>3, <2>1, <2>2
<1> QED
  BY <1>2, <1>3

\* Going back to the root, or into a struct, stays in the message.
LEMMA Moved ==
    ASSUME NEW w \in Worlds
    PROVE  /\ \A v \in {ResetRoot(w), EnterStruct(w), EnterStruct(ResetRoot(w))} :
                 /\ SameBut(v, w, {w.active})
                 /\ v.active = w.active /\ v.live.at = w.live.at
           /\ ~ResetRoot(w).live.deep
           /\ EnterStruct(ResetRoot(w)).live.deep = (w.live.at # None)
<1>1. ASSUME NEW d \in BOOLEAN, NEW u \in Worlds
      PROVE  LET v == [u EXCEPT !.live.deep = d]
             IN  /\ v \in Worlds /\ v.inUse = u.inUse /\ v.active = u.active
                 /\ v.saved = u.saved /\ v.live.at = u.live.at /\ v.live.deep = d
  <2>1. u.live \in Cursors /\ [u.live EXCEPT !.deep = d] \in Cursors
    BY WorldTyped DEF Cursors
  <2> QED
    BY <2>1 DEF Worlds, Cursors
<1>2. PICK r : r = ResetRoot(w)
  OBVIOUS
<1>3. /\ r \in Worlds /\ r.inUse = w.inUse /\ r.active = w.active
      /\ r.saved = w.saved /\ r.live.at = w.live.at /\ r.live.deep = FALSE
  BY <1>1, <1>2 DEF ResetRoot
<1>4. ASSUME NEW u \in Worlds
      PROVE  /\ EnterStruct(u) \in Worlds /\ EnterStruct(u).inUse = u.inUse
             /\ EnterStruct(u).active = u.active /\ EnterStruct(u).saved = u.saved
             /\ EnterStruct(u).live.at = u.live.at
             /\ EnterStruct(u).live.deep = (u.live.at # None)
  <2>1. PICK d \in BOOLEAN : d = (u.live.at # None)
    OBVIOUS
  <2>2. PICK v : v = [u EXCEPT !.live.deep = d]
    OBVIOUS
  <2>3. EnterStruct(u) = v
    BY <2>1, <2>2 DEF EnterStruct
  <2>4. /\ v \in Worlds /\ v.inUse = u.inUse /\ v.active = u.active
        /\ v.saved = u.saved /\ v.live.at = u.live.at /\ v.live.deep = d
    BY <1>1, <2>2
  <2> QED
    BY <2>1, <2>3, <2>4
<1>5. \A v \in Worlds : v.inUse = w.inUse /\ v.active = w.active /\ v.saved = w.saved =>
          SameBut(v, w, {w.active})
  BY DEF SameBut, Cur
<1>6. /\ EnterStruct(w) \in Worlds /\ EnterStruct(w).inUse = w.inUse
      /\ EnterStruct(w).active = w.active /\ EnterStruct(w).saved = w.saved
      /\ EnterStruct(w).live.at = w.live.at
  BY <1>4
<1>7. /\ EnterStruct(r) \in Worlds /\ EnterStruct(r).inUse = r.inUse
      /\ EnterStruct(r).active = r.active /\ EnterStruct(r).saved = r.saved
      /\ EnterStruct(r).live.at = r.live.at
      /\ EnterStruct(r).live.deep = (r.live.at # None)
  BY <1>3, <1>4
<1> QED
  BY <1>2, <1>3, <1>5, <1>6, <1>7


-----------------------------------------------------------------------------
(* Who owns which slot and which bytes *)

\* Pooled messages are in the arena or on the heap, managed ones on the heap,
\* and all the others in the scratch buffer.
Kinds ==
    /\ \A r \in Pooled : reader[r].ptr \in Arena \cup Heap /\ reader[r].slot \in 1..Slots
    /\ \A r \in Managed : reader[r].ptr \in Heap
    /\ \A r \in Readers : reader[r].how \in {"unsafe", "framed", "scoped"} => reader[r].ptr = In
    /\ \A r \in Readers : reader[r].how = "new" => reader[r].ptr = None

\* The message of a pooled reader is nowhere but where it was put.
Elsewhere ==
    \A a \in Addresses, r \in Readers :
        memory[a] = r /\ reader[r].how \in {"new", "slot"} => a = reader[r].ptr

Owned == TypeOK /\ SlotsOwned /\ BytesStay /\ Kinds /\ Elsewhere

Hows == {"new", "slot", "managed", "unsafe", "framed", "scoped", "gone"}
Handles == [how : Hows, slot : 0..Slots, ptr : Addresses \cup {None}]

LEMMA Places ==
    /\ In \in Addresses /\ Arena \subseteq Addresses /\ Heap \subseteq Addresses
    /\ In \notin Arena \cup Heap /\ Arena \cap Heap = {} /\ None \notin Addresses
  BY DEF In, Arena, Heap, Addresses

LEMMA Typed ==
    ASSUME TypeOK
    PROVE  /\ wasm \in Worlds /\ memory \in [Addresses -> Readers \cup {None}]
           /\ used \in 0..ArenaCap /\ allocated \subseteq Heap
           /\ jsActive \in 0..Slots /\ inFlight \in Nat
           /\ fresh \subseteq Readers /\ misread \subseteq Readers
           /\ reader \in [Readers -> Handles]
  BY DEF TypeOK, Worlds, Handles, Hows

LEMMA HandlesTyped ==
    ASSUME TypeOK, NEW r \in Readers
    PROVE  /\ reader[r] \in Handles /\ reader[r].how \in Hows
           /\ reader[r].slot \in 0..Slots /\ reader[r].ptr \in Addresses \cup {None}
<1>1. reader[r] \in Handles
  BY Typed
<1> QED
  BY <1>1 DEF Handles

LEMMA Retyped ==
    ASSUME wasm' \in Worlds, memory' \in [Addresses -> Readers \cup {None}],
           used' \in 0..ArenaCap, allocated' \subseteq Heap,
           jsActive' \in 0..Slots, inFlight' \in Nat,
           fresh' \subseteq Readers, misread' \subseteq Readers,
           reader' \in [Readers -> Handles]
    PROVE  TypeOK'
  BY DEF TypeOK, Worlds, Handles, Hows

\* What an assignment to one reader does.
ReaderNow(r, how, i, a) ==
    /\ reader' \in [Readers -> Handles]
    /\ reader'[r].how = how /\ reader'[r].slot = i /\ reader'[r].ptr = a
    /\ \A q \in Readers : q # r => reader'[q] = reader[q]

LEMMA HandleSet ==
    ASSUME TypeOK, NEW r \in Readers, NEW how \in Hows, NEW i \in 0..Slots,
           NEW a \in Addresses \cup {None},
           reader' = [reader EXCEPT ![r] = Handle(how, i, a)]
    PROVE  ReaderNow(r, how, i, a)
<1>1. reader \in [Readers -> Handles]
  BY Typed
<1>2. PICK h : h = Handle(how, i, a)
  OBVIOUS
<1>3. h \in Handles /\ h.how = how /\ h.slot = i /\ h.ptr = a
  BY <1>2 DEF Handle, Handles
<1> QED
  BY <1>1, <1>2, <1>3 DEF ReaderNow

\* Opening r wrote its message at the addresses S, b among them to stay.
Stored(r, S, b) ==
    /\ b \in S /\ S \subseteq Addresses
    /\ memory' \in [Addresses -> Readers \cup {None}]
    /\ \A c \in Addresses : memory'[c] = IF c \in S THEN r ELSE memory[c]
    /\ \A q \in Pooled \cup Managed : reader[q].ptr \notin S
    /\ used' \in used..ArenaCap /\ allocated \subseteq allocated' /\ allocated' \subseteq Heap
    /\ (b \in Arena => b <= used') /\ (b \in Heap => b \in allocated')

\* Neither the next bytes of the arena nor what malloc gives are in use.
LEMMA FreshAddress ==
    ASSUME Owned, NEW a \in Addresses,
           \/ a \in PooledAddresses
           \/ a \in Heap \ allocated
           \/ a = In
    PROVE  /\ \A q \in Pooled \cup Managed : reader[q].ptr # a
           /\ a \in Arena => a = used + 1 /\ used < ArenaCap
<1>1. /\ used \in 0..ArenaCap /\ BytesStay /\ Kinds
      /\ \A q \in Pooled \cup Managed : reader[q].ptr \in Arena \cup Heap
  BY Typed DEF Owned, Kinds
<1>2. CASE used < ArenaCap /\ a = used + 1
  <2>1. a \in Arena /\ a \notin Heap
    BY <1>1, <1>2, Places DEF Arena
  <2>2. \A q \in Pooled \cup Managed : reader[q].ptr \in Arena => reader[q].ptr <= used
    BY <1>1 DEF BytesStay
  <2> QED
    BY <1>1, <1>2, <2>1, <2>2
<1>3. CASE a \in Heap \ allocated
  BY <1>1, <1>3, Places DEF BytesStay
<1>4. CASE a = In
  BY <1>1, <1>4, Places
<1> QED
  BY <1>2, <1>3, <1>4 DEF PooledAddresses

LEMMA StoredAt ==
    ASSUME Owned, NEW r \in Readers, NEW a,
           \/ a \in PooledAddresses
           \/ a = In,
           Store(r, a)
    PROVE  a \in Addresses /\ Stored(r, {a}, a)
<1>1. used \in 0..ArenaCap /\ allocated \subseteq Heap /\ memory \in [Addresses -> Readers \cup {None}]
  BY Typed DEF Owned
<1>2. a \in Addresses
  BY <1>1, Places DEF PooledAddresses, Arena
<1>3. /\ \A q \in Pooled \cup Managed : reader[q].ptr # a
      /\ a \in Arena => a = used + 1 /\ used < ArenaCap
  BY <1>2, FreshAddress
<1>4. /\ memory' \in [Addresses -> Readers \cup {None}]
      /\ \A c \in Addresses : memory'[c] = IF c \in {a} THEN r ELSE memory[c]
  BY <1>1, <1>2 DEF Store
<1>5. used' \in used..ArenaCap /\ (a \in Arena => a <= used')
  BY <1>1, <1>3 DEF Store, Arena
<1>6. allocated \subseteq allocated' /\ allocated' \subseteq Heap /\ (a \in Heap => a \in allocated')
  BY <1>1 DEF Store
<1> QED
  BY <1>2, <1>3, <1>4, <1>5, <1>6 DEF Stored


\* An opening keeps the books of bytes.
LEMMA OpenedBooks ==
    ASSUME Owned, NEW r \in Readers, reader[r].how = "new",
           NEW S, NEW b, NEW i, NEW how, Stored(r, S, b), ReaderNow(r, how, i, b),
           \/ how = "slot" /\ S = {b} /\ b \in Arena \cup Heap /\ i \in 1..Slots
           \/ how = "managed" /\ b \in Heap
           \/ how \in {"unsafe", "framed"} /\ b = In
    PROVE  BytesStay' /\ Elsewhere' /\ Kinds'
<1>1. /\ reader'[r].how = how /\ reader'[r].slot = i /\ reader'[r].ptr = b
      /\ \A q \in Readers : q # r => reader'[q] = reader[q]
  BY DEF ReaderNow
<1>2. /\ b \in S /\ S \subseteq Addresses
      /\ \A c \in Addresses : memory'[c] = IF c \in S THEN r ELSE memory[c]
      /\ \A q \in Pooled \cup Managed : reader[q].ptr \notin S
      /\ allocated \subseteq allocated'
      /\ (b \in Arena => b <= used') /\ (b \in Heap => b \in allocated')
  BY DEF Stored
<1>3. \A n : n \in Arena /\ n <= used => n <= used'
  BY Typed DEF Stored, Owned, Arena
<1>4. Kinds'
  BY <1>1 DEF Owned, Kinds, Pooled, Managed
<1>5. BytesStay'
  <2> SUFFICES ASSUME NEW q \in (Pooled \cup Managed)', NEW a, a = reader'[q].ptr
               PROVE  /\ memory'[a] = q
                      /\ a \in Arena => a <= used'
                      /\ a \in Heap => a \in allocated'
    BY DEF BytesStay
  <2>1. CASE q = r
    BY <1>1, <1>2, <2>1
  <2>2. CASE q # r
    <3>1. q \in Pooled \cup Managed /\ a = reader[q].ptr
      BY <1>1, <2>2 DEF Pooled, Managed
    <3>2. a \in Addresses /\ a \notin S
      BY <1>2, <3>1, Places DEF Owned, Kinds
    <3>3. memory[a] = q /\ (a \in Arena => a <= used) /\ (a \in Heap => a \in allocated)
      BY <3>1 DEF Owned, BytesStay
    <3> QED
      BY <1>2, <1>3, <3>2, <3>3
  <2> QED
    BY <2>1, <2>2
<1>6. Elsewhere'
  <2> SUFFICES ASSUME NEW a \in Addresses, NEW q \in Readers,
                      memory'[a] = q, reader'[q].how \in {"new", "slot"}
               PROVE  a = reader'[q].ptr
    BY DEF Elsewhere
  <2>1. CASE q # r
    BY <1>1, <1>2, <2>1 DEF Owned, Elsewhere
  <2>2. CASE q = r
    <3>1. how = "slot" /\ S = {b}
      BY <1>1, <2>2
    <3>2. ~(memory[a] = r)
      <4> SUFFICES ASSUME memory[a] = r PROVE FALSE
        OBVIOUS
      <4>1. a = reader[r].ptr /\ reader[r].ptr = None
        BY DEF Owned, Elsewhere, Kinds
      <4> QED
        BY <4>1, Places
    <3> QED
      BY <1>1, <1>2, <2>2, <3>1, <3>2
  <2> QED
    BY <2>1, <2>2
<1> QED
  BY <1>4, <1>5, <1>6

\* The first free slot of the pool and its cursor are r's.
PooledOpened(r, i, a) ==
    /\ reader[r].how = "new" /\ ReaderNow(r, "slot", i, a)
    /\ i \in 1..Slots /\ i \notin wasm.inUse
    /\ a \in Arena \cup Heap /\ Stored(r, {a}, a)
    /\ wasm' \in Worlds /\ wasm'.inUse = wasm.inUse \cup {i}
    /\ \A k \in 0..Slots : k # i => Cur(wasm', k) = Cur(wasm, k)
    /\ Cur(wasm', i) = Root(a)
    /\ wasm'.active = i \/ (wasm'.active = wasm.active /\ jsActive = i)
    /\ jsActive' = i
    /\ inFlight' = IF a \in Arena THEN inFlight + 1 ELSE inFlight
    /\ fresh' = {r} /\ misread' = misread

LEMMA Acquired ==
    ASSUME NEW w \in Worlds, NEW i \in 1..Slots, NEW a \in Addresses
    PROVE  LET v == AcquireSlot(w, i, a)
           IN  /\ v \in Worlds /\ v.inUse = w.inUse \cup {i} /\ v.active = w.active
               /\ \A k \in 0..Slots : k # i => Cur(v, k) = Cur(w, k)
               /\ Cur(v, i) = Root(a)
<1>1. PICK u : u = OpenInto(w, i, a)
  OBVIOUS
<1>2. SameBut(u, w, {i}) /\ Cur(u, i) = Root(a) /\ u.active = w.active
  BY <1>1, OpenedInto
<1>3. PICK v : v = [u EXCEPT !.inUse = @ \cup {i}]
  OBVIOUS
<1>4. v = AcquireSlot(w, i, a)
  BY <1>1, <1>3 DEF AcquireSlot
<1>5. /\ u \in Worlds /\ u.inUse = w.inUse
      /\ \A k \in 0..Slots : k # i => Cur(u, k) = Cur(w, k)
  BY <1>2 DEF SameBut
<1>6. u.inUse \cup {i} \in SUBSET (1..Slots)
  BY <1>5, WorldTyped
<1>7. v \in Worlds
  BY <1>3, <1>5, <1>6 DEF Worlds
<1>8. /\ v.inUse = w.inUse \cup {i} /\ v.active = u.active /\ v.live = u.live
      /\ v.saved = u.saved
  BY <1>3, <1>5 DEF Worlds
<1>9. \A k \in 0..Slots : Cur(v, k) = Cur(u, k)
  BY <1>8 DEF Cur
<1> QED
  BY <1>2, <1>4, <1>5, <1>7, <1>8, <1>9

\* Through the mirror, no cursor moves either.
LEMMA UsingKeeps ==
    ASSUME NEW w \in Worlds, NEW i \in 0..Slots
    PROVE  LET v == Using(w, i)
           IN  /\ SameBut(v, w, {})
               /\ v.active = i \/ (v = w /\ jsActive = i)
<1>1. CASE jsActive = i
  BY <1>1 DEF Using, SameBut
<1>2. CASE jsActive # i
  BY <1>2, Used DEF Using
<1> QED
  BY <1>1, <1>2

LEMMA OpenPooledDoes ==
    ASSUME Owned, NEW r \in Readers, OpenPooled(r)
    PROVE  \E i, a : PooledOpened(r, i, a)
<1>1. PICK i : i = Min(FreeSlots)
  OBVIOUS
<1>2. i \in 1..Slots /\ i \notin wasm.inUse
  <2>1. FreeSlots # {} /\ FreeSlots \in SUBSET (1..Slots)
    BY DEF OpenPooled, FreeSlots
  <2>2. i \in FreeSlots
    BY <1>1, <2>1, MinFound
  <2> QED
    BY <2>2 DEF FreeSlots
<1>3. PICK a \in PooledAddresses :
         /\ Store(r, a)
         /\ wasm' = Using(AcquireSlot(wasm, i, a), i)
         /\ inFlight' = IF a \in Arena THEN inFlight + 1 ELSE inFlight
         /\ reader' = [reader EXCEPT ![r] = Handle("slot", i, a)]
  BY <1>1 DEF OpenPooled
<1>4. reader[r].how = "new" /\ jsActive' = i /\ fresh' = {r} /\ misread' = misread
  BY <1>1 DEF OpenPooled
<1>5. a \in Addresses /\ Stored(r, {a}, a) /\ a \in Arena \cup Heap
  <2>1. a \in Arena \cup Heap
    BY Typed DEF Owned, PooledAddresses, Arena
  <2> QED
    BY <1>3, <2>1, StoredAt
<1>6. ReaderNow(r, "slot", i, a)
  <2>1. "slot" \in Hows /\ i \in 0..Slots /\ a \in Addresses \cup {None} /\ TypeOK
    BY <1>2, <1>5 DEF Hows, Owned
  <2> QED
    BY <1>3, <2>1, HandleSet
<1>7. PICK v : v = AcquireSlot(wasm, i, a)
  OBVIOUS
<1>8. /\ v \in Worlds /\ v.inUse = wasm.inUse \cup {i} /\ v.active = wasm.active
      /\ \A k \in 0..Slots : k # i => Cur(v, k) = Cur(wasm, k)
      /\ Cur(v, i) = Root(a)
  <2>1. wasm \in Worlds
    BY Typed DEF Owned
  <2> QED
    BY <1>2, <1>5, <1>7, <2>1, Acquired
<1>9. PICK w : w = wasm'
  OBVIOUS
<1>10. SameBut(w, v, {}) /\ (w.active = i \/ (w = v /\ jsActive = i))
  BY <1>2, <1>3, <1>7, <1>8, <1>9, UsingKeeps
<1>11. /\ w \in Worlds /\ w.inUse = wasm.inUse \cup {i}
       /\ \A k \in 0..Slots : k # i => Cur(w, k) = Cur(wasm, k)
       /\ Cur(w, i) = Root(a)
       /\ w.active = i \/ (w.active = wasm.active /\ jsActive = i)
  BY <1>2, <1>8, <1>10 DEF SameBut
<1>12. PooledOpened(r, i, a)
  BY <1>2, <1>3, <1>4, <1>5, <1>6, <1>9, <1>11 DEF PooledOpened
<1> QED
  BY <1>12


\* Slot 0 is active, at the root of r; no cursor of a slot in use has moved.
RootOpened(r, how, S, b) ==
    /\ reader[r].how = "new" /\ ReaderNow(r, how, 0, b) /\ Stored(r, S, b)
    /\ (how = "managed" /\ b \in Heap) \/ (how = "unsafe" /\ b = In)
    /\ wasm' \in Worlds /\ wasm'.inUse = wasm.inUse
    /\ wasm'.active = 0 /\ wasm'.live = Root(b)
    /\ \A k \in wasm.inUse : Cur(wasm', k) = Cur(wasm, k)
    /\ UNCHANGED <<jsActive, inFlight, misread>>
    /\ fresh' = {r}

LEMMA OpenUnsafeDoes ==
    ASSUME Owned, NEW r \in Readers, OpenUnsafe(r)
    PROVE  RootOpened(r, "unsafe", {In}, In)
<1>1. In \in Addresses /\ Stored(r, {In}, In)
  BY StoredAt DEF OpenUnsafe
<1>2. ReaderNow(r, "unsafe", 0, In)
  <2>1. /\ "unsafe" \in Hows /\ 0 \in 0..Slots /\ In \in Addresses \cup {None} /\ TypeOK
        /\ reader' = [reader EXCEPT ![r] = Handle("unsafe", 0, In)]
    BY <1>1 DEF Hows, Owned, OpenUnsafe
  <2> QED
    BY <2>1, HandleSet
<1>3. wasm \in Worlds
  BY Typed DEF Owned
<1>4. /\ SameBut(OpenAt(wasm, In), wasm, {0})
      /\ OpenAt(wasm, In).live = Root(In) /\ OpenAt(wasm, In).active = 0
  BY <1>1, <1>3, OpenedAt
<1>5. \A k \in wasm.inUse : k \in 0..Slots /\ k # 0
  BY <1>3, WorldTyped
<1>6. PICK v : v = OpenAt(wasm, In)
  OBVIOUS
<1>7. wasm' = v
  BY <1>6 DEF OpenUnsafe
<1>8. /\ wasm' \in Worlds /\ wasm'.inUse = wasm.inUse
      /\ wasm'.active = 0 /\ wasm'.live = Root(In)
      /\ \A k \in wasm.inUse : Cur(wasm', k) = Cur(wasm, k)
  BY <1>4, <1>5, <1>6, <1>7 DEF SameBut
<1> QED
  BY <1>1, <1>2, <1>8 DEF RootOpened, OpenUnsafe

LEMMA OpenFallbackDoes ==
    ASSUME Owned, NEW r \in Readers, OpenFallback(r)
    PROVE  \E S, b : RootOpened(r, "managed", S, b)
<1>1. PICK a \in PooledAddresses, b \in Heap \ allocated :
         /\ memory' = [memory EXCEPT ![a] = r, ![b] = r]
         /\ used' = IF a \in Arena THEN a ELSE used
         /\ allocated' = allocated \cup {b}
         /\ wasm' = OpenAt(IF FreeSlots = {} THEN wasm
                           ELSE OpenInto(wasm, Min(FreeSlots), a), b)
         /\ reader' = [reader EXCEPT ![r] = Handle("managed", 0, b)]
  BY DEF OpenFallback
<1>2. /\ used \in 0..ArenaCap /\ allocated \subseteq Heap /\ wasm \in Worlds
      /\ memory \in [Addresses -> Readers \cup {None}]
  BY Typed DEF Owned
<1>3. a \in Addresses /\ b \in Addresses
  BY <1>2, Places DEF PooledAddresses, Arena
<1>4. Stored(r, {a, b}, b)
  <2>1. \A q \in Pooled \cup Managed : reader[q].ptr # a
    BY <1>3, FreshAddress
  <2>2. \A q \in Pooled \cup Managed : reader[q].ptr # b
    BY <1>3, FreshAddress
  <2>3. a \in Arena => a = used + 1 /\ used < ArenaCap
    BY <1>3, FreshAddress
  <2>4. /\ memory' \in [Addresses -> Readers \cup {None}]
        /\ \A c \in Addresses : memory'[c] = IF c \in {a, b} THEN r ELSE memory[c]
    BY <1>1, <1>2, <1>3
  <2>5. used' \in used..ArenaCap
    BY <1>1, <1>2, <2>3
  <2>6. /\ allocated \subseteq allocated' /\ allocated' \subseteq Heap /\ b \in allocated'
        /\ b \notin Arena
    BY <1>1, <1>2, Places
  <2> QED
    BY <1>3, <2>1, <2>2, <2>4, <2>5, <2>6 DEF Stored
<1>5. ReaderNow(r, "managed", 0, b)
  <2>1. /\ "managed" \in Hows /\ 0 \in 0..Slots /\ b \in Addresses \cup {None} /\ TypeOK
    BY <1>3 DEF Hows, Owned
  <2> QED
    BY <1>1, <2>1, HandleSet
<1>6. PICK u : u = IF FreeSlots = {} THEN wasm ELSE OpenInto(wasm, Min(FreeSlots), a)
  OBVIOUS
<1>7. /\ u \in Worlds /\ u.inUse = wasm.inUse
      /\ \A k \in wasm.inUse : Cur(u, k) = Cur(wasm, k)
  <2>1. CASE FreeSlots = {}
    BY <1>2, <1>6, <2>1
  <2>2. CASE FreeSlots # {}
    <3>1. FreeSlots \in SUBSET (1..Slots)
      BY DEF FreeSlots
    <3>2. PICK i : i = Min(FreeSlots)
      OBVIOUS
    <3>3. i \in FreeSlots
      BY <2>2, <3>1, <3>2, MinFound
    <3>4. i \in 0..Slots /\ i \notin wasm.inUse
      BY <3>3 DEF FreeSlots
    <3>5. SameBut(OpenInto(wasm, i, a), wasm, {i})
      BY <1>2, <1>3, <3>4, OpenedInto
    <3>6. SameBut(u, wasm, {i})
      BY <1>6, <2>2, <3>2, <3>5
    <3>7. \A k \in wasm.inUse : k \in 0..Slots
      BY <1>2, WorldTyped
    <3> QED
      BY <3>4, <3>6, <3>7 DEF SameBut
  <2> QED
    BY <2>1, <2>2
<1>8. PICK v : v = OpenAt(u, b)
  OBVIOUS
<1>9. SameBut(v, u, {0}) /\ v.live = Root(b) /\ v.active = 0
  BY <1>3, <1>7, <1>8, OpenedAt
<1>10. \A k \in wasm.inUse : k \in 0..Slots /\ k # 0
  BY <1>2, WorldTyped
<1>11. wasm' = v
  BY <1>1, <1>6, <1>8
<1>12. /\ wasm' \in Worlds /\ wasm'.inUse = wasm.inUse
       /\ wasm'.active = 0 /\ wasm'.live = Root(b)
       /\ \A k \in wasm.inUse : Cur(wasm', k) = Cur(wasm, k)
  BY <1>7, <1>9, <1>10, <1>11 DEF SameBut
<1>13. /\ reader[r].how = "new" /\ UNCHANGED <<jsActive, inFlight, misread>>
       /\ fresh' = {r}
  BY DEF OpenFallback
<1>14. RootOpened(r, "managed", {a, b}, b)
  BY <1>4, <1>5, <1>12, <1>13 DEF RootOpened
<1> QED
  BY <1>14

\* A frame in the scratch buffer moves no cursor yet.
Framed(r) ==
    /\ reader[r].how = "new" /\ ReaderNow(r, "framed", 0, In) /\ Stored(r, {In}, In)
    /\ UNCHANGED <<wasm, jsActive, inFlight, misread>> /\ fresh' = {}

LEMMA FrameDoes ==
    ASSUME Owned, NEW r \in Readers, Frame(r)
    PROVE  Framed(r)
<1>1. In \in Addresses /\ Stored(r, {In}, In)
  BY StoredAt DEF Frame
<1>2. /\ "framed" \in Hows /\ 0 \in 0..Slots /\ In \in Addresses \cup {None} /\ TypeOK
      /\ reader' = [reader EXCEPT ![r] = Handle("framed", 0, In)]
  BY <1>1 DEF Hows, Owned, Frame
<1>3. ReaderNow(r, "framed", 0, In)
  BY <1>2, HandleSet
<1> QED
  BY <1>1, <1>3 DEF Framed, Frame

\* Opening the frame puts the cursor of the active slot on it.
Scoped(r) ==
    /\ reader[r].how = "framed" /\ ReaderNow(r, "scoped", reader[r].slot, In)
    /\ SameBut(wasm', wasm, {wasm.active})
    /\ wasm'.active = wasm.active /\ wasm'.live = Root(In)
    /\ UNCHANGED <<bytes, jsActive, inFlight, misread>> /\ fresh' = {r}

LEMMA OpenScopedDoes ==
    ASSUME Owned, NEW r \in Readers, OpenScoped(r)
    PROVE  Scoped(r)
<1>1. /\ reader[r].how = "framed" /\ wasm' = OpenFrame(wasm)
      /\ reader' = [reader EXCEPT ![r].how = "scoped"]
      /\ UNCHANGED <<bytes, jsActive, inFlight, misread>> /\ fresh' = {r}
  BY DEF OpenScoped
<1>2. reader \in [Readers -> Handles] /\ reader[r] \in Handles /\ reader[r].ptr = In
  BY <1>1, Typed DEF Owned, Kinds
<1>3. PICK h : h = [reader[r] EXCEPT !.how = "scoped"]
  OBVIOUS
<1>4. h \in Handles /\ h.how = "scoped" /\ h.slot = reader[r].slot /\ h.ptr = In
  BY <1>2, <1>3 DEF Handles, Hows
<1>5. reader' = [reader EXCEPT ![r] = h]
  BY <1>1, <1>3
<1>6. ReaderNow(r, "scoped", reader[r].slot, In)
  BY <1>2, <1>4, <1>5 DEF ReaderNow
<1>7. wasm \in Worlds
  BY Typed DEF Owned
<1>8. /\ SameBut(wasm', wasm, {wasm.active})
      /\ wasm'.active = wasm.active /\ wasm'.live = Root(In)
  BY <1>1, <1>7, OpenedFrame
<1> QED
  BY <1>1, <1>6, <1>8 DEF Scoped


\* A pooled reader reads on at its slot, or where the mirror takes for it.
AtSlot(r, e) ==
    /\ r \in Pooled
    /\ e.w \in Worlds /\ e.w.inUse = wasm.inUse
    /\ \A k \in 0..Slots :
          /\ Cur(e.w, k).at = Cur(wasm, k).at
          /\ Cur(e.w, k) = Cur(wasm, k) \/ (k = e.w.active /\ r \notin Dynamic \cup fresh)
    /\ \/ e.w.active = reader[r].slot
       \/ jsActive = reader[r].slot /\ e.w.active = wasm.active
    /\ IF r \in Dynamic \cup fresh THEN e.fresh = fresh \cup {r}
       ELSE e.fresh = {r} /\ ~e.w.live.deep

\* A managed reader out of date reopens its message in slot 0.
AtRoot(r, e) ==
    /\ r \in Managed
    /\ SameBut(e.w, wasm, {0})
    /\ e.w.active = 0 /\ e.w.live = Root(reader[r].ptr)
    /\ e.fresh = {r}

\* The others read where the cursor is.
AsItIs(r, e) == r \in fresh \ Pooled /\ e.w = wasm /\ e.fresh = fresh

LEMMA EnsuredDoes ==
    ASSUME Owned, NEW r \in Readers, NEW e, e \in Ensured(r)
    PROVE  AtSlot(r, e) \/ AtRoot(r, e) \/ AsItIs(r, e)
<1>1. wasm \in Worlds /\ reader[r].slot \in 0..Slots
  BY Typed, HandlesTyped DEF Owned
<1>2. CASE r \in Pooled
  <2>1. PICK i : i = reader[r].slot
    OBVIOUS
  <2>2. PICK v : v = Using(wasm, i)
    OBVIOUS
  <2>3. /\ SameBut(v, wasm, {})
        /\ v.active = i \/ (v = wasm /\ jsActive = i)
    BY <1>1, <2>1, <2>2, UsingKeeps
  <2>4. /\ v \in Worlds /\ v.inUse = wasm.inUse
        /\ \A k \in 0..Slots : Cur(v, k) = Cur(wasm, k)
    BY <2>3 DEF SameBut
  <2>5. CASE r \in Dynamic
    <3>1. reader[r].how = "slot"
      BY <1>2 DEF Pooled
    <3>2. e = [w |-> v, fresh |-> fresh \cup {r}]
      BY <2>1, <2>2, <2>5, <3>1 DEF Ensured
    <3> QED
      BY <1>2, <2>1, <2>3, <2>4, <2>5, <3>2 DEF AtSlot
  <2>6. CASE r \notin Dynamic
    <3>1. reader[r].how = "slot"
      BY <1>2 DEF Pooled
    <3>2. e = Rooted(r, v)
      BY <2>1, <2>2, <2>6, <3>1 DEF Ensured
    <3>3. CASE r \in fresh
      <4>1. e = [w |-> v, fresh |-> fresh]
        BY <3>2, <3>3 DEF Rooted
      <4>2. e.w = v /\ e.fresh = fresh \cup {r}
        BY <3>3, <4>1
      <4> QED
        BY <1>2, <2>1, <2>3, <2>4, <3>3, <4>2 DEF AtSlot
    <3>4. CASE r \notin fresh
      <4>1. PICK u : u = ResetRoot(v)
        OBVIOUS
      <4>2. e = [w |-> u, fresh |-> {r}]
        BY <3>2, <3>4, <4>1 DEF Rooted
      <4>3. /\ SameBut(u, v, {v.active}) /\ u.active = v.active
            /\ u.live.at = v.live.at /\ ~u.live.deep
        BY <2>4, <4>1, Moved
      <4>4. /\ u \in Worlds /\ u.inUse = wasm.inUse
            /\ \A k \in 0..Slots : k # u.active => Cur(u, k) = Cur(wasm, k)
        BY <2>4, <4>3 DEF SameBut
      <4>5. \A k \in 0..Slots : Cur(u, k).at = Cur(wasm, k).at
        <5>1. \A k \in 0..Slots : k = u.active => Cur(u, k) = u.live /\ Cur(v, k) = v.live
          BY <4>3 DEF Cur
        <5> QED
          BY <2>4, <4>3, <4>4, <5>1
      <4> QED
        BY <1>2, <2>1, <2>3, <2>6, <3>4, <4>2, <4>3, <4>4, <4>5 DEF AtSlot
    <3> QED
      BY <3>3, <3>4
  <2> QED
    BY <2>5, <2>6
<1>3. CASE r \in Managed /\ r \notin fresh
  <2>1. reader[r].how = "managed" /\ reader[r].ptr \in Addresses
    BY <1>3, Places DEF Managed, Owned, Kinds
  <2>2. PICK a \in Addresses : a = reader[r].ptr
    BY <2>1
  <2>3. PICK v : v = OpenAt(wasm, a)
    OBVIOUS
  <2>4. e = [w |-> v, fresh |-> {r}]
    BY <1>3, <2>1, <2>2, <2>3 DEF Ensured
  <2>5. SameBut(v, wasm, {0}) /\ v.live = Root(a) /\ v.active = 0
    BY <1>1, <2>3, OpenedAt
  <2> QED
    BY <1>3, <2>2, <2>4, <2>5 DEF AtRoot
<1>4. CASE r \notin Pooled /\ (r \notin Managed \/ r \in fresh)
  <2>1. reader[r].how # "slot" /\ ~(reader[r].how = "managed" /\ r \notin fresh)
    BY <1>4 DEF Pooled, Managed
  <2>2. r \in fresh /\ e = [w |-> wasm, fresh |-> fresh]
    BY <2>1 DEF Ensured
  <2> QED
    BY <1>4, <2>2 DEF AsItIs
<1> QED
  BY <1>2, <1>3, <1>4

\* Disposed or collected, r gives up its slot and its bytes.
Ended(r) ==
    /\ reader[r].how \in {"slot", "managed", "unsafe", "scoped"}
    /\ ReaderNow(r, "gone", 0, None)
    /\ wasm' \in Worlds
    /\ IF r \in Pooled
       THEN /\ wasm'.inUse = wasm.inUse \ {reader[r].slot}
            /\ \A k \in 0..Slots : k # reader[r].slot => Cur(wasm', k) = Cur(wasm, k)
            /\ wasm'.active = IF wasm.active = reader[r].slot THEN 0 ELSE wasm.active
       ELSE wasm' = wasm
    /\ \/ jsActive' = jsActive
       \/ r \in Pooled /\ jsActive = reader[r].slot /\ jsActive' = 0
    /\ Reclaim(reader[r].ptr)
    /\ fresh' = fresh \ {r} /\ UNCHANGED <<memory, misread>>

LEMMA EndDoes ==
    ASSUME Owned, NEW r \in Readers, Dispose(r) \/ Finalize(r)
    PROVE  Ended(r)
<1>1. /\ reader[r].how \in {"slot", "managed", "unsafe", "scoped"}
      /\ wasm' = IF reader[r].how = "slot" THEN ReleaseSlot(wasm, reader[r].slot) ELSE wasm
      /\ jsActive' = jsActive \/ (reader[r].how = "slot" /\ jsActive = reader[r].slot /\ jsActive' = 0)
      /\ Reclaim(reader[r].ptr)
      /\ reader' = [reader EXCEPT ![r] = Handle("gone", 0, None)]
      /\ fresh' = fresh \ {r} /\ UNCHANGED <<memory, misread>>
  BY DEF Dispose, Finalize
<1>2. ReaderNow(r, "gone", 0, None)
  <2>1. /\ "gone" \in Hows /\ 0 \in 0..Slots /\ None \in Addresses \cup {None} /\ TypeOK
    BY DEF Hows, Owned
  <2> QED
    BY <1>1, <2>1, HandleSet
<1>3. wasm \in Worlds
  BY Typed DEF Owned
<1>4. CASE r \in Pooled
  <2>1. reader[r].how = "slot" /\ reader[r].slot \in 1..Slots
    BY <1>4 DEF Pooled, Owned, Kinds
  <2>2. PICK i \in 1..Slots : i = reader[r].slot
    BY <2>1
  <2>3. PICK v : v = ReleaseSlot(wasm, i)
    OBVIOUS
  <2>4. /\ v \in Worlds /\ v.inUse = wasm.inUse \ {i}
        /\ \A k \in 0..Slots : k # i => Cur(v, k) = Cur(wasm, k)
        /\ v.active = IF wasm.active = i THEN 0 ELSE wasm.active
    BY <1>3, <2>3, Released
  <2>5. wasm' = v
    BY <1>1, <2>1, <2>2, <2>3
  <2> QED
    BY <1>1, <1>2, <1>4, <2>2, <2>4, <2>5 DEF Ended
<1>5. CASE r \notin Pooled
  <2>1. reader[r].how # "slot"
    BY <1>5 DEF Pooled
  <2> QED
    BY <1>1, <1>2, <1>3, <1>5, <2>1 DEF Ended
<1> QED
  BY <1>4, <1>5


\* A read leaves the books alone.
OnlyRead(r) ==
    /\ UNCHANGED <<bytes, inFlight, reader>>
    /\ wasm' \in Worlds /\ wasm'.inUse = wasm.inUse
    /\ jsActive' \in 0..Slots /\ fresh' \subseteq Readers
    /\ misread' \subseteq Readers /\ misread \subseteq misread'
    /\ Mirrored(r)

LEMMA EnsuredTyped ==
    ASSUME Owned, NEW r \in Readers, NEW e, e \in Ensured(r)
    PROVE  e.w \in Worlds /\ e.w.inUse = wasm.inUse /\ e.fresh \subseteq Readers
<1>1. wasm \in Worlds /\ fresh \subseteq Readers
  BY Typed DEF Owned
<1> QED
  BY <1>1, EnsuredDoes DEF AtSlot, AtRoot, AsItIs, SameBut

LEMMA ReadDoes ==
    ASSUME Owned, NEW r \in Readers, Read(r)
    PROVE  /\ OnlyRead(r)
           /\ \E e \in Ensured(r) :
                 wasm' = e.w /\ fresh' = e.fresh /\ Reads(r, e.w, FALSE)
<1>1. PICK e \in Ensured(r) : wasm' = e.w /\ fresh' = e.fresh /\ Reads(r, e.w, FALSE)
  BY DEF Read
<1>2. e.w \in Worlds /\ e.w.inUse = wasm.inUse /\ e.fresh \subseteq Readers
  BY EnsuredTyped
<1>3. misread' \subseteq Readers /\ misread \subseteq misread'
  BY <1>1, Typed DEF Reads, Owned
<1>4. Mirrored(r) /\ UNCHANGED <<bytes, inFlight, reader>>
  BY DEF Read
<1>5. jsActive' \in 0..Slots
  BY <1>4, Typed, HandlesTyped DEF Mirrored, Owned
<1> QED
  BY <1>1, <1>2, <1>3, <1>4, <1>5 DEF OnlyRead

\* A nested read goes on into a struct.
Into(w) ==
    /\ SameBut(wasm', w, {w.active}) /\ wasm'.active = w.active
    /\ wasm'.live.at = w.live.at /\ wasm'.live.deep = (w.live.at # None)

LEMMA ReadNestedDoes ==
    ASSUME Owned, NEW r \in Readers, ReadNested(r)
    PROVE  /\ OnlyRead(r) /\ fresh' = {} /\ r \notin Dynamic
           /\ \E e \in Ensured(r) : Into(e.w) /\ Reads(r, wasm', TRUE)
<1>1. PICK e \in Ensured(r) :
         /\ wasm' = EnterStruct(ResetRoot(e.w))
         /\ Reads(r, EnterStruct(ResetRoot(e.w)), TRUE)
  BY DEF ReadNested
<1>2. e.w \in Worlds /\ e.w.inUse = wasm.inUse
  BY EnsuredTyped
<1>3. PICK u \in Worlds : u = e.w
  BY <1>2
<1>4. PICK v : v = EnterStruct(ResetRoot(u))
  OBVIOUS
<1>5. /\ SameBut(v, u, {u.active}) /\ v.active = u.active /\ v.live.at = u.live.at
      /\ v.live.deep = (u.live.at # None)
  BY <1>4, Moved
<1>6. wasm' = v /\ Reads(r, wasm', TRUE)
  BY <1>1, <1>3, <1>4
<1>7. Into(e.w)
  BY <1>3, <1>5, <1>6 DEF Into
<1>8. misread' \subseteq Readers /\ misread \subseteq misread'
  BY <1>6, Typed DEF Reads, Owned
<1>9. /\ Mirrored(r) /\ UNCHANGED <<bytes, inFlight, reader>>
      /\ fresh' = {} /\ r \notin Dynamic
  BY DEF ReadNested
<1>10. jsActive' \in 0..Slots
  BY <1>9, Typed, HandlesTyped DEF Mirrored, Owned
<1>11. wasm' \in Worlds /\ wasm'.inUse = wasm.inUse
  BY <1>2, <1>3, <1>5, <1>6 DEF SameBut
<1> QED
  BY <1>6, <1>7, <1>8, <1>9, <1>10, <1>11 DEF OnlyRead

-----------------------------------------------------------------------------
(* Ownership is kept by every step. *)

InArena == {r \in Pooled : reader[r].ptr \in Arena}

LEMMA InArenaFinite == IsFiniteSet(InArena)
<1>1. InArena \subseteq Readers
  BY DEF InArena, Pooled
<1> QED
  BY <1>1, FS_Subset DEF InArena

\* An opening outside the pool leaves the pool alone.
LEMMA SamePool ==
    ASSUME SlotsOwned, NEW r \in Readers, reader[r].how # "slot",
           NEW how, how # "slot", NEW i, NEW a, ReaderNow(r, how, i, a),
           wasm'.inUse = wasm.inUse, inFlight' = inFlight
    PROVE  SlotsOwned'
<1>1. Pooled' = Pooled /\ \A q \in Pooled : reader'[q] = reader[q]
  BY DEF ReaderNow, Pooled
<1>2. InArena' = InArena
  BY <1>1 DEF InArena
<1>3. {reader'[q].slot : q \in Pooled'} = {reader[q].slot : q \in Pooled}
  BY <1>1
<1>4. /\ wasm.inUse = {reader[q].slot : q \in Pooled}
      /\ \A q, s \in Pooled : reader[q].slot = reader[s].slot => q = s
      /\ inFlight = Cardinality(InArena)
  BY DEF SlotsOwned, InArena
<1>5. wasm'.inUse = {reader'[q].slot : q \in Pooled'}
  BY <1>3, <1>4
<1>6. \A q, s \in Pooled' : reader'[q].slot = reader'[s].slot => q = s
  BY <1>1, <1>4
<1>7. inFlight' = Cardinality(InArena')
  BY <1>2, <1>4
<1> QED
  BY <1>5, <1>6, <1>7 DEF SlotsOwned, InArena

LEMMA PooledOpenedOwns ==
    ASSUME Owned, NEW r \in Readers, NEW i, NEW a, PooledOpened(r, i, a)
    PROVE  Owned'
<1>1. /\ reader[r].how = "new" /\ ReaderNow(r, "slot", i, a) /\ Stored(r, {a}, a)
      /\ i \in 1..Slots /\ i \notin wasm.inUse /\ a \in Arena \cup Heap
      /\ wasm' \in Worlds /\ wasm'.inUse = wasm.inUse \cup {i}
      /\ jsActive' = i /\ fresh' = {r} /\ misread' = misread
      /\ inFlight' = IF a \in Arena THEN inFlight + 1 ELSE inFlight
  BY DEF PooledOpened
<1>2. BytesStay' /\ Elsewhere' /\ Kinds'
  BY <1>1, OpenedBooks
<1>3. r \notin Pooled /\ Pooled' = Pooled \cup {r} /\ \A q \in Pooled : reader'[q] = reader[q]
  BY <1>1 DEF ReaderNow, Pooled
<1>4. reader'[r].slot = i /\ reader'[r].ptr = a
  BY <1>1 DEF ReaderNow
<1>5. /\ wasm.inUse = {reader[q].slot : q \in Pooled}
      /\ \A q, s \in Pooled : reader[q].slot = reader[s].slot => q = s
      /\ inFlight = Cardinality(InArena)
  BY DEF Owned, SlotsOwned, InArena
<1>6. wasm'.inUse = {reader'[q].slot : q \in Pooled'}
  <2>1. {reader'[q].slot : q \in Pooled'} = {reader[q].slot : q \in Pooled} \cup {i}
    BY <1>3, <1>4
  <2> QED
    BY <1>1, <1>5, <2>1
<1>7. \A q, s \in Pooled' : reader'[q].slot = reader'[s].slot => q = s
  BY <1>1, <1>3, <1>4, <1>5
<1>8. inFlight' = Cardinality(InArena') /\ inFlight' \in Nat
  <2>1. inFlight \in Nat
    BY Typed DEF Owned
  <2>2. CASE a \in Arena
    <3>1. InArena' = InArena \cup {r} /\ r \notin InArena
      BY <1>3, <1>4, <2>2 DEF InArena
    <3>2. Cardinality(InArena \cup {r}) = Cardinality(InArena) + 1
      BY <3>1, InArenaFinite, FS_AddElement
    <3> QED
      BY <1>1, <1>5, <2>1, <2>2, <3>1, <3>2
  <2>3. CASE a \notin Arena
    <3>1. InArena' = InArena
      BY <1>3, <1>4, <2>3 DEF InArena
    <3> QED
      BY <1>1, <1>5, <2>1, <2>3, <3>1
  <2> QED
    BY <2>2, <2>3
<1>9. SlotsOwned'
  BY <1>6, <1>7, <1>8 DEF SlotsOwned, InArena
<1>10. TypeOK'
  <2>1. /\ memory' \in [Addresses -> Readers \cup {None}]
        /\ used' \in 0..ArenaCap /\ allocated' \subseteq Heap
        /\ reader' \in [Readers -> Handles]
    BY <1>1, Typed DEF Stored, ReaderNow, Owned
  <2>2. jsActive' \in 0..Slots /\ fresh' \subseteq Readers /\ misread' \subseteq Readers
    BY <1>1, Typed DEF Owned
  <2> QED
    BY <1>1, <1>8, <2>1, <2>2, Retyped
<1> QED
  BY <1>2, <1>9, <1>10 DEF Owned


LEMMA RootOpenedOwns ==
    ASSUME Owned, NEW r \in Readers, NEW how, NEW S, NEW b, RootOpened(r, how, S, b)
    PROVE  Owned'
<1>1. /\ reader[r].how = "new" /\ ReaderNow(r, how, 0, b) /\ Stored(r, S, b)
      /\ (how = "managed" /\ b \in Heap) \/ (how = "unsafe" /\ b = In)
      /\ wasm' \in Worlds /\ wasm'.inUse = wasm.inUse
      /\ UNCHANGED <<jsActive, inFlight, misread>> /\ fresh' = {r}
  BY DEF RootOpened
<1>2. BytesStay' /\ Elsewhere' /\ Kinds'
  BY <1>1, OpenedBooks
<1>3. SlotsOwned'
  BY <1>1, SamePool DEF Owned
<1>4. TypeOK'
  <2>1. /\ memory' \in [Addresses -> Readers \cup {None}]
        /\ used' \in 0..ArenaCap /\ allocated' \subseteq Heap
        /\ reader' \in [Readers -> Handles]
    BY <1>1, Typed DEF Stored, ReaderNow, Owned
  <2>2. /\ jsActive' \in 0..Slots /\ fresh' \subseteq Readers /\ misread' \subseteq Readers
        /\ inFlight' \in Nat
    BY <1>1, Typed DEF Owned
  <2> QED
    BY <1>1, <2>1, <2>2, Retyped
<1> QED
  BY <1>2, <1>3, <1>4 DEF Owned

LEMMA FramedOwns ==
    ASSUME Owned, NEW r \in Readers, Framed(r)
    PROVE  Owned'
<1>1. /\ reader[r].how = "new" /\ ReaderNow(r, "framed", 0, In) /\ Stored(r, {In}, In)
      /\ UNCHANGED <<wasm, jsActive, inFlight, misread>> /\ fresh' = {}
  BY DEF Framed
<1>2. BytesStay' /\ Elsewhere' /\ Kinds'
  BY <1>1, OpenedBooks
<1>3. SlotsOwned'
  BY <1>1, SamePool DEF Owned
<1>4. TypeOK'
  <2>1. /\ memory' \in [Addresses -> Readers \cup {None}]
        /\ used' \in 0..ArenaCap /\ allocated' \subseteq Heap
        /\ reader' \in [Readers -> Handles]
    BY <1>1, Typed DEF Stored, ReaderNow, Owned
  <2>2. /\ jsActive' \in 0..Slots /\ fresh' \subseteq Readers /\ misread' \subseteq Readers
        /\ inFlight' \in Nat /\ wasm' \in Worlds
    BY <1>1, Typed DEF Owned
  <2> QED
    BY <2>1, <2>2, Retyped
<1> QED
  BY <1>2, <1>3, <1>4 DEF Owned

LEMMA ScopedOwns ==
    ASSUME Owned, NEW r \in Readers, Scoped(r)
    PROVE  Owned'
<1>1. /\ reader[r].how = "framed" /\ ReaderNow(r, "scoped", reader[r].slot, In)
      /\ wasm' \in Worlds /\ wasm'.inUse = wasm.inUse
      /\ UNCHANGED <<bytes, jsActive, inFlight, misread>> /\ fresh' = {r}
  BY DEF Scoped, SameBut
<1>2. /\ reader'[r].how = "scoped" /\ reader'[r].ptr = In
      /\ \A q \in Readers : q # r => reader'[q] = reader[q]
  BY <1>1 DEF ReaderNow
<1>3. /\ Pooled' = Pooled /\ Managed' = Managed
      /\ \A q \in Pooled \cup Managed : reader'[q] = reader[q]
  BY <1>1, <1>2 DEF Pooled, Managed
<1>4. Kinds' /\ BytesStay' /\ Elsewhere'
  <2>1. Kinds'
    BY <1>2, <1>3 DEF Owned, Kinds
  <2>2. memory' = memory /\ used' = used /\ allocated' = allocated
    BY <1>1 DEF bytes
  <2>3. BytesStay'
    BY <1>3, <2>2 DEF Owned, BytesStay
  <2>4. Elsewhere'
    BY <1>2, <2>2 DEF Owned, Elsewhere
  <2> QED
    BY <2>1, <2>3, <2>4
<1>5. SlotsOwned'
  BY <1>1, SamePool DEF Owned
<1>6. TypeOK'
  <2>1. /\ memory' \in [Addresses -> Readers \cup {None}]
        /\ used' \in 0..ArenaCap /\ allocated' \subseteq Heap
        /\ reader' \in [Readers -> Handles]
    BY <1>1, Typed DEF ReaderNow, Owned, bytes
  <2>2. /\ jsActive' \in 0..Slots /\ fresh' \subseteq Readers /\ misread' \subseteq Readers
        /\ inFlight' \in Nat
    BY <1>1, Typed DEF Owned
  <2> QED
    BY <1>1, <2>1, <2>2, Retyped
<1> QED
  BY <1>4, <1>5, <1>6 DEF Owned

\* Staging writes over no reader that owns its bytes.
LEMMA StageOwns ==
    ASSUME Owned, StageBytes
    PROVE  Owned'
<1>1. /\ memory' = [memory EXCEPT ![In] = None]
      /\ UNCHANGED <<wasm, used, allocated, jsActive, inFlight, fresh, reader, misread>>
  BY DEF StageBytes
<1>2. /\ memory' \in [Addresses -> Readers \cup {None}]
      /\ \A c \in Addresses : memory'[c] = IF c = In THEN None ELSE memory[c]
  BY <1>1, Typed, Places DEF Owned
<1>3. Pooled' = Pooled /\ Managed' = Managed
  BY <1>1 DEF Pooled, Managed
<1>4. BytesStay'
  <2>1. \A q \in Pooled \cup Managed : reader[q].ptr \in Addresses /\ reader[q].ptr # In
    BY Places DEF Owned, Kinds
  <2> QED
    BY <1>1, <1>2, <1>3, <2>1 DEF Owned, BytesStay
<1>5. Elsewhere'
  BY <1>1, <1>2 DEF Owned, Elsewhere
<1>6. Kinds' /\ SlotsOwned'
  BY <1>1, <1>3 DEF Owned, Kinds, SlotsOwned
<1>7. TypeOK'
  BY <1>1, <1>2 DEF Owned, TypeOK
<1> QED
  BY <1>4, <1>5, <1>6, <1>7 DEF Owned

LEMMA ReadOwns ==
    ASSUME Owned, NEW r \in Readers, OnlyRead(r)
    PROVE  Owned'
<1>1. /\ UNCHANGED <<memory, used, allocated, inFlight, reader>>
      /\ wasm' \in Worlds /\ wasm'.inUse = wasm.inUse
  BY DEF OnlyRead, bytes
<1>2. Pooled' = Pooled /\ Managed' = Managed
  BY <1>1 DEF Pooled, Managed
<1>3. BytesStay' /\ Elsewhere'
  BY <1>1, <1>2 DEF Owned, BytesStay, Elsewhere
<1>4. Kinds' /\ SlotsOwned'
  BY <1>1, <1>2 DEF Owned, Kinds, SlotsOwned
<1>5. TypeOK'
  <2>1. jsActive' \in 0..Slots /\ fresh' \subseteq Readers /\ misread' \subseteq Readers
    BY DEF OnlyRead
  <2>2. /\ memory' \in [Addresses -> Readers \cup {None}]
        /\ used' \in 0..ArenaCap /\ allocated' \subseteq Heap
        /\ reader' \in [Readers -> Handles] /\ inFlight' \in Nat
    BY <1>1, Typed DEF Owned
  <2> QED
    BY <1>1, <2>1, <2>2, Retyped
<1> QED
  BY <1>3, <1>4, <1>5 DEF Owned


\* The arena is rewound only when its last reader ends, and malloc takes back
\* only the bytes of r.
LEMMA EndOwns ==
    ASSUME Owned, NEW r \in Readers, Ended(r)
    PROVE  Owned'
<1>1. /\ reader[r].how \in {"slot", "managed", "unsafe", "scoped"}
      /\ ReaderNow(r, "gone", 0, None) /\ Reclaim(reader[r].ptr)
      /\ fresh' = fresh \ {r} /\ UNCHANGED <<memory, misread>>
  BY DEF Ended
<1>2. /\ reader' \in [Readers -> Handles] /\ reader'[r].how = "gone"
      /\ \A q \in Readers : q # r => reader'[q] = reader[q]
  BY <1>1 DEF ReaderNow
<1>3. PICK a : a = reader[r].ptr
  OBVIOUS
<1>4. /\ allocated' = allocated \ {a}
      /\ a \in Arena /\ inFlight <= 1 => inFlight' = 0 /\ used' = 0
      /\ a \in Arena /\ ~(inFlight <= 1) => inFlight' = inFlight - 1 /\ used' = used
      /\ a \notin Arena => inFlight' = inFlight /\ used' = used
  BY <1>1, <1>3 DEF Reclaim
<1>5. Pooled' = Pooled \ {r} /\ Managed' = Managed \ {r}
  BY <1>2 DEF Pooled, Managed
<1>6. InArena' = InArena \ {r} /\ (r \in InArena <=> a \in Arena)
  <2>1. InArena' = InArena \ {r}
    <3>1. \A q \in Pooled \ {r} : reader'[q] = reader[q]
      BY <1>2 DEF Pooled
    <3> QED
      BY <1>5, <3>1 DEF InArena
  <2>2. r \in Managed => a \in Heap
    BY <1>3 DEF Owned, Kinds
  <2>3. r \notin Pooled \cup Managed => a = In
    BY <1>1, <1>3 DEF Owned, Kinds, Pooled, Managed
  <2>4. a \in Arena => r \in Pooled
    BY <2>2, <2>3, Places
  <2> QED
    BY <1>3, <2>1, <2>4 DEF InArena
<1>7. inFlight = Cardinality(InArena) /\ inFlight \in Nat
  BY Typed DEF Owned, SlotsOwned, InArena
<1>8. /\ inFlight' = Cardinality(InArena') /\ inFlight' \in Nat
      /\ a \in Arena /\ inFlight <= 1 => InArena' = {}
  <2>1. CASE a \in Arena
    <3>1. Cardinality(InArena \ {r}) = inFlight - 1 /\ Cardinality(InArena \ {r}) \in Nat
      <4>1. r \in InArena
        BY <1>6, <2>1
      <4>2. IsFiniteSet(InArena \ {r}) /\ Cardinality(InArena \ {r}) = Cardinality(InArena) - 1
        BY <4>1, InArenaFinite, FS_RemoveElement
      <4> QED
        BY <1>7, <4>2, FS_CardinalityType
    <3>2. CASE inFlight <= 1
      <4>1. Cardinality(InArena \ {r}) = 0
        BY <1>7, <3>1, <3>2
      <4>2. IsFiniteSet(InArena \ {r})
        BY InArenaFinite, FS_Subset
      <4>3. InArena \ {r} = {}
        BY <4>1, <4>2, FS_EmptySet
      <4> QED
        BY <1>4, <1>6, <2>1, <3>2, <4>1, <4>3
    <3>3. CASE ~(inFlight <= 1)
      BY <1>4, <1>6, <2>1, <3>1, <3>3
    <3> QED
      BY <3>2, <3>3
  <2>2. CASE a \notin Arena
    <3>1. InArena' = InArena
      BY <1>6, <2>2
    <3> QED
      BY <1>4, <1>7, <2>2, <3>1
  <2> QED
    BY <2>1, <2>2
<1>9. BytesStay'
  <2> SUFFICES ASSUME NEW q \in (Pooled \cup Managed)', NEW b, b = reader'[q].ptr
               PROVE  /\ memory'[b] = q
                      /\ b \in Arena => b <= used'
                      /\ b \in Heap => b \in allocated'
    BY DEF BytesStay
  <2>1. q \in Pooled \cup Managed /\ q # r /\ b = reader[q].ptr
    BY <1>2, <1>5 DEF Pooled, Managed
  <2>2. memory[b] = q /\ (b \in Arena => b <= used) /\ (b \in Heap => b \in allocated)
    BY <2>1 DEF Owned, BytesStay
  <2>3. b \in Heap => b # a
    <3>1. CASE r \in Pooled \cup Managed
      BY <1>3, <2>1, <2>2, <3>1 DEF Owned, BytesStay
    <3>2. CASE r \notin Pooled \cup Managed
      BY <1>1, <1>3, <3>2, Places DEF Owned, Kinds, Pooled, Managed
    <3> QED
      BY <3>1, <3>2
  <2>4. b \in Arena => used' = used
    <3> SUFFICES ASSUME b \in Arena PROVE ~(a \in Arena /\ inFlight <= 1)
      BY <1>4
    <3>1. q \in Pooled
      BY <2>1, Places DEF Owned, Kinds
    <3>2. q \in InArena'
      BY <1>6, <2>1, <3>1 DEF InArena
    <3> QED
      BY <1>8, <3>2
  <2> QED
    BY <1>1, <1>4, <2>2, <2>3, <2>4
<1>10. Elsewhere' /\ Kinds'
  BY <1>1, <1>2, <1>5 DEF Owned, Elsewhere, Kinds, Pooled, Managed
<1>11. SlotsOwned'
  <2>1. /\ wasm.inUse = {reader[q].slot : q \in Pooled}
        /\ \A q, s \in Pooled : reader[q].slot = reader[s].slot => q = s
    BY DEF Owned, SlotsOwned
  <2>2. \A q \in Pooled' : q \in Pooled /\ q # r /\ reader'[q] = reader[q]
    BY <1>2, <1>5 DEF Pooled
  <2>3. \A q, s \in Pooled' : reader'[q].slot = reader'[s].slot => q = s
    BY <2>1, <2>2
  <2>4. wasm'.inUse = {reader'[q].slot : q \in Pooled'}
    <3>1. {reader'[q].slot : q \in Pooled'} = {reader[q].slot : q \in Pooled \ {r}}
      BY <1>5, <2>2
    <3>2. CASE r \in Pooled
      <4>1. wasm'.inUse = wasm.inUse \ {reader[r].slot}
        BY <3>2 DEF Ended
      <4> QED
        BY <2>1, <3>1, <3>2, <4>1
    <3>3. CASE r \notin Pooled
      <4>1. wasm' = wasm
        BY <3>3 DEF Ended
      <4> QED
        BY <2>1, <3>1, <3>3, <4>1
    <3> QED
      BY <3>2, <3>3
  <2> QED
    BY <1>8, <2>3, <2>4 DEF SlotsOwned, InArena
<1>12. TypeOK'
  <2>1. wasm' \in Worlds /\ jsActive' \in 0..Slots
    BY Typed DEF Ended, Owned
  <2>2. /\ memory' \in [Addresses -> Readers \cup {None}]
        /\ allocated' \subseteq Heap
        /\ fresh' \subseteq Readers /\ misread' \subseteq Readers
    BY <1>1, <1>4, Typed DEF Owned
  <2>3. used' \in 0..ArenaCap
    BY <1>4, Typed DEF Owned
  <2> QED
    BY <1>2, <1>8, <2>1, <2>2, <2>3, Retyped
<1> QED
  BY <1>9, <1>10, <1>11, <1>12 DEF Owned


-----------------------------------------------------------------------------
(* Where the cursors are *)

Top ==
    \A r \in fresh :
        reader[r].how \in {"managed", "unsafe"} => Cur(wasm, 0) = Root(reader[r].ptr)

\* A typed reader the mirror hides from cannot take what slot 0 shows for its
\* own while its cursor is inside a struct: it would not be put right.
Hidden ==
    \A r \in Pooled \ Dynamic :
        /\ jsActive = reader[r].slot /\ wasm.active = 0
        /\ Cur(wasm, reader[r].slot).deep
        => wasm.live.at # reader[r].ptr

\* A typed reader up to date that has never misread is at its root.
FreshRooted ==
    \A r \in fresh \cap Pooled :
        r \in Dynamic \cup misread \/ ~Cur(wasm, reader[r].slot).deep

Placed == MirrorBehindSlotZero /\ Top /\ Hidden /\ FreshRooted

LEMMA PooledPlaces ==
    ASSUME Owned
    PROVE  /\ \A q \in Pooled :
                 /\ reader[q].slot \in wasm.inUse /\ reader[q].slot \in 1..Slots
                 /\ reader[q].ptr \in Addresses /\ reader[q].ptr # In
           /\ \A q, s \in Pooled : reader[q].slot = reader[s].slot => q = s
           /\ \A q, s \in Pooled \cup Managed : reader[q].ptr = reader[s].ptr => q = s
           /\ wasm \in Worlds
<1>1. \A q, s \in Pooled \cup Managed : reader[q].ptr = reader[s].ptr => q = s
  BY DEF Owned, BytesStay
<1> QED
  BY <1>1, Typed, Places DEF Owned, SlotsOwned, Kinds

LEMMA PooledOpenedPlaced ==
    ASSUME Owned, Placed, NEW r \in Readers, NEW i, NEW a, PooledOpened(r, i, a)
    PROVE  Placed'
<1>1. /\ reader[r].how = "new" /\ reader'[r].how = "slot" /\ reader'[r].slot = i
      /\ \A q \in Readers : q # r => reader'[q] = reader[q]
      /\ i \in 1..Slots /\ i \notin wasm.inUse /\ a \in Addresses
      /\ Cur(wasm', i) = Root(a)
      /\ wasm'.active = i \/ (wasm'.active = wasm.active /\ jsActive = i)
      /\ jsActive' = i /\ fresh' = {r}
  BY Places DEF PooledOpened, ReaderNow
<1>2. ~Cur(wasm', i).deep
  BY <1>1, CursorsTyped
<1>3. MirrorBehindSlotZero'
  BY <1>1 DEF Placed, MirrorBehindSlotZero
<1>4. Top' /\ FreshRooted'
  BY <1>1, <1>2 DEF Top, FreshRooted
<1>5. \A q \in Pooled' : reader'[q].slot = i => q = r
  <2>1. \A q \in Pooled' : q # r => q \in Pooled /\ reader'[q] = reader[q]
    BY <1>1 DEF Pooled
  <2> QED
    BY <1>1, <2>1, PooledPlaces
<1>6. Hidden'
  BY <1>1, <1>2, <1>5 DEF Hidden
<1> QED
  BY <1>3, <1>4, <1>6 DEF Placed

LEMMA RootOpenedPlaced ==
    ASSUME Owned, Placed, NEW r \in Readers, NEW how, NEW S, NEW b, RootOpened(r, how, S, b)
    PROVE  Placed'
<1>1. /\ reader'[r].how = how /\ reader'[r].ptr = b /\ how # "slot"
      /\ \A q \in Readers : q # r => reader'[q] = reader[q]
      /\ wasm'.active = 0 /\ wasm'.live = Root(b) /\ fresh' = {r}
      /\ b \in Addresses
  BY Places DEF RootOpened, ReaderNow
<1>2. \A q \in Pooled' : q \in Pooled /\ q # r /\ reader'[q] = reader[q] /\ reader'[q].ptr # b
  BY <1>1 DEF Pooled, RootOpened, Stored
<1>3. MirrorBehindSlotZero'
  BY <1>1 DEF MirrorBehindSlotZero
<1>4. Cur(wasm', 0) = Root(b)
  BY <1>1 DEF Cur
<1>5. Top' /\ FreshRooted'
  BY <1>1, <1>2, <1>4 DEF Top, FreshRooted
<1>6. wasm'.live.at = b
  BY <1>1, CursorsTyped
<1>7. Hidden'
  BY <1>2, <1>6 DEF Hidden
<1> QED
  BY <1>3, <1>5, <1>7 DEF Placed

LEMMA FramedPlaced ==
    ASSUME Owned, Placed, NEW r \in Readers, Framed(r)
    PROVE  Placed'
<1>1. /\ reader'[r].how = "framed" /\ fresh' = {}
      /\ \A q \in Readers : q # r => reader'[q] = reader[q]
      /\ wasm' = wasm /\ jsActive' = jsActive
  BY DEF Framed, ReaderNow
<1>2. \A q \in Pooled' : q \in Pooled /\ reader'[q] = reader[q]
  BY <1>1 DEF Pooled
<1>3. MirrorBehindSlotZero' /\ Top' /\ FreshRooted'
  BY <1>1 DEF Placed, MirrorBehindSlotZero, Top, FreshRooted
<1>4. Hidden'
  BY <1>1, <1>2 DEF Placed, Hidden
<1> QED
  BY <1>3, <1>4 DEF Placed

LEMMA ScopedPlaced ==
    ASSUME Owned, Placed, NEW r \in Readers, Scoped(r)
    PROVE  Placed'
<1>1. /\ reader[r].how = "framed" /\ reader'[r].how = "scoped" /\ fresh' = {r}
      /\ \A q \in Readers : q # r => reader'[q] = reader[q]
      /\ wasm'.active = wasm.active /\ wasm'.live = Root(In) /\ jsActive' = jsActive
  BY DEF Scoped, ReaderNow
<1>2. \A q \in Pooled' : q \in Pooled /\ q # r /\ reader'[q] = reader[q]
  BY <1>1 DEF Pooled
<1>3. MirrorBehindSlotZero' /\ Top' /\ FreshRooted'
  BY <1>1, <1>2 DEF Placed, MirrorBehindSlotZero, Top, FreshRooted
<1>4. wasm'.live.at = In
  BY <1>1, Places, CursorsTyped
<1>5. Hidden'
  BY <1>2, <1>4, PooledPlaces DEF Hidden
<1> QED
  BY <1>3, <1>5 DEF Placed

LEMMA EndedPlaced ==
    ASSUME Owned, Placed, NEW r \in Readers, Ended(r)
    PROVE  Placed'
<1>1. /\ reader'[r].how = "gone" /\ fresh' = fresh \ {r} /\ misread' = misread
      /\ \A q \in Readers : q # r => reader'[q] = reader[q]
  BY DEF Ended, ReaderNow
<1>2. /\ \A q \in Pooled' : q \in Pooled /\ q # r /\ reader'[q] = reader[q]
      /\ wasm \in Worlds /\ jsActive \in 0..Slots
      /\ \A q \in fresh' : q \in fresh /\ reader'[q] = reader[q]
  BY <1>1, Typed DEF Pooled, Owned
<1>3. CASE r \notin Pooled
  <2>1. wasm' = wasm /\ jsActive' = jsActive
    BY <1>3 DEF Ended
  <2>2. MirrorBehindSlotZero' /\ Top'
    BY <1>2, <2>1 DEF Placed, MirrorBehindSlotZero, Top
  <2>3. Hidden'
    BY <1>2, <2>1 DEF Placed, Hidden
  <2>4. FreshRooted'
    BY <1>1, <1>2, <2>1 DEF Placed, FreshRooted
  <2> QED
    BY <2>2, <2>3, <2>4 DEF Placed
<1>4. CASE r \in Pooled
  <2>1. PICK i : i = reader[r].slot
    OBVIOUS
  <2>2. /\ \A k \in 0..Slots : k # i => Cur(wasm', k) = Cur(wasm, k)
        /\ wasm'.active = IF wasm.active = i THEN 0 ELSE wasm.active
        /\ jsActive' = jsActive \/ (jsActive = i /\ jsActive' = 0)
    BY <1>4, <2>1 DEF Ended
  <2>3. i \in 1..Slots /\ \A q \in Pooled' : reader[q].slot \in 1..Slots /\ reader[q].slot # i
    BY <1>2, <1>4, <2>1, PooledPlaces
  <2>4. jsActive # wasm.active => wasm.active = 0
    BY DEF Placed, MirrorBehindSlotZero
  <2>5. MirrorBehindSlotZero'
    BY <2>2, <2>4 DEF MirrorBehindSlotZero
  <2>6. Cur(wasm', 0) = Cur(wasm, 0)
    BY <2>2, <2>3
  <2>7. Top'
    BY <1>2, <2>6 DEF Placed, Top
  <2>8. FreshRooted'
    BY <1>1, <1>2, <2>2, <2>3 DEF Placed, FreshRooted
  <2>9. Hidden'
    <3> SUFFICES ASSUME NEW q \in Pooled' \ Dynamic, jsActive' = reader'[q].slot,
                        wasm'.active = 0, Cur(wasm', reader'[q].slot).deep
                 PROVE  wasm'.live.at # reader'[q].ptr
      BY DEF Hidden
    <3>1. /\ q \in Pooled \ Dynamic /\ reader'[q] = reader[q]
          /\ reader[q].slot \in 1..Slots /\ reader[q].slot # i
      BY <1>2, <2>3
    <3>2. jsActive = reader[q].slot
      BY <2>2, <3>1
    <3>3. wasm.active = 0
      BY <2>2, <2>4, <3>1, <3>2
    <3>4. wasm'.live = wasm.live
      BY <2>6, <3>3 DEF Cur
    <3>5. Cur(wasm, reader[q].slot).deep
      BY <2>2, <3>1
    <3> QED
      BY <3>1, <3>2, <3>3, <3>4, <3>5 DEF Placed, Hidden
  <2> QED
    BY <2>5, <2>7, <2>8, <2>9 DEF Placed
<1> QED
  BY <1>3, <1>4


\* Whichever cursor a read is to go through, the mirror and what it hides are
\* as before.
LEMMA SeenPlaced ==
    ASSUME Owned, Placed, NEW r \in Readers, NEW e, e \in Ensured(r), Mirrored(r)
    PROVE  /\ jsActive' # e.w.active => e.w.active = 0
           /\ \A q \in Pooled \ Dynamic :
                 /\ jsActive' = reader[q].slot /\ e.w.active = 0
                 /\ Cur(e.w, reader[q].slot).deep
                 => e.w.live.at # reader[q].ptr
<1>1. jsActive # wasm.active => wasm.active = 0
  BY DEF Placed, MirrorBehindSlotZero
<1>2. CASE AtSlot(r, e)
  <2>1. PICK i : i = reader[r].slot
    OBVIOUS
  <2>2. /\ r \in Pooled /\ e.w \in Worlds
        /\ \A k \in 0..Slots :
              /\ Cur(e.w, k).at = Cur(wasm, k).at
              /\ Cur(e.w, k) = Cur(wasm, k) \/ (k = e.w.active /\ r \notin Dynamic \cup fresh)
        /\ e.w.active = i \/ (jsActive = i /\ e.w.active = wasm.active)
    BY <1>2, <2>1 DEF AtSlot
  <2>3. jsActive' = i
    BY <2>1, <2>2 DEF Mirrored, Pooled
  <2>4. jsActive' # e.w.active => e.w.active = 0
    BY <1>1, <2>2, <2>3
  <2>5. i \in 1..Slots
    BY <2>1, <2>2, PooledPlaces
  <2>6. SUFFICES ASSUME NEW q \in Pooled \ Dynamic, jsActive' = reader[q].slot,
                        e.w.active = 0, Cur(e.w, reader[q].slot).deep
                 PROVE  e.w.live.at # reader[q].ptr
    BY <2>4
  <2>7. reader[q].slot = i
    BY <2>3, <2>6
  <2>8. jsActive = i /\ wasm.active = 0
    BY <1>1, <2>2, <2>5, <2>6
  <2>9. Cur(wasm, i).deep
    BY <2>2, <2>5, <2>6, <2>7
  <2>10. wasm.live.at # reader[q].ptr
    BY <2>6, <2>7, <2>8, <2>9 DEF Placed, Hidden
  <2>11. e.w.live = Cur(e.w, 0) /\ wasm.live = Cur(wasm, 0)
    BY <2>6, <2>8 DEF Cur
  <2>12. e.w.live.at = wasm.live.at
    BY <2>2, <2>11
  <2> QED
    BY <2>10, <2>12
<1>3. CASE AtRoot(r, e)
  <2>1. r \in Managed /\ e.w.active = 0 /\ e.w.live = Root(reader[r].ptr)
    BY <1>3 DEF AtRoot
  <2>2. reader[r].ptr \in Addresses
    BY <2>1, Places DEF Owned, Kinds
  <2>3. e.w.live.at = reader[r].ptr
    BY <2>1, <2>2, CursorsTyped
  <2>4. \A q \in Pooled : q # r
    BY <2>1 DEF Pooled, Managed
  <2> QED
    BY <2>1, <2>3, <2>4, PooledPlaces
<1>4. CASE AsItIs(r, e)
  <2>1. e.w = wasm /\ jsActive' = jsActive
    BY <1>4 DEF AsItIs, Mirrored, Pooled
  <2> QED
    BY <1>1, <2>1 DEF Placed, Hidden
<1> QED
  BY <1>2, <1>3, <1>4, EnsuredDoes

\* A typed reader that goes back to its root through the wrong cursor misreads.
LEMMA ReadPlaced ==
    ASSUME Owned, Placed, NEW r \in Readers, Read(r)
    PROVE  Placed'
<1>1. OnlyRead(r)
  BY ReadDoes
<1>2. PICK e \in Ensured(r) : wasm' = e.w /\ fresh' = e.fresh /\ Reads(r, e.w, FALSE)
  BY ReadDoes
<1>3. /\ reader' = reader /\ memory' = memory /\ misread \subseteq misread' /\ Mirrored(r)
      /\ Pooled' = Pooled
  BY <1>1 DEF OnlyRead, bytes, Pooled
<1>4. MirrorBehindSlotZero' /\ Hidden'
  <2>1. /\ jsActive' # e.w.active => e.w.active = 0
        /\ \A q \in Pooled \ Dynamic :
              /\ jsActive' = reader[q].slot /\ e.w.active = 0
              /\ Cur(e.w, reader[q].slot).deep
              => e.w.live.at # reader[q].ptr
    BY <1>3, SeenPlaced
  <2> QED
    BY <1>2, <1>3, <2>1 DEF MirrorBehindSlotZero, Hidden
<1>5. CASE AtSlot(r, e)
  <2>1. PICK i : i = reader[r].slot
    OBVIOUS
  <2>2. /\ r \in Pooled /\ reader[r].how = "slot" /\ i \in 1..Slots /\ 0 \in 0..Slots
        /\ \A k \in 0..Slots :
              /\ Cur(wasm', k).at = Cur(wasm, k).at
              /\ Cur(wasm', k) = Cur(wasm, k) \/ (k = wasm'.active /\ r \notin Dynamic \cup fresh)
        /\ wasm'.active = i \/ (jsActive = i /\ wasm'.active = wasm.active)
    BY <1>2, <1>5, <2>1, PooledPlaces DEF AtSlot, Pooled
  <2>3. CASE r \in Dynamic \cup fresh
    <3>1. fresh' = fresh \cup {r} /\ \A k \in 0..Slots : Cur(wasm', k) = Cur(wasm, k)
      BY <1>2, <1>5, <2>2, <2>3 DEF AtSlot
    <3>2. Top'
      BY <1>3, <2>2, <3>1 DEF Placed, Top
    <3>3. \A q \in Pooled : reader[q].slot \in 0..Slots
      BY PooledPlaces
    <3>4. FreshRooted'
      BY <1>3, <2>3, <3>1, <3>3 DEF Placed, FreshRooted
    <3> QED
      BY <1>4, <3>2, <3>4 DEF Placed
  <2>4. CASE r \notin Dynamic \cup fresh
    <3>1. fresh' = {r} /\ ~wasm'.live.deep
      BY <1>2, <1>5, <2>4 DEF AtSlot
    <3>2. Top'
      BY <1>3, <2>2, <3>1 DEF Top
    <3>3. CASE wasm'.active = i
      <4>1. ~Cur(wasm', i).deep
        BY <3>1, <3>3 DEF Cur
      <4> QED
        BY <1>3, <1>4, <2>1, <3>1, <3>2, <4>1 DEF Placed, FreshRooted
    <3>4. CASE wasm'.active # i
      <4>1. jsActive = i /\ wasm.active = 0 /\ wasm'.active = 0
        BY <2>2, <3>4 DEF Placed, MirrorBehindSlotZero
      <4>2. Cur(wasm', i) = Cur(wasm, i)
        BY <2>2, <3>4
      <4>3. wasm'.live.at = wasm.live.at
        <5>1. wasm'.live = Cur(wasm', 0) /\ wasm.live = Cur(wasm, 0)
          BY <4>1 DEF Cur
        <5> QED
          BY <2>2, <5>1
      <4>4. Cur(wasm', i).deep => r \in misread'
        <5> SUFFICES ASSUME Cur(wasm', i).deep PROVE r \in misread'
          OBVIOUS
        <5>1. wasm'.live.at # reader[r].ptr
          BY <2>1, <2>2, <2>4, <4>1, <4>2, <4>3 DEF Placed, Hidden
        <5>2. wasm'.live.at \in Addresses \cup {None}
          <6>1. wasm' \in Worlds
            BY <1>1 DEF OnlyRead
          <6> QED
            BY <6>1, WorldTyped, CursorsTyped
        <5>3. Shown(wasm') # r
          BY <2>2, <5>1, <5>2 DEF Shown, Owned, Elsewhere
        <5> QED
          BY <1>2, <1>3, <5>3 DEF Reads, Shown
      <4> QED
        BY <1>3, <1>4, <2>1, <3>1, <3>2, <4>4 DEF Placed, FreshRooted
    <3> QED
      BY <3>3, <3>4
  <2> QED
    BY <2>3, <2>4
<1>6. CASE AtRoot(r, e)
  <2>1. /\ r \in Managed /\ wasm'.active = 0 /\ wasm'.live = Root(reader[r].ptr)
        /\ fresh' = {r}
    BY <1>2, <1>6 DEF AtRoot
  <2>2. Cur(wasm', 0) = Root(reader[r].ptr) /\ r \notin Pooled
    BY <2>1 DEF Cur, Managed, Pooled
  <2>3. Top' /\ FreshRooted'
    BY <1>3, <2>1, <2>2 DEF Top, FreshRooted
  <2> QED
    BY <1>4, <2>3 DEF Placed
<1>7. CASE AsItIs(r, e)
  <2>1. wasm' = wasm /\ fresh' = fresh
    BY <1>2, <1>7 DEF AsItIs
  <2>2. Top' /\ FreshRooted'
    BY <1>3, <2>1 DEF Placed, Top, FreshRooted
  <2> QED
    BY <1>4, <2>2 DEF Placed
<1> QED
  BY <1>5, <1>6, <1>7, EnsuredDoes

LEMMA ReadNestedPlaced ==
    ASSUME Owned, Placed, NEW r \in Readers, ReadNested(r)
    PROVE  Placed'
<1>1. OnlyRead(r) /\ fresh' = {}
  BY ReadNestedDoes
<1>2. PICK e \in Ensured(r) : Into(e.w)
  BY ReadNestedDoes
<1>3. reader' = reader /\ Mirrored(r) /\ Pooled' = Pooled
  BY <1>1 DEF OnlyRead, Pooled
<1>4. /\ jsActive' # e.w.active => e.w.active = 0
      /\ \A q \in Pooled \ Dynamic :
            /\ jsActive' = reader[q].slot /\ e.w.active = 0
            /\ Cur(e.w, reader[q].slot).deep
            => e.w.live.at # reader[q].ptr
  BY <1>3, SeenPlaced
<1>5. /\ wasm'.active = e.w.active /\ wasm'.live.at = e.w.live.at
      /\ \A k \in 0..Slots : k # e.w.active => Cur(wasm', k) = Cur(e.w, k)
  BY <1>2 DEF Into, SameBut
<1>6. MirrorBehindSlotZero' /\ Top' /\ FreshRooted'
  BY <1>1, <1>4, <1>5 DEF MirrorBehindSlotZero, Top, FreshRooted
<1>7. \A q \in Pooled : reader[q].slot \in 0..Slots /\ reader[q].slot # 0
  BY PooledPlaces
<1>8. Hidden'
  BY <1>3, <1>4, <1>5, <1>7 DEF Hidden
<1> QED
  BY <1>6, <1>8 DEF Placed


-----------------------------------------------------------------------------
(* The invariant *)

ReadersInv == Owned /\ Placed

LEMMA InitReaders == Init => ReadersInv
<1> SUFFICES ASSUME Init PROVE ReadersInv
  OBVIOUS
<1>1. /\ wasm = [active |-> 0, live |-> Unopened,
                 saved |-> [i \in 0..Slots |-> Unopened], inUse |-> {}]
      /\ memory = [a \in Addresses |-> None] /\ used = 0 /\ allocated = {}
      /\ jsActive = 0 /\ inFlight = 0 /\ fresh = {} /\ misread = {}
      /\ reader = [r \in Readers |-> Handle("new", 0, None)]
  BY DEF Init
<1>2. PICK h : h = Handle("new", 0, None)
  OBVIOUS
<1>3. h \in Handles /\ h.how = "new" /\ h.slot = 0 /\ h.ptr = None
  BY <1>2 DEF Handle, Handles, Hows
<1>4. reader \in [Readers -> Handles] /\ \A r \in Readers : reader[r].how = "new" /\ reader[r].ptr = None
  BY <1>1, <1>2, <1>3
<1>5. wasm \in Worlds
  <2>1. [i \in 0..Slots |-> Unopened] \in [0..Slots -> Cursors] /\ 0 \in 0..Slots
    BY CursorsTyped
  <2> QED
    BY <1>1, <2>1, CursorsTyped DEF Worlds
<1>6. TypeOK
  <2>1. memory \in [Addresses -> Readers \cup {None}] /\ used \in 0..ArenaCap
    BY <1>1
  <2>2. jsActive \in 0..Slots /\ inFlight \in Nat /\ allocated \subseteq Heap
    BY <1>1
  <2> QED
    BY <1>1, <1>4, <1>5, <2>1, <2>2 DEF TypeOK, Worlds, Handles, Hows
<1>7. Pooled = {} /\ Managed = {}
  BY <1>4 DEF Pooled, Managed
<1>8. SlotsOwned
  <2>1. {r \in Pooled : reader[r].ptr \in Arena} = {} /\ {reader[r].slot : r \in Pooled} = {}
    BY <1>7
  <2> QED
    BY <1>1, <1>7, <2>1, FS_EmptySet DEF SlotsOwned
<1>9. BytesStay /\ Kinds /\ Elsewhere
  BY <1>1, <1>4, <1>7 DEF BytesStay, Kinds, Elsewhere
<1>10. Placed
  BY <1>1, <1>7 DEF Placed, MirrorBehindSlotZero, Top, Hidden, FreshRooted
<1> QED
  BY <1>6, <1>8, <1>9, <1>10 DEF ReadersInv, Owned

\* What a step may do, in the words of the lemmas above.
LEMMA StepDoes ==
    ASSUME Owned, [Next]_vars
    PROVE  \/ \E r \in Readers :
                 \/ \E i, a : PooledOpened(r, i, a)
                 \/ \E how, S, b : RootOpened(r, how, S, b)
                 \/ Framed(r) \/ Scoped(r) \/ Ended(r)
                 \/ Read(r) \/ ReadNested(r)
           \/ StageBytes
           \/ UNCHANGED vars
<1>1. CASE UNCHANGED vars \/ StageBytes
  BY <1>1
<1>2. ASSUME NEW r \in Readers,
             \/ OpenPooled(r) \/ OpenFallback(r) \/ OpenUnsafe(r)
             \/ Frame(r) \/ OpenScoped(r)
             \/ Read(r) \/ ReadNested(r)
             \/ Dispose(r) \/ Finalize(r)
      PROVE  \/ \E i, a : PooledOpened(r, i, a)
             \/ \E how, S, b : RootOpened(r, how, S, b)
             \/ Framed(r) \/ Scoped(r) \/ Ended(r)
             \/ Read(r) \/ ReadNested(r)
  <2>1. CASE OpenPooled(r)
    BY <2>1, OpenPooledDoes
  <2>2. CASE OpenFallback(r)
    BY <2>2, OpenFallbackDoes
  <2>3. CASE OpenUnsafe(r)
    BY <2>3, OpenUnsafeDoes
  <2>4. CASE Frame(r)
    BY <2>4, FrameDoes
  <2>5. CASE OpenScoped(r)
    BY <2>5, OpenScopedDoes
  <2>6. CASE Dispose(r) \/ Finalize(r)
    BY <2>6, EndDoes
  <2>7. CASE Read(r) \/ ReadNested(r)
    BY <2>7
  <2> QED
    BY <1>2, <2>1, <2>2, <2>3, <2>4, <2>5, <2>6, <2>7
<1> QED
  BY <1>1, <1>2 DEF Next

LEMMA NextReaders == ReadersInv /\ [Next]_vars => ReadersInv'
<1> SUFFICES ASSUME ReadersInv, [Next]_vars PROVE ReadersInv'
  OBVIOUS
<1>1. Owned /\ Placed
  BY DEF ReadersInv
<1>2. ASSUME NEW r \in Readers, \E i, a : PooledOpened(r, i, a)
      PROVE  ReadersInv'
  BY <1>1, <1>2, PooledOpenedOwns, PooledOpenedPlaced DEF ReadersInv
<1>3. ASSUME NEW r \in Readers, \E how, S, b : RootOpened(r, how, S, b)
      PROVE  ReadersInv'
  BY <1>1, <1>3, RootOpenedOwns, RootOpenedPlaced DEF ReadersInv
<1>4. ASSUME NEW r \in Readers, Framed(r) PROVE ReadersInv'
  BY <1>1, <1>4, FramedOwns, FramedPlaced DEF ReadersInv
<1>5. ASSUME NEW r \in Readers, Scoped(r) PROVE ReadersInv'
  BY <1>1, <1>5, ScopedOwns, ScopedPlaced DEF ReadersInv
<1>6. ASSUME NEW r \in Readers, Ended(r) PROVE ReadersInv'
  BY <1>1, <1>6, EndOwns, EndedPlaced DEF ReadersInv
<1>7. ASSUME NEW r \in Readers, Read(r) PROVE ReadersInv'
  BY <1>1, <1>7, ReadDoes, ReadOwns, ReadPlaced DEF ReadersInv
<1>8. ASSUME NEW r \in Readers, ReadNested(r) PROVE ReadersInv'
  BY <1>1, <1>8, ReadNestedDoes, ReadOwns, ReadNestedPlaced DEF ReadersInv
<1>9. CASE StageBytes
  <2>1. UNCHANGED <<wasm, jsActive, fresh, reader, misread>>
    BY <1>9 DEF StageBytes
  <2>2. Placed'
    BY <1>1, <2>1 DEF Placed, MirrorBehindSlotZero, Top, Hidden, FreshRooted, Pooled
  <2> QED
    BY <1>1, <1>9, <2>2, StageOwns DEF ReadersInv
<1>10. CASE UNCHANGED vars
  <2>1. UNCHANGED <<wasm, memory, used, allocated, jsActive, inFlight, fresh, reader, misread>>
    BY <1>10 DEF vars, bytes
  <2>2. Placed'
    BY <1>1, <2>1 DEF Placed, MirrorBehindSlotZero, Top, Hidden, FreshRooted, Pooled
  <2>3. TypeOK' /\ SlotsOwned'
    BY <1>1, <2>1 DEF Owned, TypeOK, SlotsOwned, Pooled
  <2>4. BytesStay' /\ Kinds' /\ Elsewhere'
    BY <1>1, <2>1 DEF Owned, BytesStay, Kinds, Elsewhere, Pooled, Managed
  <2> QED
    BY <2>2, <2>3, <2>4 DEF ReadersInv, Owned
<1> QED
  BY <1>1, <1>2, <1>3, <1>4, <1>5, <1>6, <1>7, <1>8, <1>9, <1>10, StepDoes

LEMMA ReadersAlways == Spec => []ReadersInv
  BY InitReaders, NextReaders, PTL DEF Spec

\* C++ and JavaScript agree on whose the slots and the bytes are, which slot
\* is active but for slot 0, and who is up to date.
THEOREM SlotsAgree == Spec => []SlotsInv
<1>1. ReadersInv => SlotsInv
  <2> SUFFICES ASSUME ReadersInv PROVE SlotsInv
    OBVIOUS
  <2>1. FreshMeansOnTop
    BY DEF ReadersInv, Placed, Top, FreshMeansOnTop, CursorOf, Cur
  <2> QED
    BY <2>1 DEF ReadersInv, Owned, Placed, SlotsInv
<1> QED
  BY <1>1, ReadersAlways, PTL


-----------------------------------------------------------------------------
(* What a step may do to the cursor of a pooled reader *)

FrameOpened == \E q \in Readers : reader[q].how = "framed" /\ reader'[q].how = "scoped"

Stays(q) ==
    /\ reader'[q] = reader[q]
    /\ \/ Cur(wasm', reader[q].slot).at = Cur(wasm, reader[q].slot).at
       \/ wasm.active = reader[q].slot /\ FrameOpened

LEMMA StepStays ==
    ASSUME Owned, [Next]_vars, NEW q \in Pooled, q \in Pooled'
    PROVE  Stays(q)
<1>1. /\ reader[q].slot \in wasm.inUse /\ reader[q].slot \in 0..Slots /\ reader[q].slot # 0
      /\ q \in Readers /\ reader[q].how = "slot" /\ reader'[q].how = "slot"
  BY PooledPlaces DEF Pooled
<1>2. ASSUME NEW r \in Readers, NEW i, NEW a, PooledOpened(r, i, a)
      PROVE  Stays(q)
  <2>1. r # q /\ i # reader[q].slot
    BY <1>1, <1>2 DEF PooledOpened
  <2> QED
    BY <1>1, <1>2, <2>1 DEF PooledOpened, ReaderNow, Stays
<1>3. ASSUME NEW r \in Readers, NEW how, NEW S, NEW b, RootOpened(r, how, S, b)
      PROVE  Stays(q)
  BY <1>1, <1>3 DEF RootOpened, ReaderNow, Stays
<1>4. ASSUME NEW r \in Readers, Framed(r) PROVE Stays(q)
  BY <1>1, <1>4 DEF Framed, ReaderNow, Stays
<1>5. ASSUME NEW r \in Readers, Scoped(r) PROVE Stays(q)
  <2>1. FrameOpened /\ r # q
    BY <1>1, <1>5 DEF Scoped, ReaderNow, FrameOpened
  <2>2. reader'[q] = reader[q]
    BY <1>1, <1>5, <2>1 DEF Scoped, ReaderNow
  <2>3. wasm.active # reader[q].slot => Cur(wasm', reader[q].slot) = Cur(wasm, reader[q].slot)
    BY <1>1, <1>5 DEF Scoped, SameBut
  <2> QED
    BY <2>1, <2>2, <2>3 DEF Stays
<1>6. ASSUME NEW r \in Readers, Ended(r) PROVE Stays(q)
  <2>1. r # q
    BY <1>1, <1>6 DEF Ended, ReaderNow
  <2>2. reader'[q] = reader[q]
    BY <1>1, <1>6, <2>1 DEF Ended, ReaderNow
  <2>3. CASE r \in Pooled
    <3>1. reader[r].slot # reader[q].slot
      BY <2>1, <2>3, PooledPlaces
    <3> QED
      BY <1>1, <1>6, <2>2, <2>3, <3>1 DEF Ended, Stays
  <2>4. CASE r \notin Pooled
    BY <1>6, <2>2, <2>4 DEF Ended, Stays
  <2> QED
    BY <2>3, <2>4
<1>7. ASSUME NEW r \in Readers, NEW e, e \in Ensured(r)
      PROVE  Cur(e.w, reader[q].slot).at = Cur(wasm, reader[q].slot).at
  <2>1. CASE AtSlot(r, e)
    BY <1>1, <2>1 DEF AtSlot
  <2>2. CASE AtRoot(r, e)
    BY <1>1, <2>2 DEF AtRoot, SameBut
  <2>3. CASE AsItIs(r, e)
    BY <2>3 DEF AsItIs
  <2> QED
    BY <1>7, <2>1, <2>2, <2>3, EnsuredDoes
<1>8. ASSUME NEW r \in Readers, Read(r) PROVE Stays(q)
  <2>1. OnlyRead(r)
    BY <1>8, ReadDoes
  <2>2. PICK e \in Ensured(r) : wasm' = e.w
    BY <1>8, ReadDoes
  <2>3. Cur(e.w, reader[q].slot).at = Cur(wasm, reader[q].slot).at
    BY <1>7
  <2> QED
    BY <2>1, <2>2, <2>3 DEF OnlyRead, Stays
<1>9. ASSUME NEW r \in Readers, ReadNested(r) PROVE Stays(q)
  <2>1. OnlyRead(r)
    BY <1>9, ReadNestedDoes
  <2>2. PICK e \in Ensured(r) : Into(e.w)
    BY <1>9, ReadNestedDoes
  <2>3. Cur(e.w, reader[q].slot).at = Cur(wasm, reader[q].slot).at
    BY <1>7
  <2>4. Cur(wasm', reader[q].slot).at = Cur(e.w, reader[q].slot).at
    <3>1. CASE e.w.active = reader[q].slot
      BY <2>2, <3>1 DEF Into, Cur
    <3>2. CASE e.w.active # reader[q].slot
      BY <1>1, <2>2, <3>2 DEF Into, SameBut
    <3> QED
      BY <3>1, <3>2
  <2> QED
    BY <2>1, <2>3, <2>4 DEF OnlyRead, Stays
<1>10. CASE StageBytes \/ UNCHANGED vars
  BY <1>10 DEF StageBytes, vars, Stays
<1> QED
  BY <1>2, <1>3, <1>4, <1>5, <1>6, <1>8, <1>9, <1>10, StepDoes

\* The cursor of a pooled reader leaves its message only when a frame is
\* opened while its slot is active.
THEOREM CursorsKept == Spec => PooledCursorsKept
<1>1. ReadersInv /\ [Next]_vars =>
        \A r \in Pooled :
            /\ CursorOf(reader[r].slot).at = reader[r].ptr
            /\ r \in Pooled'
            => \/ CursorOf(reader[r].slot)'.at = reader[r].ptr
               \/ /\ wasm.active = reader[r].slot
                  /\ \E q \in Readers : reader[q].how = "framed" /\ reader'[q].how = "scoped"
  <2> SUFFICES ASSUME ReadersInv, [Next]_vars, NEW r \in Pooled, r \in Pooled',
                      CursorOf(reader[r].slot).at = reader[r].ptr
               PROVE  \/ CursorOf(reader[r].slot)'.at = reader[r].ptr
                      \/ wasm.active = reader[r].slot /\ FrameOpened
    BY DEF FrameOpened
  <2>1. Stays(r)
    BY StepStays DEF ReadersInv
  <2>2. /\ CursorOf(reader[r].slot) = Cur(wasm, reader[r].slot)
        /\ CursorOf(reader[r].slot)' = Cur(wasm', reader'[r].slot)
    BY DEF CursorOf, Cur
  <2> QED
    BY <2>1, <2>2 DEF Stays
<1> QED
  BY <1>1, ReadersAlways, PTL DEF Spec, PooledCursorsKept

-----------------------------------------------------------------------------
(* What a pooled reader may misread *)

\* The three ways of PooledReadsOwn.
Excused(q) ==
    \/ jsActive = reader[q].slot /\ wasm.active = 0
    \/ Cur(wasm, reader[q].slot).at # reader[q].ptr
    \/ Cur(wasm, reader[q].slot).deep /\ q \in Dynamic

\* But for those, r is to read at its slot, the cursor on its message.
LEMMA OnItsMessage ==
    ASSUME Owned, Placed, NEW r \in Pooled, ~Excused(r), NEW e, e \in Ensured(r)
    PROVE  /\ e.w.live.at = reader[r].ptr /\ reader[r].ptr # None
           /\ memory[reader[r].ptr] = r
           /\ e.w.live.deep => r \in misread
<1>1. r \in Readers /\ reader[r].slot \in 0..Slots /\ reader[r].ptr # None
  BY PooledPlaces, Places DEF Pooled
<1>2. AtSlot(r, e)
  BY <1>1, EnsuredDoes DEF AtRoot, AsItIs, Pooled, Managed
<1>3. PICK i \in 0..Slots : i = reader[r].slot
  BY <1>1
<1>4. ~(jsActive = i /\ wasm.active = 0) /\ Cur(wasm, i).at = reader[r].ptr
  BY <1>3 DEF Excused
<1>5. e.w.active = i
  <2>1. e.w.active = i \/ (jsActive = i /\ e.w.active = wasm.active)
    BY <1>2, <1>3 DEF AtSlot
  <2> QED
    BY <1>4, <2>1 DEF Placed, MirrorBehindSlotZero
<1>6. e.w.live = Cur(e.w, i)
  BY <1>5 DEF Cur
<1>7. e.w.live.at = reader[r].ptr
  BY <1>2, <1>4, <1>6 DEF AtSlot
<1>8. memory[reader[r].ptr] = r
  BY DEF Owned, BytesStay
<1>9. e.w.live.deep => r \in misread
  <2> SUFFICES ASSUME e.w.live.deep PROVE r \in misread
    OBVIOUS
  <2>1. r \in Dynamic \cup fresh /\ Cur(wasm, i) = Cur(e.w, i)
    BY <1>2, <1>6 DEF AtSlot
  <2>2. r \notin Dynamic
    BY <1>3, <1>6, <2>1 DEF Excused
  <2> QED
    BY <1>3, <1>6, <2>1, <2>2 DEF Placed, FreshRooted
<1> QED
  BY <1>1, <1>7, <1>8, <1>9

\* A pooled reader reads something else only when the mirror hides slot 0,
\* after a frame was opened over its cursor, or, a dynamic one, when a nested
\* read has moved its slot.
THEOREM ReadsOwn == Spec => PooledReadsOwn
<1>1. ReadersInv /\ [Next]_vars => \A q \in (misread' \ misread) \cap Pooled : Excused(q)
  <2> SUFFICES ASSUME ReadersInv, [Next]_vars,
                      NEW q \in (misread' \ misread) \cap Pooled, ~Excused(q)
               PROVE  FALSE
    OBVIOUS
  <2>1. Owned /\ Placed
    BY DEF ReadersInv
  <2>2. ASSUME NEW r \in Readers, Read(r) PROVE FALSE
    <3>1. PICK e \in Ensured(r) : Reads(r, e.w, FALSE)
      BY <2>1, <2>2, ReadDoes
    <3>2. q = r /\ ~(Shown(e.w) = r /\ e.w.live.deep = FALSE)
      BY <3>1 DEF Reads
    <3>3. /\ e.w.live.at = reader[r].ptr /\ reader[r].ptr # None
          /\ memory[reader[r].ptr] = r
          /\ e.w.live.deep => r \in misread
      BY <2>1, <3>2, OnItsMessage
    <3>4. Shown(e.w) = r /\ ~e.w.live.deep
      BY <3>2, <3>3 DEF Shown
    <3>5. e.w.live.deep \in BOOLEAN
      <4>1. e.w \in Worlds
        BY <2>1, EnsuredTyped
      <4> QED
        BY <4>1, WorldTyped, CursorsTyped
    <3> QED
      BY <3>2, <3>4, <3>5
  <2>3. ASSUME NEW r \in Readers, ReadNested(r) PROVE FALSE
    <3>1. PICK e \in Ensured(r) : Into(e.w) /\ Reads(r, wasm', TRUE)
      BY <2>1, <2>3, ReadNestedDoes
    <3>2. q = r /\ ~(Shown(wasm') = r /\ wasm'.live.deep = TRUE)
      BY <3>1 DEF Reads
    <3>3. /\ e.w.live.at = reader[r].ptr /\ reader[r].ptr # None
          /\ memory[reader[r].ptr] = r
      BY <2>1, <3>2, OnItsMessage
    <3>4. wasm'.live.at = reader[r].ptr /\ wasm'.live.deep = TRUE
      BY <3>1, <3>3 DEF Into
    <3>5. Shown(wasm') = r
      BY <3>3, <3>4 DEF Shown
    <3> QED
      BY <3>2, <3>4, <3>5
  <2>4. misread' = misread => FALSE
    OBVIOUS
  <2>5. ASSUME NEW r \in Readers,
               \/ \E i, a : PooledOpened(r, i, a)
               \/ \E how, S, b : RootOpened(r, how, S, b)
               \/ Framed(r) \/ Scoped(r) \/ Ended(r)
        PROVE  misread' = misread
    BY <2>5 DEF PooledOpened, RootOpened, Framed, Scoped, Ended
  <2>6. StageBytes \/ UNCHANGED vars => misread' = misread
    BY DEF StageBytes, vars
  <2> QED
    BY <2>1, <2>2, <2>3, <2>4, <2>5, <2>6, StepDoes
<1>2. \A q : Excused(q) <=> \/ jsActive = reader[q].slot /\ wasm.active = 0
                            \/ CursorOf(reader[q].slot).at # reader[q].ptr
                            \/ CursorOf(reader[q].slot).deep /\ q \in Dynamic
  BY DEF Excused, CursorOf, Cur
<1>3. ReadersInv /\ [Next]_vars =>
        [\A r \in (misread' \ misread) \cap Pooled :
            \/ jsActive = reader[r].slot /\ wasm.active = 0
            \/ CursorOf(reader[r].slot).at # reader[r].ptr
            \/ CursorOf(reader[r].slot).deep /\ r \in Dynamic]_vars
  BY <1>1, <1>2
<1> QED
  BY <1>3, ReadersAlways, PTL DEF Spec, PooledReadsOwn

=============================================================================
