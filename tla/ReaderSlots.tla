---------------------------- MODULE ReaderSlots ----------------------------
(***************************************************************************)
(* The readers of one wasm instance.  All of them read through one cursor  *)
(* in C++ memory (cpp/wrapper.cpp).  A pooled reader owns a slot that keeps*)
(* its cursor while others read; a managed reader rebinds slot 0; an unsafe*)
(* one and a reader scoped to an RPC frame only know, by the generation    *)
(* counter, that the cursor has moved.  JavaScript mirrors the active slot *)
(* (js/cpp_loader.mjs) to save boundary calls.                             *)
(*                                                                         *)
(* A reader stands for the one message it was opened on.  Reads are those  *)
(* that go through the cursor: every one of a DynamicReader, and a typed   *)
(* reader's pointer fields when the JavaScript decoder declines.  fresh is *)
(* the set of readers whose _gen equals the generation counter, so that a  *)
(* bump empties it.                                                        *)
(***************************************************************************)
EXTENDS Naturals, FiniteSets, FiniteSetsExt

CONSTANTS
    Readers,     \* bound: readers, each opened at most once
    Dynamic,     \* those of js/dynamic.mjs; the others have generated classes
    Slots,       \* READER_SLOT_COUNT - 1: slot 0 is not in the pool
    ArenaCap,    \* MSG_ARENA_CAP, in messages
    HeapBlocks,  \* bound: blocks malloc can give out at once
    None

ASSUME ConstantsAssumption ==
    /\ IsFiniteSet(Readers)
    /\ Dynamic \subseteq Readers
    /\ Slots \in Nat \ {0} /\ ArenaCap \in Nat /\ HeapBlocks \in Nat
    /\ None \notin Readers \cup Nat

In    == 0                                         \* cpp_in
Arena == 1..ArenaCap                               \* cpp_msg_arena
Heap  == (ArenaCap + 1)..(ArenaCap + HeapBlocks)
Addresses == {In} \cup Arena \cup Heap

VARIABLES
    wasm,       \* C++: [active, live, saved, inUse], cursors are [at, deep]
    memory,     \* address -> whose message it holds, None for other bytes
    used,       \* C++: cpp_msg_arena_used_bytes
    allocated,  \* blocks malloc has given out
    jsActive,   \* JS: #activeSlot
    inFlight,   \* JS: #arenaInFlight
    fresh,      \* JS: readers with _gen = #generation
    reader,     \* JS: reader -> [how, slot, ptr]
    misread     \* readers whose read once returned what is not theirs

bytes == <<memory, used, allocated>>
vars == <<wasm, bytes, jsActive, inFlight, fresh, reader, misread>>

Unopened == [at |-> None, deep |-> FALSE]
Root(a)  == [at |-> a, deep |-> FALSE]

Handle(how, i, a) == [how |-> how, slot |-> i, ptr |-> a]

Init ==
    /\ wasm = [active |-> 0, live |-> Unopened,
               saved |-> [i \in 0..Slots |-> Unopened], inUse |-> {}]
    /\ memory = [a \in Addresses |-> None] /\ used = 0 /\ allocated = {}
    /\ jsActive = 0 /\ inFlight = 0 /\ fresh = {}
    /\ reader = [r \in Readers |-> Handle("new", 0, None)]
    /\ misread = {}

-----------------------------------------------------------------------------
(* cpp/wrapper.cpp, as functions of its state. *)

\* Slip: the slots are switched before the cursor is saved.
UseSlotThenSave(w, i) == [w EXCEPT !.active = i, !.saved[i] = w.live]

UseSlot(w, i) ==
    IF w.active = i THEN w
    ELSE [w EXCEPT !.active = i, !.saved[w.active] = w.live, !.live = w.saved[i]]

OpenInto(w, i, a) ==
    [w EXCEPT !.saved[i] = Root(a), !.live = IF w.active = i THEN Root(a) ELSE @]

OpenAt(w, a) ==
    LET left == IF w.active = 0 THEN w
                ELSE [w EXCEPT !.saved[w.active] = w.live, !.active = 0]
    IN  OpenInto(left, 0, a)

\* cpp_rpc_open_call_params, cpp_rpc_open_return_results: whatever is active.
OpenFrame(w) == [w EXCEPT !.live = Root(In)]

FreeSlots == 1..Slots \ wasm.inUse

AcquireSlot(w, i, a) == [OpenInto(w, i, a) EXCEPT !.inUse = @ \cup {i}]

\* Slip: the cursor stays where the released slot had it.
ReleaseSlotInPlace(w, i) ==
    IF w.active = i THEN [w EXCEPT !.inUse = @ \ {i}, !.active = 0]
    ELSE [w EXCEPT !.inUse = @ \ {i}, !.saved[i] = Unopened]

ReleaseSlot(w, i) ==
    IF w.active = i
    THEN [w EXCEPT !.inUse = @ \ {i}, !.active = 0, !.live = w.saved[0]]
    ELSE [w EXCEPT !.inUse = @ \ {i}, !.saved[i] = Unopened]

ResetRoot(w)   == [w EXCEPT !.live.deep = FALSE]
EnterStruct(w) == [w EXCEPT !.live.deep = w.live.at # None]

-----------------------------------------------------------------------------
(* Opening. *)

\* _useSlot: no boundary call when the mirror says it is active.
Using(w, i) == IF jsActive = i THEN w ELSE UseSlot(w, i)

\* Where _acquireSlot copies the message: the arena, or malloc when it is full.
PooledAddresses == IF used < ArenaCap THEN {used + 1} ELSE Heap \ allocated

Store(r, a) ==
    /\ memory' = [memory EXCEPT ![a] = r]
    /\ used' = IF a \in Arena THEN a ELSE used
    /\ allocated' = IF a \in Heap THEN allocated \cup {a} ELSE allocated

\* openDynamic, openFoo: the first free slot.
OpenPooled(r) ==
    /\ reader[r].how = "new"
    /\ FreeSlots # {}
    /\ LET i == Min(FreeSlots)
       IN  \E a \in PooledAddresses :
              /\ Store(r, a)
              /\ wasm' = Using(AcquireSlot(wasm, i, a), i)
              /\ jsActive' = i
              /\ inFlight' = IF a \in Arena THEN inFlight + 1 ELSE inFlight
              /\ reader' = [reader EXCEPT ![r] = Handle("slot", i, a)]
    /\ fresh' = {r}
    /\ UNCHANGED misread

\* The pool is full, or the root of the message is null, which acquire takes
\* for a failure: what the arena gave stays used, and a managed message in
\* slot 0 takes over.
OpenFallback(r) ==
    /\ reader[r].how = "new"
    /\ \E a \in PooledAddresses, b \in Heap \ allocated :
          LET tried == IF FreeSlots = {} THEN wasm
                       ELSE OpenInto(wasm, Min(FreeSlots), a)
          IN  /\ memory' = [memory EXCEPT ![a] = r, ![b] = r]
              /\ used' = IF a \in Arena THEN a ELSE used
              /\ allocated' = allocated \cup {b}
              /\ wasm' = OpenAt(tried, b)
              /\ reader' = [reader EXCEPT ![r] = Handle("managed", 0, b)]
    /\ fresh' = {r}
    /\ UNCHANGED <<jsActive, inFlight, misread>>

\* openDynamicUnsafe, openFooUnsafe: the scratch buffer.
OpenUnsafe(r) ==
    /\ reader[r].how = "new"
    /\ Store(r, In)
    /\ wasm' = OpenAt(wasm, In)
    /\ reader' = [reader EXCEPT ![r] = Handle("unsafe", 0, In)]
    /\ fresh' = {r}
    /\ UNCHANGED <<jsActive, inFlight, misread>>

\* #dispatch: a frame with parameters or results is copied to the scratch.
Frame(r) ==
    /\ reader[r].how = "new"
    /\ Store(r, In)
    /\ reader' = [reader EXCEPT ![r] = Handle("framed", 0, In)]
    /\ fresh' = {}
    /\ UNCHANGED <<wasm, jsActive, inFlight, misread>>

\* ctx.openParams, at once or from a handler that has awaited, or the results
\* for extract.
OpenScoped(r) ==
    /\ reader[r].how = "framed"
    /\ wasm' = OpenFrame(wasm)
    /\ reader' = [reader EXCEPT ![r].how = "scoped"]
    /\ fresh' = {r}
    /\ UNCHANGED <<bytes, jsActive, inFlight, misread>>

\* #stageIn of an outgoing payload, or a builder's text or data field: the
\* scratch buffer changes and the generation does not.
StageBytes ==
    /\ memory[In] # None
    /\ memory' = [memory EXCEPT ![In] = None]
    /\ UNCHANGED <<wasm, used, allocated, jsActive, inFlight, fresh, reader, misread>>

-----------------------------------------------------------------------------
(* Reading. *)

\* Slip: only the generation is brought up to date.
Settled(r, w) == [w |-> w, fresh |-> fresh \cup {r}]

\* A typed reader whose generation is old goes back to its root and says so.
Rooted(r, w) ==
    IF r \in fresh THEN [w |-> w, fresh |-> fresh]
    ELSE [w |-> ResetRoot(w), fresh |-> {r}]

\* _ensureOpen, _ensureCapnwasmReader: the states in which r may read on.
Ensured(r) ==
    LET h == reader[r]
    IN  CASE h.how = "slot" /\ r \in Dynamic ->
                {[w |-> Using(wasm, h.slot), fresh |-> fresh \cup {r}]}
          [] h.how = "slot" /\ r \notin Dynamic -> {Rooted(r, Using(wasm, h.slot))}
          [] h.how = "managed" /\ r \notin fresh ->
                {[w |-> OpenAt(wasm, h.ptr), fresh |-> {r}]}
          [] h.how \in {"managed", "unsafe", "scoped"} /\ r \in fresh ->
                {[w |-> wasm, fresh |-> fresh]}
          [] OTHER -> {}   \* disposed, or StaleReaderError

\* What the cursor of w shows.
Shown(w) == IF w.live.at = None THEN None ELSE memory[w.live.at]

Reads(r, w, deep) ==
    misread' = IF Shown(w) = r /\ w.live.deep = deep THEN misread ELSE misread \cup {r}

Mirrored(r) == jsActive' = IF reader[r].how = "slot" THEN reader[r].slot ELSE jsActive

Read(r) ==
    /\ \E e \in Ensured(r) :
          /\ wasm' = e.w /\ fresh' = e.fresh
          /\ Reads(r, e.w, FALSE)
    /\ Mirrored(r)
    /\ UNCHANGED <<bytes, inFlight, reader>>

\* A reader of a struct inside r, which positions the cursor on each read.
ReadNested(r) ==
    /\ r \notin Dynamic
    /\ \E e \in Ensured(r) :
          LET w == EnterStruct(ResetRoot(e.w))
          IN  /\ wasm' = w
              /\ Reads(r, w, TRUE)
    /\ fresh' = {}
    /\ Mirrored(r)
    /\ UNCHANGED <<bytes, inFlight, reader>>

-----------------------------------------------------------------------------
(* The end of a reader: dispose() or the finalizer. *)

\* Give back the bytes at a.
Reclaim(a) ==
    /\ allocated' = allocated \ {a}
    /\ IF a \in Arena
       THEN IF inFlight <= 1 THEN inFlight' = 0 /\ used' = 0
            ELSE inFlight' = inFlight - 1 /\ UNCHANGED used
       ELSE UNCHANGED <<inFlight, used>>

Dispose(r) ==
    LET h == reader[r]
    IN  /\ h.how \in {"slot", "managed", "unsafe", "scoped"}
        /\ wasm' = IF h.how = "slot" THEN ReleaseSlot(wasm, h.slot) ELSE wasm
        /\ jsActive' = IF h.how = "slot" /\ jsActive = h.slot THEN 0 ELSE jsActive
        /\ Reclaim(h.ptr)
        /\ reader' = [reader EXCEPT ![r] = Handle("gone", 0, None)]
        /\ fresh' = fresh \ {r}
        /\ UNCHANGED <<memory, misread>>

\* The finalizers of handles and messages, which leave #activeSlot alone.
Finalize(r) ==
    LET h == reader[r]
    IN  /\ h.how \in {"slot", "managed"}
        /\ wasm' = IF h.how = "slot" THEN ReleaseSlot(wasm, h.slot) ELSE wasm
        /\ Reclaim(h.ptr)
        /\ reader' = [reader EXCEPT ![r] = Handle("gone", 0, None)]
        /\ fresh' = fresh \ {r}
        /\ UNCHANGED <<memory, jsActive, misread>>

Next ==
    \/ StageBytes
    \/ \E r \in Readers :
          \/ OpenPooled(r) \/ OpenFallback(r) \/ OpenUnsafe(r)
          \/ Frame(r) \/ OpenScoped(r)
          \/ Read(r) \/ ReadNested(r)
          \/ Dispose(r) \/ Finalize(r)

Spec == Init /\ [][Next]_vars

-----------------------------------------------------------------------------
(* Properties *)

Cursors == [at : Addresses \cup {None}, deep : BOOLEAN]

TypeOK ==
    /\ wasm \in [active : 0..Slots, live : Cursors,
                 saved : [0..Slots -> Cursors], inUse : SUBSET (1..Slots)]
    /\ memory \in [Addresses -> Readers \cup {None}]
    /\ used \in 0..ArenaCap /\ allocated \subseteq Heap
    /\ jsActive \in 0..Slots /\ inFlight \in Nat
    /\ fresh \subseteq Readers /\ misread \subseteq Readers
    /\ reader \in [Readers -> [how : {"new", "slot", "managed", "unsafe", "framed", "scoped", "gone"},
                               slot : 0..Slots, ptr : Addresses \cup {None}]]

Pooled  == {r \in Readers : reader[r].how = "slot"}
Managed == {r \in Readers : reader[r].how = "managed"}

\* The bytes of a pooled or managed reader are its own until it is disposed
\* or collected: neither a rewound arena nor malloc hands them out again.
BytesStay ==
    \A r \in Pooled \cup Managed :
        LET a == reader[r].ptr
        IN  /\ memory[a] = r
            /\ a \in Arena => a <= used
            /\ a \in Heap => a \in allocated

\* The slots in use are those of the readers that hold one, each of one
\* reader, and the count of messages in the arena is theirs.
SlotsOwned ==
    /\ wasm.inUse = {reader[r].slot : r \in Pooled}
    /\ \A r, q \in Pooled : reader[r].slot = reader[q].slot => r = q
    /\ inFlight = Cardinality({r \in Pooled : reader[r].ptr \in Arena})

\* The mirror may think a slot active when slot 0 is, never the reverse.
MirrorBehindSlotZero == jsActive # wasm.active => wasm.active = 0

CursorOf(i) == IF wasm.active = i THEN wasm.live ELSE wasm.saved[i]

\* "This reader survives unrelated decodes without rebinding": the cursor of
\* a pooled reader leaves its message only when an RPC frame is opened while
\* its slot is active.
PooledCursorsKept ==
    [][\A r \in Pooled :
          /\ CursorOf(reader[r].slot).at = reader[r].ptr
          /\ r \in Pooled'
          => \/ CursorOf(reader[r].slot)'.at = reader[r].ptr
             \/ /\ wasm.active = reader[r].slot
                /\ \E q \in Readers : reader[q].how = "framed" /\ reader'[q].how = "scoped"]_vars

\* A pooled reader reads something else only when the mirror hides that slot
\* 0 is active, after an RPC frame was opened over its cursor, or, a dynamic
\* one, when a nested read of a reader outside the pool has moved its slot.
PooledReadsOwn ==
    [][\A r \in (misread' \ misread) \cap Pooled :
          \/ jsActive = reader[r].slot /\ wasm.active = 0
          \/ CursorOf(reader[r].slot).at # reader[r].ptr
          \/ CursorOf(reader[r].slot).deep /\ r \in Dynamic]_vars

\* A managed or unsafe reader that believes its generation is current has
\* slot 0 at its root: what it reads is its own if slot 0 is active.
FreshMeansOnTop ==
    \A r \in fresh :
        reader[r].how \in {"managed", "unsafe"} => CursorOf(0) = Root(reader[r].ptr)

\* C++ and JavaScript agree on whose the slots and the bytes are, which slot
\* is active and who is up to date.
SlotsInv ==
    /\ TypeOK
    /\ SlotsOwned
    /\ BytesStay
    /\ MirrorBehindSlotZero
    /\ FreshMeansOnTop
=============================================================================
