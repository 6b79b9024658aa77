---------------------------- MODULE OrdinalLock ----------------------------
(***************************************************************************)
(* The lock file of js/lock.mjs: one scope (the fields of a struct, the    *)
(* methods of an interface or the values of an enum) over a sequence of    *)
(* schema edits.  Scopes do not touch each other.  An inventory maps the   *)
(* members of the current schema to their type signatures; the order in    *)
(* which it lists them is arbitrary.                                       *)
(***************************************************************************)
EXTENDS Naturals, FiniteSets, Functions

CONSTANTS
    Names,          \* member names
    Signatures,     \* type signatures
    NoSignature,    \* a member given as a plain string, or an enum value
    Inherited,      \* names every JavaScript object answers "in" for
    DetectRenames   \* opts.detectRenames

ASSUME ConstantsAssumption ==
    /\ IsFiniteSet(Names) /\ Inherited \subseteq Names
    /\ NoSignature \notin Signatures
    /\ DetectRenames \in BOOLEAN

VARIABLES
    ordinals,     \* slot[kind]: member -> ordinal, tombstones included
    signatures,   \* slot.signatures: member -> signature
    next,         \* slot.next
    inventory     \* the members of the schema the lock was last updated to

vars == <<ordinals, signatures, next, inventory>>

Empty == [n \in {} |-> 0]
Signed(inv) == {n \in DOMAIN inv : inv[n] # NoSignature}

Inventories == UNION {[M -> Signatures \cup {NoSignature}] : M \in SUBSET Names}

Init ==
    /\ ordinals = Empty /\ signatures = Empty /\ next = 0
    /\ inventory = Empty

\* The ordinals new members get, in the order the inventory lists them.
Fresh(members, first) == Bijection(members, first..(first + Cardinality(members) - 1))

\* bootstrapLock: a fresh lock.
BootstrapLock(inv) ==
    /\ next = 0
    /\ ordinals' \in Fresh(DOMAIN inv, 0)
    /\ signatures' = Restrict(inv, Signed(inv))
    /\ next' = Cardinality(DOMAIN inv)
    /\ inventory' = inv

-----------------------------------------------------------------------------
(* updateLock, for the members in inv. *)

\* Slip: only the members of the last schema count, tombstones do not.
KnownForgetful(n) == n \in DOMAIN inventory

\* n in slot[kind]
Known(n) == n \in DOMAIN ordinals \cup Inherited

Removed(inv) == DOMAIN ordinals \ DOMAIN inv
Added(inv) == {n \in DOMAIN inv : ~Known(n)}

\* Slip: a lone removed member and a lone added one make a rename.
RenamedUnsigned(inv, new, old) ==
    /\ DetectRenames
    /\ Removed(inv) = {old} /\ Added(inv) = {new}

\* A removed and an added member are taken for one when their signature is
\* matched by no other member on either side.
Renamed(inv, new, old) ==
    /\ DetectRenames
    /\ old \in Removed(inv) \cap DOMAIN signatures /\ new \in Added(inv)
    /\ {n \in Removed(inv) \cap DOMAIN signatures : signatures[n] = signatures[old]} = {old}
    /\ {n \in Added(inv) : inv[n] = signatures[old]} = {new}

NewNames(inv) == {n \in Added(inv) : \E old \in Removed(inv) : Renamed(inv, n, old)}
OldNames(inv) == {n \in Removed(inv) : \E new \in Added(inv) : Renamed(inv, new, n)}
OldName(inv, new) == CHOOSE old \in Removed(inv) : Renamed(inv, new, old)

\* Slip: next is not advanced.
NextStays(inv) == next

NextAfter(inv) == next + Cardinality(Added(inv) \ NewNames(inv))

SignaturesAfter(inv) ==
    [n \in (DOMAIN signatures \ OldNames(inv)) \cup Signed(inv) |->
        IF n \in Signed(inv) THEN inv[n] ELSE signatures[n]]

UpdateLock(inv) ==
    LET added == Added(inv) \ NewNames(inv)
        kept  == DOMAIN ordinals \ OldNames(inv)
    IN  /\ \E fresh \in Fresh(added, next) :
              ordinals' = [n \in kept \cup NewNames(inv) \cup added |->
                              IF n \in added THEN fresh[n]
                              ELSE IF n \in NewNames(inv) THEN ordinals[OldName(inv, n)]
                              ELSE ordinals[n]]
        /\ signatures' = SignaturesAfter(inv)
        /\ next' = NextAfter(inv)
        /\ inventory' = inv

Next == \E inv \in Inventories : BootstrapLock(inv) \/ UpdateLock(inv)

Spec == Init /\ [][Next]_vars

-----------------------------------------------------------------------------
(* Properties *)

TypeOK ==
    /\ next \in Nat
    /\ DOMAIN ordinals \subseteq Names
    /\ ordinals \in [DOMAIN ordinals -> Nat]
    /\ DOMAIN signatures \subseteq DOMAIN ordinals \cup Inherited
    /\ signatures \in [DOMAIN signatures -> Signatures]
    /\ inventory \in Inventories

\* The members of a scope, removed ones included, hold the ordinals
\* 0..next-1, each exactly one of them: no two members ever share a wire
\* ordinal, none is lost and the next free one is free.
OrdinalsGapless == ordinals \in Bijection(DOMAIN ordinals, 0..(next - 1))

\* "Existing assignments are preserved verbatim": a member that is still in
\* the schema keeps its ordinal, and without rename detection every one does.
PreservedVerbatim ==
    [][\A n \in DOMAIN ordinals :
          n \in DOMAIN inventory' \/ ~DetectRenames =>
              n \in DOMAIN ordinals' /\ ordinals'[n] = ordinals[n]]_vars

\* An ordinal changes hands only between members of one recorded type.
RenamesKeepType ==
    [][\A n \in DOMAIN ordinals, m \in DOMAIN ordinals' :
          m # n /\ ordinals'[m] = ordinals[n] =>
              n \in DOMAIN signatures /\ m \in DOMAIN inventory'
              /\ signatures[n] = inventory'[m]]_vars

\* "New members get the next available ordinal": every member of the schema
\* is pinned, but for those that are taken for inherited properties.
MembersPinned == DOMAIN inventory \ Inherited \subseteq DOMAIN ordinals

\* The lock of a scope is sound after any sequence of updates.
LockInv ==
    /\ TypeOK
    /\ OrdinalsGapless
    /\ MembersPinned
=============================================================================
