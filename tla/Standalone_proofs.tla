-------------------------- MODULE Standalone_proofs --------------------------
(*****************************************************************************)
(* Proofs about the parts that share no state with the RPC session.          *)
(*                                                                           *)
(* OrdinalLock, for every set of names and signatures and with rename        *)
(* detection on or off.  The core is that detected renames pair removed and  *)
(* added members one to one (RenamesPair); an update then is the old         *)
(* numbering, seen through that pairing, continued by the fresh ordinals of  *)
(* the members that are really new.                                          *)
(*                                                                           *)
(* JsonWire, for any calls, whatever cannot be encoded or decoded and        *)
(* whatever ends the session.  A call's number is the same call's on its way *)
(* to the server, in the server's table and on its way back, for whoever     *)
(* still waits for it (PullsOwned, ExportsOwned, AnswersNamed).              *)
(*                                                                           *)
(* ChatRoom, for any panes, any history limit and any number of lives.       *)
(*****************************************************************************)
EXTENDS OrdinalLock, JsonWire, ChatRoom, FiniteSetTheorems, TLAPS

-----------------------------------------------------------------------------
(* The ordinal lock *)

\* A detected rename determines each of its sides.
LEMMA RenamedUnique ==
    ASSUME NEW inv,
           NEW n1, NEW o1, Renamed(inv, n1, o1),
           NEW n2, NEW o2, Renamed(inv, n2, o2)
    PROVE  n1 = n2 <=> o1 = o2
<1>1. /\ {n \in Removed(inv) \cap DOMAIN signatures : signatures[n] = signatures[o1]} = {o1}
      /\ {n \in Added(inv) : inv[n] = signatures[o1]} = {n1}
      /\ o1 \in Removed(inv) \cap DOMAIN signatures /\ n1 \in Added(inv)
      BY DEF Renamed
<1>2. /\ {n \in Removed(inv) \cap DOMAIN signatures : signatures[n] = signatures[o2]} = {o2}
      /\ {n \in Added(inv) : inv[n] = signatures[o2]} = {n2}
      /\ o2 \in Removed(inv) \cap DOMAIN signatures /\ n2 \in Added(inv)
      BY DEF Renamed
<1>3. inv[n1] = signatures[o1] /\ inv[n2] = signatures[o2]
      BY <1>1, <1>2
<1>4. ASSUME n1 = n2 PROVE o1 = o2
      BY <1>1, <1>2, <1>3, <1>4
<1>5. ASSUME o1 = o2 PROVE n1 = n2
      BY <1>1, <1>2, <1>5
<1> QED BY <1>4, <1>5

\* What OldName returns.
LEMMA OldNameFacts ==
    ASSUME NEW inv
    PROVE  /\ \A n \in NewNames(inv) : /\ OldName(inv, n) \in OldNames(inv)
                                       /\ Renamed(inv, n, OldName(inv, n))
           /\ \A o \in OldNames(inv) : \E n \in NewNames(inv) : OldName(inv, n) = o
           /\ \A n1, n2 \in NewNames(inv) :
                  OldName(inv, n1) = OldName(inv, n2) => n1 = n2
<1>1. ASSUME NEW n \in NewNames(inv)
      PROVE  OldName(inv, n) \in OldNames(inv) /\ Renamed(inv, n, OldName(inv, n))
  <2>1. \E old \in Removed(inv) : Renamed(inv, n, old)
        BY DEF NewNames
  <2>2. OldName(inv, n) \in Removed(inv) /\ Renamed(inv, n, OldName(inv, n))
        BY <2>1 DEF OldName
  <2>3. n \in Added(inv)
        BY DEF NewNames
  <2> QED BY <2>2, <2>3 DEF OldNames
<1>2. ASSUME NEW o \in OldNames(inv)
      PROVE  \E n \in NewNames(inv) : OldName(inv, n) = o
  <2>1. o \in Removed(inv)
        BY DEF OldNames
  <2>2. PICK n \in Added(inv) : Renamed(inv, n, o)
        BY DEF OldNames
  <2>3. n \in NewNames(inv)
        BY <2>1, <2>2 DEF NewNames
  <2>4. Renamed(inv, n, OldName(inv, n))
        BY <2>3, <1>1
  <2>5. OldName(inv, n) = o
        BY <2>2, <2>4, RenamedUnique
  <2> QED BY <2>3, <2>5
<1>3. ASSUME NEW n1 \in NewNames(inv), NEW n2 \in NewNames(inv),
             OldName(inv, n1) = OldName(inv, n2)
      PROVE  n1 = n2
  <2>1. Renamed(inv, n1, OldName(inv, n1)) /\ Renamed(inv, n2, OldName(inv, n2))
        BY <1>1
  <2> QED BY <2>1, <1>3, RenamedUnique
<1> QED BY <1>1, <1>2, <1>3

\* Inventories are functions on finite sets of names.
LEMMA InventoryFacts ==
    ASSUME NEW inv \in Inventories
    PROVE  /\ DOMAIN inv \subseteq Names
           /\ inv \in [DOMAIN inv -> Signatures \cup {NoSignature}]
           /\ \A S \in SUBSET DOMAIN inv : IsFiniteSet(S) /\ Cardinality(S) \in Nat
<1>1. PICK M \in SUBSET Names : inv \in [M -> Signatures \cup {NoSignature}]
      BY DEF Inventories
<1>2. DOMAIN inv = M
      BY <1>1
<1>3. ASSUME NEW S \in SUBSET DOMAIN inv
      PROVE  IsFiniteSet(S) /\ Cardinality(S) \in Nat
  <2>1. S \subseteq Names
        BY <1>1, <1>2
  <2>2. IsFiniteSet(S)
        BY <2>1, ConstantsAssumption, FS_Subset DEF ConstantsAssumption
  <2> QED BY <2>2, FS_CardinalityType
<1> QED BY <1>1, <1>2, <1>3

\* An update keeps the old numbering, seen through the renames, and
\* continues it.
LEMMA UpdateNumbering ==
    ASSUME LockInv, NEW inv \in Inventories, UpdateLock(inv)
    PROVE  /\ next' \in Nat
           /\ DOMAIN ordinals' \subseteq Names
           /\ ordinals' \in [DOMAIN ordinals' -> Nat]
           /\ OrdinalsGapless'
<1> DEFINE added == Added(inv) \ NewNames(inv)
           kept == DOMAIN ordinals \ OldNames(inv)
           names == kept \cup NewNames(inv) \cup added
           k == Cardinality(added)
           back(n) == IF n \in NewNames(inv) THEN OldName(inv, n) ELSE n
<1>1. PICK fresh \in Fresh(added, next) :
          ordinals' = [n \in names |->
                          IF n \in added THEN fresh[n]
                          ELSE IF n \in NewNames(inv) THEN ordinals[OldName(inv, n)]
                          ELSE ordinals[n]]
      BY DEF UpdateLock
<1>2. /\ next \in Nat /\ k \in Nat /\ next' = next + k
      /\ added \subseteq Names /\ NewNames(inv) \subseteq Names
  <2>1. added \subseteq DOMAIN inv /\ NewNames(inv) \subseteq DOMAIN inv
        BY DEF Added, NewNames
  <2> QED BY <2>1, InventoryFacts DEF UpdateLock, NextAfter, LockInv, TypeOK
<1>3. /\ fresh \in [added -> next..(next + k - 1)]
      /\ \A m, n \in added : fresh[m] = fresh[n] => m = n
      /\ \A i \in next..(next + k - 1) : \E n \in added : fresh[n] = i
      BY <1>1 DEF Fresh, Bijection, Injection, Surjection, IsInjective
<1>4. /\ ordinals \in [DOMAIN ordinals -> 0..(next - 1)]
      /\ \A m, n \in DOMAIN ordinals : ordinals[m] = ordinals[n] => m = n
      /\ \A i \in 0..(next - 1) : \E n \in DOMAIN ordinals : ordinals[n] = i
      BY DEF LockInv, OrdinalsGapless, Bijection, Injection, Surjection, IsInjective
<1>5. /\ Added(inv) \cap DOMAIN ordinals = {}
      /\ NewNames(inv) \subseteq Added(inv)
      /\ OldNames(inv) \subseteq DOMAIN ordinals
      BY DEF Added, Known, NewNames, OldNames, Removed
<1>6. \* back pairs the members that keep an ordinal with those that had one
      /\ \A n \in names \ added : back(n) \in DOMAIN ordinals
      /\ \A m, n \in names \ added : back(m) = back(n) => m = n
      /\ \A o \in DOMAIN ordinals : \E n \in names \ added : back(n) = o
  <2>1. \A n \in names \ added : n \in NewNames(inv) \/ (n \in kept /\ n \notin NewNames(inv))
        BY <1>5
  <2>2. \A n \in NewNames(inv) : n \in names \ added
        OBVIOUS
  <2>3. \A n \in kept : n \in names \ added /\ n \notin NewNames(inv)
        BY <1>5
  <2>4. \A n \in names \ added : back(n) \in DOMAIN ordinals
        BY <2>1, <1>5, OldNameFacts
  <2>5. ASSUME NEW m \in names \ added, NEW n \in names \ added, back(m) = back(n)
        PROVE  m = n
    <3>1. CASE m \in NewNames(inv) /\ n \in NewNames(inv)
          BY <3>1, <2>5, OldNameFacts
    <3>2. CASE m \notin NewNames(inv) /\ n \notin NewNames(inv)
          BY <3>2, <2>5
    <3>3. CASE m \in NewNames(inv) /\ n \notin NewNames(inv)
          BY <3>3, <2>1, <2>5, OldNameFacts
    <3>4. CASE m \notin NewNames(inv) /\ n \in NewNames(inv)
          BY <3>4, <2>1, <2>5, OldNameFacts
    <3> QED BY <3>1, <3>2, <3>3, <3>4
  <2>6. ASSUME NEW o \in DOMAIN ordinals
        PROVE  \E n \in names \ added : back(n) = o
    <3>1. CASE o \in OldNames(inv)
          BY <3>1, <2>2, OldNameFacts
    <3>2. CASE o \notin OldNames(inv)
          BY <3>2, <2>3
    <3> QED BY <3>1, <3>2
  <2> QED BY <2>4, <2>5, <2>6
<1>7. /\ DOMAIN ordinals' = names
      /\ \A n \in added : ordinals'[n] = fresh[n]
      /\ \A n \in names \ added : ordinals'[n] = ordinals[back(n)]
      BY <1>1
<1> HIDE DEF back, k, names, added
<1>8. /\ \A n \in added : ordinals'[n] \in next..(next + k - 1)
      /\ \A n \in names \ added : ordinals'[n] \in 0..(next - 1)
      BY <1>3, <1>4, <1>6, <1>7
<1>9. added \subseteq names
      BY DEF added, names
<1>10. ordinals' \in [names -> 0..(next' - 1)]
  <2>1. \A n \in names : ordinals'[n] \in 0..(next' - 1)
        BY <1>2, <1>8
  <2>2. ordinals' = [n \in names |-> ordinals'[n]]
        BY <1>1, <1>7 DEF names
  <2> QED BY <2>1, <2>2
<1>11. ASSUME NEW m \in names, NEW n \in names, ordinals'[m] = ordinals'[n]
       PROVE  m = n
  <2>1. CASE m \in added /\ n \in added
        BY <2>1, <1>3, <1>7, <1>11
  <2>2. CASE m \notin added /\ n \notin added
        BY <2>2, <1>4, <1>6, <1>7, <1>11
  <2>3. CASE ~(m \in added <=> n \in added)
        BY <2>3, <1>2, <1>8, <1>11
  <2> QED BY <2>1, <2>2, <2>3
<1>12. ASSUME NEW i \in 0..(next' - 1)
       PROVE  \E n \in names : ordinals'[n] = i
  <2>1. CASE i < next
    <3>1. i \in 0..(next - 1)
          BY <2>1, <1>2
    <3>2. PICK o \in DOMAIN ordinals : ordinals[o] = i
          BY <3>1, <1>4
    <3>3. PICK n \in names \ added : back(n) = o
          BY <1>6
    <3> QED BY <3>2, <3>3, <1>7
  <2>2. CASE ~(i < next)
    <3>1. i \in next..(next + k - 1)
          BY <2>2, <1>2
    <3>2. PICK n \in added : fresh[n] = i
          BY <3>1, <1>3
    <3> QED BY <3>2, <1>7, <1>9
  <2> QED BY <2>1, <2>2
<1>13. names \subseteq Names
       BY <1>2 DEF names, added, LockInv, TypeOK
<1>14. OrdinalsGapless'
       BY <1>7, <1>10, <1>11, <1>12
       DEF OrdinalsGapless, Bijection, Injection, Surjection, IsInjective
<1>15. next' \in Nat
       BY <1>2
<1>16. ordinals' \in [names -> Nat]
       BY <1>10, <1>15
<1> QED BY <1>7, <1>13, <1>14, <1>15, <1>16

\* The form of an update: who keeps an ordinal, who inherits one and who
\* gets a fresh one.
LEMMA UpdateOrdinals ==
    ASSUME LockInv, NEW inv \in Inventories, UpdateLock(inv)
    PROVE  /\ DOMAIN ordinals' = (DOMAIN ordinals \ OldNames(inv)) \cup Added(inv)
           /\ \A n \in DOMAIN ordinals \ OldNames(inv) : ordinals'[n] = ordinals[n]
           /\ \A n \in NewNames(inv) : ordinals'[n] = ordinals[OldName(inv, n)]
           /\ \A n \in Added(inv) \ NewNames(inv) : ordinals'[n] >= next
<1> DEFINE added == Added(inv) \ NewNames(inv)
           kept == DOMAIN ordinals \ OldNames(inv)
           names == kept \cup NewNames(inv) \cup added
<1>1. PICK fresh \in Fresh(added, next) :
          ordinals' = [n \in names |->
                          IF n \in added THEN fresh[n]
                          ELSE IF n \in NewNames(inv) THEN ordinals[OldName(inv, n)]
                          ELSE ordinals[n]]
      BY DEF UpdateLock
<1>2. /\ Added(inv) \cap DOMAIN ordinals = {}
      /\ NewNames(inv) \subseteq Added(inv)
      BY DEF Added, Known, NewNames
<1>3. names = kept \cup Added(inv)
      BY <1>2
<1>4. /\ next \in Nat
      /\ Cardinality(added) \in Nat
  <2>1. added \subseteq DOMAIN inv
        BY DEF Added
  <2> QED BY <2>1, InventoryFacts DEF LockInv, TypeOK
<1>5. fresh \in [added -> next..(next + Cardinality(added) - 1)]
      BY <1>1 DEF Fresh, Bijection, Injection
<1>6. \A n \in added : fresh[n] >= next
  <2>1. \A n \in added : fresh[n] \in next..(next + Cardinality(added) - 1)
        BY <1>5
  <2> QED BY <2>1, <1>4
<1>7. DOMAIN ordinals' = names
      BY <1>1
<1>8. \A n \in kept : ordinals'[n] = ordinals[n]
      BY <1>1, <1>2
<1>9. \A n \in NewNames(inv) : ordinals'[n] = ordinals[OldName(inv, n)]
      BY <1>1
<1>10. \A n \in added : ordinals'[n] >= next
       BY <1>1, <1>6
<1> QED BY <1>3, <1>7, <1>8, <1>9, <1>10

\* A fresh lock is numbered 0..n-1.
LEMMA BootstrapNumbering ==
    ASSUME LockInv, NEW inv \in Inventories, BootstrapLock(inv)
    PROVE  LockInv'
<1>1. /\ next' = Cardinality(DOMAIN inv) /\ next' \in Nat
      /\ DOMAIN inv \subseteq Names
      BY InventoryFacts DEF BootstrapLock
<1>2. ordinals' \in Bijection(DOMAIN inv, 0..(next' - 1))
  <2>1. 0 + Cardinality(DOMAIN inv) - 1 = next' - 1
        BY <1>1
  <2> QED BY <2>1 DEF BootstrapLock, Fresh
<1>3. ordinals' \in [DOMAIN inv -> 0..(next' - 1)]
      BY <1>2 DEF Bijection, Injection
<1>4. DOMAIN ordinals' = DOMAIN inv
      BY <1>3
<1>5. ordinals' \in [DOMAIN ordinals' -> Nat]
  <2>1. 0..(next' - 1) \subseteq Nat
        BY <1>1
  <2> QED BY <2>1, <1>3, <1>4
<1>6. OrdinalsGapless'
      BY <1>2, <1>4 DEF OrdinalsGapless
<1>7. /\ signatures' = [n \in Signed(inv) |-> inv[n]]
      /\ Signed(inv) \subseteq DOMAIN inv
      BY DEF BootstrapLock, Restrict, Signed
<1>8. signatures' \in [DOMAIN signatures' -> Signatures]
  <2>1. \A n \in Signed(inv) : inv[n] \in Signatures
        BY InventoryFacts DEF Signed
  <2> QED BY <1>7, <2>1
<1>9. DOMAIN signatures' \subseteq DOMAIN ordinals' \cup Inherited
      BY <1>4, <1>7
<1>10. inventory' \in Inventories /\ MembersPinned'
       BY <1>4 DEF BootstrapLock, MembersPinned
<1> QED BY <1>1, <1>4, <1>5, <1>6, <1>8, <1>9, <1>10 DEF LockInv, TypeOK

\* An update keeps signatures for members of the lock only, and pins every
\* member of the schema.
LEMMA UpdateSignatures ==
    ASSUME LockInv, NEW inv \in Inventories, UpdateLock(inv)
    PROVE  /\ DOMAIN signatures' \subseteq DOMAIN ordinals' \cup Inherited
           /\ signatures' \in [DOMAIN signatures' -> Signatures]
           /\ MembersPinned'
<1>1. signatures' = [n \in (DOMAIN signatures \ OldNames(inv)) \cup Signed(inv) |->
                        IF n \in Signed(inv) THEN inv[n] ELSE signatures[n]]
      BY DEF UpdateLock, SignaturesAfter
<1>2. \A n \in Signed(inv) : inv[n] \in Signatures /\ n \in DOMAIN inv
      BY InventoryFacts DEF Signed
<1>3. signatures' \in [DOMAIN signatures' -> Signatures]
  <2>1. \A n \in DOMAIN signatures' : signatures'[n] \in Signatures
        BY <1>1, <1>2 DEF LockInv, TypeOK
  <2>2. signatures' = [n \in DOMAIN signatures' |-> signatures'[n]]
        BY <1>1
  <2> QED BY <2>1, <2>2
<1>4. ASSUME NEW n \in DOMAIN inv
      PROVE  n \in DOMAIN ordinals' \cup Inherited
  <2>1. CASE n \in Added(inv)
        BY <2>1, UpdateOrdinals
  <2>2. CASE n \in DOMAIN ordinals
    <3>1. n \notin OldNames(inv)
          BY DEF OldNames, Removed
    <3> QED BY <2>2, <3>1, UpdateOrdinals
  <2>3. CASE n \in Inherited
        BY <2>3
  <2> QED BY <2>1, <2>2, <2>3 DEF Added, Known
<1>5. ASSUME NEW n \in DOMAIN signatures \ OldNames(inv)
      PROVE  n \in DOMAIN ordinals' \cup Inherited
      BY UpdateOrdinals DEF LockInv, TypeOK
<1>6. MembersPinned'
  <2>1. inventory' = inv
        BY DEF UpdateLock
  <2> QED BY <2>1, <1>4 DEF MembersPinned
<1> QED BY <1>1, <1>2, <1>3, <1>4, <1>5, <1>6

\* The invariant is inductive.
LEMMA Preserved == LockInv /\ [Next]_vars => LockInv'
<1> SUFFICES ASSUME LockInv, [Next]_vars PROVE LockInv'
    OBVIOUS
<1>1. ASSUME NEW inv \in Inventories, BootstrapLock(inv) PROVE LockInv'
      BY <1>1, BootstrapNumbering
<1>2. ASSUME NEW inv \in Inventories, UpdateLock(inv) PROVE LockInv'
  <2>1. inventory' \in Inventories
        BY <1>2 DEF UpdateLock
  <2> QED BY <1>2, <2>1, UpdateNumbering, UpdateSignatures DEF LockInv, TypeOK
<1>3. CASE UNCHANGED vars
      BY <1>3 DEF vars, LockInv, TypeOK, OrdinalsGapless, MembersPinned
<1> QED BY <1>1, <1>2, <1>3 DEF Next

LEMMA Initially == Init => LockInv
<1> SUFFICES ASSUME Init PROVE LockInv
    OBVIOUS
<1>1. /\ DOMAIN ordinals = {} /\ DOMAIN signatures = {} /\ DOMAIN inventory = {}
      /\ next = 0
      /\ ordinals = [n \in {} |-> 0] /\ signatures = [n \in {} |-> 0]
      /\ inventory = [n \in {} |-> 0]
      BY DEF Init, Empty
<1>2. inventory \in [{} -> Signatures \cup {NoSignature}]
      BY <1>1
<1>3. inventory \in Inventories
      BY <1>2 DEF Inventories
<1>4. ordinals \in [{} -> Nat] /\ ordinals \in [{} -> 0..(next - 1)]
      /\ signatures \in [{} -> Signatures]
      BY <1>1
<1>5. 0..(next - 1) = {}
      BY <1>1
<1>6. OrdinalsGapless
      BY <1>1, <1>4, <1>5 DEF OrdinalsGapless, Bijection, Injection, Surjection, IsInjective
<1> QED BY <1>1, <1>3, <1>4, <1>6 DEF LockInv, TypeOK, MembersPinned

\* After any sequence of updates to any schemas the lock of a scope is sound:
\* the invariant that bootstrapLock establishes and updateLock keeps.
THEOREM Sound == Spec => []LockInv
<1> QED BY Initially, Preserved, PTL DEF Spec

\* Type correctness of the lock, for the merge in updateLock and the fresh
\* lock of bootstrapLock.
THEOREM TypeCorrect == Spec => []TypeOK
<1>1. Spec => []LockInv
      BY Sound
<1>2. LockInv => TypeOK
      BY DEF LockInv
<1> QED BY <1>1, <1>2, PTL

\* No two members of a scope ever share a wire ordinal, none is skipped and
\* slot.next is free: what the merge in updateLock must keep true.
THEOREM Gapless == Spec => []OrdinalsGapless
<1>1. Spec => []LockInv
      BY Sound
<1>2. LockInv => OrdinalsGapless
      BY DEF LockInv
<1> QED BY <1>1, <1>2, PTL

\* Every member of the schema the lock was updated to has an ordinal, except
\* the names "member in slot[kind]" finds on every object.
THEOREM Pinned == Spec => []MembersPinned
<1>1. Spec => []LockInv
      BY Sound
<1>2. LockInv => MembersPinned
      BY DEF LockInv
<1> QED BY <1>1, <1>2, PTL

\* A lock whose next is 0 is empty.
LEMMA NothingNumbered == LockInv /\ next = 0 => DOMAIN ordinals = {}
<1> SUFFICES ASSUME LockInv, next = 0 PROVE DOMAIN ordinals = {}
    OBVIOUS
<1>1. ordinals \in [DOMAIN ordinals -> 0..(next - 1)]
      BY DEF LockInv, OrdinalsGapless, Bijection, Injection
<1>2. 0..(next - 1) = {}
      OBVIOUS
<1> QED BY <1>1, <1>2

\* "Existing assignments are preserved verbatim" (updateLock): a member still
\* in the schema keeps its ordinal, and every member does without renames.
THEOREM Preservation == Spec => PreservedVerbatim
<1> DEFINE A == \A n \in DOMAIN ordinals :
                   n \in DOMAIN inventory' \/ ~DetectRenames =>
                       n \in DOMAIN ordinals' /\ ordinals'[n] = ordinals[n]
<1>1. LockInv /\ [Next]_vars => [A]_vars
  <2> SUFFICES ASSUME LockInv, Next PROVE A
      OBVIOUS
  <2>1. ASSUME NEW inv \in Inventories, BootstrapLock(inv) PROVE A
        BY <2>1, NothingNumbered DEF BootstrapLock
  <2>2. ASSUME NEW inv \in Inventories, UpdateLock(inv) PROVE A
    <3>1. ASSUME NEW n \in DOMAIN ordinals, n \in DOMAIN inventory' \/ ~DetectRenames
          PROVE  n \notin OldNames(inv)
          BY <2>2, <3>1 DEF UpdateLock, OldNames, Removed, Renamed
    <3> QED BY <2>2, <3>1, UpdateOrdinals
  <2> QED BY <2>1, <2>2 DEF Next
<1>2. Spec => []LockInv
      BY Initially, Preserved, PTL DEF Spec
<1> QED BY <1>1, <1>2, PTL DEF Spec, PreservedVerbatim

\* Rename detection moves an ordinal only to a member of the type recorded
\* for the old one, so the wire layout under an ordinal does not change.
THEOREM RenameSafety == Spec => RenamesKeepType
<1> DEFINE A == \A n \in DOMAIN ordinals, m \in DOMAIN ordinals' :
                   m # n /\ ordinals'[m] = ordinals[n] =>
                       n \in DOMAIN signatures /\ m \in DOMAIN inventory'
                       /\ signatures[n] = inventory'[m]
<1>1. LockInv /\ [Next]_vars => [A]_vars
  <2> SUFFICES ASSUME LockInv, Next PROVE A
      OBVIOUS
  <2>1. ASSUME NEW inv \in Inventories, BootstrapLock(inv) PROVE A
        BY <2>1, NothingNumbered DEF BootstrapLock
  <2>2. ASSUME NEW inv \in Inventories, UpdateLock(inv) PROVE A
    <3> SUFFICES ASSUME NEW n \in DOMAIN ordinals, NEW m \in DOMAIN ordinals',
                        m # n, ordinals'[m] = ordinals[n]
                 PROVE  n \in DOMAIN signatures /\ m \in DOMAIN inventory'
                        /\ signatures[n] = inventory'[m]
        OBVIOUS
    <3>1. /\ ordinals \in [DOMAIN ordinals -> 0..(next - 1)] /\ next \in Nat
          /\ \A x, y \in DOMAIN ordinals : ordinals[x] = ordinals[y] => x = y
          BY DEF LockInv, TypeOK, OrdinalsGapless, Bijection, Injection, IsInjective
    <3>2. ordinals[n] < next
          BY <3>1
    <3>3. m \in NewNames(inv)
      <4>1. m \in (DOMAIN ordinals \ OldNames(inv)) \cup Added(inv)
            BY <2>2, UpdateOrdinals
      <4>2. m \notin DOMAIN ordinals \ OldNames(inv)
            BY <2>2, <3>1, UpdateOrdinals
      <4>3. m \notin Added(inv) \ NewNames(inv)
        <5>1. SUFFICES ASSUME m \in Added(inv) \ NewNames(inv) PROVE FALSE
              OBVIOUS
        <5>2. ordinals'[m] >= next
              BY <2>2, <5>1, UpdateOrdinals
        <5> QED BY <3>1, <3>2, <5>2
      <4> QED BY <4>1, <4>2, <4>3
    <3>4. Renamed(inv, m, OldName(inv, m))
          BY <3>3, OldNameFacts
    <3>5. OldName(inv, m) \in DOMAIN ordinals
          BY <3>4 DEF Renamed, Removed
    <3>6. OldName(inv, m) = n
          BY <2>2, <3>1, <3>3, <3>5, UpdateOrdinals
    <3>7. inventory' = inv
          BY <2>2 DEF UpdateLock
    <3> QED BY <3>4, <3>6, <3>7 DEF Renamed, Added
  <2> QED BY <2>1, <2>2 DEF Next
<1>2. Spec => []LockInv
      BY Initially, Preserved, PTL DEF Spec
<1> QED BY <1>1, <1>2, PTL DEF Spec, RenamesKeepType

-----------------------------------------------------------------------------
(* The capnweb JSON client *)

\* Whoever waits for an answer to number id is call c.
Owns(id, c) == \A e \in pending : e.id = id => e.call = c

\* A push and its pull travel together, pulls by their number.
PushesPaired ==
    /\ \A i \in 1..Len(toServer) : toServer[i].kind = "push" =>
          /\ toServer[i].call \in Calls
          /\ i + 1 <= Len(toServer) /\ toServer[i + 1].kind = "pull"
    /\ \A i \in 2..Len(toServer) : toServer[i].kind = "pull" => toServer[i - 1].kind = "push"
    /\ \A i, j \in 1..Len(toServer) :
          i < j /\ toServer[i].kind = "pull" /\ toServer[j].kind = "pull" =>
              toServer[i].id < toServer[j].id

\* The client's count is never behind the server's: a pull that finds an
\* entry finds the one that came with it.
ClientAhead ==
    /\ nextExport <= nextImportId
    /\ \A i \in 1..Len(toServer) : toServer[i].kind = "pull" =>
          /\ toServer[i].id < nextImportId
          /\ nextExport <= toServer[i].id + 1
          /\ i # 1 => nextExport <= toServer[i].id

\* A number is of one call on its way out,
PullsOwned ==
    \A i \in 2..Len(toServer) : toServer[i].kind = "pull" =>
        Owns(toServer[i].id, toServer[i - 1].call)

\* at the server, from the moment it is pulled,
ExportsOwned ==
    \A e \in exports :
        /\ e.pulled => Owns(e.id, e.call)
        /\ toServer # <<>> /\ toServer[1].kind = "pull" /\ toServer[1].id = e.id =>
               Owns(e.id, e.call)

\* and on its way back.
AnswersNamed ==
    \A i \in 1..Len(toClient) : toClient[i].kind \in {"resolve", "reject"} =>
        toClient[i].id < nextExport /\ Owns(toClient[i].id, toClient[i].call)

\* Who waits is pending; after the end nobody waits.
WaitersPending ==
    /\ \A e \in pending : promise[e.call] = "pending"
    /\ closed => pending = {}

WireIInv ==
    /\ JsonInv
    /\ PushesPaired /\ ClientAhead
    /\ PullsOwned /\ ExportsOwned /\ AnswersNamed
    /\ WaitersPending

-----------------------------------------------------------------------------
(* Lines and tables *)

LEMMA LinesTyped ==
    /\ \A c \in Calls : /\ Push(c) \in ServerLines /\ Push(c).kind = "push" /\ Push(c).call = c
    /\ \A i \in Nat : /\ Pull(i) \in ServerLines /\ Pull(i).kind = "pull" /\ Pull(i).id = i
                      /\ Release(i) \in ServerLines /\ Release(i).kind = "release"
  BY DEF ServerLines, Push, Pull, Release

\* A queue after a send of one line or of two, and after a receive.
LEMMA Lines ==
    ASSUME NEW S, NEW s \in Seq(S)
    PROVE  /\ Len(s) \in Nat
           /\ \A a \in S : LET u == s \o <<a>>
                           IN  /\ u \in Seq(S) /\ Len(u) = Len(s) + 1
                               /\ \A i \in 1..Len(s) : u[i] = s[i]
                               /\ u[Len(s) + 1] = a
           /\ \A a, b \in S : LET u == s \o <<a, b>>
                              IN  /\ u \in Seq(S) /\ Len(u) = Len(s) + 2
                                  /\ \A i \in 1..Len(s) : u[i] = s[i]
                                  /\ u[Len(s) + 1] = a /\ u[Len(s) + 2] = b
           /\ s # <<>> => LET u == Tail(s)
                          IN  /\ u \in Seq(S) /\ Len(u) = Len(s) - 1 /\ Len(s) > 0
                              /\ \A i \in 1..Len(u) : u[i] = s[i + 1]
                              /\ Head(s) = s[1] /\ s[1] \in S
<1>1. Len(s) \in Nat
      OBVIOUS
<1>2. ASSUME NEW a \in S
      PROVE  LET u == s \o <<a>>
             IN  /\ u \in Seq(S) /\ Len(u) = Len(s) + 1
                 /\ \A i \in 1..Len(s) : u[i] = s[i]
                 /\ u[Len(s) + 1] = a
      OBVIOUS
<1>3. ASSUME NEW a \in S, NEW b \in S
      PROVE  LET u == s \o <<a, b>>
             IN  /\ u \in Seq(S) /\ Len(u) = Len(s) + 2
                 /\ \A i \in 1..Len(s) : u[i] = s[i]
                 /\ u[Len(s) + 1] = a /\ u[Len(s) + 2] = b
      OBVIOUS
<1>4. ASSUME s # <<>>
      PROVE  LET u == Tail(s)
             IN  /\ u \in Seq(S) /\ Len(u) = Len(s) - 1 /\ Len(s) > 0
                 /\ \A i \in 1..Len(u) : u[i] = s[i + 1]
                 /\ Head(s) = s[1] /\ s[1] \in S
      BY <1>4
<1> QED BY <1>1, <1>2, <1>3, <1>4

LEMMA PendingFacts ==
    ASSUME WireTypeOK
    PROVE  /\ \A e, f \in pending : e.id = f.id => e = f
           /\ \A e, f \in pending : e.call = f.call => e = f
           /\ \A e \in pending : /\ e.id \in Nat /\ e.id < nextImportId /\ e.call \in Calls
           /\ nextImportId \in Nat /\ nextExport \in Nat /\ nextImportId > 0 /\ nextExport > 0
           /\ \A e \in exports : /\ e.id \in Nat /\ e.id < nextExport /\ e.call \in Calls
                                 /\ e.pulled \in BOOLEAN /\ e.answered \in BOOLEAN
                                 /\ e.answered => e.pulled
  BY DEF WireTypeOK, KnownIds, IsInjective

\* The lines under way.
LEMMA LineFacts ==
    ASSUME WireTypeOK
    PROVE  /\ Len(toServer) \in Nat /\ Len(toClient) \in Nat
           /\ \A i \in 1..Len(toServer) : toServer[i] \in ServerLines /\ toServer[i].id \in Nat
           /\ \A i \in 1..Len(toClient) : toClient[i] \in ClientLines /\ toClient[i].id \in Nat
<1>1. toServer \in Seq(ServerLines) /\ toClient \in Seq(ClientLines)
      BY DEF WireTypeOK
<1>2. Len(toServer) \in Nat /\ \A i \in 1..Len(toServer) : toServer[i] \in ServerLines
      BY <1>1
<1>3. Len(toClient) \in Nat /\ \A i \in 1..Len(toClient) : toClient[i] \in ClientLines
      BY <1>1
<1>4. \A l \in ServerLines : l.id \in Nat
      BY DEF ServerLines
<1>5. \A l \in ClientLines : l.id \in Nat
      BY DEF ClientLines
<1> QED BY <1>2, <1>3, <1>4, <1>5

\* What remains when entries leave.
LEMMA FewerPending ==
    ASSUME WireTypeOK, UNCHANGED nextImportId, pending' \subseteq pending
    PROVE  /\ pending' \subseteq [id : KnownIds', call : Calls]
           /\ IsInjective([e \in pending' |-> e.id]) /\ IsInjective([e \in pending' |-> e.call])
           /\ \A i, c : Owns(i, c) => Owns(i, c)'
<1>1. pending' \subseteq [id : KnownIds', call : Calls]
      BY DEF WireTypeOK, KnownIds
<1>2. IsInjective([e \in pending' |-> e.id]) /\ IsInjective([e \in pending' |-> e.call])
      BY PendingFacts DEF IsInjective
<1>3. \A i, c : Owns(i, c) => Owns(i, c)'
      BY DEF Owns
<1> QED BY <1>1, <1>2, <1>3


-----------------------------------------------------------------------------
(* What each move of the lines to the server does to their numbers. *)

\* Nothing is sent or received.
LEMMA QueueStays ==
    ASSUME WireIInv, UNCHANGED <<toServer, nextExport>>,
           nextImportId' \in Nat, nextImportId <= nextImportId'
    PROVE  PushesPaired' /\ ClientAhead'
<1>1. WireTypeOK /\ PushesPaired /\ ClientAhead
      BY DEF WireIInv, JsonInv
<1>2. nextImportId \in Nat /\ nextExport \in Nat /\ \A i \in 1..Len(toServer) : toServer[i].id \in Nat
      BY <1>1, PendingFacts, LineFacts
<1>3. PushesPaired'
      BY <1>1 DEF PushesPaired
<1>4. \A i \in 1..Len(toServer) : toServer[i].kind = "pull" => toServer[i].id < nextImportId'
      BY <1>1, <1>2 DEF ClientAhead
<1>5. nextExport <= nextImportId'
      BY <1>1, <1>2 DEF ClientAhead
<1>6. ClientAhead'
      BY <1>1, <1>4, <1>5 DEF ClientAhead
<1> QED BY <1>3, <1>6

\* The queue is lost.
LEMMA QueueLost ==
    ASSUME WireIInv, toServer' = <<>>, UNCHANGED <<nextExport, nextImportId>>
    PROVE  PushesPaired' /\ ClientAhead' /\ PullsOwned'
<1>1. ClientAhead /\ Len(toServer') = 0
      BY DEF WireIInv
<1> QED BY <1>1 DEF PushesPaired, ClientAhead, PullsOwned

\* A release goes behind the others.
LEMMA QueueReleases ==
    ASSUME WireIInv, NEW n \in Nat, toServer' = toServer \o <<Release(n)>>,
           UNCHANGED <<nextExport, nextImportId>>
    PROVE  PushesPaired' /\ ClientAhead'
<1>1. WireTypeOK /\ PushesPaired /\ ClientAhead
      BY DEF WireIInv, JsonInv
<1>2. /\ Len(toServer) \in Nat /\ Len(toServer') = Len(toServer) + 1
      /\ \A i \in 1..Len(toServer) : toServer'[i] = toServer[i]
      /\ toServer'[Len(toServer) + 1].kind = "release"
      BY <1>1, Lines, LinesTyped DEF WireTypeOK
<1>3. \A i \in 1..Len(toServer') :
         i \in 1..Len(toServer) \/ toServer'[i].kind = "release"
      BY <1>2
<1>4. \A i \in 1..Len(toServer) : i \in 1..Len(toServer')
      BY <1>2
<1>5. PushesPaired'
  <2>1. ASSUME NEW i \in 1..Len(toServer'), toServer'[i].kind = "push"
        PROVE  /\ toServer'[i].call \in Calls
               /\ i + 1 <= Len(toServer') /\ toServer'[i + 1].kind = "pull"
    <3>1. i \in 1..Len(toServer) /\ toServer[i].kind = "push"
          BY <1>2, <1>3, <2>1
    <3>2. toServer[i].call \in Calls /\ i + 1 \in 1..Len(toServer) /\ toServer[i + 1].kind = "pull"
          BY <1>1, <1>2, <3>1 DEF PushesPaired
    <3> QED BY <1>2, <3>1, <3>2
  <2>2. ASSUME NEW i \in 2..Len(toServer'), toServer'[i].kind = "pull"
        PROVE  toServer'[i - 1].kind = "push"
    <3>1. i \in 1..Len(toServer')
          BY <1>2
    <3>2. i \in 1..Len(toServer) /\ toServer[i].kind = "pull"
          BY <1>2, <1>3, <2>2, <3>1
    <3>3. i \in 2..Len(toServer) /\ i - 1 \in 1..Len(toServer)
          BY <1>2, <3>2
    <3> QED BY <1>1, <1>2, <3>2, <3>3 DEF PushesPaired
  <2>3. ASSUME NEW i \in 1..Len(toServer'), NEW j \in 1..Len(toServer'), i < j,
               toServer'[i].kind = "pull", toServer'[j].kind = "pull"
        PROVE  toServer'[i].id < toServer'[j].id
    <3>1. /\ i \in 1..Len(toServer) /\ toServer[i].kind = "pull"
          /\ j \in 1..Len(toServer) /\ toServer[j].kind = "pull"
          BY <1>2, <1>3, <2>3
    <3> QED BY <1>1, <1>2, <2>3, <3>1 DEF PushesPaired
  <2> QED BY <2>1, <2>2, <2>3 DEF PushesPaired
<1>6. ClientAhead'
  <2>1. ASSUME NEW i \in 1..Len(toServer'), toServer'[i].kind = "pull"
        PROVE  /\ toServer'[i].id < nextImportId
               /\ nextExport <= toServer'[i].id + 1
               /\ i # 1 => nextExport <= toServer'[i].id
    <3>1. i \in 1..Len(toServer) /\ toServer'[i] = toServer[i] /\ toServer[i].kind = "pull"
          BY <1>2, <1>3, <2>1
    <3> QED BY <1>1, <3>1 DEF ClientAhead
  <2> QED BY <1>1, <2>1 DEF ClientAhead
<1> QED BY <1>5, <1>6

\* A call goes behind the others, with the next number.
LEMMA QueueCalls ==
    ASSUME WireIInv, NEW c \in Calls,
           toServer' = toServer \o <<Push(c), Pull(nextImportId)>>,
           UNCHANGED nextExport, nextImportId' = nextImportId + 1
    PROVE  PushesPaired' /\ ClientAhead'
<1>1. WireTypeOK /\ PushesPaired /\ ClientAhead
      BY DEF WireIInv, JsonInv
<1>2. /\ nextImportId \in Nat /\ nextExport \in Nat
      /\ \A i \in 1..Len(toServer) : toServer[i].id \in Nat
      BY <1>1, PendingFacts, LineFacts
<1>3. PICK l \in Nat : l = Len(toServer)
      BY <1>1, Lines DEF WireTypeOK
<1>4. /\ Len(toServer') = l + 2
      /\ \A i \in 1..l : toServer'[i] = toServer[i]
      /\ toServer'[l + 1] = Push(c) /\ toServer'[l + 2] = Pull(nextImportId)
      BY <1>1, <1>2, <1>3, Lines, LinesTyped DEF WireTypeOK
<1>5. /\ toServer'[l + 1].kind = "push" /\ toServer'[l + 1].call = c
      /\ toServer'[l + 2].kind = "pull" /\ toServer'[l + 2].id = nextImportId
      BY <1>2, <1>4, LinesTyped
<1>6. \A i \in 1..(l + 2) : i \in 1..l \/ i = l + 1 \/ i = l + 2
      OBVIOUS
<1>7. PushesPaired'
  <2>1. ASSUME NEW i \in 1..(l + 2), toServer'[i].kind = "push"
        PROVE  /\ toServer'[i].call \in Calls
               /\ i + 1 <= l + 2 /\ toServer'[i + 1].kind = "pull"
    <3>1. CASE i \in 1..l
      <4>1. /\ toServer[i].call \in Calls
            /\ i + 1 <= l /\ toServer[i + 1].kind = "pull"
            BY <1>1, <1>3, <1>4, <2>1, <3>1 DEF PushesPaired
      <4>2. i + 1 \in 1..l /\ i + 1 <= l + 2
            BY <3>1, <4>1
      <4> QED BY <1>4, <3>1, <4>1, <4>2
    <3>2. CASE i = l + 1
      <4>1. i + 1 = l + 2 /\ i + 1 <= l + 2
            BY <3>2
      <4> QED BY <1>5, <3>2, <4>1
    <3>3. CASE i = l + 2
          BY <1>5, <2>1, <3>3
    <3> QED BY <1>6, <3>1, <3>2, <3>3
  <2>2. ASSUME NEW i \in 2..(l + 2), toServer'[i].kind = "pull"
        PROVE  toServer'[i - 1].kind = "push"
    <3>1. CASE i \in 1..l
      <4>1. i \in 2..l /\ i - 1 \in 1..l
            BY <3>1
      <4> QED BY <1>1, <1>3, <1>4, <2>2, <3>1, <4>1 DEF PushesPaired
    <3>2. CASE i = l + 1
          BY <1>5, <2>2, <3>2
    <3>3. CASE i = l + 2
      <4>1. i - 1 = l + 1
            BY <3>3
      <4> QED BY <1>5, <4>1
    <3>4. i \in 1..(l + 2)
          OBVIOUS
    <3> QED BY <1>6, <3>1, <3>2, <3>3, <3>4
  <2>3. ASSUME NEW i \in 1..(l + 2), NEW j \in 1..(l + 2), i < j,
               toServer'[i].kind = "pull", toServer'[j].kind = "pull"
        PROVE  toServer'[i].id < toServer'[j].id
    <3>1. i # l + 1 /\ j # l + 1
          BY <1>5, <2>3
    <3>2. i \in 1..l
      <4>1. i # l + 2
            BY <2>3
      <4> QED BY <1>6, <3>1, <4>1
    <3>3. CASE j \in 1..l
          BY <1>1, <1>3, <1>4, <2>3, <3>2, <3>3 DEF PushesPaired
    <3>4. CASE j = l + 2
      <4>1. toServer[i].id < nextImportId
            BY <1>1, <1>3, <1>4, <2>3, <3>2 DEF ClientAhead
      <4> QED BY <1>4, <1>5, <3>2, <3>4, <4>1
    <3> QED BY <1>6, <3>1, <3>3, <3>4
  <2> QED BY <1>4, <2>1, <2>2, <2>3 DEF PushesPaired
<1>8. ClientAhead'
  <2>1. ASSUME NEW i \in 1..(l + 2), toServer'[i].kind = "pull"
        PROVE  /\ toServer'[i].id < nextImportId + 1
               /\ nextExport <= toServer'[i].id + 1
               /\ i # 1 => nextExport <= toServer'[i].id
    <3>1. CASE i \in 1..l
      <4>1. /\ toServer[i].id < nextImportId /\ nextExport <= toServer[i].id + 1
            /\ i # 1 => nextExport <= toServer[i].id
            BY <1>1, <1>3, <1>4, <2>1, <3>1 DEF ClientAhead
      <4> QED BY <1>2, <1>3, <1>4, <3>1, <4>1
    <3>2. CASE i = l + 1
          BY <1>5, <2>1, <3>2
    <3>3. CASE i = l + 2
      <4>1. toServer'[i].id = nextImportId /\ nextExport <= nextImportId
            BY <1>1, <1>5, <3>3 DEF ClientAhead
      <4>2. nextImportId < nextImportId + 1 /\ nextExport <= nextImportId + 1
            BY <1>2, <4>1
      <4> QED BY <4>1, <4>2
    <3> QED BY <1>6, <3>1, <3>2, <3>3
  <2>2. nextExport <= nextImportId + 1
        BY <1>1, <1>2 DEF ClientAhead
  <2> QED BY <1>4, <2>1, <2>2 DEF ClientAhead
<1> QED BY <1>7, <1>8

\* The first line is received: a push is counted.
LEMMA QueueReceived ==
    ASSUME WireIInv, toServer # <<>>, toServer' = Tail(toServer), UNCHANGED nextImportId,
           nextExport' = IF toServer[1].kind = "push" THEN nextExport + 1 ELSE nextExport
    PROVE  PushesPaired' /\ ClientAhead'
<1>1. WireTypeOK /\ PushesPaired /\ ClientAhead
      BY DEF WireIInv, JsonInv
<1>2. /\ nextImportId \in Nat /\ nextExport \in Nat
      /\ \A i \in 1..Len(toServer) : toServer[i].id \in Nat
      BY <1>1, PendingFacts, LineFacts
<1>3. PICK l \in Nat : l = Len(toServer')
      BY <1>1, Lines DEF WireTypeOK
<1>4. /\ Len(toServer) = l + 1
      /\ \A i \in 1..l : toServer'[i] = toServer[i + 1] /\ i + 1 \in 2..(l + 1)
      BY <1>1, <1>3, Lines DEF WireTypeOK
<1>5. PushesPaired'
  <2>1. ASSUME NEW i \in 1..l, toServer'[i].kind = "push"
        PROVE  /\ toServer'[i].call \in Calls
               /\ i + 1 <= l /\ toServer'[i + 1].kind = "pull"
    <3>1. i + 1 \in 1..(l + 1) /\ toServer[i + 1].kind = "push"
          BY <1>4, <2>1
    <3>2. /\ toServer[i + 1].call \in Calls
          /\ (i + 1) + 1 <= l + 1 /\ toServer[(i + 1) + 1].kind = "pull"
          BY <1>1, <1>4, <3>1 DEF PushesPaired
    <3>3. i + 1 \in 1..l
          BY <3>2
    <3> QED BY <1>4, <3>2, <3>3
  <2>2. ASSUME NEW i \in 2..l, toServer'[i].kind = "pull"
        PROVE  toServer'[i - 1].kind = "push"
    <3>1. i \in 1..l /\ i - 1 \in 1..l /\ (i - 1) + 1 = i /\ (i + 1) - 1 = i
          OBVIOUS
    <3>2. toServer'[i - 1] = toServer[i] /\ toServer[i + 1].kind = "pull" /\ i + 1 \in 2..(l + 1)
          BY <1>4, <2>2, <3>1
    <3>3. toServer[(i + 1) - 1].kind = "push"
          BY <1>1, <1>4, <3>2 DEF PushesPaired
    <3> QED BY <3>1, <3>2, <3>3
  <2>3. ASSUME NEW i \in 1..l, NEW j \in 1..l, i < j,
               toServer'[i].kind = "pull", toServer'[j].kind = "pull"
        PROVE  toServer'[i].id < toServer'[j].id
    <3>1. i + 1 \in 1..(l + 1) /\ j + 1 \in 1..(l + 1) /\ i + 1 < j + 1
          BY <2>3
    <3> QED BY <1>1, <1>4, <2>3, <3>1 DEF PushesPaired
  <2> QED BY <1>3, <2>1, <2>2, <2>3 DEF PushesPaired
<1>6. ClientAhead'
  <2>1. CASE toServer[1].kind # "push"
    <3>1. nextExport' = nextExport
          BY <2>1
    <3>2. ASSUME NEW i \in 1..l, toServer'[i].kind = "pull"
          PROVE  /\ toServer'[i].id < nextImportId
                 /\ nextExport <= toServer'[i].id + 1
                 /\ i # 1 => nextExport <= toServer'[i].id
      <4>1. i + 1 \in 1..(l + 1) /\ i + 1 # 1 /\ toServer'[i] = toServer[i + 1]
            BY <1>4
      <4> QED BY <1>1, <1>4, <3>2, <4>1 DEF ClientAhead
    <3> QED BY <1>1, <1>3, <3>1, <3>2 DEF ClientAhead
  <2>2. CASE toServer[1].kind = "push"
    <3>1. nextExport' = nextExport + 1
          BY <2>2
    <3>2. PICK k \in Nat : /\ k = toServer[2].id /\ 2 <= l + 1 /\ toServer[2].kind = "pull"
                           /\ nextExport <= k /\ k < nextImportId
      <4>1. 1 \in 1..(l + 1)
            OBVIOUS
      <4>2. 1 + 1 <= l + 1 /\ toServer[1 + 1].kind = "pull"
            BY <1>1, <1>4, <2>2, <4>1 DEF PushesPaired
      <4>3. 2 \in 1..(l + 1) /\ toServer[2].kind = "pull"
            BY <4>2
      <4> QED BY <1>1, <1>2, <1>4, <4>3 DEF ClientAhead
    <3>3. ASSUME NEW i \in 1..l, toServer'[i].kind = "pull"
          PROVE  /\ toServer'[i].id < nextImportId
                 /\ nextExport + 1 <= toServer'[i].id + 1
                 /\ i # 1 => nextExport + 1 <= toServer'[i].id
      <4>1. /\ i + 1 \in 1..(l + 1) /\ i + 1 # 1 /\ toServer'[i] = toServer[i + 1]
            /\ 2 \in 1..(l + 1)
            BY <1>4
      <4>2. /\ toServer[i + 1].id < nextImportId /\ nextExport <= toServer[i + 1].id
            /\ toServer[i + 1].id \in Nat
            BY <1>1, <1>2, <1>4, <3>3, <4>1 DEF ClientAhead
      <4>3. i # 1 => k < toServer[i + 1].id
        <5>1. i # 1 => 2 < i + 1
              OBVIOUS
        <5>2. 2 \in 1..Len(toServer) /\ i + 1 \in 1..Len(toServer)
              BY <1>4, <4>1
        <5>3. toServer[2].kind = "pull" /\ toServer[i + 1].kind = "pull"
              BY <3>2, <3>3, <4>1
        <5>4. i # 1 => toServer[2].id < toServer[i + 1].id
              BY <1>1, <5>1, <5>2, <5>3 DEF PushesPaired
        <5> QED BY <3>2, <5>4
      <4>4. PICK m \in Nat : m = toServer'[i].id
            BY <4>1, <4>2
      <4>5. m < nextImportId /\ nextExport <= m /\ (i # 1 => k < m)
            BY <4>1, <4>2, <4>3, <4>4
      <4>6. nextExport + 1 <= m + 1 /\ (i # 1 => nextExport + 1 <= m)
            BY <1>2, <3>2, <4>5
      <4> QED BY <4>4, <4>5, <4>6
    <3>4. nextExport + 1 <= nextImportId
          BY <1>2, <3>2
    <3> QED BY <1>3, <3>1, <3>3, <3>4 DEF ClientAhead
  <2> QED BY <2>1, <2>2
<1> QED BY <1>5, <1>6

-----------------------------------------------------------------------------
(* Whose the numbers are. *)

LEMMA Parts ==
    ASSUME WireIInv
    PROVE  /\ WireTypeOK /\ PendingIsTracked /\ AnswersAreOwned
           /\ PushesPaired /\ ClientAhead /\ PullsOwned /\ ExportsOwned /\ AnswersNamed
           /\ WaitersPending
  BY DEF WireIInv, JsonInv

\* What comes back is an answer that was there, or one of a pulled call, or
\* no answer.
AnswersKnown ==
    \A i \in 1..Len(toClient') :
        \/ \E j \in 1..Len(toClient) : toClient'[i] = toClient[j]
        \/ toClient'[i].kind \notin {"resolve", "reject"}
        \/ toClient'[i].id < nextExport /\ Owns(toClient'[i].id, toClient'[i].call)

\* The answers keep their owners as long as those who wait only leave.
LEMMA AnswersKeep ==
    ASSUME WireIInv, pending' \subseteq pending, UNCHANGED nextImportId,
           nextExport' \in Nat, nextExport <= nextExport', AnswersKnown,
           toClient' \in Seq(ClientLines)
    PROVE  AnswersNamed'
<1>1. WireTypeOK /\ nextExport \in Nat
      BY Parts, PendingFacts
<1>2. ASSUME NEW i \in 1..Len(toClient'), toClient'[i].kind \in {"resolve", "reject"}
      PROVE  toClient'[i].id < nextExport /\ Owns(toClient'[i].id, toClient'[i].call)
  <2>1. \/ \E j \in 1..Len(toClient) : toClient'[i] = toClient[j]
        \/ toClient'[i].id < nextExport /\ Owns(toClient'[i].id, toClient'[i].call)
        BY <1>2 DEF AnswersKnown
  <2>2. CASE \E j \in 1..Len(toClient) : toClient'[i] = toClient[j]
    <3>1. PICK j \in 1..Len(toClient) : toClient'[i] = toClient[j]
          BY <2>2
    <3>2. AnswersNamed /\ toClient[j].kind \in {"resolve", "reject"}
          BY Parts, <1>2, <3>1
    <3>3. toClient[j].id < nextExport /\ Owns(toClient[j].id, toClient[j].call)
          BY <3>2 DEF AnswersNamed
    <3> QED BY <3>1, <3>3
  <2> QED BY <2>1, <2>2
<1>3. ASSUME NEW i \in 1..Len(toClient'), toClient'[i].kind \in {"resolve", "reject"}
      PROVE  /\ toClient'[i].id < nextExport'
             /\ \A e \in pending' : e.id = toClient'[i].id => e.call = toClient'[i].call
  <2>1. PICK n \in Nat : n = toClient'[i].id
    <3>1. toClient'[i] \in ClientLines
          OBVIOUS
    <3> QED BY <3>1 DEF ClientLines
  <2>2. n < nextExport /\ Owns(n, toClient'[i].call)
        BY <1>2, <1>3, <2>1
  <2>3. n < nextExport'
        BY <1>1, <2>2
  <2>4. \A e \in pending' : e.id = n => e.call = toClient'[i].call
        BY <2>2 DEF Owns
  <2> QED BY <2>1, <2>3, <2>4
<1> QED BY <1>3 DEF AnswersNamed, Owns

\* Nothing is received by the server, and none begins to wait.
LEMMA NumbersKeep ==
    ASSUME WireIInv, pending' \subseteq pending, UNCHANGED <<nextImportId, nextExport>>,
           \A e \in exports' : \E f \in exports :
               e.id = f.id /\ e.call = f.call /\ (e.pulled => f.pulled),
           AnswersKnown, toClient' \in Seq(ClientLines),
           \/ toServer' = toServer
           \/ toServer' = <<>>
           \/ \E n \in Nat : toServer' = toServer \o <<Release(n)>>
    PROVE  /\ PushesPaired' /\ ClientAhead'
           /\ PullsOwned' /\ ExportsOwned' /\ AnswersNamed'
<1>1. /\ WireTypeOK /\ PullsOwned /\ ExportsOwned
      /\ nextExport \in Nat /\ nextImportId \in Nat
      BY Parts, PendingFacts
<1>2. AnswersNamed'
      BY <1>1, AnswersKeep
<1>3. PushesPaired' /\ ClientAhead'
  <2>1. CASE toServer' = toServer
        BY <1>1, <2>1, QueueStays
  <2>2. CASE toServer' = <<>>
        BY <2>2, QueueLost
  <2>3. ASSUME NEW n \in Nat, toServer' = toServer \o <<Release(n)>>
        PROVE  PushesPaired' /\ ClientAhead'
        BY <2>3, QueueReleases
  <2> QED BY <2>1, <2>2, <2>3
<1>4. \A i, c : Owns(i, c) => Owns(i, c)'
      BY DEF Owns
<1>5. /\ Len(toServer) \in Nat /\ Len(toServer') \in Nat
      /\ \A i \in 1..Len(toServer') :
            \/ toServer'[i].kind = "release"
            \/ i \in 1..Len(toServer) /\ toServer'[i] = toServer[i]
      /\ \A i \in 1..Len(toServer') : i - 1 \in 1..Len(toServer) =>
            toServer'[i - 1] = toServer[i - 1]
  <2>1. toServer \in Seq(ServerLines) /\ Len(toServer) \in Nat
        BY <1>1, LineFacts DEF WireTypeOK
  <2>2. CASE toServer' = toServer
        BY <2>1, <2>2
  <2>3. CASE toServer' = <<>>
    <3>1. Len(toServer') = 0
          BY <2>3
    <3> QED BY <2>1, <3>1
  <2>4. ASSUME NEW n \in Nat, toServer' = toServer \o <<Release(n)>>
        PROVE  /\ Len(toServer') \in Nat
               /\ \A i \in 1..Len(toServer') :
                     \/ toServer'[i].kind = "release"
                     \/ i \in 1..Len(toServer) /\ toServer'[i] = toServer[i]
               /\ \A i \in 1..Len(toServer') : i - 1 \in 1..Len(toServer) =>
                     toServer'[i - 1] = toServer[i - 1]
    <3>1. /\ Len(toServer') = Len(toServer) + 1
          /\ \A i \in 1..Len(toServer) : toServer'[i] = toServer[i]
          /\ toServer'[Len(toServer) + 1].kind = "release"
          BY <2>1, <2>4, Lines, LinesTyped
    <3>2. PICK l \in Nat : l = Len(toServer)
          BY <2>1
    <3>3. \A i \in 1..(l + 1) : i \in 1..l \/ i = l + 1
          OBVIOUS
    <3>4. l + 1 \in Nat
          OBVIOUS
    <3> QED BY <3>1, <3>2, <3>3, <3>4
  <2> QED BY <2>1, <2>2, <2>3, <2>4
<1>6. PullsOwned'
  <2>1. ASSUME NEW i \in 2..Len(toServer'), toServer'[i].kind = "pull"
        PROVE  \A e \in pending' : e.id = toServer'[i].id => e.call = toServer'[i - 1].call
    <3>1. i \in 1..Len(toServer') /\ i \in 1..Len(toServer) /\ toServer'[i] = toServer[i]
          BY <1>5, <2>1
    <3>2. i \in 2..Len(toServer) /\ i - 1 \in 1..Len(toServer)
          BY <1>5, <3>1
    <3>3. toServer'[i - 1] = toServer[i - 1] /\ toServer[i].kind = "pull"
          BY <1>5, <2>1, <3>1, <3>2
    <3>4. Owns(toServer[i].id, toServer[i - 1].call)
          BY <1>1, <3>2, <3>3 DEF PullsOwned
    <3>5. \A e \in pending' : e.id = toServer[i].id => e.call = toServer[i - 1].call
          BY <3>4 DEF Owns
    <3> QED BY <3>1, <3>3, <3>5
  <2> QED BY <2>1 DEF PullsOwned, Owns
<1>7. ExportsOwned'
  <2>1. ASSUME NEW e \in exports'
        PROVE  /\ e.pulled => Owns(e.id, e.call)'
               /\ toServer' # <<>> /\ toServer'[1].kind = "pull" /\ toServer'[1].id = e.id =>
                      Owns(e.id, e.call)'
    <3>1. PICK f \in exports : e.id = f.id /\ e.call = f.call /\ (e.pulled => f.pulled)
          OBVIOUS
    <3>2. e.pulled => Owns(e.id, e.call)'
          BY <1>1, <1>4, <3>1 DEF ExportsOwned
    <3>3. ASSUME toServer' # <<>>, toServer'[1].kind = "pull", toServer'[1].id = e.id
          PROVE  Owns(e.id, e.call)'
      <4>1. toServer # <<>> /\ toServer[1] = toServer'[1]
        <5>1. CASE toServer' = toServer
              BY <3>3, <5>1
        <5>2. ASSUME NEW n \in Nat, toServer' = toServer \o <<Release(n)>>
              PROVE  <4>1
          <6>1. toServer \in Seq(ServerLines) /\ Len(toServer) \in Nat
                BY <1>1, LineFacts DEF WireTypeOK
          <6>2. /\ Len(toServer') = Len(toServer) + 1
                /\ \A i \in 1..Len(toServer) : toServer'[i] = toServer[i]
                /\ toServer'[Len(toServer) + 1].kind = "release"
                BY <5>2, <6>1, Lines, LinesTyped
          <6>3. Len(toServer) # 0
                BY <3>3, <6>2
          <6>4. 1 \in 1..Len(toServer) /\ toServer # <<>>
                BY <6>1, <6>3
          <6> QED BY <6>2, <6>4
        <5> QED BY <3>3, <5>1, <5>2
      <4>2. Owns(f.id, f.call)
            BY <1>1, <3>1, <3>3, <4>1 DEF ExportsOwned
      <4> QED BY <1>4, <3>1, <4>2
    <3> QED BY <3>2, <3>3
  <2> QED BY <2>1 DEF ExportsOwned
<1> QED BY <1>2, <1>3, <1>6, <1>7

-----------------------------------------------------------------------------
(* The lines to the client. *)

LEMMA FewerAnswers ==
    ASSUME WireIInv, toClient # <<>>, NextLine \/ NextMessage
    PROVE  AnswersKnown /\ toClient' \in Seq(ClientLines)
<1>1. toClient \in Seq(ClientLines) /\ Len(toClient) \in Nat
      BY Parts, LineFacts DEF WireTypeOK
<1>2. CASE NextLine
  <2>1. /\ toClient' \in Seq(ClientLines) /\ Len(toClient') = Len(toClient) - 1
        /\ \A i \in 1..Len(toClient') : toClient'[i] = toClient[i + 1]
        BY <1>1, <1>2, Lines DEF NextLine
  <2>2. \A i \in 1..Len(toClient') : i + 1 \in 1..Len(toClient)
        BY <1>1, <2>1
  <2> QED BY <2>1, <2>2 DEF AnswersKnown
<1>3. CASE NextMessage
  <2>1. PICK k \in 1..Len(toClient) : toClient' = SubSeq(toClient, k + 1, Len(toClient))
        BY <1>3 DEF NextMessage
  <2>2. /\ toClient' \in Seq(ClientLines) /\ Len(toClient') = Len(toClient) - k
        /\ \A i \in 1..Len(toClient') : toClient'[i] = toClient[k + i]
        BY <1>1, <2>1
  <2>3. \A i \in 1..Len(toClient') : k + i \in 1..Len(toClient)
        BY <1>1, <2>2
  <2> QED BY <2>2, <2>3 DEF AnswersKnown
<1> QED BY <1>2, <1>3

LEMMA MoreAnswers ==
    ASSUME WireIInv, NEW kind \in {"resolve", "reject", "abort", "garbage"}, NEW id \in Nat,
           NEW call \in Calls \cup {None}, SendToClient(kind, id, call),
           kind \in {"resolve", "reject"} => id < nextExport /\ Owns(id, call)
    PROVE  AnswersKnown /\ toClient' \in Seq(ClientLines)
<1>1. toClient \in Seq(ClientLines) /\ Len(toClient) \in Nat
      BY Parts, LineFacts DEF WireTypeOK
<1>2. PICK joined \in BOOLEAN :
         toClient' = Append(toClient, [kind |-> kind, id |-> id, call |-> call, joined |-> joined])
      BY DEF SendToClient
<1>3. PICK l \in ClientLines : /\ toClient' = Append(toClient, l)
                               /\ l.kind = kind /\ l.id = id /\ l.call = call
  <2>1. [kind |-> kind, id |-> id, call |-> call, joined |-> joined] \in ClientLines
        BY DEF ClientLines
  <2> QED BY <1>2, <2>1
<1>4. /\ toClient' \in Seq(ClientLines) /\ Len(toClient') = Len(toClient) + 1
      /\ \A i \in 1..Len(toClient) : toClient'[i] = toClient[i]
      /\ toClient'[Len(toClient) + 1] = l
      BY <1>1, <1>3
<1>5. \A i \in 1..Len(toClient') : i \in 1..Len(toClient) \/ i = Len(toClient) + 1
      BY <1>1, <1>4
<1> QED BY <1>3, <1>4, <1>5 DEF AnswersKnown

LEMMA SameAnswers ==
    ASSUME WireIInv, toClient' = toClient \/ toClient' = <<>>
    PROVE  AnswersKnown /\ toClient' \in Seq(ClientLines)
<1>1. toClient \in Seq(ClientLines) /\ Len(toClient) \in Nat
      BY Parts, LineFacts DEF WireTypeOK
<1>2. CASE toClient' = toClient
      BY <1>1, <1>2 DEF AnswersKnown
<1>3. CASE toClient' = <<>>
  <2>1. Len(toClient') = 0 /\ toClient' \in Seq(ClientLines)
        BY <1>3
  <2> QED BY <2>1 DEF AnswersKnown
<1> QED BY <1>2, <1>3

-----------------------------------------------------------------------------
(* The client's table. *)

\* What a step leaves of the client's table.
TableKept ==
    /\ pending' \subseteq [id : KnownIds', call : Calls]
    /\ IsInjective([e \in pending' |-> e.id]) /\ IsInjective([e \in pending' |-> e.call])
    /\ promise' \in [Calls -> {"unissued", "thrown", "pending"} \cup Settlement]
    /\ answeredBy' \in [Calls -> Calls \cup {None}]
    /\ closed' \in BOOLEAN
    /\ PendingIsTracked' /\ AnswersAreOwned' /\ WaitersPending'

LEMMA SettledKeeps ==
    ASSUME WireIInv, UNCHANGED nextImportId, NEW e \in pending, NEW how \in Settlement,
           NEW by, by = e.call, Settled(e, how, by)
    PROVE  TableKept
<1>1. /\ WireTypeOK /\ PendingIsTracked /\ AnswersAreOwned /\ WaitersPending
      /\ e.call \in Calls
      BY Parts, PendingFacts
<1>2. /\ promise' = [promise EXCEPT ![e.call] = how]
      /\ answeredBy' = [answeredBy EXCEPT ![e.call] = by]
      /\ pending' = pending \ {e} /\ closed' = closed
      BY DEF Settled
<1>3. /\ promise \in [Calls -> {"unissued", "thrown", "pending"} \cup Settlement]
      /\ answeredBy \in [Calls -> Calls \cup {None}] /\ closed \in BOOLEAN
      BY <1>1 DEF WireTypeOK
<1>4. /\ promise' \in [Calls -> {"unissued", "thrown", "pending"} \cup Settlement]
      /\ answeredBy' \in [Calls -> Calls \cup {None}] /\ closed' \in BOOLEAN
      BY <1>1, <1>2, <1>3
<1>5. /\ pending' \subseteq [id : KnownIds', call : Calls]
      /\ IsInjective([f \in pending' |-> f.id]) /\ IsInjective([f \in pending' |-> f.call])
      BY <1>1, <1>2, FewerPending
<1>6. how # "pending"
      BY DEF Settlement
<1>7. \A c \in Calls : promise'[c] = IF c = e.call THEN how ELSE promise[c]
      BY <1>1, <1>2, <1>3
<1>8. PendingIsTracked'
  <2>1. ASSUME NEW c \in Calls, promise'[c] = "pending", c \notin Undecodable
        PROVE  \E f \in pending' : f.call = c
    <3>1. c # e.call /\ promise[c] = "pending"
          BY <1>6, <1>7, <2>1
    <3>2. PICK f \in pending : f.call = c
          BY <1>1, <2>1, <3>1 DEF PendingIsTracked
    <3> QED BY <1>2, <3>1, <3>2
  <2> QED BY <2>1 DEF PendingIsTracked
<1>9. AnswersAreOwned'
      BY <1>1, <1>2, <1>3 DEF AnswersAreOwned
<1>10. WaitersPending'
  <2>1. \A f \in pending' : f \in pending /\ f.call # e.call /\ f.call \in Calls
        BY <1>1, <1>2, PendingFacts
  <2>2. \A f \in pending' : promise'[f.call] = "pending"
        BY <1>1, <1>7, <2>1 DEF WaitersPending
  <2> QED BY <1>1, <1>2, <2>2 DEF WaitersPending
<1> QED BY <1>4, <1>5, <1>8, <1>9, <1>10 DEF TableKept

LEMMA ShutdownKeeps ==
    ASSUME WireIInv, UNCHANGED nextImportId, Shutdown
    PROVE  TableKept /\ pending' \subseteq pending
<1>1. /\ WireTypeOK /\ PendingIsTracked /\ AnswersAreOwned /\ WaitersPending
      BY Parts
<1>2. closed' = TRUE /\ pending' = {} /\ answeredBy' = answeredBy
      BY <1>1 DEF Shutdown, WaitersPending
<1>3. promise' = [c \in Calls |->
          IF ~closed /\ \E e \in pending : e.call = c THEN "rejected" ELSE promise[c]]
      BY DEF Shutdown
<1>4. /\ promise \in [Calls -> {"unissued", "thrown", "pending"} \cup Settlement]
      /\ answeredBy' \in [Calls -> Calls \cup {None}] /\ closed' \in BOOLEAN
      BY <1>1, <1>2 DEF WireTypeOK
<1>5. promise' \in [Calls -> {"unissued", "thrown", "pending"} \cup Settlement]
      BY <1>3, <1>4 DEF Settlement
<1>6. /\ pending' \subseteq [id : KnownIds', call : Calls]
      /\ IsInjective([f \in pending' |-> f.id]) /\ IsInjective([f \in pending' |-> f.call])
      BY <1>1, <1>2, FewerPending
<1>7. PendingIsTracked'
  <2>1. ASSUME NEW c \in Calls, promise'[c] = "pending"
        PROVE  c \in Undecodable
    <3>1. ~(~closed /\ \E e \in pending : e.call = c)
          BY <1>3, <2>1
    <3>2. ~\E e \in pending : e.call = c
          BY <1>1, <3>1 DEF WaitersPending
    <3>3. promise[c] = "pending"
          BY <1>3, <2>1, <3>1
    <3> QED BY <1>1, <3>2, <3>3 DEF PendingIsTracked
  <2> QED BY <2>1 DEF PendingIsTracked
<1>8. AnswersAreOwned' /\ WaitersPending'
      BY <1>1, <1>2 DEF AnswersAreOwned, WaitersPending
<1> QED BY <1>2, <1>4, <1>5, <1>6, <1>7, <1>8 DEF TableKept

\* The client does not move.
LEMMA TableStays ==
    ASSUME WireIInv, UNCHANGED client
    PROVE  TableKept
<1>1. WireTypeOK /\ PendingIsTracked /\ AnswersAreOwned /\ WaitersPending
      BY Parts
<1>2. /\ promise' = promise /\ nextImportId' = nextImportId /\ pending' = pending
      /\ closed' = closed /\ answeredBy' = answeredBy
      BY DEF client
<1>3. WireTypeOK => 
          /\ pending' \subseteq [id : KnownIds', call : Calls]
          /\ IsInjective([f \in pending' |-> f.id]) /\ IsInjective([f \in pending' |-> f.call])
      BY <1>2, FewerPending
<1>4. /\ promise' \in [Calls -> {"unissued", "thrown", "pending"} \cup Settlement]
      /\ answeredBy' \in [Calls -> Calls \cup {None}] /\ closed' \in BOOLEAN
      BY <1>1, <1>2 DEF WireTypeOK
<1>5. PendingIsTracked' /\ AnswersAreOwned' /\ WaitersPending'
      BY <1>1, <1>2 DEF PendingIsTracked, AnswersAreOwned, WaitersPending
<1> QED BY <1>1, <1>3, <1>4, <1>5 DEF TableKept

-----------------------------------------------------------------------------
(* The steps in which the server receives nothing and no call is sent. *)

\* What a step leaves of the server's table and of the counts.
ServerKept ==
    /\ nextImportId' \in Nat \ {0} /\ nextExport' \in Nat \ {0} /\ hungUp' \in BOOLEAN
    /\ exports' \subseteq [id : 1..(nextExport' - 1), call : Calls,
                           pulled : BOOLEAN, answered : BOOLEAN]
    /\ \A e \in exports' : e.answered => e.pulled
    /\ toServer' \in Seq(ServerLines)

LEMMA ServerStays ==
    ASSUME WireIInv, UNCHANGED <<nextImportId, server>>, hungUp' \in BOOLEAN,
           \/ toServer' = toServer
           \/ toServer' = <<>>
           \/ \E n \in Nat : toServer' = toServer \o <<Release(n)>>
    PROVE  ServerKept
<1>1. WireTypeOK
      BY Parts
<1>2. exports' = exports /\ nextExport' = nextExport /\ nextImportId' = nextImportId
      BY DEF server
<1>3. toServer' \in Seq(ServerLines)
  <2>1. toServer \in Seq(ServerLines)
        BY <1>1 DEF WireTypeOK
  <2>2. ASSUME NEW n \in Nat, toServer' = toServer \o <<Release(n)>>
        PROVE  toServer' \in Seq(ServerLines)
        BY <2>1, <2>2, Lines, LinesTyped
  <2>3. <<>> \in Seq(ServerLines)
        OBVIOUS
  <2> QED BY <2>1, <2>2, <2>3
<1>4. /\ nextImportId' \in Nat \ {0} /\ nextExport' \in Nat \ {0}
      /\ exports' \subseteq [id : 1..(nextExport' - 1), call : Calls,
                             pulled : BOOLEAN, answered : BOOLEAN]
      /\ \A e \in exports' : e.answered => e.pulled
      BY <1>1, <1>2 DEF WireTypeOK
<1> QED BY <1>3, <1>4 DEF ServerKept

LEMMA Together ==
    ASSUME TableKept, ServerKept, toClient' \in Seq(ClientLines),
           PushesPaired', ClientAhead', PullsOwned', ExportsOwned', AnswersNamed'
    PROVE  WireIInv'
<1>1. WireTypeOK'
      BY DEF WireTypeOK, TableKept, ServerKept
<1> QED BY <1>1 DEF WireIInv, JsonInv, TableKept

\* Those that leave the exports as they are.
LEMMA QuietStep ==
    ASSUME WireIInv, UNCHANGED <<nextImportId, server>>, hungUp' \in BOOLEAN,
           TableKept, pending' \subseteq pending,
           AnswersKnown, toClient' \in Seq(ClientLines),
           \/ toServer' = toServer
           \/ toServer' = <<>>
           \/ \E n \in Nat : toServer' = toServer \o <<Release(n)>>
    PROVE  WireIInv'
<1>1. ServerKept
      BY ServerStays
<1>2. UNCHANGED <<nextImportId, nextExport>> /\ exports' = exports
      BY DEF server
<1>3. \A e \in exports' : \E f \in exports :
         e.id = f.id /\ e.call = f.call /\ (e.pulled => f.pulled)
      BY <1>2
<1>4. PushesPaired' /\ ClientAhead' /\ PullsOwned' /\ ExportsOwned' /\ AnswersNamed'
      BY <1>2, <1>3, NumbersKeep
<1> QED BY <1>1, <1>4, Together

LEMMA HungUpTyped == ASSUME WireIInv PROVE hungUp \in BOOLEAN
  BY DEF WireIInv, JsonInv, WireTypeOK

\* An answer that finds its entry is the entry's own.
LEMMA AnswerFound ==
    ASSUME WireIInv, toClient # <<>>, Head(toClient).kind \in {"resolve", "reject"},
           NEW e \in Entries(Head(toClient))
    PROVE  e \in pending /\ e.id \in Nat /\ e.call = Head(toClient).call /\ e.call \in Calls
<1>1. WireTypeOK /\ AnswersNamed /\ Len(toClient) \in Nat
      BY Parts, LineFacts
<1>2. Head(toClient) = toClient[1] /\ 1 \in 1..Len(toClient)
      BY <1>1 DEF WireTypeOK
<1>3. e \in pending /\ e.id = toClient[1].id
      BY <1>2 DEF Entries
<1>4. Owns(toClient[1].id, toClient[1].call)
      BY <1>1, <1>2 DEF AnswersNamed
<1> QED BY <1>1, <1>2, <1>3, <1>4, PendingFacts DEF Owns

LEMMA HandleLineKeeps ==
    ASSUME WireIInv, HandleLine
    PROVE  WireIInv'
<1>1. toClient # <<>> /\ UNCHANGED <<nextImportId, server, hungUp>>
      BY DEF HandleLine
<1>2. hungUp' \in BOOLEAN
      BY <1>1, HungUpTyped
<1> DEFINE line == Head(toClient)
<1>3. ASSUME NEW e \in Entries(line), line.kind \in {"resolve", "reject"},
             NEW how \in Settlement, Settled(e, how, line.call), NextLine
      PROVE  WireIInv'
  <2>1. e \in pending /\ e.id \in Nat /\ e.call = line.call
        BY <1>1, <1>3, AnswerFound
  <2>2. TableKept
        BY <1>1, <1>3, <2>1, SettledKeeps
  <2>3. pending' \subseteq pending
        BY <1>3 DEF Settled
  <2>4. \/ toServer' = toServer
        \/ \E n \in Nat : toServer' = toServer \o <<Release(n)>>
        BY <1>3, <2>1 DEF Settled, SendLines
  <2> QED BY <1>1, <1>2, <1>3, <2>2, <2>3, <2>4, FewerAnswers, QuietStep
<1>4. CASE HandleResolve(line)
  <2>1. PICK e \in Entries(line) :
            Settled(e, IF line.call \in Undecodable THEN "rejected" ELSE "fulfilled", line.call)
        BY <1>4 DEF HandleResolve
  <2>2. line.kind = "resolve" /\ NextLine
        BY <1>4 DEF HandleResolve
  <2>3. (IF line.call \in Undecodable THEN "rejected" ELSE "fulfilled") \in Settlement
        BY DEF Settlement
  <2> QED BY <1>3, <2>1, <2>2, <2>3
<1>5. CASE HandleReject(line)
  <2>1. PICK e \in Entries(line) : Settled(e, "rejected", line.call)
        BY <1>5 DEF HandleReject
  <2>2. line.kind = "reject" /\ NextLine
        BY <1>5 DEF HandleReject
  <2>3. "rejected" \in Settlement
        BY DEF Settlement
  <2> QED BY <1>3, <2>1, <2>2, <2>3
<1>6. CASE HandleBadReject(line)
  <2>1. PICK e \in Entries(line) : pending' = pending \ {e}
        BY <1>6 DEF HandleBadReject
  <2>2. /\ line.kind = "reject" /\ line.call \in Undecodable /\ NextMessage
        /\ UNCHANGED <<promise, closed, answeredBy, toServer>>
        BY <1>6 DEF HandleBadReject
  <2>3. e.call = line.call
        BY <1>1, <2>2, AnswerFound
  <2>4. WireTypeOK /\ PendingIsTracked /\ AnswersAreOwned /\ WaitersPending
        BY Parts
  <2>5. PendingIsTracked'
    <3>1. ASSUME NEW c \in Calls, promise'[c] = "pending", c \notin Undecodable
          PROVE  \E f \in pending' : f.call = c
      <4>1. PICK f \in pending : f.call = c
            BY <2>2, <2>4, <3>1 DEF PendingIsTracked
      <4> QED BY <2>1, <2>2, <2>3, <3>1, <4>1
    <3> QED BY <3>1 DEF PendingIsTracked
  <2>6. AnswersAreOwned' /\ WaitersPending'
        BY <2>1, <2>2, <2>4 DEF AnswersAreOwned, WaitersPending
  <2>7. /\ promise' \in [Calls -> {"unissued", "thrown", "pending"} \cup Settlement]
        /\ answeredBy' \in [Calls -> Calls \cup {None}] /\ closed' \in BOOLEAN
        BY <2>2, <2>4 DEF WireTypeOK
  <2>8. TableKept
        BY <1>1, <2>1, <2>4, <2>5, <2>6, <2>7, FewerPending DEF TableKept
  <2> QED BY <1>1, <1>2, <2>1, <2>2, <2>8, FewerAnswers, QuietStep
<1>7. CASE HandleUnknown(line)
  <2>1. NextLine /\ UNCHANGED <<promise, pending, closed, answeredBy, toServer>>
        BY <1>7 DEF HandleUnknown
  <2>2. TableKept /\ pending' \subseteq pending
        BY <1>1, <2>1, TableStays DEF client
  <2> QED BY <1>1, <1>2, <2>1, <2>2, FewerAnswers, QuietStep
<1>8. CASE HandleAbort(line)
  <2>1. Shutdown /\ NextLine /\ toServer' = toServer
        BY <1>8 DEF HandleAbort
  <2> QED BY <1>1, <1>2, <2>1, ShutdownKeeps, FewerAnswers, QuietStep
<1>9. CASE HandleGarbage(line)
  <2>1. Shutdown /\ NextMessage /\ toServer' = toServer
        BY <1>9 DEF HandleGarbage
  <2> QED BY <1>1, <1>2, <2>1, ShutdownKeeps, FewerAnswers, QuietStep
<1> QED BY <1>4, <1>5, <1>6, <1>7, <1>8, <1>9 DEF HandleLine

LEMMA CloseKeeps ==
    ASSUME WireIInv, Close \/ HearHangUp \/ HangUp
    PROVE  WireIInv'
<1>1. CASE Close
  <2>1. /\ Shutdown /\ hungUp' = TRUE /\ toClient' = <<>> /\ toServer' = toServer
        /\ UNCHANGED <<nextImportId, server>>
        BY <1>1 DEF Close
  <2> QED BY <2>1, ShutdownKeeps, SameAnswers, QuietStep
<1>2. CASE HearHangUp
  <2>1. /\ Shutdown /\ hungUp' = hungUp /\ toClient' = toClient /\ toServer' = toServer
        /\ UNCHANGED <<nextImportId, server>>
        BY <1>2 DEF HearHangUp
  <2> QED BY <2>1, HungUpTyped, ShutdownKeeps, SameAnswers, QuietStep
<1>3. CASE HangUp
  <2>1. /\ hungUp' = TRUE /\ toServer' = <<>> /\ toClient' = toClient
        /\ UNCHANGED <<client, server>>
        BY <1>3 DEF HangUp
  <2>2. nextImportId' = nextImportId /\ pending' \subseteq pending
        BY <2>1 DEF client
  <2> QED BY <2>1, <2>2, TableStays, SameAnswers, QuietStep
<1> QED BY <1>1, <1>2, <1>3

LEMMA DisturbKeeps ==
    ASSUME WireIInv, Disturb
    PROVE  WireIInv'
<1>1. UNCHANGED <<client, server, toServer, hungUp>>
      BY DEF Disturb
<1>2. PICK how \in {"abort", "garbage"} : SendToClient(how, 0, None)
      BY DEF Disturb
<1>3. how \in {"resolve", "reject", "abort", "garbage"} /\ how \notin {"resolve", "reject"}
      /\ 0 \in Nat /\ None \in Calls \cup {None}
      OBVIOUS
<1>4. AnswersKnown /\ toClient' \in Seq(ClientLines)
      BY <1>2, <1>3, MoreAnswers
<1>5. nextImportId' = nextImportId /\ pending' \subseteq pending
      BY <1>1 DEF client
<1> QED BY <1>1, <1>4, <1>5, HungUpTyped, TableStays, QuietStep

LEMMA AnswerKeeps ==
    ASSUME WireIInv, AnswerCall
    PROVE  WireIInv'
<1>1. UNCHANGED <<client, nextExport, toServer, hungUp>>
      BY DEF AnswerCall
<1>2. PICK e \in exports, how \in {"resolve", "reject"} :
          /\ e.pulled /\ ~e.answered
          /\ exports' = (exports \ {e}) \cup {[e EXCEPT !.answered = TRUE]}
          /\ SendToClient(how, e.id, e.call)
      BY DEF AnswerCall
<1>3. WireTypeOK /\ ExportsOwned
      BY Parts
<1>4. /\ e.id \in Nat /\ e.id < nextExport /\ e.call \in Calls
      /\ nextExport \in Nat
      BY <1>3, PendingFacts
<1>5. PICK f : /\ f = [e EXCEPT !.answered = TRUE]
               /\ f \in [id : 1..(nextExport - 1), call : Calls,
                         pulled : BOOLEAN, answered : BOOLEAN]
               /\ f.id = e.id /\ f.call = e.call /\ f.pulled
  <2>1. e \in [id : 1..(nextExport - 1), call : Calls, pulled : BOOLEAN, answered : BOOLEAN]
        BY <1>3 DEF WireTypeOK
  <2>2. [e EXCEPT !.answered = TRUE] \in
            [id : 1..(nextExport - 1), call : Calls, pulled : BOOLEAN, answered : BOOLEAN]
        BY <2>1
  <2>3. /\ [e EXCEPT !.answered = TRUE].id = e.id /\ [e EXCEPT !.answered = TRUE].call = e.call
        /\ [e EXCEPT !.answered = TRUE].pulled = e.pulled
        BY <2>1
  <2> QED BY <1>2, <2>2, <2>3
<1>6. exports' = (exports \ {e}) \cup {f}
      BY <1>2, <1>5
<1>7. AnswersKnown /\ toClient' \in Seq(ClientLines)
  <2>1. Owns(e.id, e.call)
        BY <1>2, <1>3 DEF ExportsOwned
  <2> QED BY <1>2, <1>4, <2>1, MoreAnswers
<1>8. nextImportId' = nextImportId /\ pending' \subseteq pending /\ nextExport' = nextExport
      BY <1>1 DEF client
<1>9. \A g \in exports' : \E h \in exports :
         g.id = h.id /\ g.call = h.call /\ (g.pulled => h.pulled)
      BY <1>2, <1>5, <1>6
<1>10. PushesPaired' /\ ClientAhead' /\ PullsOwned' /\ ExportsOwned' /\ AnswersNamed'
      BY <1>1, <1>7, <1>8, <1>9, NumbersKeep
<1>11. ServerKept
  <2>1. /\ exports' \subseteq [id : 1..(nextExport' - 1), call : Calls,
                               pulled : BOOLEAN, answered : BOOLEAN]
        /\ \A g \in exports' : g.answered => g.pulled
        BY <1>3, <1>5, <1>6, <1>8 DEF WireTypeOK
  <2>2. /\ nextImportId' \in Nat \ {0} /\ nextExport' \in Nat \ {0} /\ hungUp' \in BOOLEAN
        /\ toServer' \in Seq(ServerLines)
        BY <1>1, <1>3, <1>8 DEF WireTypeOK
  <2> QED BY <2>1, <2>2 DEF ServerKept
<1>12. TableKept
      BY <1>1, TableStays
<1> QED BY <1>7, <1>10, <1>11, <1>12, Together

-----------------------------------------------------------------------------
(* A call. *)

LEMMA CallClosedKeeps ==
    ASSUME WireIInv, NEW c \in Calls, CallClosed(c)
    PROVE  WireIInv'
<1>1. /\ promise[c] = "unissued" /\ promise' = [promise EXCEPT ![c] = "thrown"]
      /\ UNCHANGED <<nextImportId, pending, closed, answeredBy, server, toServer, toClient, hungUp>>
      BY DEF CallClosed
<1>2. WireTypeOK /\ PendingIsTracked /\ AnswersAreOwned /\ WaitersPending
      BY Parts
<1>3. /\ pending' \subseteq [id : KnownIds', call : Calls]
      /\ IsInjective([f \in pending' |-> f.id]) /\ IsInjective([f \in pending' |-> f.call])
      BY <1>1, <1>2, FewerPending
<1>4. /\ promise' \in [Calls -> {"unissued", "thrown", "pending"} \cup Settlement]
      /\ answeredBy' \in [Calls -> Calls \cup {None}] /\ closed' \in BOOLEAN
      BY <1>1, <1>2 DEF WireTypeOK
<1>5. \A d \in Calls : promise'[d] = "pending" <=> promise[d] = "pending"
      BY <1>1, <1>2 DEF WireTypeOK
<1>6. PendingIsTracked' /\ AnswersAreOwned'
      BY <1>1, <1>2, <1>5 DEF PendingIsTracked, AnswersAreOwned
<1>7. WaitersPending'
      BY <1>1, <1>2, <1>5, PendingFacts DEF WaitersPending
<1>8. TableKept
      BY <1>3, <1>4, <1>6, <1>7 DEF TableKept
<1> QED BY <1>1, <1>8, HungUpTyped, SameAnswers, QuietStep

\* Who waits for the new number is the new call; the others keep theirs.
LEMMA NewEntry ==
    ASSUME WireIInv, NEW c \in Calls, nextImportId' = nextImportId + 1,
           pending' \in {pending, pending \cup {[id |-> nextImportId, call |-> c]}}
    PROVE  /\ \A i, d : i < nextImportId /\ Owns(i, d) => Owns(i, d)'
           /\ \A e \in pending' : e.id = nextImportId => e.call = c
<1>1. WireTypeOK /\ nextImportId \in Nat
      BY Parts, PendingFacts
<1>2. \A e \in pending' : \/ e \in pending /\ e.id < nextImportId
                          \/ e.id = nextImportId /\ e.call = c
      BY <1>1, PendingFacts
<1>3. \A i : i < nextImportId => i # nextImportId
      BY <1>1
<1>4. ASSUME NEW i, NEW d, i < nextImportId, Owns(i, d)
      PROVE  Owns(i, d)'
      BY <1>2, <1>3, <1>4 DEF Owns
<1>5. \A e \in pending : e.id < nextImportId /\ e.id \in Nat
      BY <1>1, PendingFacts
<1>6. \A e \in pending : e.id # nextImportId
      BY <1>1, <1>5
<1>7. \A e \in pending' : e.id = nextImportId => e.call = c
      BY <1>2, <1>6
<1> QED BY <1>4, <1>7

\* A call that waits.
LEMMA WaitsKeeps ==
    ASSUME WireIInv, NEW c \in Calls, ~closed, promise[c] = "unissued",
           nextImportId' = nextImportId + 1,
           promise' = [promise EXCEPT ![c] = "pending"],
           pending' = pending \cup {[id |-> nextImportId, call |-> c]},
           UNCHANGED <<closed, answeredBy>>
    PROVE  TableKept
<1>1. /\ WireTypeOK /\ PendingIsTracked /\ AnswersAreOwned /\ WaitersPending
      /\ nextImportId \in Nat /\ nextImportId > 0
      BY Parts, PendingFacts
<1>2. PICK n : /\ n = [id |-> nextImportId, call |-> c]
               /\ n.id = nextImportId /\ n.call = c /\ n \in [id : KnownIds', call : Calls]
  <2>1. nextImportId \in KnownIds'
        BY <1>1 DEF KnownIds
  <2>2. [id |-> nextImportId, call |-> c] \in [id : KnownIds', call : Calls]
        BY <2>1
  <2> QED BY <2>2
<1>3. pending' = pending \cup {n}
      BY <1>2
<1>4. pending' \subseteq [id : KnownIds', call : Calls]
  <2>1. KnownIds \subseteq KnownIds'
        BY <1>1 DEF KnownIds
  <2>2. pending \subseteq [id : KnownIds, call : Calls]
        BY <1>1 DEF WireTypeOK
  <2> QED BY <1>2, <1>3, <2>1, <2>2
<1>5. \A e \in pending : e.id # n.id /\ e.call # n.call
  <2>1. \A e \in pending : e.id < nextImportId
        BY <1>1, PendingFacts
  <2>2. \A e \in pending : e.id # nextImportId
        BY <1>1, <2>1, PendingFacts
  <2>3. \A e \in pending : e.call # c
        BY <1>1 DEF WaitersPending
  <2> QED BY <1>2, <2>2, <2>3
<1>6. \A e, f \in pending' : (e.id = f.id \/ e.call = f.call) => e = f
      BY <1>1, <1>3, <1>5, PendingFacts
<1>7. IsInjective([f \in pending' |-> f.id]) /\ IsInjective([f \in pending' |-> f.call])
      BY <1>6 DEF IsInjective
<1>8. /\ promise' \in [Calls -> {"unissued", "thrown", "pending"} \cup Settlement]
      /\ answeredBy' \in [Calls -> Calls \cup {None}] /\ closed' \in BOOLEAN
      /\ \A d \in Calls : promise'[d] = IF d = c THEN "pending" ELSE promise[d]
      BY <1>1 DEF WireTypeOK
<1>9. PendingIsTracked'
      BY <1>1, <1>2, <1>3, <1>8 DEF PendingIsTracked
<1>10. AnswersAreOwned'
      BY <1>1 DEF AnswersAreOwned
<1>11. WaitersPending'
      BY <1>1, <1>2, <1>3, <1>8, PendingFacts DEF WaitersPending
<1> QED BY <1>4, <1>7, <1>8, <1>9, <1>10, <1>11 DEF TableKept

\* A call that throws.
LEMMA ThrowsKeeps ==
    ASSUME WireIInv, NEW c \in Calls, promise[c] = "unissued",
           nextImportId' = nextImportId + 1,
           promise' = [promise EXCEPT ![c] = "thrown"],
           UNCHANGED <<pending, closed, answeredBy>>
    PROVE  TableKept
<1>1. /\ WireTypeOK /\ PendingIsTracked /\ AnswersAreOwned /\ WaitersPending
      /\ nextImportId \in Nat
      BY Parts, PendingFacts
<1>2. /\ pending' \subseteq [id : KnownIds', call : Calls]
      /\ IsInjective([f \in pending' |-> f.id]) /\ IsInjective([f \in pending' |-> f.call])
  <2>1. KnownIds \subseteq KnownIds'
        BY <1>1 DEF KnownIds
  <2>2. /\ pending \subseteq [id : KnownIds, call : Calls]
        /\ IsInjective([f \in pending |-> f.id]) /\ IsInjective([f \in pending |-> f.call])
        BY <1>1 DEF WireTypeOK
  <2>3. pending' \subseteq [id : KnownIds', call : Calls]
        BY <2>1, <2>2
  <2> QED BY <2>2, <2>3
<1>3. /\ promise' \in [Calls -> {"unissued", "thrown", "pending"} \cup Settlement]
      /\ answeredBy' \in [Calls -> Calls \cup {None}] /\ closed' \in BOOLEAN
      /\ \A d \in Calls : promise'[d] = "pending" <=> promise[d] = "pending"
      BY <1>1 DEF WireTypeOK
<1>4. PendingIsTracked' /\ AnswersAreOwned'
      BY <1>1, <1>3 DEF PendingIsTracked, AnswersAreOwned
<1>5. WaitersPending'
      BY <1>1, <1>3, PendingFacts DEF WaitersPending
<1> QED BY <1>2, <1>3, <1>4, <1>5 DEF TableKept

\* Its lines, when they go.
LEMMA CalledKeeps ==
    ASSUME WireIInv, NEW c \in Calls, nextImportId' = nextImportId + 1,
           UNCHANGED <<server, toClient>>,
           \/ /\ toServer' = toServer
              /\ pending' \in {pending, pending \cup {[id |-> nextImportId, call |-> c]}}
           \/ /\ toServer' = toServer \o <<Push(c), Pull(nextImportId)>>
              /\ pending' = pending \cup {[id |-> nextImportId, call |-> c]}
    PROVE  /\ PushesPaired' /\ ClientAhead'
           /\ PullsOwned' /\ ExportsOwned' /\ AnswersNamed'
           /\ toServer' \in Seq(ServerLines)
<1>1. /\ WireTypeOK /\ PullsOwned /\ ExportsOwned /\ AnswersNamed /\ ClientAhead
      /\ nextImportId \in Nat /\ nextExport \in Nat
      BY Parts, PendingFacts
<1>2. exports' = exports /\ nextExport' = nextExport /\ toClient' = toClient
      BY DEF server
<1>3. pending' \in {pending, pending \cup {[id |-> nextImportId, call |-> c]}}
      OBVIOUS
<1>4. \A i, d : i < nextImportId /\ Owns(i, d) => Owns(i, d)'
      BY <1>3, NewEntry
<1>5. \A i \in Nat : i < nextExport => i < nextImportId
      BY <1>1 DEF ClientAhead
<1>6. AnswersNamed'
  <2>1. ASSUME NEW i \in 1..Len(toClient), toClient[i].kind \in {"resolve", "reject"}
        PROVE  toClient[i].id < nextExport /\ Owns(toClient[i].id, toClient[i].call)'
    <3>1. toClient[i].id < nextExport /\ Owns(toClient[i].id, toClient[i].call)
          BY <1>1, <2>1 DEF AnswersNamed
    <3>2. PICK n \in Nat : n = toClient[i].id
          BY <1>1, LineFacts
    <3>3. PICK d : d = toClient[i].call
          OBVIOUS
    <3>4. Owns(n, d)'
          BY <1>4, <1>5, <3>1, <3>2, <3>3
    <3>5. \A e \in pending' : e.id = toClient[i].id => e.call = toClient[i].call
          BY <3>2, <3>3, <3>4 DEF Owns
    <3> QED BY <1>2, <3>1, <3>5 DEF Owns
  <2> QED BY <1>2, <2>1 DEF AnswersNamed
<1>7. ASSUME NEW e \in exports, Owns(e.id, e.call)
      PROVE  Owns(e.id, e.call)'
  <2>1. e.id < nextImportId
        BY <1>1, <1>5, PendingFacts
  <2> QED BY <1>4, <1>7, <2>1
<1>8. CASE toServer' = toServer
  <2>1. nextImportId' \in Nat /\ nextImportId <= nextImportId'
        BY <1>1
  <2>2. PushesPaired' /\ ClientAhead'
        BY <1>2, <1>8, <2>1, QueueStays
  <2>3. PullsOwned'
    <3>1. ASSUME NEW i \in 2..Len(toServer), toServer[i].kind = "pull"
          PROVE  \A e \in pending' : e.id = toServer[i].id => e.call = toServer[i - 1].call
      <4>1. i \in 1..Len(toServer)
            BY <1>1, LineFacts
      <4>2. toServer[i].id < nextImportId
            BY <1>1, <3>1, <4>1 DEF ClientAhead
      <4>3. Owns(toServer[i].id, toServer[i - 1].call)
            BY <1>1, <3>1 DEF PullsOwned
      <4>4. PICK n, d : n = toServer[i].id /\ d = toServer[i - 1].call
            OBVIOUS
      <4>5. Owns(n, d)'
            BY <1>4, <4>2, <4>3, <4>4
      <4> QED BY <4>4, <4>5 DEF Owns
    <3> QED BY <1>8, <3>1 DEF PullsOwned, Owns
  <2>4. ExportsOwned'
        BY <1>1, <1>2, <1>7, <1>8 DEF ExportsOwned
  <2>5. toServer' \in Seq(ServerLines)
        BY <1>1, <1>8 DEF WireTypeOK
  <2> QED BY <1>6, <2>2, <2>3, <2>4, <2>5
<1>9. CASE /\ toServer' = toServer \o <<Push(c), Pull(nextImportId)>>
           /\ pending' = pending \cup {[id |-> nextImportId, call |-> c]}
  <2>1. PushesPaired' /\ ClientAhead'
        BY <1>2, <1>9, QueueCalls
  <2>2. PICK l \in Nat : l = Len(toServer)
        BY <1>1, LineFacts
  <2>3. /\ toServer' \in Seq(ServerLines) /\ Len(toServer') = l + 2
        /\ \A i \in 1..l : toServer'[i] = toServer[i]
        /\ toServer'[l + 1] = Push(c) /\ toServer'[l + 2] = Pull(nextImportId)
    <3>1. toServer \in Seq(ServerLines) /\ Push(c) \in ServerLines /\ Pull(nextImportId) \in ServerLines
          BY <1>1, LinesTyped DEF WireTypeOK
    <3> QED BY <1>9, <2>2, <3>1, Lines
  <2>4. /\ toServer'[l + 1].kind = "push" /\ toServer'[l + 1].call = c
        /\ toServer'[l + 2].kind = "pull" /\ toServer'[l + 2].id = nextImportId
        BY <1>1, <2>3, LinesTyped
  <2>5. \A e \in pending' : e.id = nextImportId => e.call = c
        BY <1>3, NewEntry
  <2>6. PullsOwned'
    <3>1. ASSUME NEW i \in 2..(l + 2), toServer'[i].kind = "pull"
          PROVE  \A e \in pending' : e.id = toServer'[i].id => e.call = toServer'[i - 1].call
      <4>1. i \in 2..l \/ i = l + 1 \/ i = l + 2
            OBVIOUS
      <4>2. CASE i \in 2..l
        <5>1. i \in 1..l /\ i - 1 \in 1..l
              BY <4>2
        <5>2. /\ toServer'[i] = toServer[i] /\ toServer'[i - 1] = toServer[i - 1]
              /\ toServer[i].kind = "pull"
              BY <2>3, <3>1, <5>1
        <5>3. toServer[i].id < nextImportId
              BY <1>1, <2>2, <5>1, <5>2 DEF ClientAhead
        <5>4. Owns(toServer[i].id, toServer[i - 1].call)
              BY <1>1, <2>2, <4>2, <5>2 DEF PullsOwned
        <5>5. PICK n, d : n = toServer[i].id /\ d = toServer[i - 1].call
              OBVIOUS
        <5>6. Owns(n, d)'
              BY <1>4, <5>3, <5>4, <5>5
        <5> QED BY <5>2, <5>5, <5>6 DEF Owns
      <4>3. CASE i = l + 1
            BY <2>4, <3>1, <4>3
      <4>4. CASE i = l + 2
        <5>1. i - 1 = l + 1
              BY <4>4
        <5> QED BY <2>4, <2>5, <4>4, <5>1
      <4> QED BY <4>1, <4>2, <4>3, <4>4
    <3> QED BY <2>3, <3>1 DEF PullsOwned, Owns
  <2>7. ExportsOwned'
    <3>1. ASSUME NEW e \in exports, toServer' # <<>>, toServer'[1].kind = "pull",
                 toServer'[1].id = e.id
          PROVE  Owns(e.id, e.call)
      <4>1. CASE l = 0
            BY <2>4, <3>1, <4>1
      <4>2. CASE l # 0
        <5>1. 1 \in 1..l /\ toServer # <<>>
              BY <2>2, <4>2
        <5>2. toServer'[1] = toServer[1]
              BY <2>3, <5>1
        <5> QED BY <1>1, <3>1, <5>1, <5>2 DEF ExportsOwned
      <4> QED BY <4>1, <4>2
    <3> QED BY <1>1, <1>2, <1>7, <3>1 DEF ExportsOwned
  <2> QED BY <1>6, <2>1, <2>3, <2>6, <2>7
<1> QED BY <1>8, <1>9

LEMMA CallKeeps ==
    ASSUME WireIInv, NEW c \in Calls, Call(c)
    PROVE  WireIInv'
<1>1. /\ promise[c] = "unissued" /\ ~closed /\ nextImportId' = nextImportId + 1
      /\ UNCHANGED <<closed, answeredBy, server, toClient, hungUp>>
      BY DEF Call
<1>2. \/ /\ promise' = [promise EXCEPT ![c] = "thrown"]
         /\ UNCHANGED <<toServer, pending>>
      \/ /\ SendLines(<<Push(c), Pull(nextImportId)>>)
         /\ promise' = [promise EXCEPT ![c] = "pending"]
         /\ pending' = pending \cup {[id |-> nextImportId, call |-> c]}
      BY DEF Call
<1>3. TableKept
      BY <1>1, <1>2, WaitsKeeps, ThrowsKeeps
<1>4. \/ /\ toServer' = toServer
         /\ pending' \in {pending, pending \cup {[id |-> nextImportId, call |-> c]}}
      \/ /\ toServer' = toServer \o <<Push(c), Pull(nextImportId)>>
         /\ pending' = pending \cup {[id |-> nextImportId, call |-> c]}
      BY <1>2 DEF SendLines
<1>5. /\ PushesPaired' /\ ClientAhead'
      /\ PullsOwned' /\ ExportsOwned' /\ AnswersNamed'
      /\ toServer' \in Seq(ServerLines)
      BY <1>1, <1>4, CalledKeeps
<1>6. ServerKept /\ toClient' \in Seq(ClientLines)
  <2>1. WireTypeOK /\ nextImportId \in Nat
        BY Parts, PendingFacts
  <2>2. exports' = exports /\ nextExport' = nextExport
        BY <1>1 DEF server
  <2>3. nextImportId' \in Nat \ {0}
        BY <1>1, <2>1
  <2>4. /\ nextExport' \in Nat \ {0} /\ hungUp' \in BOOLEAN
        /\ exports' \subseteq [id : 1..(nextExport' - 1), call : Calls,
                               pulled : BOOLEAN, answered : BOOLEAN]
        /\ \A e \in exports' : e.answered => e.pulled
        /\ toClient' \in Seq(ClientLines)
        BY <1>1, <2>1, <2>2 DEF WireTypeOK
  <2> QED BY <1>5, <2>3, <2>4 DEF ServerKept
<1> QED BY <1>3, <1>5, <1>6, Together

-----------------------------------------------------------------------------
(* The server receives a line. *)

\* What every receive does to the lines behind it.
LEMMA Received ==
    ASSUME WireIInv, UNCHANGED client, toServer # <<>>, toServer' = Tail(toServer),
           nextExport' = IF toServer[1].kind = "push" THEN nextExport + 1 ELSE nextExport,
           hungUp' = hungUp, AnswersKnown, toClient' \in Seq(ClientLines)
    PROVE  /\ PushesPaired' /\ ClientAhead' /\ PullsOwned' /\ AnswersNamed' /\ TableKept
           /\ toServer' \in Seq(ServerLines) /\ hungUp' \in BOOLEAN
           /\ nextImportId' \in Nat \ {0} /\ nextExport' \in Nat \ {0}
           /\ Head(toServer) = toServer[1] /\ 1 \in 1..Len(toServer)
           /\ toServer[1] \in ServerLines /\ toServer[1].id \in Nat
           /\ toServer' # <<>> => 2 \in 2..Len(toServer) /\ toServer'[1] = toServer[2]
<1>1. /\ WireTypeOK /\ PullsOwned
      /\ nextExport \in Nat /\ nextExport > 0 /\ nextImportId \in Nat /\ nextImportId > 0
      BY Parts, PendingFacts
<1>2. nextImportId' = nextImportId /\ pending' = pending
      BY DEF client
<1>3. PushesPaired' /\ ClientAhead'
      BY <1>2, QueueReceived
<1>4. TableKept
      BY TableStays
<1>5. nextExport' \in Nat \ {0} /\ nextExport <= nextExport' /\ nextImportId' \in Nat \ {0}
      BY <1>1, <1>2
<1>6. AnswersNamed'
      BY <1>2, <1>5, AnswersKeep
<1>7. PICK l \in Nat :
         /\ l = Len(toServer') /\ Len(toServer) = l + 1
         /\ toServer' \in Seq(ServerLines)
         /\ \A i \in 1..l : toServer'[i] = toServer[i + 1]
         /\ Head(toServer) = toServer[1] /\ toServer[1] \in ServerLines
  <2>1. toServer \in Seq(ServerLines)
        BY <1>1 DEF WireTypeOK
  <2>2. /\ toServer' \in Seq(ServerLines) /\ Len(toServer') = Len(toServer) - 1
        /\ Len(toServer) > 0
        /\ \A i \in 1..Len(toServer') : toServer'[i] = toServer[i + 1]
        /\ Head(toServer) = toServer[1] /\ toServer[1] \in ServerLines
        BY <2>1, Lines
  <2>3. Len(toServer) \in Nat
        BY <2>1
  <2>4. Len(toServer') \in Nat /\ Len(toServer) = Len(toServer') + 1
        BY <2>2, <2>3
  <2> QED BY <2>2, <2>4
<1>8. PullsOwned'
  <2>1. ASSUME NEW i \in 2..l, toServer'[i].kind = "pull"
        PROVE  \A e \in pending : e.id = toServer'[i].id => e.call = toServer'[i - 1].call
    <3>1. /\ i \in 1..l /\ i - 1 \in 1..l /\ (i - 1) + 1 = i /\ (i + 1) - 1 = i
          /\ i + 1 \in 2..(l + 1)
          OBVIOUS
    <3>2. toServer'[i] = toServer[i + 1] /\ toServer'[i - 1] = toServer[i]
          BY <1>7, <3>1
    <3>3. Owns(toServer[i + 1].id, toServer[(i + 1) - 1].call)
          BY <1>1, <1>7, <2>1, <3>1, <3>2 DEF PullsOwned
    <3> QED BY <3>1, <3>2, <3>3 DEF Owns
  <2> QED BY <1>2, <1>7, <2>1 DEF PullsOwned, Owns
<1>9. toServer[1].id \in Nat /\ 1 \in 1..Len(toServer)
  <2>1. 1 \in 1..Len(toServer)
        BY <1>7
  <2> QED BY <1>1, <2>1, LineFacts
<1>10. ASSUME toServer' # <<>>
       PROVE  2 \in 2..Len(toServer) /\ toServer'[1] = toServer[2]
  <2>1. l # 0
        BY <1>7, <1>10
  <2>2. 1 \in 1..l /\ 2 \in 2..(l + 1) /\ 1 + 1 = 2
        BY <2>1
  <2> QED BY <1>7, <2>2
<1> QED BY <1>3, <1>4, <1>5, <1>6, <1>7, <1>8, <1>9, <1>10, HungUpTyped

LEMMA ReceivePushKeeps ==
    ASSUME WireIInv, ReceivePush
    PROVE  WireIInv'
<1>1. /\ toServer # <<>> /\ Head(toServer).kind = "push" /\ toServer' = Tail(toServer)
      /\ nextExport' = nextExport + 1
      /\ UNCHANGED <<client, toClient, hungUp>>
      BY DEF ReceivePush
<1>2. /\ WireTypeOK /\ PushesPaired /\ ClientAhead /\ PullsOwned /\ ExportsOwned
      /\ nextExport \in Nat /\ nextExport > 0
      BY Parts, PendingFacts
<1>3. Head(toServer) = toServer[1]
      BY <1>1, <1>2, Lines DEF WireTypeOK
<1>4. AnswersKnown /\ toClient' \in Seq(ClientLines)
      BY <1>1, SameAnswers
<1>5. nextExport' = IF toServer[1].kind = "push" THEN nextExport + 1 ELSE nextExport
      BY <1>1, <1>3
<1>6. /\ PushesPaired' /\ ClientAhead' /\ PullsOwned' /\ AnswersNamed' /\ TableKept
      /\ toServer' \in Seq(ServerLines) /\ hungUp' \in BOOLEAN
      /\ nextImportId' \in Nat \ {0} /\ nextExport' \in Nat \ {0}
      /\ 1 \in 1..Len(toServer)
      /\ toServer' # <<>> => 2 \in 2..Len(toServer) /\ toServer'[1] = toServer[2]
      BY <1>1, <1>4, <1>5, Received
<1>7. toServer[1].call \in Calls
      BY <1>1, <1>2, <1>3, <1>6 DEF PushesPaired
<1>8. PICK n : /\ exports' = exports \cup {n}
               /\ n \in [id : 1..(nextExport' - 1), call : Calls,
                         pulled : BOOLEAN, answered : BOOLEAN]
               /\ n.id = nextExport /\ n.call = toServer[1].call /\ ~n.pulled /\ ~n.answered
  <2> DEFINE n == [id |-> nextExport, call |-> toServer[1].call,
                   pulled |-> FALSE, answered |-> FALSE]
  <2>1. exports' = exports \cup {n}
        BY <1>3 DEF ReceivePush
  <2>2. nextExport \in 1..(nextExport' - 1)
        BY <1>1, <1>2
  <2>3. /\ n \in [id : 1..(nextExport' - 1), call : Calls, pulled : BOOLEAN, answered : BOOLEAN]
        /\ n.id = nextExport /\ n.call = toServer[1].call /\ ~n.pulled /\ ~n.answered
        BY <1>7, <2>2
  <2> QED BY <2>1, <2>3
<1>9. ServerKept
  <2>1. 1..(nextExport - 1) \subseteq 1..(nextExport' - 1)
        BY <1>1, <1>2
  <2>2. exports \subseteq [id : 1..(nextExport - 1), call : Calls,
                           pulled : BOOLEAN, answered : BOOLEAN]
        BY <1>2 DEF WireTypeOK
  <2>3. exports' \subseteq [id : 1..(nextExport' - 1), call : Calls,
                            pulled : BOOLEAN, answered : BOOLEAN]
        BY <1>8, <2>1, <2>2
  <2>4. \A e \in exports' : e.answered => e.pulled
        BY <1>2, <1>8 DEF WireTypeOK
  <2> QED BY <1>6, <2>3, <2>4 DEF ServerKept
<1>10. pending' = pending
      BY <1>1 DEF client
<1>11. ExportsOwned'
  <2>1. ASSUME NEW e \in exports
        PROVE  /\ e.pulled => Owns(e.id, e.call)
               /\ toServer' # <<>> /\ toServer'[1].kind = "pull" => toServer'[1].id # e.id
    <3>1. ASSUME toServer' # <<>>, toServer'[1].kind = "pull"
          PROVE  toServer'[1].id # e.id
      <4>1. 2 \in 1..Len(toServer) /\ 2 # 1 /\ toServer'[1] = toServer[2]
            BY <1>6, <3>1
      <4>2. nextExport <= toServer[2].id
            BY <1>2, <3>1, <4>1 DEF ClientAhead
      <4>3. toServer[2].id \in Nat
            BY <1>2, <4>1, LineFacts
      <4>4. e.id \in Nat /\ e.id < nextExport
            BY <1>2, PendingFacts
      <4>5. \A i, j \in Nat : i < nextExport /\ nextExport <= j => j # i
            BY <1>2
      <4> QED BY <4>1, <4>2, <4>3, <4>4, <4>5
    <3> QED BY <1>2, <3>1 DEF ExportsOwned
  <2>2. ASSUME toServer' # <<>>, toServer'[1].kind = "pull", toServer'[1].id = nextExport
        PROVE  Owns(nextExport, toServer[1].call)
    <3>1. 2 \in 2..Len(toServer) /\ 2 - 1 = 1 /\ toServer'[1] = toServer[2]
          BY <1>6, <2>2
    <3>2. Owns(toServer[2].id, toServer[2 - 1].call)
          BY <1>2, <2>2, <3>1 DEF PullsOwned
    <3> QED BY <2>2, <3>1, <3>2
  <2>3. ASSUME NEW e \in exports'
        PROVE  /\ e.pulled => Owns(e.id, e.call)
               /\ toServer' # <<>> /\ toServer'[1].kind = "pull" /\ toServer'[1].id = e.id =>
                      Owns(e.id, e.call)
    <3>1. CASE e \in exports
          BY <2>1, <3>1
    <3>2. CASE e = n
          BY <1>8, <2>2, <3>2
    <3> QED BY <1>8, <3>1, <3>2
  <2> QED BY <1>10, <2>3 DEF ExportsOwned, Owns
<1> QED BY <1>4, <1>6, <1>9, <1>11, Together

\* After a pull or a release, the next line is no pull.
LEMMA NotAPull ==
    ASSUME WireIInv, toServer # <<>>, toServer[1].kind # "push",
           toServer' # <<>> => 2 \in 2..Len(toServer) /\ toServer'[1] = toServer[2]
    PROVE  ~(toServer' # <<>> /\ toServer'[1].kind = "pull")
<1>1. PushesPaired /\ 2 - 1 = 1
      BY Parts
<1> QED BY <1>1 DEF PushesPaired

LEMMA ReceivePullKeeps ==
    ASSUME WireIInv, ReceivePull
    PROVE  WireIInv'
<1> DEFINE known == {e \in exports : e.id = Head(toServer).id}
<1>1. /\ toServer # <<>> /\ Head(toServer).kind = "pull" /\ toServer' = Tail(toServer)
      /\ nextExport' = nextExport
      /\ UNCHANGED <<client, hungUp>>
      /\ exports' = (exports \ known) \cup {[e EXCEPT !.pulled = TRUE] : e \in known}
      BY DEF ReceivePull
<1>2. toClient' = toClient \/ SendToClient("abort", 0, None)
      BY DEF ReceivePull
<1>3. WireTypeOK /\ ExportsOwned /\ nextExport \in Nat
      BY Parts, PendingFacts
<1>4. Head(toServer) = toServer[1]
      BY <1>1, <1>3, Lines DEF WireTypeOK
<1>5. AnswersKnown /\ toClient' \in Seq(ClientLines)
  <2>1. CASE toClient' = toClient
        BY <2>1, SameAnswers
  <2>2. CASE SendToClient("abort", 0, None)
    <3>1. /\ "abort" \in {"resolve", "reject", "abort", "garbage"}
          /\ "abort" \notin {"resolve", "reject"}
          /\ 0 \in Nat /\ None \in Calls \cup {None}
          OBVIOUS
    <3> QED BY <2>2, <3>1, MoreAnswers
  <2> QED BY <1>2, <2>1, <2>2
<1>6. nextExport' = IF toServer[1].kind = "push" THEN nextExport + 1 ELSE nextExport
      BY <1>1, <1>4
<1>7. /\ PushesPaired' /\ ClientAhead' /\ PullsOwned' /\ AnswersNamed' /\ TableKept
      /\ toServer' \in Seq(ServerLines) /\ hungUp' \in BOOLEAN
      /\ nextImportId' \in Nat \ {0} /\ nextExport' \in Nat \ {0}
      /\ toServer' # <<>> => 2 \in 2..Len(toServer) /\ toServer'[1] = toServer[2]
      BY <1>1, <1>5, <1>6, Received
<1>8. ~(toServer' # <<>> /\ toServer'[1].kind = "pull")
      BY <1>1, <1>4, <1>7, NotAPull
<1>9. exports \subseteq [id : 1..(nextExport - 1), call : Calls,
                         pulled : BOOLEAN, answered : BOOLEAN]
      BY <1>3 DEF WireTypeOK
<1>10. ASSUME NEW f \in exports'
       PROVE  /\ f \in [id : 1..(nextExport - 1), call : Calls,
                        pulled : BOOLEAN, answered : BOOLEAN]
              /\ f.answered => f.pulled
              /\ f.pulled => Owns(f.id, f.call)
  <2>1. CASE f \in exports
        BY <1>3, <1>9, <2>1 DEF WireTypeOK, ExportsOwned
  <2>2. CASE f \notin exports
    <3>1. PICK e \in exports : e.id = toServer[1].id /\ f = [e EXCEPT !.pulled = TRUE]
          BY <1>1, <1>4, <2>2
    <3>2. e \in [id : 1..(nextExport - 1), call : Calls, pulled : BOOLEAN, answered : BOOLEAN]
          BY <1>9
    <3>3. /\ f \in [id : 1..(nextExport - 1), call : Calls,
                    pulled : BOOLEAN, answered : BOOLEAN]
          /\ f.id = e.id /\ f.call = e.call /\ f.pulled
          BY <3>1, <3>2
    <3>4. Owns(e.id, e.call)
          BY <1>1, <1>3, <1>4, <3>1 DEF ExportsOwned
    <3> QED BY <3>3, <3>4
  <2> QED BY <2>1, <2>2
<1>11. ServerKept
  <2>1. /\ exports' \subseteq [id : 1..(nextExport' - 1), call : Calls,
                               pulled : BOOLEAN, answered : BOOLEAN]
        /\ \A f \in exports' : f.answered => f.pulled
        BY <1>1, <1>10
  <2> QED BY <1>7, <2>1 DEF ServerKept
<1>12. pending' = pending
      BY <1>1 DEF client
<1>13. ExportsOwned'
      BY <1>8, <1>10, <1>12 DEF ExportsOwned, Owns
<1> QED BY <1>5, <1>7, <1>11, <1>13, Together

LEMMA ReceiveReleaseKeeps ==
    ASSUME WireIInv, ReceiveRelease
    PROVE  WireIInv'
<1>1. /\ toServer # <<>> /\ Head(toServer).kind = "release" /\ toServer' = Tail(toServer)
      /\ nextExport' = nextExport
      /\ UNCHANGED <<client, toClient, hungUp>>
      /\ exports' \subseteq exports
      BY DEF ReceiveRelease
<1>2. WireTypeOK /\ ExportsOwned
      BY Parts
<1>3. Head(toServer) = toServer[1]
      BY <1>1, <1>2, Lines DEF WireTypeOK
<1>4. AnswersKnown /\ toClient' \in Seq(ClientLines)
      BY <1>1, SameAnswers
<1>5. nextExport' = IF toServer[1].kind = "push" THEN nextExport + 1 ELSE nextExport
      BY <1>1, <1>3
<1>6. /\ PushesPaired' /\ ClientAhead' /\ PullsOwned' /\ AnswersNamed' /\ TableKept
      /\ toServer' \in Seq(ServerLines) /\ hungUp' \in BOOLEAN
      /\ nextImportId' \in Nat \ {0} /\ nextExport' \in Nat \ {0}
      /\ toServer' # <<>> => 2 \in 2..Len(toServer) /\ toServer'[1] = toServer[2]
      BY <1>1, <1>4, <1>5, Received
<1>7. ~(toServer' # <<>> /\ toServer'[1].kind = "pull")
      BY <1>1, <1>3, <1>6, NotAPull
<1>8. ServerKept
  <2>1. /\ exports' \subseteq [id : 1..(nextExport' - 1), call : Calls,
                               pulled : BOOLEAN, answered : BOOLEAN]
        /\ \A f \in exports' : f.answered => f.pulled
        BY <1>1, <1>2 DEF WireTypeOK
  <2> QED BY <1>6, <2>1 DEF ServerKept
<1>9. pending' = pending
      BY <1>1 DEF client
<1>10. ExportsOwned'
      BY <1>1, <1>2, <1>7, <1>9 DEF ExportsOwned, Owns
<1> QED BY <1>4, <1>6, <1>8, <1>10, Together

-----------------------------------------------------------------------------

LEMMA WireInitially == WireInit => WireIInv
<1> SUFFICES ASSUME WireInit PROVE WireIInv
    OBVIOUS
<1>1. /\ promise = [c \in Calls |-> "unissued"] /\ nextImportId = 1 /\ nextExport = 1
      /\ pending = {} /\ exports = {} /\ closed = FALSE /\ hungUp = FALSE
      /\ answeredBy = [c \in Calls |-> None]
      BY DEF WireInit
<1>2. /\ toServer = <<>> /\ toClient = <<>> /\ Len(toServer) = 0 /\ Len(toClient) = 0
      /\ toServer \in Seq(ServerLines) /\ toClient \in Seq(ClientLines)
      BY DEF WireInit
<1>3. WireTypeOK
  <2>1. IsInjective([e \in pending |-> e.id]) /\ IsInjective([e \in pending |-> e.call])
        BY <1>1 DEF IsInjective
  <2>2. /\ promise \in [Calls -> {"unissued", "thrown", "pending"} \cup Settlement]
        /\ answeredBy \in [Calls -> Calls \cup {None}]
        BY <1>1
  <2>3. nextImportId \in Nat \ {0} /\ nextExport \in Nat \ {0}
        BY <1>1
  <2>4. closed \in BOOLEAN /\ hungUp \in BOOLEAN
        BY <1>1
  <2>5. /\ pending \subseteq [id : KnownIds, call : Calls]
        /\ exports \subseteq [id : 1..(nextExport - 1), call : Calls,
                              pulled : BOOLEAN, answered : BOOLEAN]
        /\ \A e \in exports : e.answered => e.pulled
        BY <1>1
  <2> QED BY <1>2, <2>1, <2>2, <2>3, <2>4, <2>5 DEF WireTypeOK
<1>4. PendingIsTracked /\ AnswersAreOwned /\ WaitersPending
      BY <1>1 DEF PendingIsTracked, AnswersAreOwned, WaitersPending
<1>5. PushesPaired /\ ClientAhead /\ PullsOwned /\ ExportsOwned /\ AnswersNamed
      BY <1>1, <1>2 DEF PushesPaired, ClientAhead, PullsOwned, ExportsOwned, AnswersNamed
<1> QED BY <1>3, <1>4, <1>5 DEF WireIInv, JsonInv

LEMMA WireStutters == WireIInv /\ UNCHANGED wireVars => WireIInv'
<1> SUFFICES ASSUME WireIInv, UNCHANGED wireVars PROVE WireIInv'
    OBVIOUS
<1>1. UNCHANGED <<client, server, toServer, toClient, hungUp>>
      BY DEF wireVars
<1>2. UNCHANGED nextImportId /\ pending' \subseteq pending
      BY <1>1 DEF client
<1> QED BY <1>1, <1>2, HungUpTyped, TableStays, SameAnswers, QuietStep

LEMMA WireInductive == WireIInv /\ [WireNext]_wireVars => WireIInv'
<1> SUFFICES ASSUME WireIInv, [WireNext]_wireVars PROVE WireIInv'
    OBVIOUS
<1>1. ASSUME NEW c \in Calls, Call(c) PROVE WireIInv'
      BY <1>1, CallKeeps
<1>2. ASSUME NEW c \in Calls, CallClosed(c) PROVE WireIInv'
      BY <1>2, CallClosedKeeps
<1>3. CASE HandleLine
      BY <1>3, HandleLineKeeps
<1>4. CASE Close \/ HearHangUp \/ HangUp
      BY <1>4, CloseKeeps
<1>5. CASE ReceivePush
      BY <1>5, ReceivePushKeeps
<1>6. CASE ReceivePull
      BY <1>6, ReceivePullKeeps
<1>7. CASE ReceiveRelease
      BY <1>7, ReceiveReleaseKeeps
<1>8. CASE AnswerCall
      BY <1>8, AnswerKeeps
<1>9. CASE Disturb
      BY <1>9, DisturbKeeps
<1>10. CASE UNCHANGED wireVars
      BY <1>10, WireStutters
<1> QED BY <1>1, <1>2, <1>3, <1>4, <1>5, <1>6, <1>7, <1>8, <1>9, <1>10 DEF WireNext, Serve

\* However many calls use up a number without being sent, and whatever a
\* line to the client is, alone or in a message, the table of pending calls
\* finds every promise that waits, and no call is given another's answer.
THEOREM AnswersFind == WireSpec => []JsonInv
<1>1. WireIInv => JsonInv
      BY DEF WireIInv
<1> QED BY WireInitially, WireInductive, <1>1, PTL DEF WireSpec

-----------------------------------------------------------------------------
(* The chat room *)

\* The room has given out m.
GivenOut(m) == m.life < life \/ (m.life = life /\ m.id < nextId)

\* Nothing is on a pane, or on its way to one, that the room did not give out.
PanesKnow ==
    /\ \A p \in Panes : \A m \in shown[p] : GivenOut(m)
    /\ \A s \in Streams : \A m \in generator[s].held : GivenOut(m)
    /\ \A p \in Pollers : \A m \in response[p] : GivenOut(m)

\* What a generator does: only one that has yielded holds a chunk or is in
\* the replay, which is behind no message that it has brought.
GeneratorsFollow ==
    \A s \in Streams :
        LET g == generator[s]
        IN  /\ g.stage # "yielded" => g.at = 0 /\ g.held = {}
            /\ s \in connected => g.stage # "off"
            /\ g.at <= Len(history) + 1
            /\ g.at # 0 => \A m \in shown[s] \cup g.held :
                   m.life = life => m.id + Len(history) + 1 < nextId + g.at

\* The cursor is the highest id that was rendered, and a response is all that
\* the history had behind it.
CursorsFollow ==
    \A p \in Pollers :
        /\ \A n \in shown[p] : n.id <= cursor[p]
        /\ cursor[p] # 0 => \E n \in shown[p] : n.id = cursor[p]
        /\ \A r \in response[p] : cursor[p] < r.id
        /\ response[p] # {} => \E r \in response[p] : \A q \in response[p] : q.id <= r.id
        /\ \A r \in response[p], m \in ToSet(history) :
               r.life = life /\ cursor[p] < m.id /\ m.id <= r.id => m \in response[p]

RoomIInv ==
    /\ RoomInv /\ StreamsUpToDate
    /\ PanesKnow /\ GeneratorsFollow /\ CursorsFollow

-----------------------------------------------------------------------------
(* The history *)

LEMMA MinOfTwo ==
    ASSUME NEW a \in Nat, NEW b \in Nat
    PROVE  Min({a, b}) = IF a <= b THEN a ELSE b
<1>1. CASE a <= b
  <2>1. a \in {a, b} /\ \A y \in {a, b} : a =< y
        BY <1>1
  <2>2. \A x \in {a, b} : (\A y \in {a, b} : x =< y) => x = a
        BY <1>1
  <2>3. Min({a, b}) = a
        BY <2>1, <2>2 DEF Min
  <2> QED BY <2>3, <1>1
<1>2. CASE ~(a <= b)
  <2>1. b \in {a, b} /\ \A y \in {a, b} : b =< y
        BY <1>2
  <2>2. \A x \in {a, b} : (\A y \in {a, b} : x =< y) => x = b
        BY <1>2
  <2>3. Min({a, b}) = b
        BY <2>1, <2>2 DEF Min
  <2> QED BY <2>3, <1>2
<1> QED BY <1>1, <1>2

\* What the history holds: the messages whose ids are in a window that ends
\* below nextId.
LEMMA HistoryFacts ==
    ASSUME RoomTypeOK, HistoryIsLatest
    PROVE  /\ life \in Nat /\ nextId \in Nat /\ HistoryLimit \in Nat /\ HistoryLimit > 0
           /\ history \in Seq(Messages) /\ Len(history) \in Nat
           /\ Len(history) <= HistoryLimit /\ Len(history) < nextId
           /\ Len(history) < HistoryLimit => Len(history) = nextId - 1
           /\ \A i \in 1..Len(history) :
                 /\ history[i] \in Messages
                 /\ history[i] = [life |-> life, id |-> nextId - 1 - Len(history) + i]
                 /\ history[i].life = life /\ history[i].id = nextId - 1 - Len(history) + i
<1>1. /\ life \in Nat /\ nextId \in Nat /\ nextId - 1 \in Nat
      /\ HistoryLimit \in Nat /\ HistoryLimit > 0
      BY RoomAssumption DEF RoomTypeOK, RoomAssumption
<1>2. history \in Seq(Messages) /\ Len(history) \in Nat
      BY DEF RoomTypeOK
<1>3. Len(history) = IF HistoryLimit <= nextId - 1 THEN HistoryLimit ELSE nextId - 1
      BY <1>1, MinOfTwo DEF HistoryIsLatest
<1>4. ASSUME NEW i \in 1..Len(history)
      PROVE  /\ history[i] \in Messages
             /\ history[i] = [life |-> life, id |-> nextId - 1 - Len(history) + i]
             /\ history[i].life = life /\ history[i].id = nextId - 1 - Len(history) + i
  <2>1. history[i] \in Messages
        BY <1>2
  <2>2. history[i] = [life |-> life, id |-> nextId - 1 - Len(history) + i]
        BY DEF HistoryIsLatest
  <2> QED BY <2>1, <2>2
<1> QED BY <1>1, <1>2, <1>3, <1>4

LEMMA HistorySet ==
    ASSUME RoomTypeOK, HistoryIsLatest
    PROVE  /\ \A i \in 1..Len(history) : history[i] \in ToSet(history)
           /\ \A m \in ToSet(history) :
                 /\ m \in Messages /\ m.life = life /\ m.id \in Nat
                 /\ nextId <= m.id + Len(history) /\ m.id < nextId
                 /\ \E i \in 1..Len(history) : m = history[i]
           /\ \A m \in Messages :
                 m.life = life /\ nextId <= m.id + Len(history) /\ m.id < nextId
                     => m \in ToSet(history)
<1>1. ToSet(history) = {history[i] : i \in 1..Len(history)}
      BY HistoryFacts DEF ToSet
<1>2. ASSUME NEW m \in ToSet(history)
      PROVE  /\ m \in Messages /\ m.life = life /\ m.id \in Nat
             /\ nextId <= m.id + Len(history) /\ m.id < nextId
             /\ \E i \in 1..Len(history) : m = history[i]
  <2>1. PICK i \in 1..Len(history) : m = history[i]
        BY <1>1
  <2>2. m.id = nextId - 1 - Len(history) + i
        BY <2>1, HistoryFacts
  <2>3. m.id \in Nat /\ nextId <= m.id + Len(history) /\ m.id < nextId
        BY <2>2, HistoryFacts
  <2> QED BY <2>1, <2>3, HistoryFacts
<1>3. ASSUME NEW m \in Messages, m.life = life,
             nextId <= m.id + Len(history), m.id < nextId
      PROVE  m \in ToSet(history)
  <2> DEFINE i == m.id + Len(history) + 1 - nextId
  <2>1. m.id \in Nat /\ m = [life |-> m.life, id |-> m.id]
        BY DEF Messages
  <2>2. i \in 1..Len(history) /\ nextId - 1 - Len(history) + i = m.id
        BY <1>3, <2>1, HistoryFacts
  <2>3. history[i] = [life |-> life, id |-> m.id]
        BY <2>2, HistoryFacts
  <2>4. m = history[i]
        BY <1>3, <2>1, <2>3
  <2> QED BY <1>1, <2>2, <2>4
<1> QED BY <1>1, <1>2, <1>3

\* The message that is posted now.
NewMessage == [life |-> life, id |-> nextId]

\* A post appends its message, and may push out the oldest.
LEMMA Posted ==
    ASSUME RoomTypeOK, HistoryIsLatest, Post
    PROVE  /\ NewMessage \in Messages /\ NewMessage.life = life /\ NewMessage.id = nextId
           /\ nextId' = nextId + 1 /\ life' = life
           /\ history' \in Seq(Messages) /\ Len(history') \in Nat
           /\ Len(history) < HistoryLimit =>
                 /\ Len(history') = Len(history) + 1
                 /\ \A i \in 1..Len(history) : history'[i] = history[i]
                 /\ history'[Len(history) + 1] = NewMessage
           /\ Len(history) = HistoryLimit =>
                 /\ Len(history') = Len(history)
                 /\ \A i \in 1..(Len(history) - 1) : history'[i] = history[i + 1]
                 /\ history'[Len(history)] = NewMessage
<1> DEFINE h == Append(history, NewMessage)
<1>1. /\ NewMessage \in Messages /\ NewMessage.life = life /\ NewMessage.id = nextId
      BY DEF Post, RoomTypeOK, Messages, NewMessage
<1>2. nextId' = nextId + 1 /\ life' = life /\ history' = Trimmed(h)
      BY DEF Post, NewMessage
<1>3. /\ h \in Seq(Messages) /\ Len(h) = Len(history) + 1
      /\ \A i \in 1..Len(history) : h[i] = history[i]
      /\ h[Len(history) + 1] = NewMessage
      BY <1>1, HistoryFacts
<1>4. CASE Len(history) < HistoryLimit
  <2>1. history' = h
        BY <1>2, <1>3, <1>4, HistoryFacts DEF Trimmed
  <2> QED BY <1>1, <1>2, <1>3, <1>4, <2>1, HistoryFacts
<1>5. CASE Len(history) = HistoryLimit
  <2>1. history' = Tail(h)
        BY <1>2, <1>3, <1>5, HistoryFacts DEF Trimmed
  <2>2. h # <<>>
        BY <1>3, HistoryFacts
  <2>3. PICK t : t = Tail(h)
        OBVIOUS
  <2>4. t \in Seq(Messages) /\ Len(t) = Len(history) /\ \A i \in 1..Len(history) : t[i] = h[i + 1]
    <3> HIDE DEF h
    <3> QED BY <1>3, <2>2, <2>3, HistoryFacts
  <2>5. \A i \in 1..(Len(history) - 1) : t[i] = history[i + 1]
    <3> HIDE DEF h
    <3> TAKE i \in 1..(Len(history) - 1)
    <3>1. i \in 1..Len(history) /\ i + 1 \in 1..Len(history)
          BY HistoryFacts
    <3>2. t[i] = h[i + 1] /\ h[i + 1] = history[i + 1]
          BY <3>1, <1>3, <2>4
    <3> QED BY <3>2
  <2>6. t[Len(history)] = NewMessage
    <3> HIDE DEF h
    <3>1. Len(history) \in 1..Len(history)
          BY <1>5, HistoryFacts
    <3>2. t[Len(history)] = h[Len(history) + 1]
          BY <3>1, <2>4
    <3> QED BY <3>2, <1>3
  <2> HIDE DEF h
  <2> QED BY <1>1, <1>2, <1>5, <2>1, <2>3, <2>4, <2>5, <2>6, HistoryFacts
<1> QED BY <1>4, <1>5, HistoryFacts

\* In either case what was at i is at i or below, and the rest is new.
LEMMA PostedSet ==
    ASSUME RoomTypeOK, HistoryIsLatest, Post
    PROVE  /\ HistoryIsLatest'
           /\ ToSet(history') \subseteq ToSet(history) \cup {NewMessage}
<1>1. /\ MaxPosts \in Nat /\ nextId - 1 \in Nat
      BY RoomAssumption, HistoryFacts DEF RoomAssumption, RoomTypeOK
<1>2. Len(history') = IF HistoryLimit <= nextId THEN HistoryLimit ELSE nextId
      BY Posted, HistoryFacts
<1>3. Len(history') = Min({HistoryLimit, nextId' - 1})
  <2>1. nextId' - 1 = nextId
        BY Posted, HistoryFacts
  <2>2. Min({HistoryLimit, nextId}) = IF HistoryLimit <= nextId THEN HistoryLimit ELSE nextId
        BY HistoryFacts, MinOfTwo
  <2> QED BY <1>2, <2>1, <2>2
<1>4. ASSUME NEW i \in 1..Len(history')
      PROVE  /\ history'[i] = [life |-> life', id |-> nextId' - 1 - Len(history') + i]
             /\ history'[i] \in ToSet(history) \cup {NewMessage}
  <2>1. CASE Len(history) < HistoryLimit
    <3>1. Len(history') = Len(history) + 1
          BY <2>1, Posted
    <3>2. CASE i \in 1..Len(history)
      <4>1. history'[i] = history[i]
            BY <2>1, <3>2, Posted
      <4>2. history[i] = [life |-> life, id |-> nextId - 1 - Len(history) + i]
            BY <3>2, HistoryFacts
      <4>3. nextId' - 1 - Len(history') + i = nextId - 1 - Len(history) + i
            BY <3>1, Posted, HistoryFacts
      <4> QED BY <3>2, <4>1, <4>2, <4>3, Posted, HistorySet
    <3>3. CASE i = Len(history) + 1
      <4>1. history'[i] = NewMessage
            BY <2>1, <3>3, Posted
      <4>2. nextId' - 1 - Len(history') + i = nextId
            BY <3>1, <3>3, Posted, HistoryFacts
      <4> QED BY <4>1, <4>2, Posted DEF NewMessage
    <3> QED BY <3>1, <3>2, <3>3, HistoryFacts
  <2>2. CASE Len(history) = HistoryLimit
    <3>1. Len(history') = Len(history)
          BY <2>2, Posted
    <3>2. CASE i \in 1..(Len(history) - 1)
      <4>1. history'[i] = history[i + 1]
            BY <2>2, <3>2, Posted
      <4>2. i + 1 \in 1..Len(history)
            BY <3>2, HistoryFacts
      <4>3. history[i + 1] = [life |-> life, id |-> nextId - 1 - Len(history) + (i + 1)]
            BY <4>2, HistoryFacts
      <4>4. nextId' - 1 - Len(history') + i = nextId - 1 - Len(history) + (i + 1)
            BY <3>1, Posted, HistoryFacts
      <4> QED BY <4>1, <4>2, <4>3, <4>4, Posted, HistorySet
    <3>3. CASE i = Len(history)
      <4>1. history'[i] = NewMessage
            BY <2>2, <3>3, Posted
      <4>2. nextId' - 1 - Len(history') + i = nextId
            BY <3>1, <3>3, Posted, HistoryFacts
      <4> QED BY <4>1, <4>2, Posted DEF NewMessage
    <3> QED BY <3>1, <3>2, <3>3, HistoryFacts
  <2> QED BY <2>1, <2>2, HistoryFacts
<1>5. ToSet(history') = {history'[i] : i \in 1..Len(history')}
      BY Posted DEF ToSet
<1> QED BY <1>3, <1>4, <1>5 DEF HistoryIsLatest


-----------------------------------------------------------------------------
(* The parts of the invariant, one by one. *)

LEMMA RoomInitially == RoomInit => RoomIInv
<1> SUFFICES ASSUME RoomInit PROVE RoomIInv
    OBVIOUS
<1>1. /\ Len(history) = 0 /\ DOMAIN history = {} /\ ToSet(history) = {}
      /\ nextId - 1 = 0 /\ 1..Len(history) = {}
      BY DEF RoomInit, ToSet
<1>2. /\ HistoryLimit \in Nat \ {0} /\ MaxPosts \in Nat /\ MaxLives \in Nat \ {0}
      BY RoomAssumption DEF RoomAssumption
<1>3. RoomTypeOK
  <2>1. /\ life \in 1..MaxLives /\ nextId \in 1..(MaxPosts + 1) /\ history \in Seq(Messages)
        BY <1>2 DEF RoomInit
  <2>2. generator \in [Streams -> [stage : {"off", "yielded", "parked"},
                                   at : 0..(HistoryLimit + 1), held : SUBSET Messages]]
        BY <1>2 DEF RoomInit, Generator
  <2>3. /\ response \in [Pollers -> SUBSET Messages] /\ cursor \in [Pollers -> 0..MaxPosts]
        /\ shown \in [Panes -> SUBSET Messages] /\ skipped \in [Streams -> SUBSET Messages]
        BY <1>2 DEF RoomInit
  <2> QED BY <2>1, <2>2, <2>3 DEF RoomInit, RoomTypeOK
<1>4. HistoryIsLatest
  <2>1. Min({HistoryLimit, 0}) = 0
        BY <1>2, MinOfTwo
  <2> QED BY <1>1, <2>1 DEF HistoryIsLatest
<1>5. /\ \A s \in Streams : generator[s].stage = "off" /\ generator[s].at = 0 /\ generator[s].held = {}
      /\ connected = {} /\ stubs = {}
      /\ \A p \in Panes : shown[p] = {}
      /\ \A p \in Pollers : response[p] = {} /\ cursor[p] = 0 /\ shown[p] = {}
      BY DEF RoomInit, Generator, Panes
<1>6. CursorsTell /\ StubsUpToDate /\ StreamsInOrder /\ StreamsUpToDate
      BY <1>1, <1>5 DEF CursorsTell, StubsUpToDate, StreamsInOrder, StreamsUpToDate
<1>7. PanesKnow /\ CursorsFollow
      BY <1>5 DEF PanesKnow, CursorsFollow
<1>8. GeneratorsFollow
      BY <1>1, <1>5 DEF GeneratorsFollow
<1> QED BY <1>3, <1>4, <1>6, <1>7, <1>8 DEF RoomIInv, RoomInv

\* What the generators of a well-formed room are.
LEMMA GeneratorFacts ==
    ASSUME RoomTypeOK, NEW s \in Streams
    PROVE  /\ generator[s].stage \in {"off", "yielded", "parked"}
           /\ generator[s].at \in Nat /\ generator[s].at <= HistoryLimit + 1
           /\ generator[s].held \subseteq Messages
           /\ generator[s] = Generator(generator[s].stage, generator[s].at, generator[s].held)
           /\ s \in Panes /\ s \notin Stubs /\ s \notin Pollers
           /\ shown[s] \subseteq Messages /\ skipped[s] \subseteq Messages
<1>1. /\ HistoryLimit \in Nat /\ s \in Panes /\ s \notin Stubs /\ s \notin Pollers
      BY RoomAssumption DEF RoomAssumption, Panes
<1>2. /\ generator[s] \in [stage : {"off", "yielded", "parked"},
                           at : 0..(HistoryLimit + 1), held : SUBSET Messages]
      /\ shown[s] \subseteq Messages /\ skipped[s] \subseteq Messages
      BY <1>1 DEF RoomTypeOK
<1> QED BY <1>1, <1>2 DEF Generator

\* The fields of a generator.
LEMMA GeneratorFields ==
    ASSUME NEW g, NEW a, NEW h
    PROVE  /\ Generator(g, a, h).stage = g
           /\ Generator(g, a, h).at = a
           /\ Generator(g, a, h).held = h
  BY DEF Generator

\* Where the next run of a generator leaves it.
LEMMA NextFromFacts ==
    ASSUME RoomTypeOK, HistoryIsLatest, NEW at \in Nat
    PROVE  /\ at # 0 /\ at <= Len(history) =>
                 /\ NextFrom(at).stage = "yielded" /\ NextFrom(at).at = at + 1
                 /\ NextFrom(at).held = {history[at]} /\ at \in 1..Len(history)
           /\ ~(at # 0 /\ at <= Len(history)) =>
                 /\ NextFrom(at).stage = "parked" /\ NextFrom(at).at = 0
                 /\ NextFrom(at).held = {}
           /\ NextFrom(at) \in [stage : {"off", "yielded", "parked"},
                                at : 0..(HistoryLimit + 1), held : SUBSET Messages]
<1>1. CASE at # 0 /\ at <= Len(history)
  <2>1. at \in 1..Len(history)
        BY <1>1, HistoryFacts
  <2>2. history[at] \in Messages /\ at + 1 \in 0..(HistoryLimit + 1)
        BY <2>1, HistoryFacts
  <2>3. NextFrom(at) = Generator("yielded", at + 1, {history[at]})
        BY <1>1 DEF NextFrom
  <2> QED BY <1>1, <2>1, <2>2, <2>3 DEF Generator
<1>2. CASE ~(at # 0 /\ at <= Len(history))
  <2>1. NextFrom(at) = Generator("parked", 0, {})
        BY <1>2 DEF NextFrom
  <2>2. 0 \in 0..(HistoryLimit + 1)
        BY HistoryFacts
  <2> QED BY <1>2, <2>1, <2>2 DEF Generator
<1> QED BY <1>1, <1>2

\* What a post does to one generator.
LEMMA PostedGenerator ==
    ASSUME RoomTypeOK, HistoryIsLatest, Post, NEW s \in Streams
    PROVE  /\ generator[s].stage = "parked" =>
                 generator'[s] = Generator("yielded", 0, {NewMessage})
           /\ generator[s].stage # "parked" => generator'[s] = generator[s]
           /\ shown'[s] = shown[s]
           /\ skipped'[s] = skipped[s] \cup
                 PassedOver(generator[s], Append(history, NewMessage), NewMessage)
<1>1. generator'[s] = Woken(generator[s], NewMessage)
      BY DEF Post, NewMessage
<1>2. ~Pushed(s) /\ s \in Panes
      BY RoomAssumption DEF RoomAssumption, Pushed, RoomTypeOK, Panes
<1>3. shown'[s] = shown[s]
      BY <1>2 DEF Post
<1>4. skipped'[s] = skipped[s] \cup
          PassedOver(generator[s], Append(history, NewMessage), NewMessage)
      BY DEF Post, NewMessage
<1> QED BY <1>1, <1>3, <1>4 DEF Woken


\* An answered poll renders the whole response, and moves the cursor to the
\* highest id in it.
LEMMA Answered ==
    ASSUME RoomIInv, NEW p \in Pollers, PollAnswered(p)
    PROVE  /\ shown'[p] = shown[p] \cup response[p] /\ response'[p] = {}
           /\ \A q \in Panes : q # p => shown'[q] = shown[q]
           /\ \A q \in Pollers : q # p => response'[q] = response[q] /\ cursor'[q] = cursor[q]
           /\ response[p] = {} => cursor'[p] = cursor[p]
           /\ response[p] # {} => \E r \in response[p] : cursor'[p] = r.id
           /\ \A r \in response[p] : r.id <= cursor'[p]
           /\ cursor[p] <= cursor'[p] /\ cursor'[p] \in Nat /\ cursor[p] \in Nat
<1>1. RoomTypeOK /\ CursorsFollow
      BY DEF RoomIInv, RoomInv
<1>2. /\ p \in Panes /\ cursor[p] \in 0..MaxPosts /\ MaxPosts \in Nat
      /\ response[p] \subseteq Messages /\ shown[p] \subseteq Messages
      BY <1>1, RoomAssumption DEF RoomTypeOK, RoomAssumption, Panes
<1>3. \A r \in response[p] : r.id \in Nat /\ cursor[p] < r.id
      BY <1>1, <1>2 DEF CursorsFollow, Messages
<1>4. Unseen(p) = response[p]
  <2>1. ASSUME NEW m \in response[p], NEW n \in shown[p]
        PROVE  n.id # m.id
    <3>1. n.id <= cursor[p] /\ n.id \in Nat
          BY <1>1, <1>2 DEF CursorsFollow, Messages
    <3> QED BY <1>2, <1>3, <3>1
  <2> QED BY <2>1 DEF Unseen
<1>5. /\ shown'[p] = shown[p] \cup response[p] /\ response'[p] = {}
      /\ \A q \in Panes : q # p => shown'[q] = shown[q]
      /\ \A q \in Pollers : q # p => response'[q] = response[q] /\ cursor'[q] = cursor[q]
      BY <1>1, <1>2, <1>4 DEF PollAnswered, RoomTypeOK
<1>6. cursor'[p] = Max({cursor[p]} \cup {m.id : m \in response[p]})
      BY <1>1 DEF PollAnswered, RoomTypeOK
<1>7. CASE response[p] = {}
  <2>1. {cursor[p]} \cup {m.id : m \in response[p]} = {cursor[p]}
        BY <1>7
  <2>2. Max({cursor[p]}) = cursor[p]
        BY <1>2 DEF Max
  <2> QED BY <1>2, <1>5, <1>6, <1>7, <2>1, <2>2
<1>8. CASE response[p] # {}
  <2>1. PICK r \in response[p] : \A q \in response[p] : q.id <= r.id
        BY <1>1, <1>8 DEF CursorsFollow
  <2> DEFINE ids == {cursor[p]} \cup {m.id : m \in response[p]}
  <2>2. r.id \in ids /\ \A y \in ids : y \in Nat /\ r.id >= y
        BY <2>1, <1>2, <1>3
  <2>3. \A x \in ids : (\A y \in ids : x >= y) => x = r.id
    <3> HIDE DEF ids
    <3> QED BY <2>2
  <2>4. Max(ids) = r.id
    <3> HIDE DEF ids
    <3> QED BY <2>2, <2>3 DEF Max
  <2>5. cursor'[p] = r.id
        BY <1>6, <2>4
  <2> QED BY <1>2, <1>3, <1>5, <1>8, <2>1, <2>5
<1> QED BY <1>7, <1>8

LEMMA TypeKept ==
    ASSUME RoomIInv, RoomNext
    PROVE  RoomTypeOK'
<1>1. /\ RoomTypeOK /\ HistoryIsLatest
      /\ HistoryLimit \in Nat \ {0} /\ MaxPosts \in Nat /\ MaxLives \in Nat \ {0}
      BY RoomAssumption DEF RoomIInv, RoomInv, RoomAssumption
<1>2. CASE Post
  <2>1. /\ life' \in 1..MaxLives /\ nextId' \in 1..(MaxPosts + 1)
        /\ history' \in Seq(Messages) /\ NewMessage \in Messages
        BY <1>1, <1>2, Posted DEF Post, RoomTypeOK
  <2>2. ASSUME NEW s \in Streams
        PROVE  /\ Woken(generator[s], NewMessage) \in
                     [stage : {"off", "yielded", "parked"},
                      at : 0..(HistoryLimit + 1), held : SUBSET Messages]
               /\ PassedOver(generator[s], Append(history, NewMessage), NewMessage) \subseteq Messages
    <3>1. generator[s] \in [stage : {"off", "yielded", "parked"},
                            at : 0..(HistoryLimit + 1), held : SUBSET Messages]
          BY <1>1 DEF RoomTypeOK
    <3>2. Woken(generator[s], NewMessage) \in
              [stage : {"off", "yielded", "parked"},
               at : 0..(HistoryLimit + 1), held : SUBSET Messages]
          BY <1>1, <2>1, <3>1 DEF Woken, Generator
    <3>3. Append(history, NewMessage) \in Seq(Messages)
          BY <1>1, <2>1 DEF RoomTypeOK
    <3>4. PassedOver(generator[s], Append(history, NewMessage), NewMessage) \subseteq Messages
      <4>1. PICK h : h = Append(history, NewMessage)
            OBVIOUS
      <4>2. PassedOver(generator[s], h, NewMessage) \subseteq Messages
        <5>1. generator[s].at \in Nat
              BY <1>1, GeneratorFacts
        <5>2. generator[s].at # 0 /\ generator[s].at <= Len(h) => h[generator[s].at] \in Messages
              BY <3>3, <4>1, <5>1
        <5> QED BY <2>1, <5>2 DEF PassedOver
      <4> QED BY <4>1, <4>2
    <3> QED BY <3>2, <3>4
  <2>3. generator' = [s \in Streams |-> Woken(generator[s], NewMessage)]
        BY <1>2 DEF Post, NewMessage
  <2>4. shown' \in [Panes -> SUBSET Messages]
        BY <1>1, <1>2, <2>1 DEF Post, NewMessage, RoomTypeOK
  <2>5. skipped' = [s \in Streams |-> skipped[s] \cup
                       PassedOver(generator[s], Append(history, NewMessage), NewMessage)]
        BY <1>2 DEF Post, NewMessage
  <2>6. skipped' \in [Streams -> SUBSET Messages]
        BY <1>1, <2>2, <2>5 DEF RoomTypeOK
  <2>7. generator' \in [Streams -> [stage : {"off", "yielded", "parked"},
                                    at : 0..(HistoryLimit + 1), held : SUBSET Messages]]
        BY <2>2, <2>3
  <2>8. burst' = TRUE
        BY <1>2 DEF Post, Dispatching
  <2> QED BY <1>1, <1>2, <2>1, <2>4, <2>6, <2>7, <2>8
          DEF Post, kinds, polls, RoomTypeOK
<1>3. CASE Restart
  <2>1. generator' \in [Streams -> [stage : {"off", "yielded", "parked"},
                                    at : 0..(HistoryLimit + 1), held : SUBSET Messages]]
        BY <1>1, <1>3 DEF Restart, Generator
  <2>2. life' \in 1..MaxLives /\ nextId' \in 1..(MaxPosts + 1)
        BY <1>1, <1>3 DEF Restart, RoomTypeOK
  <2>3. history' \in Seq(Messages)
        BY <1>3 DEF Restart
  <2> QED BY <1>1, <1>3, <2>1, <2>2, <2>3 DEF Restart, kinds, polls, RoomTypeOK
<1>4. ASSUME NEW s \in Streams, Subscribe(s)
      PROVE  RoomTypeOK'
  <2>1. NextFrom(1) \in [stage : {"off", "yielded", "parked"},
                         at : 0..(HistoryLimit + 1), held : SUBSET Messages]
        BY <1>1, NextFromFacts
  <2>2. generator' = [generator EXCEPT ![s] = NextFrom(1)] /\ connected' = connected \cup {s}
        BY <1>4 DEF Subscribe
  <2>3. generator' \in [Streams -> [stage : {"off", "yielded", "parked"},
                                    at : 0..(HistoryLimit + 1), held : SUBSET Messages]]
        BY <1>1, <2>1, <2>2 DEF RoomTypeOK
  <2> QED BY <1>1, <1>4, <2>2, <2>3
          DEF Subscribe, Dispatching, kinds, side, polls, RoomTypeOK
<1>5. ASSUME NEW s \in Streams, Resume(s)
      PROVE  RoomTypeOK'
  <2>1. /\ generator[s].at \in Nat /\ generator[s].held \subseteq Messages /\ s \in Panes
        BY <1>1, GeneratorFacts
  <2>2. NextFrom(generator[s].at) \in [stage : {"off", "yielded", "parked"},
                         at : 0..(HistoryLimit + 1), held : SUBSET Messages]
        BY <1>1, <2>1, NextFromFacts
  <2>3. Generator("off", 0, {}) \in [stage : {"off", "yielded", "parked"},
                         at : 0..(HistoryLimit + 1), held : SUBSET Messages]
        BY <1>1 DEF Generator
  <2>4. \/ generator' = [generator EXCEPT ![s] = NextFrom(generator[s].at)]
        \/ generator' = [generator EXCEPT ![s] = Generator("off", 0, {})]
        BY <1>1, <1>5 DEF Resume, RoomTypeOK
  <2>5. generator' \in [Streams -> [stage : {"off", "yielded", "parked"},
                                    at : 0..(HistoryLimit + 1), held : SUBSET Messages]]
        BY <1>1, <2>2, <2>3, <2>4 DEF RoomTypeOK
  <2>6. shown' \in [Panes -> SUBSET Messages]
    <3>1. \/ shown' = [shown EXCEPT ![s] = shown[s] \cup generator[s].held]
          \/ shown' = shown
          BY <1>5 DEF Resume
    <3>2. shown \in [Panes -> SUBSET Messages]
          BY <1>1 DEF RoomTypeOK
    <3>3. shown[s] \cup generator[s].held \in SUBSET Messages
          BY <2>1, <3>2
    <3> QED BY <2>1, <3>1, <3>2, <3>3
  <2>7. UNCHANGED <<kinds, side, stubs, connected, polls, skipped>> /\ burst' = FALSE
        BY <1>5 DEF Resume
  <2> QED BY <1>1, <2>5, <2>6, <2>7 DEF kinds, side, polls, RoomTypeOK
<1>6. ASSUME NEW b \in Stubs, SubscribeStub(b)
      PROVE  RoomTypeOK'
  <2>1. ToSet(history) \subseteq Messages
        BY <1>1, HistorySet
  <2>2. shown' \in [Panes -> SUBSET Messages]
        BY <1>1, <1>6, <2>1 DEF SubscribeStub, RoomTypeOK
  <2> QED BY <1>1, <1>6, <2>2 DEF SubscribeStub, Dispatching, kinds, side, polls, RoomTypeOK
<1>7. ASSUME NEW b \in Stubs, DropStub(b)
      PROVE  RoomTypeOK'
      BY <1>1, <1>7 DEF DropStub, kinds, side, polls, RoomTypeOK
<1>8. ASSUME NEW p \in Pollers, Poll(p)
      PROVE  RoomTypeOK'
  <2>1. MessagesSince(cursor[p]) \subseteq Messages
        BY <1>1, HistorySet DEF MessagesSince
  <2>2. response' \in [Pollers -> SUBSET Messages] /\ poll' \in [Pollers -> {"idle", "waiting", "dead"}]
        BY <1>1, <1>8, <2>1 DEF Poll, RoomTypeOK
  <2> QED BY <1>1, <1>8, <2>2 DEF Poll, Dispatching, kinds, side, RoomTypeOK
<1>9. ASSUME NEW p \in Pollers, PollAnswered(p)
      PROVE  RoomTypeOK'
  <2>1. cursor'[p] \in 0..MaxPosts
    <3>1. cursor[p] \in 0..MaxPosts /\ \A r \in response[p] : r.id \in 0..MaxPosts
          BY <1>1 DEF RoomTypeOK, Messages
    <3> QED BY <1>9, <3>1, Answered
  <2>2. cursor' = [cursor EXCEPT ![p] = cursor'[p]]
        BY <1>1, <1>9 DEF PollAnswered, RoomTypeOK
  <2>3. cursor' \in [Pollers -> 0..MaxPosts]
        BY <1>1, <2>1, <2>2 DEF RoomTypeOK
  <2>4. Unseen(p) \subseteq Messages
        BY <1>1 DEF Unseen, RoomTypeOK
  <2>5. shown' \in [Panes -> SUBSET Messages]
        BY <1>1, <1>9, <2>4 DEF PollAnswered, RoomTypeOK
  <2>6. response' \in [Pollers -> SUBSET Messages] /\ poll' \in [Pollers -> {"idle", "waiting", "dead"}]
        BY <1>1, <1>9 DEF PollAnswered, RoomTypeOK
  <2> QED BY <1>1, <1>9, <2>3, <2>5, <2>6 DEF PollAnswered, kinds, side, RoomTypeOK
<1>10. ASSUME NEW p \in Pollers, PollFails(p)
       PROVE  RoomTypeOK'
  <2>1. response' \in [Pollers -> SUBSET Messages] /\ poll' \in [Pollers -> {"idle", "waiting", "dead"}]
        BY <1>1, <1>10 DEF PollFails, AfterFailure, RoomTypeOK
  <2> QED BY <1>1, <1>10, <2>1 DEF PollFails, kinds, side, RoomTypeOK
<1>11. ASSUME NEW p \in Panes, Disconnect(p)
       PROVE  RoomTypeOK'
       BY <1>1, <1>11 DEF Disconnect, kinds, side, polls, RoomTypeOK
<1> QED BY <1>2, <1>3, <1>4, <1>5, <1>6, <1>7, <1>8, <1>9, <1>10, <1>11 DEF RoomNext


\* What is on its way to a stream or on its pane is left alone by others.
LEMMA StreamsLeftAlone ==
    ASSUME RoomIInv, UNCHANGED <<life, history, nextId, generator, skipped>>,
           \A s \in Streams : shown'[s] = shown[s],
           \A s \in Streams : s \in connected' => s \in connected
    PROVE  StreamsUpToDate' /\ StreamsInOrder' /\ GeneratorsFollow'
<1>1. StreamsUpToDate /\ StreamsInOrder /\ GeneratorsFollow
      BY DEF RoomIInv, RoomInv
<1>2. StreamsUpToDate'
      BY <1>1 DEF StreamsUpToDate, Ahead
<1>3. StreamsInOrder'
      BY <1>1 DEF StreamsInOrder
<1>4. GeneratorsFollow'
      BY <1>1 DEF GeneratorsFollow
<1> QED BY <1>2, <1>3, <1>4

LEMMA PostStreams ==
    ASSUME RoomIInv, Post
    PROVE  StreamsUpToDate' /\ StreamsInOrder' /\ GeneratorsFollow'
<1>1. /\ RoomTypeOK /\ HistoryIsLatest /\ StreamsUpToDate /\ StreamsInOrder
      /\ GeneratorsFollow /\ PanesKnow
      BY DEF RoomIInv, RoomInv
<1>2. RoomTypeOK' /\ HistoryIsLatest' /\ connected' = connected
      BY <1>1, TypeKept, PostedSet DEF Post, RoomNext
<1>3. PICK h : h = Append(history, NewMessage)
      OBVIOUS
<1>4. /\ Len(h) = Len(history) + 1 /\ h[Len(history) + 1] = NewMessage
      /\ \A i \in 1..Len(history) : h[i] = history[i]
      BY <1>1, <1>3, HistoryFacts, Posted
<1>5. \* the replay has the same before it, but for what it leaves behind
      ASSUME NEW s \in Streams, generator[s].at # 0, generator'[s] = generator[s]
      PROVE  Ahead(generator[s]) \cup {NewMessage}
                 \subseteq Ahead(generator[s])' \cup PassedOver(generator[s], h, NewMessage)
  <2>1. /\ generator[s].stage = "yielded" /\ generator[s].at \in Nat
        /\ generator[s].at <= Len(history) + 1
        BY <1>1, <1>5, GeneratorFacts DEF GeneratorsFollow
  <2>2. PICK at \in Nat : at = generator[s].at
        BY <2>1
  <2>3. /\ Ahead(generator[s]) = {history[i] : i \in at..Len(history)}
        /\ Ahead(generator[s])' = {history'[i] : i \in at..Len(history')}
        BY <1>5, <2>2 DEF Ahead
  <2>4. CASE Len(history) < HistoryLimit
    <3>1. Len(history') = Len(history) + 1 /\ history'[Len(history) + 1] = NewMessage
          BY <1>1, <2>4, Posted
    <3>2. ASSUME NEW i \in at..Len(history)
          PROVE  history[i] \in Ahead(generator[s])'
      <4>1. i \in 1..Len(history) /\ i \in at..Len(history')
            BY <1>1, <1>5, <2>2, <3>1, HistoryFacts
      <4>2. history'[i] = history[i]
            BY <1>1, <2>4, <4>1, Posted
      <4> QED BY <2>3, <4>1, <4>2
    <3>3. NewMessage \in Ahead(generator[s])'
      <4>1. Len(history) + 1 \in at..Len(history')
            BY <1>1, <2>1, <2>2, <3>1, HistoryFacts
      <4> QED BY <2>3, <3>1, <4>1
    <3> QED BY <2>3, <3>2, <3>3
  <2>5. CASE Len(history) = HistoryLimit
    <3>1. Len(history') = Len(history) /\ history'[Len(history)] = NewMessage
          BY <1>1, <2>5, Posted
    <3>2. PassedOver(generator[s], h, NewMessage) = {h[at]}
          BY <1>1, <1>4, <1>5, <2>1, <2>2, <2>5, HistoryFacts DEF PassedOver
    <3>3. ASSUME NEW i \in at..Len(history), i # at
          PROVE  history[i] \in Ahead(generator[s])'
      <4>1. i - 1 \in 1..(Len(history) - 1) /\ i - 1 \in at..Len(history') /\ (i - 1) + 1 = i
            BY <1>1, <1>5, <2>2, <3>1, <3>3, HistoryFacts
      <4>2. history'[i - 1] = history[i]
            BY <1>1, <2>5, <4>1, Posted
      <4> QED BY <2>3, <4>1, <4>2
    <3>4. at <= Len(history) => h[at] = history[at]
          BY <1>1, <1>4, <1>5, <2>2, HistoryFacts
    <3>5. CASE at <= Len(history)
      <4>1. Len(history) \in at..Len(history')
            BY <1>1, <3>1, <3>5, HistoryFacts
      <4>2. NewMessage \in Ahead(generator[s])'
            BY <2>3, <3>1, <4>1
      <4> QED BY <2>3, <3>2, <3>3, <3>4, <3>5, <4>2
    <3>6. CASE ~(at <= Len(history))
      <4>1. at = Len(history) + 1
            BY <1>1, <2>1, <2>2, <3>6, HistoryFacts
      <4>2. h[at] = NewMessage /\ at..Len(history) = {}
            BY <1>1, <1>4, <4>1, HistoryFacts
      <4> QED BY <2>3, <3>2, <4>2
    <3> QED BY <3>5, <3>6
  <2> QED BY <1>1, <2>4, <2>5, HistoryFacts
<1>6. StreamsUpToDate'
  <2>1. SUFFICES ASSUME NEW s \in Streams, s \in connected
                 PROVE  ToSet(history') \subseteq shown'[s] \cup skipped'[s] \cup
                            generator'[s].held \cup Ahead(generator[s])'
        BY <1>2 DEF StreamsUpToDate
  <2>2. ToSet(history') \subseteq ToSet(history) \cup {NewMessage}
        BY <1>1, PostedSet
  <2>3. ToSet(history) \subseteq shown[s] \cup skipped[s] \cup
            generator[s].held \cup Ahead(generator[s])
        BY <1>1, <2>1 DEF StreamsUpToDate
  <2>4. shown'[s] = shown[s] /\ skipped'[s] = skipped[s] \cup PassedOver(generator[s], h, NewMessage)
        BY <1>1, <1>3, PostedGenerator
  <2>5. CASE generator[s].stage = "parked"
    <3>1. generator'[s].held = {NewMessage}
          BY <1>1, <2>5, PostedGenerator, GeneratorFields
    <3>2. generator[s].held = {} /\ Ahead(generator[s]) = {}
          BY <1>1, <2>5 DEF GeneratorsFollow, Ahead
    <3> QED BY <2>2, <2>3, <2>4, <3>1, <3>2
  <2>6. CASE generator[s].stage = "yielded"
    <3>1. generator'[s] = generator[s]
          BY <1>1, <2>6, PostedGenerator
    <3>2. CASE generator[s].at = 0
      <4>1. Ahead(generator[s]) = {} /\ PassedOver(generator[s], h, NewMessage) = {NewMessage}
            BY <2>6, <3>2 DEF Ahead, PassedOver
      <4> QED BY <2>2, <2>3, <2>4, <3>1, <4>1
    <3>3. CASE generator[s].at # 0
      <4>1. Ahead(generator[s]) \cup {NewMessage}
                \subseteq Ahead(generator[s])' \cup PassedOver(generator[s], h, NewMessage)
            BY <1>5, <3>1, <3>3
      <4> QED BY <2>2, <2>3, <2>4, <3>1, <4>1
    <3> QED BY <3>2, <3>3
  <2>7. generator[s].stage # "off"
        BY <1>1, <2>1 DEF GeneratorsFollow
  <2> QED BY <1>1, <2>5, <2>6, <2>7, GeneratorFacts
<1>7. StreamsInOrder'
  <2>1. SUFFICES ASSUME NEW s \in Streams, NEW m \in generator'[s].held, NEW n \in shown'[s],
                        n.life = m.life
                 PROVE  n.id < m.id
        BY DEF StreamsInOrder
  <2>2. shown'[s] = shown[s]
        BY <1>1, PostedGenerator
  <2>3. CASE generator[s].stage = "parked"
    <3>1. m = NewMessage
          BY <1>1, <2>1, <2>3, PostedGenerator, GeneratorFields
    <3>2. GivenOut(n)
          BY <1>1, <2>1, <2>2, GeneratorFacts DEF PanesKnow
    <3>3. life \in Nat /\ m.life = life /\ m.id = nextId
          BY <1>1, <3>1, Posted, HistoryFacts
    <3> QED BY <2>1, <3>2, <3>3 DEF GivenOut
  <2>4. CASE generator[s].stage # "parked"
    <3>1. generator'[s] = generator[s]
          BY <1>1, <2>4, PostedGenerator
    <3> QED BY <1>1, <2>1, <2>2, <3>1 DEF StreamsInOrder
  <2> QED BY <2>3, <2>4
<1>8. GeneratorsFollow'
  <2>1. SUFFICES ASSUME NEW s \in Streams
                 PROVE  /\ generator'[s].stage # "yielded" =>
                               generator'[s].at = 0 /\ generator'[s].held = {}
                        /\ s \in connected => generator'[s].stage # "off"
                        /\ generator'[s].at <= Len(history') + 1
                        /\ generator'[s].at # 0 =>
                              \A m \in shown'[s] \cup generator'[s].held :
                                 m.life = life =>
                                    m.id + Len(history') + 1 < nextId' + generator'[s].at
        BY <1>1, <1>2, Posted DEF GeneratorsFollow
  <2>2. Len(history') \in Nat /\ Len(history') >= Len(history) /\ nextId' = nextId + 1
        /\ Len(history') <= Len(history) + 1
        BY <1>1, Posted, HistoryFacts
  <2>3. shown'[s] = shown[s]
        BY <1>1, PostedGenerator
  <2>4. CASE generator[s].stage = "parked"
    <3>1. generator'[s] = Generator("yielded", 0, {NewMessage})
          BY <1>1, <2>4, PostedGenerator
    <3>2. generator'[s].stage = "yielded" /\ generator'[s].at = 0
          BY <3>1, GeneratorFields
    <3> QED BY <2>2, <3>2
  <2>5. CASE generator[s].stage # "parked"
    <3>1. generator'[s] = generator[s]
          BY <1>1, <2>5, PostedGenerator
    <3>2. /\ generator[s].at \in Nat /\ generator[s].at <= Len(history) + 1
          /\ generator[s].stage # "yielded" => generator[s].at = 0 /\ generator[s].held = {}
          /\ s \in connected => generator[s].stage # "off"
          BY <1>1, GeneratorFacts DEF GeneratorsFollow
    <3>3. ASSUME generator[s].at # 0, NEW m \in shown[s] \cup generator[s].held, m.life = life
          PROVE  m.id + Len(history') + 1 < nextId' + generator[s].at
      <4>1. m.id + Len(history) + 1 < nextId + generator[s].at
            BY <1>1, <3>3 DEF GeneratorsFollow
      <4>2. m.id \in Nat
            BY <1>1, GeneratorFacts DEF Messages
      <4>3. /\ nextId \in Nat /\ Len(history) \in Nat /\ Len(history') \in Nat
            /\ generator[s].at \in Nat /\ Len(history') <= Len(history) + 1
            BY <1>1, <2>2, <3>2, HistoryFacts
      <4>4. PICK i \in Nat, n \in Nat, l \in Nat, k \in Nat, a \in Nat :
                /\ i = m.id /\ n = nextId /\ l = Len(history) /\ k = Len(history')
                /\ a = generator[s].at
            BY <4>2, <4>3
      <4>5. i + l + 1 < n + a /\ k <= l + 1
            BY <4>1, <4>3, <4>4
      <4>6. i + k + 1 < (n + 1) + a
            BY <4>5
      <4> QED BY <2>2, <4>4, <4>6
    <3>4. generator[s].at <= Len(history') + 1
          BY <1>1, <2>2, <3>2, HistoryFacts
    <3> QED BY <2>3, <3>1, <3>2, <3>3, <3>4
  <2> QED BY <2>4, <2>5
<1> QED BY <1>6, <1>7, <1>8


\* A generator that runs on yields what is next in the history, or parks with
\* nothing before it.
LEMMA RunsOn ==
    ASSUME RoomIInv, NEW s \in Streams, NEW at \in Nat, at <= Len(history) + 1,
           NEW sent \in SUBSET Messages, NEW passed,
           ToSet(history) \subseteq sent \cup passed \cup
               (IF at = 0 THEN {} ELSE {history[i] : i \in at..Len(history)}),
           at # 0 => \A m \in sent : m.life = life => m.id + Len(history) + 1 < nextId + at
    PROVE  LET g == NextFrom(at)
           IN  /\ ToSet(history) \subseteq sent \cup passed \cup g.held \cup Ahead(g)
               /\ \A m \in g.held, n \in sent : n.life = m.life => n.id < m.id
               /\ \A m \in g.held : GivenOut(m)
               /\ g.stage # "off" /\ g.at <= Len(history) + 1
               /\ g.stage # "yielded" => g.at = 0 /\ g.held = {}
               /\ g.at # 0 => \A m \in sent \cup g.held :
                      m.life = life => m.id + Len(history) + 1 < nextId + g.at
<1>1. RoomTypeOK /\ HistoryIsLatest
      BY DEF RoomIInv, RoomInv
<1>2. PICK g : g = NextFrom(at)
      OBVIOUS
<1>3. \A m \in sent : m.id \in Nat
      BY DEF Messages
<1>4. CASE at # 0 /\ at <= Len(history)
  <2>1. /\ g.stage = "yielded" /\ g.at = at + 1 /\ g.held = {history[at]}
        /\ at \in 1..Len(history)
        BY <1>1, <1>2, <1>4, NextFromFacts
  <2>2. /\ history[at].life = life /\ history[at].id = nextId - 1 - Len(history) + at
        /\ history[at] \in Messages
        BY <1>1, <2>1, HistoryFacts
  <2>3. /\ life \in Nat /\ nextId \in Nat /\ Len(history) \in Nat /\ Len(history) < nextId
        BY <1>1, HistoryFacts
  <2>4. Ahead(g) = {history[i] : i \in (at + 1)..Len(history)}
        BY <2>1 DEF Ahead
  <2>5. {history[i] : i \in at..Len(history)} \subseteq g.held \cup Ahead(g)
    <3>1. ASSUME NEW i \in at..Len(history)
          PROVE  i = at \/ i \in (at + 1)..Len(history)
          BY <2>3
    <3> QED BY <2>1, <2>4, <3>1
  <2>6. ToSet(history) \subseteq sent \cup passed \cup g.held \cup Ahead(g)
        BY <1>4, <2>5
  <2>7. ASSUME NEW n \in sent, n.life = life
        PROVE  n.id < history[at].id
    <3>1. n.id + Len(history) + 1 < nextId + at
          BY <1>4, <2>7
    <3> QED BY <1>3, <2>2, <2>3, <3>1
  <2>8. GivenOut(history[at])
        BY <2>1, <2>2, <2>3 DEF GivenOut
  <2>9. history[at].id + Len(history) + 1 < nextId + (at + 1)
        BY <2>2, <2>3
  <2>10. ASSUME NEW n \in sent, n.life = life
         PROVE  n.id + Len(history) + 1 < nextId + (at + 1)
    <3>1. n.id + Len(history) + 1 < nextId + at
          BY <1>4, <2>10
    <3> QED BY <1>3, <2>3, <3>1
  <2>11. g.at <= Len(history) + 1
         BY <2>1, <2>3
  <2> QED BY <1>2, <2>1, <2>2, <2>6, <2>7, <2>8, <2>9, <2>10, <2>11
<1>5. CASE ~(at # 0 /\ at <= Len(history))
  <2>1. g.stage = "parked" /\ g.at = 0 /\ g.held = {}
        BY <1>1, <1>2, <1>5, NextFromFacts
  <2>2. ToSet(history) \subseteq sent \cup passed
    <3>1. at # 0 => at..Len(history) = {}
          BY <1>1, <1>5, HistoryFacts
    <3> QED BY <3>1
  <2>3. 0 <= Len(history) + 1
        BY <1>1, HistoryFacts
  <2> QED BY <1>2, <2>1, <2>2, <2>3
<1> QED BY <1>4, <1>5

LEMMA SubscribeStreams ==
    ASSUME RoomIInv, NEW s \in Streams, Subscribe(s)
    PROVE  /\ StreamsUpToDate' /\ StreamsInOrder' /\ GeneratorsFollow'
           /\ \A t \in Streams : \A m \in generator'[t].held : GivenOut(m)'
<1>1. /\ RoomTypeOK /\ HistoryIsLatest /\ StreamsUpToDate /\ StreamsInOrder
      /\ GeneratorsFollow /\ PanesKnow
      BY DEF RoomIInv, RoomInv
<1>2. /\ generator'[s] = NextFrom(1) /\ \A t \in Streams : t # s => generator'[t] = generator[t]
      /\ \A t \in Streams : t # s /\ t \in connected' => t \in connected
      /\ UNCHANGED <<life, history, nextId, shown, skipped>> /\ shown[s] = {}
      BY <1>1 DEF Subscribe, side, RoomTypeOK
<1>3. PICK g : g = NextFrom(1)
      OBVIOUS
<1>4. /\ ToSet(history) \subseteq {} \cup skipped[s] \cup g.held \cup Ahead(g)
      /\ \A m \in g.held, n \in {} : n.life = m.life => n.id < m.id
      /\ \A m \in g.held : GivenOut(m)
      /\ g.stage # "off" /\ g.at <= Len(history) + 1
      /\ g.stage # "yielded" => g.at = 0 /\ g.held = {}
      /\ g.at # 0 => \A m \in {} \cup g.held :
             m.life = life => m.id + Len(history) + 1 < nextId + g.at
  <2>1. ToSet(history) \subseteq {history[i] : i \in 1..Len(history)}
        BY <1>1, HistorySet
  <2>2. PICK none \in SUBSET Messages, at \in Nat : none = {} /\ at = 1
        OBVIOUS
  <2>3. at <= Len(history) + 1
        BY <1>1, <2>2, HistoryFacts
  <2>4. at # 0 => \A m \in none : m.life = life => m.id + Len(history) + 1 < nextId + at
        BY <2>2
  <2>5. ToSet(history) \subseteq none \cup skipped[s] \cup
            (IF at = 0 THEN {} ELSE {history[i] : i \in at..Len(history)})
        BY <2>1, <2>2
  <2>6. g = NextFrom(at)
        BY <1>3, <2>2
  <2> QED BY <2>2, <2>3, <2>4, <2>5, <2>6, RunsOn
<1>5. StreamsUpToDate'
  <2>1. ASSUME NEW t \in Streams, t \in connected'
        PROVE  ToSet(history) \subseteq shown[t] \cup skipped[t] \cup
                   generator'[t].held \cup Ahead(generator[t])'
    <3>1. CASE t = s
      <4>1. generator'[t] = g /\ Ahead(generator[t])' = Ahead(g)
            BY <1>2, <1>3, <3>1 DEF Ahead
      <4> QED BY <1>2, <1>4, <3>1, <4>1
    <3>2. CASE t # s
      <4>1. generator'[t] = generator[t] /\ Ahead(generator[t])' = Ahead(generator[t])
            BY <1>2, <3>2 DEF Ahead
      <4> QED BY <1>1, <1>2, <2>1, <3>2, <4>1 DEF StreamsUpToDate
    <3> QED BY <3>1, <3>2
  <2> QED BY <1>2, <2>1 DEF StreamsUpToDate
<1>6. StreamsInOrder'
      BY <1>1, <1>2, <1>3, <1>4 DEF StreamsInOrder
<1>7. GeneratorsFollow'
  <2>1. ASSUME NEW t \in Streams
        PROVE  /\ generator'[t].stage # "yielded" =>
                     generator'[t].at = 0 /\ generator'[t].held = {}
               /\ t \in connected' => generator'[t].stage # "off"
               /\ generator'[t].at <= Len(history) + 1
               /\ generator'[t].at # 0 => \A m \in shown[t] \cup generator'[t].held :
                      m.life = life => m.id + Len(history) + 1 < nextId + generator'[t].at
    <3>1. CASE t = s
          BY <1>2, <1>3, <1>4, <3>1
    <3>2. CASE t # s
          BY <1>1, <1>2, <3>2 DEF GeneratorsFollow
    <3> QED BY <3>1, <3>2
  <2> QED BY <1>2, <2>1 DEF GeneratorsFollow
<1>8. \A t \in Streams : \A m \in generator'[t].held : GivenOut(m)'
      BY <1>1, <1>2, <1>3, <1>4 DEF PanesKnow, GivenOut
<1> QED BY <1>5, <1>6, <1>7, <1>8

LEMMA ResumeStreams ==
    ASSUME RoomIInv, NEW s \in Streams, Resume(s)
    PROVE  /\ StreamsUpToDate' /\ StreamsInOrder' /\ GeneratorsFollow'
           /\ \A t \in Streams : \A m \in generator'[t].held : GivenOut(m)'
<1>1. /\ RoomTypeOK /\ HistoryIsLatest /\ StreamsUpToDate /\ StreamsInOrder
      /\ GeneratorsFollow /\ PanesKnow
      BY DEF RoomIInv, RoomInv
<1>2. PICK g : g = generator'[s]
      OBVIOUS
<1>3. /\ \A t \in Streams : t # s => generator'[t] = generator[t] /\ shown'[t] = shown[t]
      /\ UNCHANGED <<life, history, nextId, connected, skipped>>
  <2>1. UNCHANGED <<life, history, nextId, connected, skipped>>
        BY DEF Resume, side
  <2>2. \A t \in Streams : t # s => generator'[t] = generator[t]
        BY <1>1 DEF Resume, RoomTypeOK
  <2>3. \A t \in Panes : t # s => shown'[t] = shown[t]
        BY <1>1 DEF Resume, RoomTypeOK
  <2> QED BY <2>1, <2>2, <2>3 DEF Panes
<1>4. /\ s \in connected => ToSet(history) \subseteq shown'[s] \cup skipped[s] \cup g.held \cup Ahead(g)
      /\ \A m \in g.held, n \in shown'[s] : n.life = m.life => n.id < m.id
      /\ \A m \in g.held : GivenOut(m)
      /\ (s \in connected => g.stage # "off") /\ g.at <= Len(history) + 1
      /\ g.stage # "yielded" => g.at = 0 /\ g.held = {}
      /\ g.at # 0 => \A m \in shown'[s] \cup g.held :
             m.life = life => m.id + Len(history) + 1 < nextId + g.at
  <2>1. CASE s \in connected
    <3>1. PICK at \in Nat : at = generator[s].at
          BY <1>1, GeneratorFacts
    <3>2. g = NextFrom(at) /\ shown'[s] = shown[s] \cup generator[s].held
      <4>1. generator' = [generator EXCEPT ![s] = NextFrom(generator[s].at)]
            /\ shown' = [shown EXCEPT ![s] = shown[s] \cup generator[s].held]
            BY <1>1, <2>1 DEF Resume, RoomTypeOK
      <4> QED BY <1>1, <1>2, <3>1, <4>1, GeneratorFacts DEF RoomTypeOK
    <3>3. PICK sent \in SUBSET Messages : sent = shown[s] \cup generator[s].held
          BY <1>1, GeneratorFacts
    <3>4. at <= Len(history) + 1
          BY <1>1, <3>1 DEF GeneratorsFollow
    <3>5. at # 0 => \A m \in sent : m.life = life => m.id + Len(history) + 1 < nextId + at
      <4>1. generator[s].at # 0 => \A m \in shown[s] \cup generator[s].held :
               m.life = life => m.id + Len(history) + 1 < nextId + generator[s].at
            BY <1>1 DEF GeneratorsFollow
      <4> QED BY <3>1, <3>3, <4>1
    <3>6. ToSet(history) \subseteq sent \cup skipped[s] \cup
              (IF at = 0 THEN {} ELSE {history[i] : i \in at..Len(history)})
      <4>1. ToSet(history) \subseteq shown[s] \cup skipped[s] \cup generator[s].held
                \cup Ahead(generator[s])
            BY <1>1, <2>1 DEF StreamsUpToDate
      <4>2. Ahead(generator[s]) =
                IF at = 0 THEN {} ELSE {history[i] : i \in at..Len(history)}
            BY <3>1 DEF Ahead
      <4> QED BY <3>3, <4>1, <4>2
    <3>7. /\ ToSet(history) \subseteq sent \cup skipped[s] \cup NextFrom(at).held
                 \cup Ahead(NextFrom(at))
          /\ \A m \in NextFrom(at).held, n \in sent : n.life = m.life => n.id < m.id
          /\ \A m \in NextFrom(at).held : GivenOut(m)
          /\ NextFrom(at).stage # "off" /\ NextFrom(at).at <= Len(history) + 1
          /\ NextFrom(at).stage # "yielded" => NextFrom(at).at = 0 /\ NextFrom(at).held = {}
          /\ NextFrom(at).at # 0 => \A m \in sent \cup NextFrom(at).held :
                 m.life = life => m.id + Len(history) + 1 < nextId + NextFrom(at).at
          BY <3>4, <3>5, <3>6, RunsOn
    <3>8. g = NextFrom(at) /\ shown'[s] = sent
          BY <3>2, <3>3
    <3> QED BY <3>7, <3>8
  <2>2. CASE s \notin connected
    <3>1. g = Generator("off", 0, {})
          BY <1>1, <1>2, <2>2 DEF Resume, RoomTypeOK
    <3>2. g.stage = "off" /\ g.at = 0 /\ g.held = {}
          BY <3>1, GeneratorFields
    <3>3. 0 <= Len(history) + 1
          BY <1>1, HistoryFacts
    <3> QED BY <2>2, <3>2, <3>3
  <2> QED BY <2>1, <2>2
<1>5. StreamsUpToDate'
  <2>1. ASSUME NEW t \in Streams, t \in connected
        PROVE  ToSet(history) \subseteq shown'[t] \cup skipped[t] \cup
                   generator'[t].held \cup Ahead(generator[t])'
    <3>1. CASE t = s
      <4>1. Ahead(generator[t])' = Ahead(g)
            BY <1>2, <1>3, <3>1 DEF Ahead
      <4> QED BY <1>2, <1>4, <2>1, <3>1, <4>1
    <3>2. CASE t # s
      <4>1. generator'[t] = generator[t] /\ Ahead(generator[t])' = Ahead(generator[t])
            BY <1>3, <3>2 DEF Ahead
      <4> QED BY <1>1, <1>3, <2>1, <3>2, <4>1 DEF StreamsUpToDate
    <3> QED BY <3>1, <3>2
  <2> QED BY <1>3, <2>1 DEF StreamsUpToDate
<1>6. StreamsInOrder'
  <2>1. ASSUME NEW t \in Streams, NEW m \in generator'[t].held, NEW n \in shown'[t],
               n.life = m.life
        PROVE  n.id < m.id
    <3>1. CASE t = s
          BY <1>2, <1>4, <2>1, <3>1
    <3>2. CASE t # s
          BY <1>1, <1>3, <2>1, <3>2 DEF StreamsInOrder
    <3> QED BY <3>1, <3>2
  <2> QED BY <2>1 DEF StreamsInOrder
<1>7. GeneratorsFollow'
  <2>1. ASSUME NEW t \in Streams
        PROVE  /\ generator'[t].stage # "yielded" =>
                     generator'[t].at = 0 /\ generator'[t].held = {}
               /\ t \in connected => generator'[t].stage # "off"
               /\ generator'[t].at <= Len(history) + 1
               /\ generator'[t].at # 0 => \A m \in shown'[t] \cup generator'[t].held :
                      m.life = life => m.id + Len(history) + 1 < nextId + generator'[t].at
    <3>1. CASE t = s
          BY <1>2, <1>4, <3>1
    <3>2. CASE t # s
          BY <1>1, <1>3, <3>2 DEF GeneratorsFollow
    <3> QED BY <3>1, <3>2
  <2> QED BY <1>3, <2>1 DEF GeneratorsFollow
<1>8. ASSUME NEW t \in Streams, NEW m \in generator'[t].held
      PROVE  GivenOut(m)'
  <2>1. GivenOut(m)
        BY <1>1, <1>2, <1>3, <1>4, <1>8 DEF PanesKnow
  <2> QED BY <1>3, <2>1 DEF GivenOut
<1> QED BY <1>5, <1>6, <1>7, <1>8


\* What the room has given out stays so, and so does what was known of it.
LEMMA GivenOutStays ==
    ASSUME RoomIInv, RoomNext, NEW m \in Messages, GivenOut(m)
    PROVE  GivenOut(m)'
<1>1. RoomTypeOK /\ HistoryIsLatest
      BY DEF RoomIInv, RoomInv
<1>2. life \in Nat /\ nextId \in Nat /\ m.life \in Nat /\ m.id \in Nat
      BY <1>1, HistoryFacts DEF Messages
<1>3. CASE Post
      BY <1>2, <1>3 DEF Post, GivenOut
<1>4. CASE Restart
      BY <1>2, <1>4 DEF Restart, GivenOut
<1>5. CASE ~Post /\ ~Restart
  <2>1. UNCHANGED <<life, nextId>>
        BY <1>5 DEF RoomNext, Subscribe, Resume, SubscribeStub, DropStub, Poll, PollAnswered,
                    PollFails, Disconnect, side
  <2> QED BY <2>1 DEF GivenOut
<1> QED BY <1>3, <1>4, <1>5

LEMMA PanesKnowKept ==
    ASSUME RoomIInv, RoomNext
    PROVE  PanesKnow'
<1>1. RoomTypeOK /\ HistoryIsLatest /\ PanesKnow
      BY DEF RoomIInv, RoomInv
<1>2. RoomTypeOK'
      BY TypeKept
<1>3. PICK good : good = {m \in Messages : GivenOut(m)'}
      OBVIOUS
<1>4. \A m \in Messages : GivenOut(m) => m \in good
      BY <1>3, GivenOutStays
<1>5. /\ \A p \in Panes : shown[p] \subseteq good
      /\ \A s \in Streams : generator[s].held \subseteq good /\ s \in Panes
      /\ \A p \in Pollers : response[p] \subseteq good /\ p \in Panes
      /\ \A b \in Stubs : b \in Panes
      /\ ToSet(history) \subseteq good
  <2>1. /\ \A p \in Panes : shown[p] \subseteq Messages
        /\ \A p \in Pollers : response[p] \subseteq Messages
        BY <1>1 DEF RoomTypeOK
  <2>2. \A s \in Streams : generator[s].held \subseteq Messages
        BY <1>1, GeneratorFacts
  <2>3. \A m \in ToSet(history) : m \in Messages /\ GivenOut(m)
        BY <1>1, HistorySet DEF GivenOut
  <2>4. /\ \A s \in Streams : s \in Panes
        /\ \A p \in Pollers : p \in Panes
        /\ \A b \in Stubs : b \in Panes
        BY DEF Panes
  <2> QED BY <1>1, <1>4, <2>1, <2>2, <2>3, <2>4 DEF PanesKnow
<1>6. ASSUME /\ \A p \in Panes : shown'[p] \subseteq good
             /\ \A s \in Streams : generator'[s].held \subseteq good
             /\ \A p \in Pollers : response'[p] \subseteq good
      PROVE  PanesKnow'
      BY <1>3, <1>6 DEF PanesKnow
<1>7. CASE Post
  <2>1. PICK m : m = NewMessage
        OBVIOUS
  <2>2. m \in good
    <3>1. m \in Messages /\ m.life = life /\ m.id = nextId /\ life' = life /\ nextId' = nextId + 1
          BY <1>1, <1>7, <2>1, Posted
    <3>2. nextId \in Nat
          BY <1>1, HistoryFacts
    <3>3. GivenOut(m)'
          BY <3>1, <3>2 DEF GivenOut
    <3> QED BY <1>3, <3>1, <3>3
  <2>3. \A p \in Panes : shown'[p] \subseteq shown[p] \cup {m}
        BY <1>7, <2>1 DEF Post, NewMessage
  <2>4. ASSUME NEW s \in Streams
        PROVE  generator'[s].held \subseteq generator[s].held \cup {m}
        BY <1>1, <1>7, <2>1, PostedGenerator, GeneratorFields
  <2>5. response' = response
        BY <1>7 DEF Post, polls
  <2> QED BY <1>5, <1>6, <2>2, <2>3, <2>4, <2>5
<1>8. CASE Restart
  <2>1. \A s \in Streams : generator'[s].held = {}
        BY <1>8 DEF Restart, Generator
  <2> QED BY <1>5, <1>6, <1>8, <2>1 DEF Restart, polls
<1>9. ASSUME NEW s \in Streams, Subscribe(s)
      PROVE  PanesKnow'
  <2>1. UNCHANGED <<shown, response>>
        BY <1>9 DEF Subscribe, polls
  <2>2. \A t \in Streams : \A m \in generator'[t].held : GivenOut(m)'
        BY <1>9, SubscribeStreams
  <2>3. \A t \in Streams : generator'[t].held \subseteq Messages
        BY <1>2 DEF RoomTypeOK
  <2> QED BY <1>3, <1>5, <2>1, <2>2, <2>3 DEF PanesKnow
<1>10. ASSUME NEW s \in Streams, Resume(s)
       PROVE  PanesKnow'
  <2>1. response' = response /\ \A p \in Panes : shown'[p] \subseteq shown[p] \cup generator[s].held
    <3>1. \/ shown' = [shown EXCEPT ![s] = shown[s] \cup generator[s].held]
          \/ shown' = shown
          BY <1>10 DEF Resume
    <3> QED BY <1>1, <1>10, <3>1 DEF Resume, polls, RoomTypeOK
  <2>2. \A t \in Streams : \A m \in generator'[t].held : GivenOut(m)'
        BY <1>10, ResumeStreams
  <2> QED BY <1>3, <1>5, <2>1, <2>2 DEF PanesKnow
<1>11. ASSUME NEW b \in Stubs, SubscribeStub(b)
       PROVE  PanesKnow'
  <2>1. \A p \in Panes : shown'[p] \subseteq shown[p] \cup ToSet(history)
        BY <1>1, <1>11 DEF SubscribeStub, RoomTypeOK
  <2> QED BY <1>5, <1>6, <1>11, <2>1 DEF SubscribeStub, polls
<1>12. ASSUME NEW b \in Stubs, DropStub(b)
       PROVE  PanesKnow'
       BY <1>5, <1>6, <1>12 DEF DropStub, polls
<1>13. ASSUME NEW p \in Pollers, Poll(p)
       PROVE  PanesKnow'
  <2>1. MessagesSince(cursor[p]) \subseteq good
        BY <1>5 DEF MessagesSince
  <2>2. \A q \in Pollers : response'[q] = IF q = p THEN MessagesSince(cursor[p]) ELSE response[q]
        BY <1>1, <1>13 DEF Poll, RoomTypeOK
  <2> QED BY <1>5, <1>6, <1>13, <2>1, <2>2 DEF Poll
<1>14. ASSUME NEW p \in Pollers, PollAnswered(p)
       PROVE  PanesKnow'
  <2>1. generator' = generator
        BY <1>14 DEF PollAnswered
  <2>2. \A q \in Panes : shown'[q] \subseteq good
        BY <1>5, <1>14, Answered
  <2>3. \A q \in Pollers : response'[q] \subseteq good
        BY <1>5, <1>14, Answered
  <2> QED BY <1>5, <1>6, <2>1, <2>2, <2>3
<1>15. ASSUME NEW p \in Pollers, PollFails(p)
       PROVE  PanesKnow'
  <2>1. \A q \in Pollers : response'[q] = IF q = p THEN {} ELSE response[q]
        BY <1>1, <1>15 DEF PollFails, RoomTypeOK
  <2> QED BY <1>5, <1>6, <1>15, <2>1 DEF PollFails
<1>16. ASSUME NEW p \in Panes, Disconnect(p)
       PROVE  PanesKnow'
       BY <1>5, <1>6, <1>16 DEF Disconnect, polls
<1> QED BY <1>7, <1>8, <1>9, <1>10, <1>11, <1>12, <1>13, <1>14, <1>15, <1>16 DEF RoomNext

\* Steps that leave the pollers, and what the room has, alone.
LEMMA PollersLeftAlone ==
    ASSUME RoomIInv, UNCHANGED <<life, history, nextId, response, cursor>>,
           \A p \in Pollers : shown'[p] = shown[p]
    PROVE  CursorsFollow' /\ CursorsTell'
<1>1. CursorsFollow /\ CursorsTell
      BY DEF RoomIInv, RoomInv
<1>2. CursorsFollow'
      BY <1>1 DEF CursorsFollow
<1>3. CursorsTell'
      BY <1>1 DEF CursorsTell, Overtaken
<1> QED BY <1>2, <1>3

LEMMA PostPollers ==
    ASSUME RoomIInv, Post
    PROVE  CursorsFollow' /\ CursorsTell'
<1>1. /\ RoomTypeOK /\ HistoryIsLatest /\ CursorsFollow /\ CursorsTell /\ PanesKnow
      BY DEF RoomIInv, RoomInv
<1>2. UNCHANGED <<life, response, cursor>> /\ \A p \in Pollers : shown'[p] = shown[p]
  <2>1. \A p \in Pollers : p \in Panes /\ ~Pushed(p)
        BY <1>1, RoomAssumption DEF RoomAssumption, RoomTypeOK, Pushed, Panes
  <2>2. \A p \in Pollers : shown'[p] = shown[p]
        BY <2>1 DEF Post
  <2> QED BY <2>2 DEF Post, polls
<1>3. PICK new : new = NewMessage
      OBVIOUS
<1>4. /\ ToSet(history') \subseteq ToSet(history) \cup {new}
      /\ new.life = life /\ new.id = nextId /\ nextId \in Nat /\ life \in Nat
      BY <1>1, <1>3, Posted, PostedSet, HistoryFacts
<1>5. ASSUME NEW p \in Pollers
      PROVE  /\ p \in Panes /\ cursor[p] \in Nat
             /\ \A n \in shown[p] : n.life \in Nat /\ n.id \in Nat
             /\ \A r \in response[p] : r.life \in Nat /\ r.id \in Nat
      BY <1>1, RoomAssumption DEF RoomAssumption, RoomTypeOK, Panes, Messages
<1>6. CursorsFollow'
  <2>1. ASSUME NEW p \in Pollers, NEW r \in response[p], NEW m \in ToSet(history'),
               r.life = life, cursor[p] < m.id, m.id <= r.id
        PROVE  m \in response[p]
    <3>1. GivenOut(r)
          BY <1>1, <2>1 DEF PanesKnow
    <3>2. r.id < nextId /\ r.id \in Nat
          BY <1>4, <1>5, <2>1, <3>1 DEF GivenOut
    <3>3. m # new
          BY <1>4, <2>1, <3>2
    <3>4. m \in ToSet(history)
          BY <1>4, <2>1, <3>3
    <3> QED BY <1>1, <2>1, <3>4 DEF CursorsFollow
  <2>2. \A p \in Pollers :
           /\ \A n \in shown'[p] : n.id <= cursor'[p]
           /\ cursor'[p] # 0 => \E n \in shown'[p] : n.id = cursor'[p]
           /\ \A r \in response'[p] : cursor'[p] < r.id
           /\ response'[p] # {} => \E r \in response'[p] : \A q \in response'[p] : q.id <= r.id
        BY <1>1, <1>2 DEF CursorsFollow
  <2> QED BY <1>2, <2>1, <2>2 DEF CursorsFollow
<1>7. CursorsTell'
  <2>1. SUFFICES ASSUME NEW p \in Pollers, NEW m \in ToSet(history'), m.id <= cursor[p]
                 PROVE  m \in shown[p] \/ \E n \in shown[p] : n.life < m.life /\ n.id >= m.id
        BY <1>2 DEF CursorsTell, Overtaken
  <2>2. CASE m \in ToSet(history)
        BY <1>1, <2>1, <2>2 DEF CursorsTell, Overtaken
  <2>3. CASE m = new
    <3>1. cursor[p] # 0 /\ nextId <= cursor[p]
      <4>1. nextId # 0
            BY <1>1 DEF RoomTypeOK
      <4> QED BY <1>4, <1>5, <2>1, <2>3, <4>1
    <3>2. PICK n \in shown[p] : n.id = cursor[p]
          BY <1>1, <3>1 DEF CursorsFollow
    <3>3. GivenOut(n)
          BY <1>1, <1>5 DEF PanesKnow
    <3>4. n.life < life
          BY <1>4, <1>5, <3>1, <3>2, <3>3 DEF GivenOut
    <3> QED BY <1>4, <1>5, <2>1, <2>3, <3>2, <3>4
  <2> QED BY <1>4, <2>2, <2>3
<1> QED BY <1>6, <1>7


LEMMA PollPollers ==
    ASSUME RoomIInv, NEW p \in Pollers, Poll(p)
    PROVE  CursorsFollow' /\ CursorsTell'
<1>1. /\ RoomTypeOK /\ HistoryIsLatest /\ CursorsFollow /\ CursorsTell
      BY DEF RoomIInv, RoomInv
<1>2. /\ UNCHANGED <<life, history, nextId, cursor, shown>>
      /\ response'[p] = MessagesSince(cursor[p])
      /\ \A q \in Pollers : q # p => response'[q] = response[q]
      BY <1>1 DEF Poll, side, RoomTypeOK
<1>3. cursor[p] \in Nat
      BY <1>1, RoomAssumption DEF RoomTypeOK, RoomAssumption
<1>4. CursorsTell'
      BY <1>1, <1>2 DEF CursorsTell, Overtaken
<1>5. \A m : m \in MessagesSince(cursor[p]) <=> m \in ToSet(history) /\ cursor[p] < m.id
  <2>1. \A m \in ToSet(history) : m.id \in Nat
        BY <1>1, HistorySet
  <2> QED BY <1>3, <2>1 DEF MessagesSince
<1>6. ASSUME MessagesSince(cursor[p]) # {}
      PROVE  \E r \in MessagesSince(cursor[p]) : \A q \in MessagesSince(cursor[p]) : q.id <= r.id
  <2>1. PICK m \in MessagesSince(cursor[p]) : TRUE
        BY <1>6
  <2>2. /\ m \in ToSet(history) /\ cursor[p] < m.id /\ m.id \in Nat /\ m.id < nextId
        /\ \E i \in 1..Len(history) : m = history[i]
        BY <1>1, <1>5, <2>1, HistorySet
  <2>3. Len(history) \in 1..Len(history) /\ Len(history) \in Nat /\ nextId \in Nat
        BY <1>1, <2>2, HistoryFacts
  <2>4. PICK r : r = history[Len(history)]
        OBVIOUS
  <2>5. r \in ToSet(history) /\ r.id = nextId - 1 - Len(history) + Len(history)
        BY <1>1, <2>3, <2>4, HistoryFacts, HistorySet
  <2>6. r.id = nextId - 1 /\ cursor[p] < r.id
        BY <1>3, <2>2, <2>3, <2>5
  <2>7. ASSUME NEW q \in MessagesSince(cursor[p])
        PROVE  q.id <= r.id
    <3>1. q.id \in Nat /\ q.id < nextId
          BY <1>1, <1>5, HistorySet
    <3> QED BY <2>3, <2>6, <3>1
  <2> QED BY <1>5, <2>5, <2>6, <2>7
<1>7. CursorsFollow'
  <2>1. ASSUME NEW q \in Pollers
        PROVE  /\ \A n \in shown[q] : n.id <= cursor[q]
               /\ cursor[q] # 0 => \E n \in shown[q] : n.id = cursor[q]
               /\ \A r \in response'[q] : cursor[q] < r.id
               /\ response'[q] # {} => \E r \in response'[q] : \A n \in response'[q] : n.id <= r.id
               /\ \A r \in response'[q], m \in ToSet(history) :
                      r.life = life /\ cursor[q] < m.id /\ m.id <= r.id => m \in response'[q]
    <3>1. CASE q = p
          BY <1>1, <1>2, <1>5, <1>6, <3>1 DEF CursorsFollow
    <3>2. CASE q # p
          BY <1>1, <1>2, <3>2 DEF CursorsFollow
    <3> QED BY <3>1, <3>2
  <2> QED BY <1>2, <2>1 DEF CursorsFollow
<1> QED BY <1>4, <1>7

LEMMA AnswerPollers ==
    ASSUME RoomIInv, NEW p \in Pollers, PollAnswered(p)
    PROVE  CursorsFollow' /\ CursorsTell'
<1>1. /\ RoomTypeOK /\ HistoryIsLatest /\ CursorsFollow /\ CursorsTell /\ PanesKnow
      BY DEF RoomIInv, RoomInv
<1>2. UNCHANGED <<life, history, nextId>> /\ \A q \in Pollers : q \in Panes
      BY DEF PollAnswered, side, Panes
<1>3. /\ \A n \in shown[p] : n.id \in Nat /\ n.id <= cursor[p]
      /\ \A r \in response[p] : r.id \in Nat /\ r.life \in Nat
      /\ \A m \in ToSet(history) : m.id \in Nat /\ m.life = life
      /\ life \in Nat
  <2>1. shown[p] \subseteq Messages /\ response[p] \subseteq Messages
        BY <1>1, <1>2 DEF RoomTypeOK
  <2> QED BY <1>1, <2>1, HistorySet, HistoryFacts DEF CursorsFollow, Messages
<1>4. CursorsFollow'
  <2>1. ASSUME NEW q \in Pollers
        PROVE  /\ \A n \in shown'[q] : n.id <= cursor'[q]
               /\ cursor'[q] # 0 => \E n \in shown'[q] : n.id = cursor'[q]
               /\ \A r \in response'[q] : cursor'[q] < r.id
               /\ response'[q] # {} => \E r \in response'[q] : \A n \in response'[q] : n.id <= r.id
               /\ \A r \in response'[q], m \in ToSet(history) :
                      r.life = life /\ cursor'[q] < m.id /\ m.id <= r.id => m \in response'[q]
    <3>1. CASE q = p
      <4>1. \A n \in shown'[p] : n.id <= cursor'[p]
            BY <1>3, Answered
      <4>2. cursor'[p] # 0 => \E n \in shown'[p] : n.id = cursor'[p]
        <5>1. CASE response[p] = {}
              BY <1>1, <5>1, Answered DEF CursorsFollow
        <5>2. CASE response[p] # {}
              BY <5>2, Answered
        <5> QED BY <5>1, <5>2
      <4>3. response'[p] = {}
            BY Answered
      <4> QED BY <3>1, <4>1, <4>2, <4>3
    <3>2. CASE q # p
      <4>1. shown'[q] = shown[q] /\ cursor'[q] = cursor[q] /\ response'[q] = response[q]
            BY <1>2, <3>2, Answered
      <4> QED BY <1>1, <4>1 DEF CursorsFollow
    <3> QED BY <3>1, <3>2
  <2> QED BY <1>2, <2>1 DEF CursorsFollow
<1>5. CursorsTell'
  <2>1. SUFFICES ASSUME NEW q \in Pollers, NEW m \in ToSet(history), m.id <= cursor'[q]
                 PROVE  m \in shown'[q] \/ \E n \in shown'[q] : n.life < m.life /\ n.id >= m.id
        BY <1>2 DEF CursorsTell, Overtaken
  <2>2. CASE q # p
    <3>1. shown'[q] = shown[q] /\ cursor'[q] = cursor[q]
          BY <1>2, <2>2, Answered
    <3> QED BY <1>1, <2>1, <3>1 DEF CursorsTell, Overtaken
  <2>3. CASE q = p /\ m.id <= cursor[p]
    <3>1. m \in shown[p] \/ \E n \in shown[p] : n.life < m.life /\ n.id >= m.id
          BY <1>1, <2>3 DEF CursorsTell, Overtaken
    <3> QED BY <2>3, <3>1, Answered
  <2>4. CASE q = p /\ ~(m.id <= cursor[p])
    <3>1. cursor[p] < m.id
          BY <1>3, <2>4, Answered
    <3>2. response[p] # {}
          BY <2>1, <2>4, Answered
    <3>3. PICK r \in response[p] : cursor'[p] = r.id
          BY <3>2, Answered
    <3>4. m.id <= r.id
          BY <2>1, <2>4, <3>3
    <3>5. CASE r.life = life
      <4>1. m \in response[p]
            BY <1>1, <3>1, <3>4, <3>5 DEF CursorsFollow
      <4> QED BY <2>4, <4>1, Answered
    <3>6. CASE r.life # life
      <4>1. GivenOut(r)
            BY <1>1 DEF PanesKnow
      <4>2. r.life < m.life
            BY <1>3, <3>6, <4>1 DEF GivenOut
      <4>3. r.id >= m.id
            BY <1>3, <3>4
      <4> QED BY <2>4, <4>2, <4>3, Answered
    <3> QED BY <3>5, <3>6
  <2> QED BY <2>2, <2>3, <2>4
<1> QED BY <1>4, <1>5

LEMMA StubsKept ==
    ASSUME RoomIInv, RoomNext
    PROVE  StubsUpToDate'
<1>1. RoomTypeOK /\ HistoryIsLatest /\ StubsUpToDate
      BY DEF RoomIInv, RoomInv
<1>2. \A b \in stubs : b \in Stubs /\ b \in Panes /\ b \notin Streams /\ b \notin Pollers
      BY <1>1, RoomAssumption DEF RoomTypeOK, RoomAssumption, Panes
<1>3. CASE Post
  <2>1. UNCHANGED <<stubs, connected>>
        BY <1>3 DEF Post
  <2>2. ToSet(history') \subseteq ToSet(history) \cup {NewMessage}
        BY <1>1, <1>3, PostedSet
  <2>3. \A b \in stubs \cap connected : shown'[b] = shown[b] \cup {NewMessage}
        BY <1>2, <1>3 DEF Post, Pushed, NewMessage
  <2> QED BY <1>1, <2>1, <2>2, <2>3 DEF StubsUpToDate
<1>4. CASE Restart
      BY <1>4 DEF Restart, StubsUpToDate
<1>5. ASSUME NEW b \in Stubs, SubscribeStub(b)
      PROVE  StubsUpToDate'
  <2>1. /\ history' = history /\ shown'[b] = ToSet(history)
        /\ \A c \in stubs' \cap connected' : c = b \/ (c \in stubs \cap connected /\ shown'[c] = shown[c])
        BY <1>1, <1>2, <1>5 DEF SubscribeStub, side, RoomTypeOK, Panes
  <2> QED BY <1>1, <2>1 DEF StubsUpToDate
<1>6. ASSUME history' = history, stubs' \subseteq stubs,
             \A b \in stubs \cap connected' : b \in connected /\ shown'[b] = shown[b]
      PROVE  StubsUpToDate'
      BY <1>1, <1>6 DEF StubsUpToDate
<1>7. ASSUME NEW s \in Streams, Subscribe(s) \/ Resume(s)
      PROVE  StubsUpToDate'
  <2>1. history' = history /\ stubs' = stubs
        BY <1>7 DEF Subscribe, Resume, side
  <2>2. \A b \in stubs \cap connected' : b \in connected
        BY <1>2, <1>7 DEF Subscribe, Resume
  <2>3. \/ shown' = shown
        \/ shown' = [shown EXCEPT ![s] = shown[s] \cup generator[s].held]
        BY <1>7 DEF Subscribe, Resume
  <2>4. \A b \in stubs : shown'[b] = shown[b]
        BY <1>1, <1>2, <2>3 DEF RoomTypeOK
  <2> QED BY <1>6, <2>1, <2>2, <2>4
<1>8. ASSUME NEW b \in Stubs, DropStub(b)
      PROVE  StubsUpToDate'
  <2>1. UNCHANGED <<history, connected, shown>> /\ stubs' \subseteq stubs
        BY <1>8 DEF DropStub, side
  <2> QED BY <1>6, <2>1
<1>9. ASSUME NEW p \in Pollers, Poll(p) \/ PollAnswered(p) \/ PollFails(p)
      PROVE  StubsUpToDate'
  <2>1. UNCHANGED <<history, connected, stubs>>
        BY <1>9 DEF Poll, PollAnswered, PollFails, side
  <2>2. \A b \in stubs : shown'[b] = shown[b]
        BY <1>1, <1>2, <1>9 DEF Poll, PollAnswered, PollFails, RoomTypeOK
  <2> QED BY <1>6, <2>1, <2>2
<1>10. ASSUME NEW p \in Panes, Disconnect(p)
       PROVE  StubsUpToDate'
  <2>1. UNCHANGED <<history, stubs, shown>> /\ connected' \subseteq connected
        BY <1>10 DEF Disconnect, side
  <2> QED BY <1>6, <2>1
<1> QED BY <1>3, <1>4, <1>5, <1>7, <1>8, <1>9, <1>10 DEF RoomNext


\* A restart leaves nothing to keep up with.
LEMMA RestartKept ==
    ASSUME RoomIInv, Restart
    PROVE  /\ StreamsUpToDate' /\ StreamsInOrder' /\ GeneratorsFollow'
           /\ CursorsFollow' /\ CursorsTell' /\ HistoryIsLatest'
<1>1. RoomTypeOK /\ HistoryIsLatest /\ CursorsFollow
      BY DEF RoomIInv, RoomInv
<1>2. /\ history' = <<>> /\ nextId' = 1 /\ connected' = {}
      /\ UNCHANGED <<shown, cursor, response>>
      /\ \A s \in Streams : /\ generator'[s].stage = "off"
                            /\ generator'[s].at = 0 /\ generator'[s].held = {}
      BY DEF Restart, polls, Generator
<1>3. Len(history') = 0 /\ ToSet(history') = {} /\ 1..Len(history') = {}
      BY <1>2 DEF ToSet
<1>4. HistoryIsLatest'
  <2>1. nextId' - 1 = 0 /\ HistoryLimit \in Nat
        BY <1>2, RoomAssumption DEF RoomAssumption
  <2>2. Min({HistoryLimit, 0}) = 0
        BY <2>1, MinOfTwo
  <2> QED BY <1>3, <2>1, <2>2 DEF HistoryIsLatest
<1>5. StreamsUpToDate' /\ StreamsInOrder' /\ CursorsTell'
      BY <1>2, <1>3 DEF StreamsUpToDate, StreamsInOrder, CursorsTell
<1>6. GeneratorsFollow'
      BY <1>2, <1>3 DEF GeneratorsFollow
<1>7. CursorsFollow'
      BY <1>1, <1>2, <1>3 DEF CursorsFollow
<1> QED BY <1>4, <1>5, <1>6, <1>7

LEMMA RoomStep ==
    ASSUME RoomIInv, RoomNext
    PROVE  RoomIInv'
<1>1. RoomTypeOK' /\ PanesKnow' /\ StubsUpToDate'
      BY TypeKept, PanesKnowKept, StubsKept
<1>2. RoomTypeOK /\ HistoryIsLatest
      BY DEF RoomIInv, RoomInv
<1>3. /\ \A s \in Streams : s \in Panes /\ s \notin Stubs /\ s \notin Pollers
      /\ \A p \in Pollers : p \in Panes /\ p \notin Stubs /\ p \notin Streams
      BY RoomAssumption DEF RoomAssumption, Panes
<1>4. ASSUME UNCHANGED side
      PROVE  HistoryIsLatest'
      BY <1>2, <1>4 DEF side, HistoryIsLatest
<1>5. CASE Post
      BY <1>1, <1>2, <1>5, PostedSet, PostStreams, PostPollers DEF RoomIInv, RoomInv
<1>6. CASE Restart
      BY <1>1, <1>6, RestartKept DEF RoomIInv, RoomInv
<1>7. ASSUME NEW s \in Streams, Subscribe(s)
      PROVE  RoomIInv'
  <2>1. UNCHANGED side /\ UNCHANGED <<life, history, nextId, response, cursor, shown>>
        BY <1>7 DEF Subscribe, side, polls
  <2>2. CursorsFollow' /\ CursorsTell'
        BY <2>1, PollersLeftAlone
  <2> QED BY <1>1, <1>4, <1>7, <2>1, <2>2, SubscribeStreams DEF RoomIInv, RoomInv
<1>8. ASSUME NEW s \in Streams, Resume(s)
      PROVE  RoomIInv'
  <2>1. UNCHANGED side /\ UNCHANGED <<life, history, nextId, response, cursor>>
        BY <1>8 DEF Resume, side, polls
  <2>2. \/ shown' = shown
        \/ shown' = [shown EXCEPT ![s] = shown[s] \cup generator[s].held]
        BY <1>8 DEF Resume
  <2>3. \A p \in Pollers : shown'[p] = shown[p]
        BY <1>2, <1>3, <2>2 DEF RoomTypeOK
  <2>4. CursorsFollow' /\ CursorsTell'
        BY <2>1, <2>3, PollersLeftAlone
  <2> QED BY <1>1, <1>4, <1>8, <2>1, <2>4, ResumeStreams DEF RoomIInv, RoomInv
<1>9. ASSUME NEW b \in Stubs, SubscribeStub(b)
      PROVE  RoomIInv'
  <2>1. UNCHANGED side /\ UNCHANGED <<life, history, nextId, response, cursor, generator, skipped>>
        BY <1>9 DEF SubscribeStub, side, polls
  <2>2. shown' = [shown EXCEPT ![b] = ToSet(history)] /\ connected' = connected \cup {b}
        BY <1>9 DEF SubscribeStub
  <2>3. /\ \A p \in Pollers : shown'[p] = shown[p]
        /\ \A s \in Streams : shown'[s] = shown[s] /\ (s \in connected' => s \in connected)
        BY <1>2, <1>3, <2>2 DEF RoomTypeOK
  <2>4. CursorsFollow' /\ CursorsTell'
        BY <2>1, <2>3, PollersLeftAlone
  <2>5. StreamsUpToDate' /\ StreamsInOrder' /\ GeneratorsFollow'
        BY <2>1, <2>3, StreamsLeftAlone
  <2> QED BY <1>1, <1>4, <2>1, <2>4, <2>5 DEF RoomIInv, RoomInv
<1>10. ASSUME NEW p \in Panes, Disconnect(p) \/ (p \in Stubs /\ DropStub(p))
       PROVE  RoomIInv'
  <2>1. /\ UNCHANGED side
        /\ UNCHANGED <<life, history, nextId, response, cursor, generator, skipped, shown>>
        /\ connected' \subseteq connected
        BY <1>10 DEF Disconnect, DropStub, side, polls
  <2>2. CursorsFollow' /\ CursorsTell'
        BY <2>1, PollersLeftAlone
  <2>3. StreamsUpToDate' /\ StreamsInOrder' /\ GeneratorsFollow'
        BY <2>1, StreamsLeftAlone
  <2> QED BY <1>1, <1>4, <2>1, <2>2, <2>3 DEF RoomIInv, RoomInv
<1>11. ASSUME NEW p \in Pollers, Poll(p) \/ PollAnswered(p) \/ PollFails(p)
       PROVE  RoomIInv'
  <2>1. /\ UNCHANGED side
        /\ UNCHANGED <<life, history, nextId, generator, skipped, connected>>
        BY <1>11 DEF Poll, PollAnswered, PollFails, side
  <2>2. \A s \in Streams : shown'[s] = shown[s]
        BY <1>2, <1>3, <1>11 DEF Poll, PollAnswered, PollFails, RoomTypeOK
  <2>3. StreamsUpToDate' /\ StreamsInOrder' /\ GeneratorsFollow'
        BY <2>1, <2>2, StreamsLeftAlone
  <2>4. CursorsFollow' /\ CursorsTell'
    <3>1. CASE Poll(p)
          BY <3>1, PollPollers
    <3>2. CASE PollAnswered(p)
          BY <3>2, AnswerPollers
    <3>3. CASE PollFails(p)
      <4>1. /\ UNCHANGED <<cursor, shown>> /\ response'[p] = {}
            /\ \A q \in Pollers : q # p => response'[q] = response[q]
            BY <1>2, <3>3 DEF PollFails, RoomTypeOK
      <4>2. CursorsFollow /\ CursorsTell
            BY DEF RoomIInv, RoomInv
      <4>3. CursorsTell'
            BY <2>1, <4>1, <4>2 DEF CursorsTell, Overtaken
      <4>4. CursorsFollow'
        <5>1. ASSUME NEW q \in Pollers
              PROVE  /\ \A n \in shown[q] : n.id <= cursor[q]
                     /\ cursor[q] # 0 => \E n \in shown[q] : n.id = cursor[q]
                     /\ \A r \in response'[q] : cursor[q] < r.id
                     /\ response'[q] # {} =>
                           \E r \in response'[q] : \A n \in response'[q] : n.id <= r.id
                     /\ \A r \in response'[q], m \in ToSet(history) :
                            r.life = life /\ cursor[q] < m.id /\ m.id <= r.id => m \in response'[q]
          <6>1. CASE q = p
                BY <4>1, <4>2, <6>1 DEF CursorsFollow
          <6>2. CASE q # p
                BY <4>1, <4>2, <6>2 DEF CursorsFollow
          <6> QED BY <6>1, <6>2
        <5> QED BY <2>1, <4>1, <5>1 DEF CursorsFollow
      <4> QED BY <4>3, <4>4
    <3> QED BY <1>11, <3>1, <3>2, <3>3
  <2> QED BY <1>1, <1>4, <2>1, <2>3, <2>4 DEF RoomIInv, RoomInv
<1>12. \A b \in Stubs : b \in Panes
       BY DEF Panes
<1> QED BY <1>5, <1>6, <1>7, <1>8, <1>9, <1>10, <1>11, <1>12 DEF RoomNext

-----------------------------------------------------------------------------
(* The theorems. *)

\* The whole invariant holds in every state of the room.
LEMMA RoomInductive == RoomSpec => []RoomIInv
<1>1. RoomInit => RoomIInv
      BY RoomInitially
<1>2. RoomIInv /\ [RoomNext]_roomVars => RoomIInv'
  <2>1. ASSUME RoomIInv, UNCHANGED roomVars
        PROVE  RoomIInv'
    <3>1. UNCHANGED <<windowed, fragile, life, history, nextId, stubs, generator, burst,
                      connected, poll, response, cursor, shown, skipped>>
          BY <2>1 DEF roomVars, kinds, side, polls
    <3>2. RoomTypeOK' /\ HistoryIsLatest'
          BY <2>1, <3>1 DEF RoomIInv, RoomInv, RoomTypeOK, HistoryIsLatest
    <3>3. StreamsUpToDate' /\ StreamsInOrder' /\ GeneratorsFollow'
          BY <2>1, <3>1, StreamsLeftAlone
    <3>4. CursorsFollow' /\ CursorsTell'
          BY <2>1, <3>1, PollersLeftAlone
    <3>5. StubsUpToDate' /\ PanesKnow'
          BY <2>1, <3>1 DEF RoomIInv, RoomInv, StubsUpToDate, PanesKnow, GivenOut
    <3> QED BY <3>2, <3>3, <3>4, <3>5 DEF RoomIInv, RoomInv
  <2> QED BY <2>1, RoomStep
<1> QED BY <1>1, <1>2, PTL DEF RoomSpec

\* The room keeps the latest messages of its life; a connected stub has them
\* all, a poller those before its cursor unless the cursor is from an earlier
\* life, and no stream is sent one twice or out of order: for any number of
\* panes, messages, restarts and any length of the history.
THEOREM RoomKept == RoomSpec => []RoomInv
<1>1. RoomIInv => RoomInv
      BY DEF RoomIInv
<1> QED BY <1>1, RoomInductive, PTL

\* A connected subscriber has, holds or has before it every message the room
\* keeps, but for those its generator is known to have passed over.
THEOREM SubscribersServed == RoomSpec => []StreamsUpToDate
<1>1. RoomIInv => StreamsUpToDate
      BY DEF RoomIInv
<1> QED BY <1>1, RoomInductive, PTL

==============================================================================
