------------------------- MODULE UniqueHandleProofs --------------------------
(***************************************************************************)
(* Proofs about UniqueHandle for any number of slots and descriptors.  The *)
(* argument: active handles and open files correspond one to one, and what *)
(* is in fd_buff_ belongs to an active handle.  It needs that active_ is   *)
(* cleared when the destructor of a handle has run that is used again.     *)
(***************************************************************************)
EXTENDS UniqueHandle, TLAPS

(* What is registered belongs to a handle the program keeps. *)
RefsOwned ==
  \A n \in 1..Len(refs) :
    \E s \in Slots : active[s] /\ desc[s] = refs[n].desc /\ of[s] = refs[n].of

IInv ==
  /\ TypeOK /\ ReleasesOwnFile /\ OwnersRelease /\ SoleOwner /\ NothingLeaks
  /\ RefsOwned

-----------------------------------------------------------------------------
LEMMA InitInv == Init => IInv
BY ConstantsAssumption
   DEF Init, IInv, TypeOK, ReleasesOwnFile, OwnersRelease, SoleOwner,
       NothingLeaks, RefsOwned

(* A file just opened has a descriptor and a number no handle has.         *)
LEMMA ConstructKeepsInv ==
  ASSUME IInv, NEW s \in Slots, NEW d \in Descriptors, Construct(s, d)
  PROVE  IInv'
<1> USE ConstantsAssumption DEF IInv, Construct
<1>1. TypeOK'
  BY DEF TypeOK
<1>2. ~active[s]
  BY DEF OwnersRelease
<1>3. \A t \in Slots : active[t] => desc[t] # d
  BY DEF ReleasesOwnFile, TypeOK
<1>4. ReleasesOwnFile'
  BY <1>3 DEF ReleasesOwnFile, TypeOK
<1>5. OwnersRelease'
  BY DEF OwnersRelease, TypeOK
<1>6. SoleOwner'
  BY <1>3 DEF SoleOwner, TypeOK
<1>7. NothingLeaks'
  BY <1>2 DEF NothingLeaks, TypeOK
<1>8. RefsOwned'
  BY <1>2 DEF RefsOwned, TypeOK
<1>. QED
  BY <1>1, <1>4, <1>5, <1>6, <1>7, <1>8

(* A move constructor hands over what `from` owns, if it owns anything.    *)
LEMMA MoveConstructKeepsInv ==
  ASSUME IInv, NEW s \in Slots, NEW from \in Slots, MoveConstruct(s, from)
  PROVE  IInv'
<1> USE DEF IInv, MoveConstruct, Taken, Exchange, Handles
<1>1. s # from /\ ~active[s] /\ (active[from] <=> held[from] = "owner")
  BY DEF OwnersRelease
<1>2. TypeOK'
  BY <1>1 DEF TypeOK
<1>3. \A t \in Slots :
        /\ t # s => desc'[t] = desc[t] /\ of'[t] = of[t]
        /\ t # s /\ t # from => active'[t] = active[t] /\ held'[t] = held[t]
  BY DEF TypeOK
<1>4. /\ desc'[s] = desc[from] /\ of'[s] = of[from]
      /\ active'[s] = active[from] /\ active'[from] = FALSE
  BY <1>1 DEF TypeOK
<1>5. \A t \in Slots : active[t] =>
        \E u \in Slots : active'[u] /\ desc'[u] = desc[t] /\ of'[u] = of[t]
  <2> TAKE t \in Slots
  <2>1. CASE t = from
    BY <2>1, <1>4
  <2>2. CASE t # from
    BY <2>2, <1>1, <1>3
  <2>. QED
    BY <2>1, <2>2
<1>6. ReleasesOwnFile'
  BY <1>1, <1>3, <1>4 DEF ReleasesOwnFile, TypeOK
<1>7. OwnersRelease'
  BY <1>1, <1>3, <1>4 DEF OwnersRelease, TypeOK
<1>8. SoleOwner'
  BY <1>1, <1>3, <1>4 DEF SoleOwner, TypeOK
<1>9. NothingLeaks'
  <2> SUFFICES ASSUME NEW d \in Descriptors, file[d] # 0
               PROVE  \E u \in Slots : active'[u] /\ desc'[u] = d
    BY DEF NothingLeaks
  <2>1. PICK t \in Slots : active[t] /\ desc[t] = d
    BY DEF NothingLeaks
  <2>. QED
    BY <2>1, <1>5
<1>10. RefsOwned'
  <2> SUFFICES ASSUME NEW n \in 1..Len(refs)
               PROVE  \E u \in Slots : active'[u] /\ desc'[u] = refs[n].desc
                                        /\ of'[u] = refs[n].of
    BY DEF RefsOwned
  <2> HIDE DEF IInv, MoveConstruct, MoveAssign, Taken, Exchange
  <2>1. PICK t \in Slots : active[t] /\ desc[t] = refs[n].desc /\ of[t] = refs[n].of
    BY DEF RefsOwned, IInv
  <2>. QED
    BY <2>1, <1>5
<1>. QED
  BY <1>2, <1>6, <1>7, <1>8, <1>9, <1>10

(* A handle that owns s's file closes it under no other handle and under   *)
(* no descriptor of fd_buff_, since the program keeps it until the flush.  *)
LEMMA ReleaseFacts ==
  ASSUME IInv, NEW s \in Slots, Kept(s), Release(s), opened' = opened
  PROVE  /\ file' \in [Descriptors -> 0..opened']
         /\ \A t \in Slots : t # s /\ active[t] => file'[desc[t]] = of[t]
         /\ \A d \in Descriptors : file'[d] # 0 =>
              \E t \in Slots : t # s /\ active[t] /\ desc[t] = d
         /\ \A n \in 1..Len(refs) : \E t \in Slots :
              t # s /\ active[t] /\ desc[t] = refs[n].desc /\ of[t] = refs[n].of
<1> USE DEF IInv, Release
<1>1. file' \in [Descriptors -> 0..opened']
  BY DEF TypeOK
<1>2. \A t \in Slots : t # s /\ active[t] => file'[desc[t]] = of[t]
  BY DEF TypeOK, ReleasesOwnFile, SoleOwner
<1>3. \A d \in Descriptors : file'[d] # 0 =>
        \E t \in Slots : t # s /\ active[t] /\ desc[t] = d
  BY DEF TypeOK, NothingLeaks
<1>4. \A n \in 1..Len(refs) : \E t \in Slots :
        t # s /\ active[t] /\ desc[t] = refs[n].desc /\ of[t] = refs[n].of
  BY DEF Kept, OwnersRelease, RefsOwned
<1>. QED
  BY <1>1, <1>2, <1>3, <1>4

LEMMA MoveAssignKeepsInv ==
  ASSUME IInv, NEW s \in Slots, NEW from \in Slots, MoveAssign(s, from)
  PROVE  IInv'
<1> USE DEF IInv, MoveAssign, Taken, Exchange, Alive
<1>1. /\ s # from /\ (active[from] <=> held[from] = "owner")
      /\ Kept(s) /\ Release(s) /\ opened' = opened
  BY DEF OwnersRelease
<1>2. /\ file' \in [Descriptors -> 0..opened']
      /\ \A t \in Slots : t # s /\ active[t] => file'[desc[t]] = of[t]
      /\ \A d \in Descriptors : file'[d] # 0 =>
           \E t \in Slots : t # s /\ active[t] /\ desc[t] = d
      /\ \A n \in 1..Len(refs) : \E t \in Slots :
           t # s /\ active[t] /\ desc[t] = refs[n].desc /\ of[t] = refs[n].of
  BY <1>1, ReleaseFacts
<1>3. TypeOK'
  BY <1>1, <1>2 DEF TypeOK
<1>4. \A t \in Slots :
        /\ t # s => desc'[t] = desc[t] /\ of'[t] = of[t]
        /\ t # s /\ t # from => active'[t] = active[t] /\ held'[t] = held[t]
  BY DEF TypeOK
<1>5. /\ desc'[s] = desc[from] /\ of'[s] = of[from]
      /\ active'[s] = active[from] /\ active'[from] = FALSE
  BY <1>1 DEF TypeOK
<1>6. \A t \in Slots : t # s /\ active[t] =>
        \E u \in Slots : active'[u] /\ desc'[u] = desc[t] /\ of'[u] = of[t]
  <2> TAKE t \in Slots
  <2>1. CASE t = from
    BY <2>1, <1>5
  <2>2. CASE t # from
    BY <2>2, <1>4
  <2>. QED
    BY <2>1, <2>2
<1>7. ReleasesOwnFile'
  BY <1>1, <1>2, <1>4, <1>5 DEF ReleasesOwnFile, TypeOK
<1>8. OwnersRelease'
  BY <1>1, <1>4, <1>5 DEF OwnersRelease, TypeOK
<1>9. SoleOwner'
  BY <1>1, <1>4, <1>5 DEF SoleOwner, TypeOK
<1>10. NothingLeaks'
  <2> SUFFICES ASSUME NEW d \in Descriptors, file'[d] # 0
               PROVE  \E u \in Slots : active'[u] /\ desc'[u] = d
    BY DEF NothingLeaks
  <2>1. PICK t \in Slots : t # s /\ active[t] /\ desc[t] = d
    BY <1>2
  <2>. QED
    BY <2>1, <1>6
<1>11. RefsOwned'
  <2> SUFFICES ASSUME NEW n \in 1..Len(refs)
               PROVE  \E u \in Slots : active'[u] /\ desc'[u] = refs[n].desc
                                        /\ of'[u] = refs[n].of
    BY DEF RefsOwned
  <2> HIDE DEF IInv, MoveConstruct, MoveAssign, Taken, Exchange
  <2>1. PICK t \in Slots :
          t # s /\ active[t] /\ desc[t] = refs[n].desc /\ of[t] = refs[n].of
    BY <1>2
  <2>. QED
    BY <2>1, <1>6
<1>. QED
  BY <1>3, <1>7, <1>8, <1>9, <1>10, <1>11

(* A destructor that clears active_ keeps the invariant, whatever becomes  *)
(* of the slot; used for the three ways it is called on its own.           *)
LEMMA DestructorKeepsInv ==
  ASSUME IInv, NEW s \in Slots, Kept(s), Release(s),
         active' = [active EXCEPT ![s] = FALSE],
         NEW h \in {"none", "moved", "destroyed"},
         held' = [held EXCEPT ![s] = h], UNCHANGED <<desc, of, opened, refs>>
  PROVE  IInv'
<1> USE DEF IInv
<1>1. /\ file' \in [Descriptors -> 0..opened']
      /\ \A t \in Slots : t # s /\ active[t] => file'[desc[t]] = of[t]
      /\ \A d \in Descriptors : file'[d] # 0 =>
           \E t \in Slots : t # s /\ active[t] /\ desc[t] = d
      /\ \A n \in 1..Len(refs) : \E t \in Slots :
           t # s /\ active[t] /\ desc[t] = refs[n].desc /\ of[t] = refs[n].of
  BY ReleaseFacts
<1>2. /\ ~active'[s] /\ held'[s] = h
      /\ \A t \in Slots : t # s => active'[t] = active[t] /\ held'[t] = held[t]
  BY DEF TypeOK
<1>3. TypeOK'
  BY <1>1 DEF TypeOK
<1>4. ReleasesOwnFile' /\ NothingLeaks' /\ RefsOwned'
  BY <1>1, <1>2 DEF ReleasesOwnFile, NothingLeaks, RefsOwned, TypeOK
<1>5. OwnersRelease' /\ SoleOwner'
  BY <1>2 DEF OwnersRelease, SoleOwner, TypeOK
<1>. QED
  BY <1>3, <1>4, <1>5

LEMMA NextKeepsInv ==
  ASSUME ~(DeadStores /\ UsesDestroyed), IInv, [Next]_vars
  PROVE  IInv'
<1>1. ASSUME NEW s \in Slots, NEW d \in Descriptors, Construct(s, d) PROVE IInv'
  BY <1>1, ConstructKeepsInv
<1>2. ASSUME NEW s \in Slots, NEW from \in Slots, MoveConstruct(s, from) PROVE IInv'
  BY <1>2, MoveConstructKeepsInv
<1>3. ASSUME NEW s \in Slots, NEW from \in Slots, MoveAssign(s, from) PROVE IInv'
  BY <1>3, MoveAssignKeepsInv
<1>4. ASSUME NEW s \in Slots, SelfMoveAssign(s) PROVE IInv'
  <2>1. active' = [active EXCEPT ![s] = FALSE]
    BY <1>4 DEF SelfMoveAssign, AfterLifetime
  <2>. QED
    BY <1>4, <2>1, DestructorKeepsInv DEF SelfMoveAssign
<1>5. ASSUME NEW s \in Slots, Destroy(s) PROVE IInv'
  <2>1. active' = [active EXCEPT ![s] = FALSE]
    BY <1>5 DEF Destroy, AfterLifetime
  <2>. QED
    BY <1>5, <2>1, DestructorKeepsInv DEF Destroy
<1>6. ASSUME NEW s \in Slots, EndScope(s) PROVE IInv'
  BY <1>6, DestructorKeepsInv DEF EndScope
<1>7. ASSUME NEW s \in Slots, AppendRef(s) PROVE IInv'
  <2> USE <1>7 DEF IInv, AppendRef, handles
  <2>1. TypeOK' /\ active[s] /\ refs \in Seq([desc : Descriptors, of : Nat])
    BY DEF TypeOK, OwnersRelease
  <2>2. RefsOwned'
    BY <2>1 DEF RefsOwned
  <2>. QED
    BY <2>1, <2>2 DEF ReleasesOwnFile, OwnersRelease, SoleOwner, NothingLeaks
<1>8. CASE ReleaseRefs
  BY <1>8 DEF ReleaseRefs, handles, IInv, TypeOK, ReleasesOwnFile, OwnersRelease,
     SoleOwner, NothingLeaks, RefsOwned
<1>9. CASE UNCHANGED vars
  BY <1>9 DEF vars, IInv, TypeOK, ReleasesOwnFile, OwnersRelease,
     SoleOwner, NothingLeaks, RefsOwned
<1>. QED
  BY <1>1, <1>2, <1>3, <1>4, <1>5, <1>6, <1>7, <1>8, <1>9 DEF Next, HandleStep

(* What is in fd_buff_ is still the file it was registered for.            *)
LEMMA InvImpliesRefsValid == IInv => RefsValid
BY DEF IInv, RefsOwned, ReleasesOwnFile, RefsValid

-----------------------------------------------------------------------------
(* The invariant of every program that either uses no handle whose         *)
(* destructor has run, or is built without dropping the store to active_.  *)
LEMMA SpecInv ==
  ASSUME ~(DeadStores /\ UsesDestroyed)
  PROVE  Spec => []IInv
<1>1. Init => IInv
  BY InitInv
<1>2. IInv /\ [Next]_vars => IInv'
  BY NextKeepsInv
<1>. QED
  BY <1>1, <1>2, PTL DEF Spec

(* Types: every handle has a descriptor, and files are numbered in order.  *)
THEOREM TypeCorrect ==
  ASSUME ~(DeadStores /\ UsesDestroyed)
  PROVE  Spec => []TypeOK
<1>1. IInv => TypeOK
  BY DEF IInv
<1>. QED
  BY <1>1, SpecInv, PTL

(* ~unique_handle() and operator= never release a file twice, nor one that *)
(* has since been opened under the same descriptor.                        *)
THEOREM NeverReleasedTwice ==
  ASSUME ~(DeadStores /\ UsesDestroyed)
  PROVE  Spec => [](ReleasesOwnFile /\ SoleOwner)
<1>1. IInv => ReleasesOwnFile /\ SoleOwner
  BY DEF IInv
<1>. QED
  BY <1>1, SpecInv, PTL

(* Every open file has a handle that will release it, and the handles that *)
(* will are the ones the program takes for owners.                         *)
THEOREM NeverLeaked ==
  ASSUME ~(DeadStores /\ UsesDestroyed)
  PROVE  Spec => [](NothingLeaks /\ OwnersRelease)
<1>1. IInv => NothingLeaks /\ OwnersRelease
  BY DEF IInv
<1>. QED
  BY <1>1, SpecInv, PTL

(* An fd_ref stays valid while its handle is moved about: fd_buff_ never   *)
(* sends another file than the one registered.                             *)
THEOREM RefsStayValid ==
  ASSUME ~(DeadStores /\ UsesDestroyed)
  PROVE  Spec => []RefsValid
BY SpecInv, InvImpliesRefsValid, PTL
=============================================================================
