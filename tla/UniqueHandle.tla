---------------------------- MODULE UniqueHandle -----------------------------
(***************************************************************************)
(* sstd::unique_handle: handles that own a resource, here an open file     *)
(* under a descriptor, and release it at most once whatever way they are   *)
(* moved around.  Descriptors of closed files are used again, so a second  *)
(* release closes a file of someone else.  Beside the handles, fd_buff_ of *)
(* message_buffer keeps plain descriptors (fd_ref) until a flush.          *)
(*                                                                         *)
(* active_ is cleared by the destructor, but a store to an object whose    *)
(* lifetime ends is dead and compilers drop it (g++ does from -O2 on):     *)
(* with DeadStores the member is indeterminate after ~unique_handle().     *)
(***************************************************************************)
EXTENDS Naturals, Sequences

CONSTANTS
  Slots,         \* where handles are stored
  Descriptors,   \* descriptors of the process
  MaxFiles,      \* bound on the number of files opened
  MaxRefs,       \* bound on the length of fd_buff_
  DeadStores,    \* the build drops the store in the destructor
  UsesDestroyed  \* the program assigns handles to themselves and calls the
                 \* destructor, as the tests do

ASSUME ConstantsAssumption ==
  /\ MaxFiles \in Nat /\ MaxRefs \in Nat
  /\ DeadStores \in BOOLEAN /\ UsesDestroyed \in BOOLEAN

VARIABLES
  held,    \* what the program takes a slot for: "none" (no handle in it),
           \* "owner", "moved" (from) or "destroyed"
  desc,    \* the base T of the handle in a slot: its descriptor
  active,  \* active_
  of,      \* the file the handle was constructed for; not in the code
  file,    \* the file under each descriptor, 0 if it is closed
  opened,  \* how many files have been opened
  refs     \* fd_buff_: descriptors, with the file they were registered for

handles == <<held, desc, active, of>>
vars == <<held, desc, active, of, file, opened, refs>>

Handles == {s \in Slots : held[s] # "none"}
Alive == {s \in Slots : held[s] \in {"owner", "moved"}}

(* The program keeps a handle until its descriptor has been sent. *)
Kept(s) == held[s] = "owner" => \A n \in 1..Len(refs) : refs[n].desc # desc[s]

Init ==
  /\ held = [s \in Slots |-> "none"]
  /\ desc \in {[s \in Slots |-> d] : d \in Descriptors}
  /\ active = [s \in Slots |-> FALSE] /\ of = [s \in Slots |-> 0]
  /\ file = [d \in Descriptors |-> 0] /\ opened = 0
  /\ refs = <<>>

-----------------------------------------------------------------------------
(* The body of the destructor: the Releaser closes what the descriptor now *)
(* stands for.                                                             *)
Release(s) == file' = IF active[s] THEN [file EXCEPT ![desc[s]] = 0] ELSE file

(* Faulty: active_ is left as it was.                                      *)
AfterLifetimeUncleared(was) == {was}

(* active_ as it is read after ~unique_handle(). *)
AfterLifetime(was) == {FALSE} \cup (IF DeadStores THEN {was} ELSE {})

(* unique_handle(T&& resource), of a file just opened. *)
Construct(s, d) ==
  /\ held[s] = "none" /\ file[d] = 0 /\ opened < MaxFiles
  /\ opened' = opened + 1
  /\ file' = [file EXCEPT ![d] = opened + 1]
  /\ held' = [held EXCEPT ![s] = "owner"]
  /\ desc' = [desc EXCEPT ![s] = d]
  /\ active' = [active EXCEPT ![s] = TRUE]
  /\ of' = [of EXCEPT ![s] = opened + 1]
  /\ UNCHANGED refs

(* Base and active_ of slot `from` go to slot s. *)
Taken(s, from) ==
  /\ held' = [held EXCEPT ![s] = IF held[from] = "owner" THEN "owner" ELSE "moved",
                          ![from] = IF held[from] = "owner" THEN "moved" ELSE @]
  /\ desc' = [desc EXCEPT ![s] = desc[from]]
  /\ of' = [of EXCEPT ![s] = of[from]]

(* Faulty: active_ of rhs is read but not exchanged.                       *)
ExchangeKept(s, from) == active' = [active EXCEPT ![s] = active[from]]

(* Faulty: active_ of *this is left as the destructor has it.              *)
ExchangeLost(s, from) == active' = [active EXCEPT ![s] = FALSE, ![from] = FALSE]

(* active_ = std::exchange(rhs.active_, false) *)
Exchange(s, from) == active' = [active EXCEPT ![s] = active[from], ![from] = FALSE]

(* unique_handle(unique_handle&& rhs) *)
MoveConstruct(s, from) ==
  /\ held[s] = "none" /\ from \in Handles
  /\ Taken(s, from) /\ Exchange(s, from)
  /\ UNCHANGED <<file, opened, refs>>

(* Faulty: *this is overwritten without being destroyed.                   *)
MoveAssignUnreleased(s, from) ==
  /\ {s, from} \subseteq Alive /\ s # from /\ Kept(s)
  /\ Taken(s, from) /\ Exchange(s, from)
  /\ UNCHANGED <<file, opened, refs>>

(* operator=(unique_handle&& rhs) of another handle *)
MoveAssign(s, from) ==
  /\ {s, from} \subseteq Alive /\ s # from /\ Kept(s)
  /\ Release(s)
  /\ Taken(s, from) /\ Exchange(s, from)
  /\ UNCHANGED <<opened, refs>>

(* operator= of the handle itself: active_ is read after the destructor.   *)
SelfMoveAssign(s) ==
  /\ UsesDestroyed /\ s \in Alive /\ Kept(s)
  /\ Release(s)
  /\ \E a \in AfterLifetime(active[s]) : active' = [active EXCEPT ![s] = a]
  /\ held' = [held EXCEPT ![s] = "moved"]
  /\ UNCHANGED <<desc, of, opened, refs>>

(* handle.~unique_handle(); the storage is still there. *)
Destroy(s) ==
  /\ UsesDestroyed /\ s \in Alive /\ Kept(s)
  /\ Release(s)
  /\ \E a \in AfterLifetime(active[s]) : active' = [active EXCEPT ![s] = a]
  /\ held' = [held EXCEPT ![s] = "destroyed"]
  /\ UNCHANGED <<desc, of, opened, refs>>

(* The scope of a handle ends, and with it the handle. *)
EndScope(s) ==
  /\ s \in Handles /\ Kept(s)
  /\ Release(s)
  /\ active' = [active EXCEPT ![s] = FALSE]
  /\ held' = [held EXCEPT ![s] = "none"]
  /\ UNCHANGED <<desc, of, opened, refs>>

(* message_buffer::append of a Wfd copies an fd_ref. *)
AppendRef(s) ==
  /\ held[s] = "owner" /\ Len(refs) < MaxRefs
  /\ refs' = Append(refs, [desc |-> desc[s], of |-> of[s]])
  /\ UNCHANGED <<handles, file, opened>>

(* release_fds, for a flush that sends them. *)
ReleaseRefs ==
  /\ refs # <<>>
  /\ refs' = <<>>
  /\ UNCHANGED <<handles, file, opened>>

HandleStep(s) ==
  \/ \E d \in Descriptors : Construct(s, d)
  \/ \E from \in Slots : MoveConstruct(s, from) \/ MoveAssign(s, from)
  \/ SelfMoveAssign(s) \/ Destroy(s) \/ EndScope(s)
  \/ AppendRef(s)

Next == (\E s \in Slots : HandleStep(s)) \/ ReleaseRefs

Spec == Init /\ [][Next]_vars

-----------------------------------------------------------------------------
TypeOK ==
  /\ held \in [Slots -> {"none", "owner", "moved", "destroyed"}]
  /\ desc \in [Slots -> Descriptors]
  /\ active \in [Slots -> BOOLEAN]
  /\ of \in [Slots -> Nat]
  /\ file \in [Descriptors -> 0..opened] /\ opened \in 0..MaxFiles
  /\ refs \in Seq([desc : Descriptors, of : Nat])

(* Nothing is released twice: the file of a handle that will release it is *)
(* still the one under its descriptor.                                     *)
ReleasesOwnFile == \A s \in Slots : active[s] => of[s] # 0 /\ file[desc[s]] = of[s]

(* Every handle the program takes for the owner will release its file, and *)
(* no other will: neither one moved from nor one destroyed.                *)
OwnersRelease == \A s \in Slots : active[s] <=> held[s] = "owner"

(* Two handles never release the same file.                                *)
SoleOwner ==
  \A s, t \in Slots : active[s] /\ active[t] /\ desc[s] = desc[t] => s = t

(* An open file is never without a handle that will release it.            *)
NothingLeaks ==
  \A d \in Descriptors : file[d] # 0 => \E s \in Slots : active[s] /\ desc[s] = d

(* What a flush sends is what was registered: the fd_ref in fd_buff_ does  *)
(* not own its descriptor and outlives moves of the handle that does.      *)
RefsValid == \A n \in 1..Len(refs) : file[refs[n].desc] = refs[n].of
=============================================================================
