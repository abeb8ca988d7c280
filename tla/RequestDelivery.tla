--------------------------- MODULE RequestDelivery ---------------------------
(***************************************************************************)
(* What a client promises the compositor: the bytes of its requests arrive *)
(* in the order of registration, those flushed and no others, and when the *)
(* last byte of a request is there so are all descriptors up to its own.   *)
(***************************************************************************)
EXTENDS Messages

CONSTANT RequestKinds

VARIABLES
  requests,  \* what was registered
  flushed,   \* the application asked to send the bytes up to this offset
  received,  \* the compositor has the bytes up to this offset
  arrived    \* the descriptors that the compositor has

vars == <<requests, flushed, received, arrived>>

Init ==
  /\ requests = {}
  /\ flushed = 0 /\ received = 0
  /\ arrived = {}

(* The descriptors of the requests that end at or before offset b. *)
Descriptors(b) ==
  UNION {0..(r.fdEnd - 1) : r \in {q \in requests : EndOf(q) <= b}}

(* A request is added behind the others, and its descriptors behind theirs. *)
Register ==
  /\ \E kind \in RequestKinds, b \in Boundaries(requests),
        f \in {0} \cup {r.fdEnd : r \in requests} :
       /\ \A r \in requests : EndOf(r) <= b /\ r.fdEnd <= f
       /\ requests' = requests \cup
            {[start |-> b, size |-> kind.size, fdEnd |-> f + kind.fds]}
  /\ UNCHANGED <<flushed, received, arrived>>

Flush ==
  /\ flushed' \in Boundaries(requests)
  /\ \A r \in requests : EndOf(r) <= flushed'
  /\ UNCHANGED <<requests, received, arrived>>

Receive ==
  /\ received' \in (received + 1)..flushed
  /\ arrived \subseteq arrived' /\ arrived' \subseteq Descriptors(flushed)
  /\ Descriptors(received') \subseteq arrived'
  /\ UNCHANGED <<requests, flushed>>

Next == Register \/ Flush \/ Receive

Spec == Init /\ [][Next]_vars
=============================================================================
