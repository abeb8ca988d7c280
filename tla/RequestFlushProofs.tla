------------------------- MODULE RequestFlushProofs -------------------------
(***************************************************************************)
(* Proofs about RequestFlush for all requests, all sizes of the socket and *)
(* any number of flushes.  The argument: whatever is still to be sent has  *)
(* fewer descriptors than bytes, for every prefix that ends with a request *)
(* (BacklogInv).  Registering keeps this because a request has fewer       *)
(* descriptors than header bytes, sending a descriptor because it uses up  *)
(* one byte, and writing because no descriptor is left by then.            *)
(***************************************************************************)
EXTENDS RequestFlush, TLAPS

QueueInv ==
  /\ appended \in Boundaries(requests) /\ released \in Boundaries(requests)
  /\ \A r \in requests : EndOf(r) <= appended /\ r.fdEnd <= fdAppended
  /\ fdAppended = 0 \/ \E r \in requests : r.fdEnd = fdAppended
  /\ \/ fdReleased = 0
     \/ \E r \in requests : r.fdEnd = fdReleased /\ EndOf(r) <= released
  /\ pc = "idle" => written = released /\ fdsSent = fdReleased
  /\ pc \in {"flush", "failed"} => released = appended /\ fdReleased = fdAppended
  /\ pc = "idle" => \A r \in requests : EndOf(r) > released \/ r.fdEnd <= fdReleased

BacklogInv ==
  /\ \/ fdAppended - fdsSent < appended - written
     \/ appended = written /\ fdAppended = fdsSent
  /\ \A r \in requests :
       r.fdEnd - fdsSent < EndOf(r) - written \/ r.fdEnd <= fdsSent

(* Every descriptor sent travels inside its own request or an earlier one. *)
CarriedInv ==
  /\ \A k \in 0..(fdsSent - 1) : \E c \in carried : c.fd = k
  /\ \A c \in carried : c.fd < fdsSent /\ c.byte < written
  /\ \A c \in carried, r \in requests : c.fd < r.fdEnd => c.byte < EndOf(r)
  /\ DescriptorsInOrder

IInv == TypeOK /\ QueueInv /\ BacklogInv /\ CarriedInv

-----------------------------------------------------------------------------
(* What is known of a registered request and of a kind of request.         *)
LEMMA RequestFacts ==
  ASSUME TypeOK, NEW r \in requests
  PROVE  /\ r.start \in Nat /\ r.size \in Nat /\ r.fdEnd \in Nat
         /\ EndOf(r) = r.start + r.size /\ EndOf(r) \in Nat
<1>1. r \in Request
  BY DEF TypeOK
<1>2. r.start \in Nat /\ r.size \in WireSizes /\ r.fdEnd \in Nat
  BY <1>1 DEF Request
<1>. QED
  BY <1>2 DEF WireSizes, EndOf

(* A request the protocols have: fewer descriptors than bytes.             *)
LEMMA KindFacts ==
  ASSUME NEW kind \in RequestKinds
  PROVE  /\ kind.size \in WireSizes /\ kind.size \in Nat /\ kind.fds \in Nat
         /\ kind.fds < kind.size
<1>1. kind \in [size : WireSizes, fds : 0..(HeaderSize - 1)]
  BY RequestKindsAssumption
<1>. QED
  BY <1>1 DEF WireSizes, HeaderSize

(* A request whose last byte is written has no descriptor left to send.    *)
LEMMA WrittenHasDescriptors ==
  ASSUME IInv, NEW r \in requests, EndOf(r) <= written
  PROVE  r.fdEnd <= fdsSent
BY RequestFacts DEF IInv, BacklogInv, TypeOK

-----------------------------------------------------------------------------
(* Steps. *)

(* message_buffer::append keeps the invariant.                             *)
LEMMA RegisterKeepsInv ==
  ASSUME IInv, NEW kind \in RequestKinds, Register(kind)
  PROVE  IInv'
<1> DEFINE new == [start |-> appended, size |-> kind.size,
                   fdEnd |-> fdAppended + kind.fds]
<1> USE DEF IInv, Register
<1>1. /\ kind.size \in WireSizes /\ kind.size \in Nat /\ kind.fds \in Nat
      /\ kind.fds < kind.size
  BY KindFacts
<1>2. /\ requests' = requests \cup {new}
      /\ EndOf(new) = appended + kind.size
      /\ new.fdEnd = fdAppended + kind.fds
  BY DEF EndOf
<1>3. TypeOK'
  BY <1>1, <1>2 DEF TypeOK, Request, socket
<1>4. Boundaries(requests)' = Boundaries(requests) \cup {appended + kind.size}
  BY <1>2 DEF Boundaries
<1>5. QueueInv'
  <2>1. \A r \in requests' : EndOf(r) <= appended' /\ r.fdEnd <= fdAppended'
    BY <1>1, <1>2, RequestFacts DEF QueueInv, TypeOK
  <2>2. \A r \in requests' : EndOf(r) > released' \/ r.fdEnd <= fdReleased'
    BY <1>1, <1>2 DEF QueueInv, TypeOK
  <2>3. \E r \in requests' : r.fdEnd = fdAppended'
    BY <1>2
  <2>4. \/ fdReleased' = 0
        \/ \E r \in requests' : r.fdEnd = fdReleased' /\ EndOf(r) <= released'
    BY <1>2 DEF QueueInv
  <2>. QED
    BY <1>4, <2>1, <2>2, <2>3, <2>4 DEF QueueInv, socket
<1>6. BacklogInv'
  <2>1. fdAppended' - fdsSent' < appended' - written'
    BY <1>1 DEF BacklogInv, TypeOK, socket
  <2>2. \A r \in requests' :
          r.fdEnd - fdsSent' < EndOf(r) - written' \/ r.fdEnd <= fdsSent'
    BY <1>1, <1>2, <2>1 DEF BacklogInv, TypeOK, socket
  <2>. QED
    BY <2>1, <2>2 DEF BacklogInv
<1>7. CarriedInv'
  <2>1. \A c \in carried : c.byte < EndOf(new)
    BY <1>1, <1>2 DEF CarriedInv, TypeOK
  <2>. QED
    BY <1>2, <2>1 DEF CarriedInv, DescriptorsInOrder, socket
<1>. QED
  BY <1>3, <1>5, <1>6, <1>7

(* release_data and release_fds keep the invariant.                        *)
LEMMA FlushKeepsInv ==
  ASSUME IInv, Flush
  PROVE  IInv'
BY DEF IInv, Flush, TypeOK, QueueInv, BacklogInv, CarriedInv,
       DescriptorsInOrder, Boundaries, EndOf, socket

(* Sending one descriptor along one byte keeps the invariant.              *)
LEMMA SendFdKeepsInv ==
  ASSUME IInv, SendFd
  PROVE  IInv'
<1> DEFINE new == [fd |-> fdsSent, byte |-> written]
<1> USE DEF IInv, SendFd
<1>1. released = appended /\ fdReleased = fdAppended
  BY DEF QueueInv
<1>2. written < released
  BY <1>1 DEF BacklogInv, TypeOK
<1>3. carried' = carried \cup {new} /\ new.fd = fdsSent /\ new.byte = written
  OBVIOUS
<1>4. TypeOK'
  BY <1>2, <1>3 DEF TypeOK, buffers
<1>5. QueueInv'
  BY DEF QueueInv, Boundaries, EndOf, buffers
<1>6. BacklogInv'
  BY <1>1, <1>2, RequestFacts DEF BacklogInv, TypeOK, EndOf, buffers
<1>7. CarriedInv'
  <2>1. \A k \in 0..(fdsSent' - 1) : \E c \in carried' : c.fd = k
    <3> SUFFICES ASSUME NEW k \in 0..fdsSent
                 PROVE  \E c \in carried' : c.fd = k
      BY DEF TypeOK
    <3>1. CASE k = fdsSent
      BY <1>3, <3>1
    <3>2. CASE k \in 0..(fdsSent - 1)
      BY <1>3, <3>2 DEF CarriedInv
    <3>. QED
      BY <3>1, <3>2 DEF TypeOK
  <2>2. \A c \in carried' : c.fd < fdsSent' /\ c.byte < written'
    BY <1>3 DEF CarriedInv, TypeOK
  <2>3. \A r \in requests : fdsSent < r.fdEnd => written < EndOf(r)
    BY WrittenHasDescriptors, RequestFacts DEF TypeOK
  <2>4. \A c \in carried', r \in requests : c.fd < r.fdEnd => c.byte < EndOf(r)
    BY <1>3, <2>3 DEF CarriedInv
  <2>5. DescriptorsInOrder'
    BY <1>3 DEF CarriedInv, DescriptorsInOrder, TypeOK
  <2>. QED
    BY <2>1, <2>2, <2>4, <2>5 DEF CarriedInv, EndOf, buffers
<1>. QED
  BY <1>4, <1>5, <1>6, <1>7

(* Writing some of the rest keeps the invariant.                           *)
LEMMA WriteKeepsInv ==
  ASSUME IInv, NEW n \in 1..SocketCapacity, Write(n)
  PROVE  IInv'
<1> USE DEF IInv, Write
<1>1. n \in Nat
  BY SocketCapacityAssumption
<1>2. TypeOK'
  BY <1>1 DEF TypeOK, buffers
<1>3. QueueInv'
  BY DEF QueueInv, Boundaries, EndOf, buffers
<1>4. fdsSent = fdAppended /\ released = appended
  BY DEF QueueInv
<1>5. BacklogInv'
  BY <1>1, <1>4, RequestFacts DEF BacklogInv, QueueInv, TypeOK, buffers
<1>6. CarriedInv'
  BY <1>1 DEF CarriedInv, DescriptorsInOrder, TypeOK, EndOf, buffers
<1>. QED
  BY <1>2, <1>3, <1>5, <1>6

(* The end of a flush, its failure, and the compositor's reads.            *)
LEMMA OthersKeepInv ==
  ASSUME IInv, FlushReturns \/ FlushFails \/ Compositor
  PROVE  IInv'
<1> USE DEF IInv
<1>1. UNCHANGED <<buffers, socket>>
  BY DEF FlushReturns, FlushFails, Compositor, Receive
<1>2. TypeOK'
  BY SocketCapacityAssumption
  DEF FlushReturns, FlushFails, Compositor, Receive, TypeOK, buffers, socket
<1>3. CASE FlushReturns
  <2>1. \A r \in requests : r.fdEnd <= fdReleased
    BY <1>3 DEF FlushReturns, QueueInv
  <2>. QED
    BY <1>1, <1>2, <1>3, <2>1
    DEF FlushReturns, QueueInv, BacklogInv, CarriedInv, DescriptorsInOrder,
        Boundaries, EndOf, buffers, socket
<1>4. CASE FlushFails \/ Compositor
  BY <1>1, <1>2, <1>4
  DEF FlushFails, Compositor, Receive, QueueInv, BacklogInv, CarriedInv,
      DescriptorsInOrder, Boundaries, EndOf, buffers, socket
<1>. QED
  BY <1>3, <1>4

-----------------------------------------------------------------------------
(* Theorems. *)

(* The invariant holds in every state of every behaviour.                  *)
THEOREM Invariance == Spec => []IInv
<1>1. Init => IInv
  BY DEF Init, IInv, TypeOK, QueueInv, BacklogInv, CarriedInv,
         DescriptorsInOrder, Boundaries
<1>2. IInv /\ [Next]_vars => IInv'
  <2> SUFFICES ASSUME IInv, [Next]_vars PROVE IInv'
    OBVIOUS
  <2>1. CASE \E kind \in RequestKinds : Register(kind)
    BY <2>1, RegisterKeepsInv
  <2>2. CASE Flush
    BY <2>2, FlushKeepsInv
  <2>3. CASE Sending
    BY <2>3, SendFdKeepsInv, WriteKeepsInv, OthersKeepInv DEF Sending
  <2>4. CASE FlushFails \/ Compositor
    BY <2>4, OthersKeepInv
  <2>5. CASE UNCHANGED vars
    BY <2>5 DEF vars, IInv, TypeOK, QueueInv, BacklogInv, CarriedInv,
                DescriptorsInOrder, Boundaries, EndOf
  <2>. QED
    BY <2>1, <2>2, <2>3, <2>4, <2>5 DEF Next, Stuck
<1>. QED
  BY <1>1, <1>2, PTL DEF Spec

(* The type invariant; above all, no more is ever written than released.   *)
THEOREM TypeCorrect == Spec => []TypeOK
<1>1. IInv => TypeOK
  BY DEF IInv
<1>. QED
  BY <1>1, Invariance, PTL

(* Whenever descriptors fall together so that the reads of the compositor  *)
(* cut the stream, those of a whole request have come with it.             *)
LEMMA InTime == IInv => DescriptorsArriveInTime
<1> SUFFICES ASSUME IInv, NEW r \in requests, EndOf(r) <= received,
                    NEW k \in 0..(r.fdEnd - 1)
             PROVE  k \in Arrived
  BY DEF DescriptorsArriveInTime
<1> USE DEF IInv
<1>1. EndOf(r) <= written
  BY RequestFacts DEF TypeOK
<1>2. r.fdEnd <= fdsSent
  BY <1>1, WrittenHasDescriptors
<1>3. PICK c \in carried : c.fd = k
  BY <1>2, RequestFacts DEF CarriedInv, TypeOK
<1>4. c.byte < EndOf(r)
  BY <1>3, RequestFacts DEF CarriedInv
<1>5. c.byte < received
  BY <1>4, RequestFacts DEF TypeOK
<1>. QED
  BY <1>3, <1>5 DEF Arrived

(* The descriptors of a request arrive no later than its last byte, for    *)
(* all requests with fewer descriptors than header bytes.                  *)
THEOREM DescriptorsInTime == Spec => []DescriptorsArriveInTime
BY InTime, Invariance, PTL

(* The order of the descriptors is that of the requests.                   *)
THEOREM DescriptorOrder == Spec => []DescriptorsInOrder
<1>1. IInv => DescriptorsInOrder
  BY DEF IInv, CarriedInv
<1>. QED
  BY <1>1, Invariance, PTL

(* The assert of flush_registered_requests never fires.                    *)
THEOREM FlushAssertion == Spec => []MoreBytesThanDescriptors
<1>1. IInv => MoreBytesThanDescriptors
  BY DEF IInv, TypeOK, QueueInv, BacklogInv, MoreBytesThanDescriptors, Empty
<1>. QED
  BY <1>1, Invariance, PTL

(* The client implements RequestDelivery.                                  *)
THEOREM Refinement == Spec => RequestsArriveInOrder
<1> USE DEF Delivery!Boundaries, Delivery!EndOf
<1>1. Init => Delivery!Init
  BY DEF Init, Delivery!Init, Arrived
<1>2. IInv /\ IInv' /\ [Next]_vars => [Delivery!Next]_Delivery!vars
  <2> SUFFICES ASSUME IInv, IInv', [Next]_vars
               PROVE  Delivery!Next \/ UNCHANGED Delivery!vars
    OBVIOUS
  <2> USE DEF IInv
  <2>1. ASSUME NEW kind \in RequestKinds, Register(kind)
        PROVE  Delivery!Register
    <3>1. /\ appended \in Boundaries(requests)
          /\ fdAppended \in {0} \cup {r.fdEnd : r \in requests}
          /\ \A r \in requests : EndOf(r) <= appended /\ r.fdEnd <= fdAppended
      BY DEF QueueInv
    <3>2. requests' = requests \cup
            {[start |-> appended, size |-> kind.size,
              fdEnd |-> fdAppended + kind.fds]}
      BY <2>1 DEF Register
    <3>3. UNCHANGED <<released, received, Arrived>>
      BY <2>1 DEF Register, socket, Arrived
    <3>. QED
      BY <3>1, <3>2, <3>3 DEF Delivery!Register, Boundaries, EndOf
  <2>2. CASE Flush
    <3>1. released' \in Boundaries(requests)
          /\ \A r \in requests : EndOf(r) <= released'
      BY <2>2 DEF Flush, QueueInv
    <3>2. UNCHANGED <<requests, received, Arrived>>
      BY <2>2 DEF Flush, socket, Arrived
    <3>. QED
      BY <3>1, <3>2 DEF Delivery!Next, Delivery!Flush, Boundaries, EndOf
  <2>3. ASSUME NEW n \in 1..SocketCapacity, Receive(n)
        PROVE  Delivery!Receive
    <3>1. UNCHANGED <<requests, released, carried, fdsSent>>
          /\ received' = received + n /\ received + n <= written
          /\ n \in Nat /\ n > 0
      BY <2>3, SocketCapacityAssumption DEF Receive, buffers, socket
    <3>2. received' \in (received + 1)..released
      BY <3>1 DEF TypeOK
    <3>3. Arrived \subseteq Arrived'
      BY <3>1 DEF Arrived, TypeOK
    <3>4. Arrived' \subseteq Delivery!Descriptors(released)
      <4> SUFFICES ASSUME NEW c \in carried
                   PROVE  c.fd \in Delivery!Descriptors(released)
        BY <3>1 DEF Arrived
      <4>1. c.fd \in Nat /\ c.fd < fdReleased
        BY DEF CarriedInv, TypeOK
      <4>2. PICK r \in requests : r.fdEnd = fdReleased /\ EndOf(r) <= released
        BY <4>1 DEF QueueInv
      <4>. QED
        BY <4>1, <4>2, RequestFacts DEF Delivery!Descriptors, EndOf
    <3>5. Delivery!Descriptors(received') \subseteq Arrived'
      <4>1. DescriptorsArriveInTime'
        BY InTime, PTL
      <4>. QED
        BY <3>1, <4>1 DEF DescriptorsArriveInTime, Delivery!Descriptors, EndOf
    <3>. QED
      BY <3>1, <3>2, <3>3, <3>4, <3>5 DEF Delivery!Receive
  <2>4. CASE SendFd
    <3>1. Arrived' = Arrived
      BY <2>4 DEF SendFd, Arrived, TypeOK
    <3>. QED
      BY <2>4, <3>1 DEF SendFd, buffers, Delivery!vars
  <2>5. ASSUME \/ \E n \in 1..SocketCapacity : Write(n)
               \/ FlushReturns \/ FlushFails \/ UNCHANGED vars
        PROVE  UNCHANGED Delivery!vars
    BY <2>5 DEF Write, FlushReturns, FlushFails, vars, buffers, socket,
                Delivery!vars, Arrived
  <2>. QED
    BY <2>1, <2>2, <2>3, <2>4, <2>5
    DEF Next, Sending, Compositor, Stuck, Delivery!Next
<1>. QED
  BY <1>1, <1>2, Invariance, PTL DEF Spec, Delivery!Spec, RequestsArriveInOrder
=============================================================================
