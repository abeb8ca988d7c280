---------------------------- MODULE RequestFlush ----------------------------
(***************************************************************************)
(* The requesting half of connected_client: register_request appends to    *)
(* message_buffer, flush_registered_requests empties it into the socket.   *)
(* The bytes of a request and its file descriptors wait in two buffers and *)
(* go out together: every descriptor with one byte, in front of the rest.  *)
(* The compositor pairs them again by their order alone.                   *)
(*                                                                         *)
(* Bytes and descriptors are numbered from the first one ever appended, so *)
(* buff_ is what lies between two such numbers, and so is fd_buff_.        *)
(***************************************************************************)
EXTENDS Messages

CONSTANTS
  RequestKinds,   \* the size of a request and how many descriptors it has
  MaxRequests,    \* bound on the bytes that are ever appended
  SocketCapacity  \* bytes the socket takes before a write blocks

(* No request of the protocols has more descriptors than its header bytes. *)
ASSUME RequestKindsAssumption ==
  RequestKinds \subseteq [size : WireSizes, fds : 0..(HeaderSize - 1)]
ASSUME MaxRequestsAssumption == MaxRequests \in Nat
ASSUME SocketCapacityAssumption == SocketCapacity \in Nat \ {0}

VARIABLES
  requests,    \* what was registered: start, size and where its fds end
  appended,    \* end of buff_
  fdAppended,  \* end of fd_buff_
  released,    \* begin of buff_, and while flushing end of data_to_write
  fdReleased,  \* begin of fd_buff_, and while flushing end of fds_to_write
  written,     \* next byte to be written
  fdsSent,     \* next descriptor to be sent
  carried,     \* the byte each sent descriptor travels with
  received,    \* next byte the compositor reads
  pc           \* where the client is

buffers == <<requests, appended, fdAppended, released, fdReleased>>
socket == <<written, fdsSent, carried>>
vars == <<requests, appended, fdAppended, released, fdReleased, written,
          fdsSent, carried, received, pc>>

Request == [start : Nat, size : WireSizes, fdEnd : Nat]

Init ==
  /\ requests = {}
  /\ appended = 0 /\ fdAppended = 0
  /\ released = 0 /\ fdReleased = 0
  /\ written = 0 /\ fdsSent = 0
  /\ carried = {}
  /\ received = 0
  /\ pc = "idle"

(* message_buffer::empty *)
Empty == appended = released /\ fdAppended = fdReleased

(* A byte, and a descriptor with it, that the socket has room for. *)
RoomInSocket(n) == written + n - received <= SocketCapacity

-----------------------------------------------------------------------------
(* Faulty: append leaves no room for the header.                           *)
RegisterNoHeader(kind) ==
  /\ pc = "idle"
  /\ appended + kind.size <= MaxRequests
  /\ appended' = appended + kind.size - HeaderSize
  /\ fdAppended' = fdAppended + kind.fds
  /\ requests' = requests \cup
       {[start |-> appended, size |-> kind.size, fdEnd |-> fdAppended']}
  /\ UNCHANGED <<released, fdReleased, socket, received, pc>>

(* register_request: message_buffer::append of all of one request. *)
Register(kind) ==
  /\ pc = "idle"
  /\ appended + kind.size <= MaxRequests
  /\ appended' = appended + kind.size
  /\ fdAppended' = fdAppended + kind.fds
  /\ requests' = requests \cup
       {[start |-> appended, size |-> kind.size, fdEnd |-> fdAppended']}
  /\ UNCHANGED <<released, fdReleased, socket, received, pc>>

(* Faulty: the descriptors stay in their buffer.                           *)
FlushDataOnly ==
  /\ pc = "idle"
  /\ ~Empty
  /\ released' = appended
  /\ pc' = "flush"
  /\ UNCHANGED <<requests, appended, fdAppended, fdReleased, socket, received>>

(* flush_registered_requests: release_data and release_fds. *)
Flush ==
  /\ pc = "idle"
  /\ ~Empty
  /\ released' = appended
  /\ fdReleased' = fdAppended
  /\ pc' = "flush"
  /\ UNCHANGED <<requests, appended, fdAppended, socket, received>>

(* Faulty: every descriptor goes with the first byte.                      *)
SendFdSameByte ==
  /\ pc = "flush"
  /\ fdsSent < fdReleased
  /\ RoomInSocket(1)
  /\ carried' = carried \cup {[fd |-> fdsSent, byte |-> written]}
  /\ fdsSent' = fdsSent + 1
  /\ written' = IF fdsSent' = fdReleased THEN written + 1 ELSE written
  /\ UNCHANGED <<buffers, received, pc>>

(* send one descriptor along one byte. *)
SendFd ==
  /\ pc = "flush"
  /\ fdsSent < fdReleased
  /\ RoomInSocket(1)
  /\ carried' = carried \cup {[fd |-> fdsSent, byte |-> written]}
  /\ fdsSent' = fdsSent + 1
  /\ written' = written + 1
  /\ UNCHANGED <<buffers, received, pc>>

(* Faulty: the count of bytes already sent is left out of subspan.         *)
WriteTooMuch(n) ==
  /\ pc = "flush"
  /\ fdsSent = fdReleased
  /\ written < released
  /\ RoomInSocket(n)
  /\ written' = written + n
  /\ UNCHANGED <<buffers, fdsSent, carried, received, pc>>

(* Faulty: the last byte is never written.                                 *)
WriteAllButOne(n) ==
  /\ pc = "flush"
  /\ fdsSent = fdReleased
  /\ written + n < released
  /\ RoomInSocket(n)
  /\ written' = written + n
  /\ UNCHANGED <<buffers, fdsSent, carried, received, pc>>

(* write takes as much of the rest as there is room for. *)
Write(n) ==
  /\ pc = "flush"
  /\ fdsSent = fdReleased
  /\ written + n <= released
  /\ RoomInSocket(n)
  /\ written' = written + n
  /\ UNCHANGED <<buffers, fdsSent, carried, received, pc>>

FlushReturns ==
  /\ pc = "flush"
  /\ fdsSent = fdReleased
  /\ written = released
  /\ pc' = "idle"
  /\ UNCHANGED <<buffers, socket, received>>

(* send or write throws: what was released and is not sent is gone.  No    *)
(* use of the client after this is modelled.                               *)
FlushFails ==
  /\ pc = "flush"
  /\ pc' = "failed"
  /\ UNCHANGED <<buffers, socket, received>>

(* The compositor reads some bytes, with the descriptors they carry. *)
Receive(n) ==
  /\ received + n <= written
  /\ received' = received + n
  /\ UNCHANGED <<buffers, socket, pc>>

-----------------------------------------------------------------------------
Sending ==
  \/ SendFd
  \/ \E n \in 1..SocketCapacity : Write(n)
  \/ FlushReturns

Compositor == \E n \in 1..SocketCapacity : Receive(n)

(* Nothing is left to be done, at the latest when MaxRequests is reached. *)
Stuck ==
  /\ pc = "failed" \/ (pc = "idle" /\ Empty /\ received = written)
  /\ UNCHANGED vars

Next ==
  \/ \E kind \in RequestKinds : Register(kind)
  \/ Flush
  \/ Sending
  \/ FlushFails
  \/ Compositor
  \/ Stuck

Spec == Init /\ [][Next]_vars

(* The kernel takes bytes when there is room, and the compositor reads on. *)
FairSpec == Spec /\ WF_vars(Sending) /\ WF_vars(Compositor)

-----------------------------------------------------------------------------
(* Types: what is received, written, released and appended, in this order, *)
(* never overtake each other (message_buffer, connected_client.cpp:41-57). *)
TypeOK ==
  /\ requests \subseteq Request
  /\ appended \in Nat /\ released \in 0..appended /\ written \in 0..released
  /\ received \in 0..written
  /\ fdAppended \in Nat /\ fdReleased \in 0..fdAppended
  /\ fdsSent \in 0..fdReleased
  /\ carried \subseteq [fd : Nat, byte : Nat]
  /\ pc \in {"idle", "flush", "failed"}

(* The descriptors that reached the compositor. *)
Arrived == {c.fd : c \in {d \in carried : d.byte < received}}

(* When the compositor has all of a request, it has the descriptors of it  *)
(* and of those before it: sending descriptor i of a flush with byte i     *)
(* (connected_client.cpp:47-54) is never too late for its request.         *)
DescriptorsArriveInTime ==
  \A r \in requests : EndOf(r) <= received => 0..(r.fdEnd - 1) \subseteq Arrived

(* Each descriptor travels with a byte of its own and in the order of the  *)
(* requests, as their order is all that tells whose it is.                 *)
DescriptorsInOrder ==
  \A c, d \in carried : c.fd < d.fd => c.byte < d.byte

(* "Assume that there is more bytes to send than file descriptors"         *)
(* (connected_client.cpp:44) holds at every flush.                         *)
MoreBytesThanDescriptors ==
  pc = "idle" /\ ~Empty => appended - released > fdAppended - fdReleased

(* Requests arrive in order, whole, and with their descriptors. *)
Delivery == INSTANCE RequestDelivery WITH
  flushed <- released,
  arrived <- Arrived

RequestsArriveInOrder == Delivery!Spec

(* What was flushed arrives, however small the socket is, as long as the   *)
(* compositor reads and unless send or write throws.                       *)
FlushedArrive ==
  \A b \in 1..MaxRequests :
    (released = b) ~> (received >= b \/ pc = "failed")
=============================================================================
