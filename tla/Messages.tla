------------------------------ MODULE Messages ------------------------------
(***************************************************************************)
(* Wire messages as intervals of a byte stream, for either direction: a    *)
(* header of 8 bytes, a size that counts the header, and only whole 32-bit *)
(* words.  A message is a record with a start (the offset of its first     *)
(* byte) and a size.                                                       *)
(***************************************************************************)
EXTENDS Integers

WordSize == 4
HeaderSize == 8

(* The sizes a well formed message can have. *)
WireSizes == {n \in Nat : n >= HeaderSize /\ n % WordSize = 0}

EndOf(m) == m.start + m.size

(* The offsets at which one message ends and the next one begins. *)
Boundaries(messages) == {0} \cup {EndOf(m) : m \in messages}

(* The bytes from offset a up to offset b hold all of message m. *)
Within(m, a, b) == a <= m.start /\ EndOf(m) <= b
=============================================================================
