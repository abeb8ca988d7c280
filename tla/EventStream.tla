----------------------------- MODULE EventStream -----------------------------
(***************************************************************************)
(* The stream of events a compositor writes to one client.  It is a set of *)
(* messages back to back, each with the pair that dispatch looks at;       *)
(* nothing of it is ever rewritten, so cursors into it are plain offsets.  *)
(***************************************************************************)
EXTENDS Messages

CONSTANTS
  Keys,       \* (object id, opcode) pairs, all that dispatch looks at
  EventSizes, \* sizes of the events the compositor may send
  MaxStream   \* bound on the length of the stream, in bytes

ASSUME EventSizesAssumption == EventSizes \subseteq WireSizes

ASSUME MaxStreamAssumption == MaxStream \in Nat

Event == [start : Nat, size : EventSizes, key : Keys]
=============================================================================
