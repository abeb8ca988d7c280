--------------------------- MODULE MCRequestFlush ---------------------------
(* Instances of RequestFlush for TLC. *)
EXTENDS RequestFlush

(* A request without arguments, one with the most descriptors that the    *)
(* assumption on the protocols allows, and a longer one with one.          *)
MCKinds == {[size |-> 8, fds |-> 0], [size |-> 8, fds |-> 7],
            [size |-> 12, fds |-> 1]}
=============================================================================
