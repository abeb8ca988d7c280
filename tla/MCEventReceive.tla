--------------------------- MODULE MCEventReceive ---------------------------
(* Instances of EventReceive for TLC. *)
EXTENDS EventReceive

CONSTANTS done, error, ping  \* keys: awaited, with an overload, skipped

MCKeys == {done, error, ping}
MCTwoKeys == {done, error}
MCOverloads == {error}
MCSizes == {8, 12}
MCOneSize == {8}
=============================================================================
