--------------------------- MODULE MCUniqueHandle ----------------------------
(* Instances of UniqueHandle for TLC. *)
EXTENDS UniqueHandle, TLC

CONSTANTS s1, s2, s3, d1, d2

MCSlots == {s1, s2, s3}
MCDescriptors == {d1, d2}
Symmetric == Permutations(MCSlots) \cup Permutations(MCDescriptors)
=============================================================================
