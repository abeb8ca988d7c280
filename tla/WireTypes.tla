----------------------------- MODULE WireTypes ------------------------------
(***************************************************************************)
(* The types of message arguments and the messages built from them.  A     *)
(* Wobject and a Wnew_id name the interface of the object they stand for.  *)
(***************************************************************************)
EXTENDS Naturals, Sequences

NoInterface == "none"

(* The interface of an object whose type is not known to the header. *)
generic_object == "generic_object"

Argument(t, interface) == [t |-> t, of |-> interface]

Wint == Argument("int", NoInterface)
Wuint == Argument("uint", NoInterface)
Wfixed == Argument("fixed", NoInterface)
Wstring == Argument("string", NoInterface)
Warray == Argument("array", NoInterface)
Wfd == Argument("fd", NoInterface)
Wobject(interface) == Argument("object", interface)
Wnew_id(interface) == Argument("new_id", interface)

(* A struct of a header: its name, its opcode and the types of its members. *)
Message(name, opcode, args) == [name |-> name, opcode |-> opcode, args |-> args]

(* How an argument is laid out: as 4 bytes (static_message_argument), with *)
(* its length before it, or not in the bytes at all.                       *)
Layout(type) ==
  IF type.t \in {"int", "uint", "fixed", "object", "new_id"} THEN "word"
  ELSE type.t
=============================================================================
