---------------------------- MODULE MCWireFormat ----------------------------
(* Instances of WireFormat for TLC. *)
EXTENDS WireFormat, Protocols

Upto(n, primitives) == UNION {[1..k -> primitives] : k \in 0..n}

(* Messages of object 90: one opcode for every list of layouts. *)
Opcode(shape) ==
  LET digit(t) == CASE t = "word" -> 1 [] t = "string" -> 2
                    [] t = "array" -> 3 [] t = "fd" -> 4
  IN IF shape = <<>> THEN 0
     ELSE IF Len(shape) = 1 THEN digit(shape[1])
     ELSE 5 * digit(shape[1]) + digit(shape[2])
MessagesOf(lists) ==
  {[obj |-> 90, opcode |-> Opcode(Shape(args)), args |-> args] : args \in lists}

(* All of these messages have an overload but the one without arguments. *)
ListLayouts ==
  LET shapes == Upto(2, {"word", "string", "array", "fd"}) \ {<<>>} IN
  [key \in {<<90, Opcode(shape)>> : shape \in shapes} |->
     CHOOSE shape \in shapes : Opcode(shape) = key[2]]

(* Lengths 4 + n on and off the word, the empty ones, and one word value.  *)
Requests == MessagesOf(Upto(2,
  {[t |-> "word", v |-> 300], [t |-> "fd", v |-> 3]}
    \cup {[t |-> "string", v |-> s] :
            s \in {<<>>, <<97, 98, 99>>, <<97, 98, 99, 100>>}}
    \cup {[t |-> "array", v |-> s] : s \in {<<>>, <<1>>, <<1, 2, 3, 4>>}}))

Plain == {[t |-> "word", v |-> 300], [t |-> "string", v |-> <<97>>]}
Null == [t |-> "null", v |-> <<>>]

(* Events whose last argument may be a null string.                        *)
Events ==
  MessagesOf(Upto(2, Plain) \cup {Append(s, Null) : s \in Upto(1, Plain)})

(* Two messages that outgrow a size field for less than 256 bytes.         *)
Oversized ==
  MessagesOf({<<[t |-> "array", v |-> [j \in 1..n |-> 7]]>> : n \in {244, 248}})

(* Events with null strings anywhere.                                      *)
MCNullable == {<<MessagesOf(Upto(2, Plain \cup {Null}))>>}

-----------------------------------------------------------------------------
(* The messages of the protocol headers: interface number o has object o   *)
(* for requests and 100 + o for events.  Every argument has a value of its *)
(* own, and strings and arrays have lengths of every residue modulo 4.     *)
Sample(type, i, k) ==
  CASE Layout(type) \in {"word", "fd"} -> 300 + i
    [] Layout(type) \in {"string", "array"} -> [j \in 1..(i + k) |-> 96 + i]

Instances(table, base, WithOpcode(_, _)) ==
  UNION {{[obj |-> base + o,
           opcode |-> WithOpcode(table[AllInterfaces[o]][n], n),
           args |-> LET types == table[AllInterfaces[o]][n].args IN
                    [i \in 1..Len(types) |->
                       [t |-> Layout(types[i]), v |-> Sample(types[i], i, k)]]] :
            n \in 1..Len(table[AllInterfaces[o]]), k \in 0..3} :
         o \in 1..Len(AllInterfaces)}

LayoutsOf(table, base, WithOpcode(_, _)) ==
  LET list(obj) == table[AllInterfaces[obj - base]]
      keys(obj) == {<<obj, WithOpcode(list(obj)[n], n)>> : n \in 1..Len(list(obj))}
      args(key) ==
        list(key[1])[CHOOSE n \in 1..Len(list(key[1])) :
                       WithOpcode(list(key[1])[n], n) = key[2]].args
  IN [key \in UNION {keys(base + o) : o \in 1..Len(AllInterfaces)} |->
        [i \in 1..Len(args(key)) |-> Layout(args(key)[i])]]

(* The program uses the opcode of the header, the compositor numbers the   *)
(* messages of an interface in the order of the protocol.                  *)
OfHeader(msg, n) == msg.opcode
OfProtocol(msg, n) == n - 1

ProtocolRequests == Instances(AllRequests, 0, OfHeader)

(* Without the events that carry a descriptor, which                       *)
(* interpert_message_payload has no branch for.                            *)
ProtocolEvents ==
  {msg \in Instances(AllEvents, 100, OfProtocol) :
     \A i \in 1..Len(msg.args) : msg.args[i].t # "fd"}

-----------------------------------------------------------------------------
(* Two of the listed requests, up to three events, one message of a        *)
(* protocol, or a message behind one that outgrew its size field.          *)
MCBatches ==
  {<<Requests, Requests>>, <<Events, Events, Events>>,
   <<ProtocolRequests>>, <<ProtocolEvents>>, <<Oversized, Events>>}

(* Requests are read by the compositor, events by the program.             *)
MCLayouts ==
  ListLayouts @@ LayoutsOf(AllRequests, 0, OfProtocol)
    @@ LayoutsOf(AllEvents, 100, OfHeader)
=============================================================================
