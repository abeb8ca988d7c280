-------------------------- MODULE HeaderGenerator ---------------------------
(***************************************************************************)
(* generate_cxx_header_from_wayland_xml.py: from the nodes of a protocol   *)
(* to the structs of a header.  The XML has no opcodes: a message gets the *)
(* number of those of its kind before it, which is how the compositor      *)
(* counts.  The nodes are external.  They are chosen one by one so that    *)
(* the protocol has given tables of requests and events, its requests,     *)
(* events and enums mixed in any order and described or not.               *)
(***************************************************************************)
EXTENDS Integers, WireTypes, SequencesExt

CONSTANTS
  Interfaces,         \* the interfaces of the protocol
  Requests,           \* what their requests are on the wire, in order
  Events,             \* and their events
  MaxEnums            \* bound on the enum nodes of an interface

ASSUME GeneratorAssumption == MaxEnums \in Nat

VARIABLES
  pc,          \* "protocol", "interface", "declare", "define", "written", "raised"
  enumsLeft,   \* the enum nodes to come in the interface
  request_opcode_counter,
  event_opcode_counter,
  parsed,      \* the interface being parsed
  interfaces,  \* those parsed
  header       \* what has been written, a sequence of declarations and structs

vars == <<pc, enumsLeft, request_opcode_counter, event_opcode_counter, parsed,
          interfaces, header>>

Blank(I) ==
  [name |-> I, requests |-> <<>>, events |-> <<>>, enums |-> 0,
   request_opcodes |-> <<>>, event_opcodes |-> <<>>]

Init ==
  /\ pc = "protocol" /\ enumsLeft = 0
  /\ request_opcode_counter = 0 /\ event_opcode_counter = 0
  /\ parsed = Blank(NoInterface) /\ interfaces = <<>> /\ header = <<>>

-----------------------------------------------------------------------------
(* The arg nodes of a message.  On the wire the interface and the version  *)
(* of a generic new_id precede it, in the XML they do not.                 *)
ArgNodes(args) ==
  LET generic == {i \in DOMAIN args : args[i] = Wnew_id(generic_object)}
      implied == {i - 2 : i \in generic} \cup {i - 1 : i \in generic}
      kept == SetToSortSeq(DOMAIN args \ implied, <)
  IN [n \in DOMAIN kept |-> args[kept[n]]]

(* parse_wl_arg returns a list. *)
parse_wl_arg(node) ==
  IF node = Wnew_id(generic_object) THEN <<Wstring, Wuint, node>> ELSE <<node>>

ParsedArgs(nodes) == FlattenSeq([i \in DOMAIN nodes |-> parse_wl_arg(nodes[i])])

(* A message node raises an AssertionError if its first child is an arg.   *)
Raises(nodes, described) == nodes # <<>> /\ ~described

Raise ==
  /\ pc' = "raised"
  /\ UNCHANGED <<enumsLeft, request_opcode_counter, event_opcode_counter,
                 parsed, interfaces, header>>

(* parse_wl_interface begins with its number of children. *)
StartInterface(I, described, enums) ==
  LET children == Len(Requests[I]) + Len(Events[I]) + enums
                    + (IF described THEN 1 ELSE 0)
  IN
  /\ pc = "protocol"
  /\ I \notin {interfaces[i].name : i \in DOMAIN interfaces}
  /\ IF children <= 1 THEN Raise
     ELSE /\ pc' = "interface" /\ parsed' = Blank(I) /\ enumsLeft' = enums
          /\ request_opcode_counter' = 0 /\ event_opcode_counter' = 0
          /\ UNCHANGED <<interfaces, header>>

(* The next request of the interface, when its node is next. *)
ParseRequest(described) ==
  LET n == Len(parsed.requests) + 1
      nodes == ArgNodes(Requests[parsed.name][n].args)
  IN
  /\ pc = "interface" /\ n \in DOMAIN Requests[parsed.name]
  /\ IF Raises(nodes, described) THEN Raise
     ELSE /\ parsed' = [parsed EXCEPT
               !.requests = Append(@, [name |-> Requests[parsed.name][n].name,
                                       args |-> ParsedArgs(nodes)]),
               !.request_opcodes = Append(@, request_opcode_counter)]
          /\ request_opcode_counter' = request_opcode_counter + 1
          /\ UNCHANGED <<pc, enumsLeft, event_opcode_counter, interfaces, header>>

(* Faulty: requests and events share a counter.                            *)
ParseEventOneCounter(described) ==
  LET n == Len(parsed.events) + 1
      nodes == ArgNodes(Events[parsed.name][n].args)
  IN
  /\ pc = "interface" /\ n \in DOMAIN Events[parsed.name]
  /\ IF Raises(nodes, described) THEN Raise
     ELSE /\ parsed' = [parsed EXCEPT
               !.events = Append(@, [name |-> Events[parsed.name][n].name,
                                     args |-> ParsedArgs(nodes)]),
               !.event_opcodes = Append(@, request_opcode_counter)]
          /\ request_opcode_counter' = request_opcode_counter + 1
          /\ UNCHANGED <<pc, enumsLeft, event_opcode_counter, interfaces, header>>

(* The next event. *)
ParseEvent(described) ==
  LET n == Len(parsed.events) + 1
      nodes == ArgNodes(Events[parsed.name][n].args)
  IN
  /\ pc = "interface" /\ n \in DOMAIN Events[parsed.name]
  /\ IF Raises(nodes, described) THEN Raise
     ELSE /\ parsed' = [parsed EXCEPT
               !.events = Append(@, [name |-> Events[parsed.name][n].name,
                                     args |-> ParsedArgs(nodes)]),
               !.event_opcodes = Append(@, event_opcode_counter)]
          /\ event_opcode_counter' = event_opcode_counter + 1
          /\ UNCHANGED <<pc, enumsLeft, request_opcode_counter, interfaces, header>>

(* Enums are collected; they have no opcode. *)
ParseEnum ==
  /\ pc = "interface" /\ enumsLeft > 0
  /\ enumsLeft' = enumsLeft - 1
  /\ parsed' = [parsed EXCEPT !.enums = @ + 1]
  /\ UNCHANGED <<pc, request_opcode_counter, event_opcode_counter, interfaces,
                 header>>

EndInterface ==
  /\ pc = "interface" /\ enumsLeft = 0
  /\ Len(parsed.requests) = Len(Requests[parsed.name])
  /\ Len(parsed.events) = Len(Events[parsed.name])
  /\ interfaces' = Append(interfaces, parsed)
  /\ pc' = IF Len(interfaces') < Cardinality(Interfaces) THEN "protocol" ELSE "declare"
  /\ UNCHANGED <<enumsLeft, request_opcode_counter, event_opcode_counter,
                 parsed, header>>

-----------------------------------------------------------------------------
(* write_cxx_header *)

Declaration(i) == [kind |-> "declaration", interface |-> i.name]

(* zip: the messages of an interface with their opcodes. *)
Structs(kind, i, opcodes, messages) ==
  [n \in DOMAIN messages |->
     [kind |-> kind, interface |-> i.name,
      message |-> Message(messages[n].name, opcodes[n], messages[n].args)]]

as_cxx_definitions(i) ==
  Structs("request", i, i.request_opcodes, i.requests)
    \o Structs("event", i, i.event_opcodes, i.events)

(* Faulty: one interface after the other, declared and defined.            *)
DeclareOneByOne ==
  /\ pc = "declare"
  /\ header' = FlattenSeq([i \in DOMAIN interfaces |->
                 <<Declaration(interfaces[i])>> \o as_cxx_definitions(interfaces[i])])
  /\ pc' = "written"
  /\ UNCHANGED <<enumsLeft, request_opcode_counter, event_opcode_counter,
                 parsed, interfaces>>

Declare ==
  /\ pc = "declare"
  /\ header' = [i \in DOMAIN interfaces |-> Declaration(interfaces[i])]
  /\ pc' = "define"
  /\ UNCHANGED <<enumsLeft, request_opcode_counter, event_opcode_counter,
                 parsed, interfaces>>

Define ==
  /\ pc = "define"
  /\ header' = header \o FlattenSeq([i \in DOMAIN interfaces |->
                                       as_cxx_definitions(interfaces[i])])
  /\ pc' = "written"
  /\ UNCHANGED <<enumsLeft, request_opcode_counter, event_opcode_counter,
                 parsed, interfaces>>

Ended == pc \in {"written", "raised"} /\ UNCHANGED vars

Next ==
  \/ \E I \in Interfaces, described \in BOOLEAN, enums \in 0..MaxEnums :
       StartInterface(I, described, enums)
  \/ \E described \in BOOLEAN :
       ParseRequest(described) \/ ParseEvent(described)
  \/ ParseEnum
  \/ EndInterface
  \/ Declare
  \/ Define
  \/ Ended

Spec == Init /\ [][Next]_vars

-----------------------------------------------------------------------------
(* The structs of one kind that the header has for an interface, in order. *)
Defined(I, kind) ==
  LET structs == SelectSeq(header, LAMBDA s : s.kind = kind /\ s.interface = I)
  IN [n \in DOMAIN structs |-> structs[n].message]

(* However the nodes of requests, events and enums are mixed, the header   *)
(* has the messages of the protocol, with the opcodes and the arguments    *)
(* that the compositor uses.                                               *)
HeaderFollowsProtocol ==
  pc = "written" => \A I \in Interfaces :
    Defined(I, "request") = Requests[I] /\ Defined(I, "event") = Events[I]

(* "Declare everything before they might be used."  In whatever order the  *)
(* XML has the interfaces, a struct and its members name only interfaces   *)
(* declared above it.                                                      *)
DeclaredBeforeUse ==
  \A n \in DOMAIN header : header[n].kind # "declaration" =>
    LET args == header[n].message.args IN
    \A I \in {header[n].interface} \cup {args[i].of : i \in DOMAIN args} :
      I \in {NoInterface, generic_object} \/
      \E m \in 1..(n - 1) : header[m] = [kind |-> "declaration", interface |-> I]
=============================================================================
