----------------------------- MODULE WireFormat -----------------------------
(***************************************************************************)
(* The bytes of messages: message_buffer::append lays out the primitives   *)
(* of a message one by one, parsed_message_generator finds the message     *)
(* again by the size in its header, and interpert_message_payload reads    *)
(* the primitives back.  The same module stands for the compositor's       *)
(* encoding of events, which is append's and in addition has null strings. *)
(*                                                                         *)
(* A byte is a number, or Junk where the allocator of byte_vec leaves it   *)
(* uninitialised.  A message has an object, an opcode and arguments; an    *)
(* argument has a layout t and a value v: the number of a 32-bit argument, *)
(* or the bytes of a string or an array.                                   *)
(***************************************************************************)
EXTENDS Naturals, Sequences

CONSTANTS
  Batches,      \* what is sent: sequences of sets of messages
                \* [obj, opcode, args], one of each set after the other
  Layouts,      \* the layouts of the arguments by <<object, opcode>>: the
                \* overloads of the reader
  SizeModulus   \* 2^16, the range of Wmessage_size_t

ASSUME SizeModulusAssumption == SizeModulus \in 1..2^16

(* Arguments and messages.  The numbers here need two bytes.               *)
Byte == 0..255
Short == 0..(2^16 - 1)
Primitive ==
  [t : {"word", "fd"}, v : Short] \cup [t : {"string", "array"}, v : Seq(Byte)]
    \cup [t : {"null"}, v : {<<>>}]
MessageType == [obj : Short, opcode : Short, args : Seq(Primitive)]

ASSUME BatchesAssumption == Batches \subseteq Seq(SUBSET MessageType)

VARIABLES
  messages,  \* the messages given to append
  buff,      \* buff_
  fds,       \* fd_buff_
  header,    \* begin_of_header_index
  total,     \* msg_total_size
  done,      \* primitives of the last message already appended
  oversized, \* some message outgrew the size field; not in the code
  index,     \* how many messages the generator has parsed
  begin,     \* NUM_begin: where it begins in buff
  payload,   \* its arguments
  members,   \* the layouts of the members of the type it is read as
  bytesRead, \* bytes_read
  fdsRead,   \* descriptors the reader has taken; not in the code
  got,       \* primitives read back
  pc         \* "append", "idle", "interpret" or "thrown"

appender == <<messages, buff, fds, header, total, done, oversized>>
reader == <<index, begin, payload, members, bytesRead, fdsRead, got>>
vars == <<messages, buff, fds, header, total, done, oversized, index, begin,
          payload, members, bytesRead, fdsRead, got, pc>>

Junk == 999
HeaderSize == 8

(* sstd::round_upto_multiple_of<4> *)
PadTo4(n) == (4 - (n % 4)) % 4

JunkBytes(n) == [i \in 1..n |-> Junk]

(* A little endian 32-bit word. *)
Half(n) == <<n % 256, n \div 256>>
Word(n) == Half(n) \o <<0, 0>>

WordAt(s, i) == s[i + 1] + 256 * s[i + 2]

(* An element of a message, filled up to whole words. *)
Padded(bytes) == bytes \o JunkBytes(PadTo4(Len(bytes)))

Init ==
  /\ messages = <<>> /\ buff = <<>> /\ fds = <<>>
  /\ header = 0 /\ total = 0 /\ done = 0 /\ oversized = FALSE
  /\ index = 0 /\ begin = 0 /\ payload = <<>> /\ members = <<>>
  /\ bytesRead = 0 /\ fdsRead = 0 /\ got = <<>>
  /\ pc = "idle"

-----------------------------------------------------------------------------
(* message_buffer::append *)

Current == messages[Len(messages)].args

(* The messages that may come next. *)
Sent ==
  UNION {batch[Len(messages) + 1] :
           batch \in {b \in Batches :
                        /\ Len(messages) < Len(b)
                        /\ \A i \in 1..Len(messages) : messages[i] \in b[i]}}

(* Leave room for the header. *)
AppendBegin(msg) ==
  /\ pc = "idle" /\ index = 0
  /\ messages' = Append(messages, msg)
  /\ header' = Len(buff)
  /\ buff' = buff \o JunkBytes(HeaderSize)
  /\ total' = HeaderSize
  /\ done' = 0
  /\ pc' = "append"
  /\ UNCHANGED <<fds, oversized, reader>>

(* write_element_32aligned of anything but a descriptor. *)
AppendElement(bytes) ==
  /\ buff' = buff \o Padded(bytes)
  /\ total' = total + Len(Padded(bytes))
  /\ done' = done + 1
  /\ UNCHANGED <<messages, fds, header, oversized, reader, pc>>

(* The value of the next primitive, and whether it is of type t. *)
Value == Current[done + 1].v
NextIs(t) == pc = "append" /\ done < Len(Current) /\ Current[done + 1].t = t

AppendWord == NextIs("word") /\ AppendElement(Word(Value))

(* Faulty: the terminating null is not counted in the length.              *)
AppendStringUncounted ==
  /\ NextIs("string")
  /\ AppendElement(Word(Len(Value)) \o Value \o <<0>>)

AppendString ==
  /\ NextIs("string")
  /\ AppendElement(Word(Len(Value) + 1) \o Value \o <<0>>)

AppendArray ==
  /\ NextIs("array")
  /\ AppendElement(Word(Len(Value)) \o Value)

(* A null string has length 0; only a compositor sends one. *)
AppendNull == NextIs("null") /\ AppendElement(Word(0))

(* A descriptor is kept apart and adds no bytes. *)
AppendFd ==
  /\ NextIs("fd")
  /\ fds' = Append(fds, Value)
  /\ done' = done + 1
  /\ UNCHANGED <<messages, buff, header, total, oversized, reader, pc>>

(* Faulty: the size leaves out the header.                                 *)
HeaderPayloadSize(obj, opcode, size) ==
  Word(obj) \o Half(opcode) \o Half(size - HeaderSize)

(* message_header: the object in the first word, the opcode in the lower   *)
(* half of the second and the size in the upper.                           *)
Header(obj, opcode, size) == Word(obj) \o Half(opcode) \o Half(size)

(* The header is written last, with the size narrowed to 16 bits. *)
AppendHeader ==
  /\ pc = "append" /\ done = Len(Current)
  /\ LET msg == messages[Len(messages)] IN
     buff' = SubSeq(buff, 1, header)
               \o Header(msg.obj, msg.opcode, total % SizeModulus)
               \o SubSeq(buff, header + HeaderSize + 1, Len(buff))
  /\ oversized' = (oversized \/ total >= SizeModulus)
  /\ pc' = "idle"
  /\ UNCHANGED <<messages, fds, header, total, done, reader>>

-----------------------------------------------------------------------------
(* parsed_message_generator over all of buff *)

(* Faulty: the header is not stepped over.                                 *)
NextBeginNoHeader == IF index = 0 THEN 0 ELSE begin + Len(payload)

(* What is left when the current message has been visited. *)
NextBegin == IF index = 0 THEN 0 ELSE begin + HeaderSize + Len(payload)
ObjectAt(i) == WordAt(buff, i)
OpcodeAt(i) == WordAt(buff, i + 4)
SizeAt(i) == WordAt(buff, i + 6)

(* The key of a message in the overload set. *)
KeyAt(i) == <<ObjectAt(i), OpcodeAt(i)>>

(* What the overload of a message reads.                                   *)
Expected(key) == IF key \in DOMAIN Layouts THEN Layouts[key] ELSE <<>>

ParseThrows ==
  \/ Len(buff) - NextBegin < HeaderSize
  \/ SizeAt(NextBegin) < HeaderSize
  \/ SizeAt(NextBegin) > Len(buff) - NextBegin

(* The next message is parsed and visited: its type follows from object    *)
(* and opcode, and without an overload it is skipped.                      *)
Parse ==
  /\ pc = "idle"
  /\ NextBegin < Len(buff)
  /\ ~ParseThrows
  /\ index' = index + 1
  /\ begin' = NextBegin
  /\ payload' = SubSeq(buff, NextBegin + HeaderSize + 1,
                       NextBegin + SizeAt(NextBegin))
  /\ members' = Expected(KeyAt(NextBegin))
  /\ bytesRead' = 0 /\ got' = <<>>
  /\ pc' = IF KeyAt(NextBegin) \in DOMAIN Layouts THEN "interpret" ELSE "idle"
  /\ UNCHANGED <<appender, fdsRead>>

Throw ==
  /\ pc = "idle"
  /\ NextBegin < Len(buff)
  /\ ParseThrows
  /\ pc' = "thrown"
  /\ UNCHANGED <<appender, reader>>

-----------------------------------------------------------------------------
(* interpert_message_payload *)

Reads(t) ==
  pc = "interpret" /\ Len(got) < Len(members) /\ members[Len(got) + 1] = t

Yield(t, v, size) ==
  /\ got' = Append(got, [t |-> t, v |-> v])
  /\ bytesRead' = bytesRead + size
  /\ UNCHANGED <<appender, index, begin, payload, members, fdsRead, pc>>

ReadWord == Reads("word") /\ Yield("word", WordAt(payload, bytesRead), 4)

Length == WordAt(payload, bytesRead)

(* The size of an element of n bytes, with its length and its padding. *)
PaddedSize(n) == 4 + n + PadTo4(4 + n)

(* The bytes of a string or an array of n bytes behind the length. *)
Contents(n) == SubSeq(payload, bytesRead + 5, bytesRead + 4 + n)

ReadString ==
  /\ Reads("string") /\ Length # 0
  /\ Yield("string", Contents(Length - 1), PaddedSize(Length))

(* An early return, before bytes_read is incremented. *)
ReadNullString ==
  /\ Reads("string") /\ Length = 0
  /\ Yield("null", <<>>, 0)

ReadArray ==
  /\ Reads("array")
  /\ Yield("array", Contents(Length), PaddedSize(Length))

(* Only a compositor reads descriptors: it takes them in the order they    *)
(* have come in, and none from the payload.                                *)
ReadFd ==
  /\ Reads("fd") /\ fdsRead < Len(fds)
  /\ got' = Append(got, [t |-> "fd", v |-> fds[fdsRead + 1]])
  /\ fdsRead' = fdsRead + 1
  /\ UNCHANGED <<appender, index, begin, payload, members, bytesRead, pc>>

Interpreted ==
  /\ pc = "interpret" /\ Len(got) = Len(members)
  /\ pc' = "idle"
  /\ UNCHANGED <<appender, reader>>

-----------------------------------------------------------------------------
AppendStep ==
  \/ \E msg \in Sent : AppendBegin(msg)
  \/ AppendWord \/ AppendString \/ AppendArray \/ AppendNull \/ AppendFd
  \/ AppendHeader

InterpretStep ==
  \/ Parse \/ Throw
  \/ ReadWord \/ ReadString \/ ReadNullString \/ ReadArray \/ ReadFd
  \/ Interpreted

(* The generator has no more messages, or has thrown. *)
Finished ==
  /\ pc = "thrown" \/ (pc = "idle" /\ NextBegin = Len(buff))
  /\ UNCHANGED vars

Next == AppendStep \/ InterpretStep \/ Finished

Spec == Init /\ [][Next]_vars

-----------------------------------------------------------------------------
(* What the reader knows of the messages that may be sent: an overload has *)
(* the members of the message it is for, and nobody skips a message with   *)
(* descriptors.                                                            *)
Sendable == UNION {UNION {batch[k] : k \in 1..Len(batch)} : batch \in Batches}

Shape(args) ==
  [i \in 1..Len(args) |-> IF args[i].t = "null" THEN "string" ELSE args[i].t]

LayoutsAgree ==
  \A msg \in Sendable :
    IF <<msg.obj, msg.opcode>> \in DOMAIN Layouts
    THEN Layouts[<<msg.obj, msg.opcode>>] = Shape(msg.args)
    ELSE \A i \in 1..Len(msg.args) : msg.args[i].t # "fd"

(* No argument is behind a null string.                                    *)
NullsLast ==
  \A msg \in Sendable : \A i \in 1..Len(msg.args) :
    msg.args[i].t = "null" => i = Len(msg.args)

-----------------------------------------------------------------------------
(* The generator finds every message that was appended, and no byte is     *)
(* left over in the end: the size that append put in the header is the one *)
(* it steps by, as long as no message outgrows the 16 bits.                *)
ParsesWhatWasAppended ==
  /\ pc = "thrown" => oversized
  /\ pc = "interpret" => SizeAt(begin) = HeaderSize + Len(payload)
  /\ index > 0 /\ pc = "idle" /\ ~oversized /\ NextBegin = Len(buff) =>
       index = Len(messages)

(* Messages come one after the other, each with the object and the opcode  *)
(* that it was appended with, as long as none outgrows its size field.     *)
MessagesInOrder ==
  index > 0 /\ ~oversized =>
    /\ index <= Len(messages)
    /\ KeyAt(begin) = <<messages[index].obj, messages[index].opcode>>

(* interpert_message_payload gives back the arguments of the message, as   *)
(* many as were appended and with their values, and every descriptor goes  *)
(* with the message that it was appended for, as long as no message        *)
(* outgrows its size field.                                                *)
RoundTrip ==
  pc = "interpret" /\ ~oversized =>
    /\ Len(members) = Len(messages[index].args)
    /\ \A i \in 1..Len(got) : got[i] = messages[index].args[i]

(* It reads the payload to its end and not further; only the length word   *)
(* of a null string in the last place is not stepped over.                 *)
NullLast == got # <<>> /\ got[Len(got)].t = "null"
ReadsWholePayload ==
  pc = "interpret" /\ ~oversized =>
    /\ bytesRead <= Len(payload)
    /\ Len(got) = Len(members) =>
         bytesRead + (IF NullLast THEN 4 ELSE 0) = Len(payload)
=============================================================================
