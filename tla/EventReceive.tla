---------------------------- MODULE EventReceive ----------------------------
(***************************************************************************)
(* The receiving half of connected_client: recv_more_data,                 *)
(* get_recd_bytes_forming_whole_messages, recv_events and                  *)
(* recvis_closure::until, between a compositor that writes events and may  *)
(* hang up anywhere, and a socket that splits the stream as it likes.      *)
(*                                                                         *)
(* The client is single threaded, so the interleaving is that of its steps *)
(* with the compositor's.  One action is one pass of a goto loop, one      *)
(* call of read_some, one message visited, or one call by the application. *)
(*                                                                         *)
(* recv_buff_ is described by three numbers.  buffSize is its size, base   *)
(* the offset in the stream of its first byte and taken the offset of the  *)
(* next byte the socket will hand out; base and taken are not in the code. *)
(***************************************************************************)
EXTENDS EventStream

CONSTANTS
  RecvBlock,  \* recv_block_size, 1000 in the code
  Overloads   \* the keys that the message_overload_set resolves

ASSUME RecvBlockAssumption == RecvBlock \in Nat \ {0}
ASSUME OverloadsAssumption == Overloads \subseteq Keys

VARIABLES
  sent,         \* the events the compositor has begun to send
  last,         \* offset where the bytes that will ever arrive end, so far
  closed,       \* the compositor has closed its end
  taken,        \* offset of the next byte read_some returns
  base,         \* offset of the first byte of recv_buff_
  buffSize,     \* recv_buff_.size()
  unprocessed,  \* recv_more_data: unprocessed_bytes
  whole,        \* get_recd_bytes_...: bytes_forming_whole_messages
  parsed,       \* until: bytes of the messages visited so far
  pc,           \* where the client is
  op,           \* the call that is running
  target,       \* until: the pair it waits for
  parser        \* what is left to parse of the last message_parser

server == <<sent, last, closed>>
vars == <<sent, last, closed, taken, base, buffSize, unprocessed, whole,
          parsed, pc, op, target, parser>>

Reading == {"read", "read_again"}
Outside == {"idle", "thrown", "failed"}
Locations == Reading \cup Outside \cup {"scan", "visit"}

(* Faulty: the block is never padded.                                      *)
RoomToReadUnpadded == RecvBlock

(* M_pad and M: how many bytes the next read_some asks for. *)
RoomToRead ==
  IF (unprocessed + RecvBlock) % WordSize = 0 THEN RecvBlock + 1 ELSE RecvBlock

(* recv_buff_.erase(begin, begin + n) *)
Erase(n) == base' = base + n /\ buffSize' = buffSize - n

Init ==
  /\ sent = {}
  /\ last = 0
  /\ closed = FALSE
  /\ taken = 0
  /\ base = 0
  /\ buffSize = 0
  /\ unprocessed = 0
  /\ whole = 0
  /\ parsed = 0
  /\ pc = "idle"
  /\ op = "recv_events"
  /\ target \in Keys
  /\ parser = [next |-> 0, end |-> 0]

-----------------------------------------------------------------------------
(* The compositor.  Once it has begun an event its bytes arrive when a read *)
(* takes them: a read that takes few of them stands for a slow compositor. *)

Emit(n, k) ==
  /\ ~closed
  /\ last + n <= MaxStream
  /\ sent' = sent \cup {[start |-> last, size |-> n, key |-> k]}
  /\ last' = last + n
  /\ UNCHANGED <<closed, taken, base, buffSize, unprocessed, whole, parsed,
                 pc, op, target, parser>>

(* It may hang up with part of what it began never written. *)
Close(end) ==
  /\ ~closed
  /\ end \in taken..last
  /\ closed' = TRUE
  /\ last' = end
  /\ UNCHANGED <<sent, taken, base, buffSize, unprocessed, whole, parsed,
                 pc, op, target, parser>>

-----------------------------------------------------------------------------
(* Calls of the application, when the last one has returned or thrown. *)

CallRecvEvents ==
  /\ pc \in {"idle", "thrown"}
  /\ op' = "recv_events"
  /\ unprocessed' = buffSize
  /\ pc' = "read"
  /\ UNCHANGED <<server, taken, base, buffSize, whole, parsed, target, parser>>

(* Faulty: until reads before it looks at what it has.                     *)
CallUntilReadsFirst(k) ==
  /\ pc \in {"idle", "thrown"}
  /\ op' = "until"
  /\ target' = k
  /\ unprocessed' = buffSize
  /\ pc' = "read"
  /\ UNCHANGED <<server, taken, base, buffSize, whole, parsed, parser>>

CallUntil(k) ==
  /\ pc \in {"idle", "thrown"}
  /\ op' = "until"
  /\ target' = k
  /\ whole' = 0
  /\ pc' = "scan"
  /\ UNCHANGED <<server, taken, base, buffSize, unprocessed, parsed, parser>>

(* The generator of a message_parser yields one more message. *)
ParserNext(e) ==
  /\ pc \in {"idle", "thrown"}
  /\ parser.next # parser.end
  /\ e.start = parser.next
  /\ EndOf(e) <= parser.end
  /\ parser' = [parser EXCEPT !.next = EndOf(e)]
  /\ UNCHANGED <<server, taken, base, buffSize, unprocessed, whole, parsed,
                 pc, op, target>>

-----------------------------------------------------------------------------
(* recv_more_data *)

(* read_some returned fewer bytes than asked for: resize and return. *)
ReadPart(n) ==
  /\ pc \in Reading
  /\ n > 0 /\ n < RoomToRead /\ n <= last - taken
  /\ taken' = taken + n
  /\ unprocessed' = unprocessed + n
  /\ buffSize' = unprocessed + n
  /\ whole' = 0
  /\ pc' = "scan"
  /\ UNCHANGED <<server, base, parsed, op, target, parser>>

(* read_some filled the room it was given: goto read_again. *)
ReadFull ==
  /\ pc \in Reading
  /\ RoomToRead <= last - taken
  /\ taken' = taken + RoomToRead
  /\ unprocessed' = unprocessed + RoomToRead
  /\ buffSize' = unprocessed + RoomToRead
  /\ pc' = "read_again"
  /\ UNCHANGED <<server, base, whole, parsed, op, target, parser>>

(* Faulty: at the end of the stream the padded block stays.                *)
ReadEOFUnresized ==
  /\ pc \in Reading
  /\ closed /\ taken = last
  /\ buffSize' = unprocessed + RoomToRead
  /\ pc' = "thrown"
  /\ UNCHANGED <<server, taken, base, unprocessed, whole, parsed, op, target,
                 parser>>

(* read_some returned 0: resize and throw out of the running call. *)
ReadEOF ==
  /\ pc \in Reading
  /\ closed /\ taken = last
  /\ buffSize' = unprocessed
  /\ pc' = "thrown"
  /\ UNCHANGED <<server, taken, base, unprocessed, whole, parsed, op, target,
                 parser>>

(* read_some threw: the resize in front of it stays.  No use of the client *)
(* after this is modelled.                                                 *)
ReadFails ==
  /\ pc \in Reading
  /\ buffSize' = unprocessed + RoomToRead
  /\ pc' = "failed"
  /\ UNCHANGED <<server, taken, base, unprocessed, whole, parsed, op, target,
                 parser>>

-----------------------------------------------------------------------------
(* get_recd_bytes_forming_whole_messages *)

(* Faulty: a message counts as whole once its header is there.             *)
ScanNextByHeader(e) ==
  /\ pc = "scan"
  /\ buffSize >= whole + HeaderSize
  /\ e.start = base + whole
  /\ whole' = whole + e.size
  /\ UNCHANGED <<server, taken, base, buffSize, unprocessed, parsed, pc, op,
                 target, parser>>

ScanNext(e) ==
  /\ pc = "scan"
  /\ buffSize >= whole + HeaderSize
  /\ e.start = base + whole
  /\ buffSize >= whole + e.size
  /\ whole' = whole + e.size
  /\ UNCHANGED <<server, taken, base, buffSize, unprocessed, parsed, pc, op,
                 target, parser>>

(* Faulty: one message is enough.                                          *)
OneWholeMessage ==
  \/ whole > 0
  \/ buffSize < whole + HeaderSize
  \/ \E e \in sent : e.start = base + whole /\ buffSize < whole + e.size

NoMoreWholeMessages ==
  \/ buffSize < whole + HeaderSize
  \/ \E e \in sent : e.start = base + whole /\ buffSize < whole + e.size

(* Faulty: all received bytes go to the parser, not only whole messages.   *)
HandOverAllBytes ==
  /\ pc = "scan" /\ op = "recv_events"
  /\ NoMoreWholeMessages
  /\ parser' = [next |-> base, end |-> base + buffSize]
  /\ Erase(whole)
  /\ pc' = "idle"
  /\ UNCHANGED <<server, taken, unprocessed, whole, parsed, op, target>>

(* recv_events copies the whole messages into a parser, erases and returns. *)
HandOver ==
  /\ pc = "scan" /\ op = "recv_events"
  /\ NoMoreWholeMessages
  /\ parser' = [next |-> base, end |-> base + whole]
  /\ Erase(whole)
  /\ pc' = "idle"
  /\ UNCHANGED <<server, taken, unprocessed, whole, parsed, op, target>>

(* until starts to visit them. *)
StartVisit ==
  /\ pc = "scan" /\ op = "until"
  /\ NoMoreWholeMessages
  /\ parsed' = 0
  /\ pc' = "visit"
  /\ UNCHANGED <<server, taken, base, buffSize, unprocessed, whole, op, target,
                 parser>>

-----------------------------------------------------------------------------
(* recvis_closure::until *)

(* Message e is the next one that parsed_message_generator yields. *)
Yields(e) ==
  /\ pc = "visit"
  /\ parsed # whole
  /\ e.start = base + parsed
  /\ parsed + e.size <= whole

(* Faulty: the header of the until message is not counted.                 *)
VisitUntilShort(e) ==
  /\ Yields(e)
  /\ e.key = target
  /\ parsed' = parsed + e.size - HeaderSize
  /\ Erase(parsed')
  /\ pc' = "idle"
  /\ UNCHANGED <<server, taken, unprocessed, whole, op, target, parser>>

(* Faulty: what was visited is erased only when more is received.          *)
VisitUntilKeeps(e) ==
  /\ Yields(e)
  /\ e.key = target
  /\ parsed' = parsed + e.size
  /\ pc' = "idle"
  /\ UNCHANGED <<server, taken, base, buffSize, unprocessed, whole, op, target,
                 parser>>

(* The until message: run the callback, erase up to and with it, return. *)
VisitUntil(e) ==
  /\ Yields(e)
  /\ e.key = target
  /\ parsed' = parsed + e.size
  /\ Erase(parsed')
  /\ pc' = "idle"
  /\ UNCHANGED <<server, taken, unprocessed, whole, op, target, parser>>

(* Another message: invoke its overload, or skip it when there is none. *)
VisitOther(e) ==
  /\ Yields(e)
  /\ e.key # target
  /\ parsed' = parsed + e.size
  /\ UNCHANGED <<server, taken, base, buffSize, unprocessed, whole, pc, op,
                 target, parser>>

(* Faulty: an exception erases all that was to be visited.                 *)
CallbackThrowsErasing(e) ==
  /\ Yields(e)
  /\ e.key \in Overloads \cup {target}
  /\ Erase(whole)
  /\ pc' = "thrown"
  /\ UNCHANGED <<server, taken, unprocessed, whole, parsed, op, target, parser>>

(* The callback, or the overload, throws: nothing of recv_buff_ is erased. *)
CallbackThrows(e) ==
  /\ Yields(e)
  /\ e.key \in Overloads \cup {target}
  /\ pc' = "thrown"
  /\ UNCHANGED <<server, taken, base, buffSize, unprocessed, whole, parsed, op,
                 target, parser>>

(* All visited and not found: erase, recv_more_data, goto try_again. *)
EraseVisited ==
  /\ pc = "visit"
  /\ parsed = whole
  /\ Erase(whole)
  /\ unprocessed' = buffSize - whole
  /\ pc' = "read"
  /\ UNCHANGED <<server, taken, whole, parsed, op, target, parser>>

-----------------------------------------------------------------------------
Compositor ==
  \/ \E n \in EventSizes, k \in Keys : Emit(n, k)
  \/ \E end \in taken..last : Close(end)

Application ==
  \/ CallRecvEvents
  \/ \E k \in Keys : CallUntil(k)
  \/ \E e \in sent : ParserNext(e)

ReadReturns ==
  \/ \E n \in 1..RecvBlock : ReadPart(n)
  \/ ReadFull
  \/ ReadEOF

Scan ==
  \/ \E e \in sent : ScanNext(e)
  \/ HandOver
  \/ StartVisit

Visit ==
  \/ \E e \in sent : VisitUntil(e) \/ VisitOther(e) \/ CallbackThrows(e)
  \/ EraseVisited

(* After read_some threw the client stays as it is. *)
Stuck == pc = "failed" /\ UNCHANGED vars

Next ==
  \/ Compositor \/ Application
  \/ ReadReturns \/ ReadFails
  \/ Scan \/ Visit
  \/ Stuck

Spec == Init /\ [][Next]_vars

(* A running call takes its next step when it can: read_some returns once  *)
(* there are bytes, which the compositor owes for every event it began.    *)
(* Neither the compositor nor the application has to do anything more, and *)
(* a read never has to fail.                                               *)
FairSpec == Spec /\ WF_vars(ReadReturns \/ Scan \/ Visit)

-----------------------------------------------------------------------------
(* Types: the cursors lie in order within what the compositor has begun.   *)
TypeOK ==
  /\ sent \subseteq Event
  /\ last \in Nat /\ taken \in 0..last /\ closed \in BOOLEAN
  /\ base \in 0..taken
  /\ buffSize \in Nat /\ unprocessed \in Nat
  /\ whole \in Nat /\ parsed \in Nat
  /\ pc \in Locations
  /\ op \in {"recv_events", "until"}
  /\ target \in Keys
  /\ parser \in [next : Nat, end : Nat]

(* The bytes in recv_buff_ are exactly the stream from base up to taken, so *)
(* nothing was lost or made up by the resizes of recv_more_data            *)
(* (connected_client.cpp:71); only a read that threw leaves other bytes.   *)
BufferIsStream ==
  /\ pc # "failed" => buffSize = taken - base
  /\ pc \in Reading => unprocessed = buffSize

(* What recv_more_data leaves in recv_buff_, also when it throws, are "the *)
(* bytes that are actually from the server" (connected_client.cpp:71).     *)
OnlyBytesFromServer == pc \in Outside => buffSize = taken - base

(* recv_buff_ "never begins at middle of message" (connected_client.hpp:45), *)
(* through every erase in recv_events and until, and every exception.      *)
BeginsAtMessage == base \in Boundaries(sent)

(* "So it should be safe to read again" (connected_client.cpp:96): after a *)
(* full read the bytes received end inside an event, so the compositor     *)
(* owes the rest and the blocking read returns.                            *)
ReadAgainIsOwed == pc = "read_again" => taken \notin Boundaries(sent)

(* until blocks in a first read only when recv_buff_ holds no whole event, *)
(* so it never waits for bytes while the event it waits for is there.      *)
UntilReadsWhenNothingWhole ==
  pc = "read" /\ op = "until" => \A e \in sent : ~Within(e, base, taken)

(* parsed_message_generator never throws "less than 8 bytes" or "more than *)
(* bytes available": what it is given ends where a message ends, also in   *)
(* the copy a message_parser keeps while the client goes on.               *)
GeneratorFindsMessage ==
  /\ pc = "visit" /\ parsed # whole => \E e \in sent : Yields(e)
  /\ parser.next # parser.end =>
       \E e \in sent : e.start = parser.next /\ EndOf(e) <= parser.end

(* recv_events returns "all whole messages received": when it returns, no  *)
(* whole event is left behind in recv_buff_ for a later call.              *)
RecvEventsLeavesNoneBehind ==
  [][HandOver => \A e \in sent : ~Within(e, base', taken')]_vars

(* Events reach the application in order and none is lost; until stops at  *)
(* the event it waits for.  Each is delivered once, unless until throws    *)
(* (connected_client.cpp:166, 182), which delivers again those that it has *)
(* not erased, and nothing else does.                                      *)
Delivery == INSTANCE EventDelivery WITH
  arrived <- taken,
  position <- IF pc = "visit" THEN base + parsed ELSE base,
  committed <- base,
  call <- CASE pc = "idle" -> "returned"
            [] pc \in {"thrown", "failed"} -> "threw"
            [] OTHER -> op

DeliversInOrder == Delivery!Spec

(* until returns, or throws, once the event it waits for has been begun:   *)
(* no way to split the stream makes it wait for the event after it.        *)
UntilReturns ==
  (op = "until" /\ pc \notin Outside
     /\ \E e \in sent : e.key = target /\ base <= e.start)
  ~> (pc \in Outside)

(* recv_events returns, or throws, once there is a byte to be read. *)
RecvEventsReturns ==
  (op = "recv_events" /\ pc = "read" /\ taken < last)
  ~> (pc \in Outside)
=============================================================================
