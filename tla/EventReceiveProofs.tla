------------------------- MODULE EventReceiveProofs -------------------------
(***************************************************************************)
(* Proofs about EventReceive for every stream, every block size and every  *)
(* set of keys.  The argument: the stream is cut at its boundaries without *)
(* gap or overlap (StreamInv), every boundary is a multiple of the word,   *)
(* and every cursor of the client stays at a boundary (CursorInv), except  *)
(* right after a full read, which ends off the word and so inside an event.*)
(***************************************************************************)
EXTENDS EventReceive, TLAPS

(* The events are disjoint, start on words, cover the stream up to where   *)
(* the last of them ends, and a compositor that is not gone appends there. *)
StreamInv ==
  /\ \A e \in sent : e.start % WordSize = 0
  /\ \A e, f \in sent : e = f \/ EndOf(e) <= f.start \/ EndOf(f) <= e.start
  /\ \A b \in Boundaries(sent), e \in sent :
       b < EndOf(e) => \E f \in sent : f.start = b
  /\ \E b \in Boundaries(sent) : last <= b
  /\ ~closed => /\ last \in Boundaries(sent)
                /\ \A e \in sent : EndOf(e) <= last

CursorInv ==
  /\ pc \in {"scan", "visit"} =>
       whole <= buffSize /\ base + whole \in Boundaries(sent)
  /\ pc = "visit" =>
       /\ parsed <= whole /\ base + parsed \in Boundaries(sent)
       /\ \A e \in sent : ~Within(e, base + whole, taken)
       /\ op = "until"
  /\ pc = "read_again" => taken % WordSize # 0
  /\ parser.next <= parser.end
  /\ {parser.next, parser.end} \subseteq Boundaries(sent)

IInv ==
  /\ TypeOK
  /\ StreamInv
  /\ BufferIsStream
  /\ BeginsAtMessage
  /\ UntilReadsWhenNothingWhole
  /\ CursorInv

-----------------------------------------------------------------------------
(* Facts about one state that satisfies the invariant. *)

(* Every event is at least a header long and ends where it must.           *)
LEMMA EventFacts ==
  ASSUME NEW e \in Event
  PROVE  /\ e.start \in Nat /\ e.size \in Nat
         /\ e.size >= HeaderSize /\ e.size % WordSize = 0
         /\ EndOf(e) \in Nat
         /\ EndOf(e) = e.start + e.size
<1>1. e.start \in Nat /\ e.size \in EventSizes
  BY DEF Event
<1>2. e.size \in WireSizes
  BY <1>1, EventSizesAssumption
<1>3. e.size \in Nat /\ e.size >= HeaderSize /\ e.size % WordSize = 0
  BY <1>2 DEF WireSizes
<1>. QED
  BY <1>1, <1>3 DEF EndOf

(* Every boundary is a natural number and a multiple of the word.          *)
LEMMA BoundaryAligned ==
  ASSUME TypeOK, StreamInv, NEW b \in Boundaries(sent)
  PROVE  b \in Nat /\ b % WordSize = 0
<1>1. CASE b = 0
  BY <1>1 DEF WordSize
<1>2. ASSUME NEW e \in sent, b = EndOf(e)
      PROVE  b \in Nat /\ b % WordSize = 0
  <2>1. e.start % WordSize = 0 /\ e \in Event
    BY DEF StreamInv, TypeOK
  <2>. QED
    BY <1>2, <2>1, EventFacts DEF WordSize
<1>. QED
  BY <1>1, <1>2 DEF Boundaries

(* Between two boundaries lies a whole event that begins at the first one. *)
LEMMA NextMessage ==
  ASSUME TypeOK, StreamInv,
         NEW a \in Boundaries(sent), NEW b \in Boundaries(sent), a < b
  PROVE  \E e \in sent : e.start = a /\ EndOf(e) <= b
<1>0. a \in Nat /\ b \in Nat
  BY BoundaryAligned
<1>1. PICK g \in sent : b = EndOf(g)
  BY <1>0 DEF Boundaries
<1>2. PICK f \in sent : f.start = a
  BY <1>1 DEF StreamInv
<1>3. f \in Event /\ g \in Event
  BY DEF TypeOK
<1>4. f = g \/ EndOf(f) <= g.start \/ EndOf(g) <= f.start
  BY DEF StreamInv
<1>. QED
  BY <1>0, <1>1, <1>2, <1>3, <1>4, EventFacts DEF HeaderSize

(* Where the scan stops, no whole event is left in the buffer.             *)
LEMMA ScanIsComplete ==
  ASSUME TypeOK, StreamInv, BufferIsStream, pc = "scan", NoMoreWholeMessages,
         NEW f \in sent
  PROVE  ~Within(f, base + whole, taken)
<1>1. buffSize = taken - base
  BY DEF BufferIsStream
<1>2. f \in Event
  BY DEF TypeOK
<1>3. CASE buffSize < whole + HeaderSize
  BY <1>1, <1>2, <1>3, EventFacts DEF Within, TypeOK, HeaderSize
<1>4. ASSUME NEW e \in sent, e.start = base + whole, buffSize < whole + e.size
      PROVE  ~Within(f, base + whole, taken)
  <2>1. e \in Event
    BY DEF TypeOK
  <2>2. e = f \/ EndOf(e) <= f.start \/ EndOf(f) <= e.start
    BY DEF StreamInv
  <2>. QED
    BY <1>1, <1>2, <1>4, <2>1, <2>2, EventFacts DEF Within, TypeOK, HeaderSize
<1>. QED
  BY <1>3, <1>4 DEF NoMoreWholeMessages

-----------------------------------------------------------------------------
(* Steps. *)

(* The compositor appends an event, and no cursor of the client moves.     *)
LEMMA EmitKeepsInv ==
  ASSUME IInv, NEW n \in EventSizes, NEW k \in Keys, Emit(n, k)
  PROVE  IInv'
<1> DEFINE new == [start |-> last, size |-> n, key |-> k]
<1> USE DEF IInv
<1>1. new \in Event /\ new.start = last /\ EndOf(new) = last + n
  BY DEF Event, TypeOK, EndOf
<1>2. n \in Nat /\ n >= HeaderSize /\ n % WordSize = 0 /\ last \in Nat
  BY <1>1, EventFacts DEF TypeOK, EndOf
<1>3. sent' = sent \cup {new} /\ last' = last + n /\ ~closed
  BY DEF Emit
<1>4. Boundaries(sent)' = Boundaries(sent) \cup {last + n}
  BY <1>1, <1>3 DEF Boundaries
<1>5. last \in Boundaries(sent) /\ \A e \in sent : EndOf(e) <= last
  BY <1>3 DEF StreamInv
<1>6. \A b \in Boundaries(sent) : b \in Nat /\ b <= last
  BY <1>2, <1>5, BoundaryAligned DEF Boundaries
<1>7. TypeOK'
  BY <1>1, <1>2, <1>3 DEF Emit, TypeOK
<1>8. StreamInv'
  <2>1. \A e \in sent' : e.start % WordSize = 0
    BY <1>1, <1>3, <1>5, BoundaryAligned DEF StreamInv
  <2>2. \A e, f \in sent' : e = f \/ EndOf(e) <= f.start \/ EndOf(f) <= e.start
    BY <1>1, <1>3, <1>5 DEF StreamInv
  <2>3. \A b \in Boundaries(sent)', e \in sent' :
          b < EndOf(e) => \E f \in sent' : f.start = b
    <3> SUFFICES ASSUME NEW b \in Boundaries(sent)', NEW e \in sent',
                        b < EndOf(e)
                 PROVE  \E f \in sent' : f.start = b
      OBVIOUS
    <3>1. EndOf(e) <= last + n
      BY <1>1, <1>2, <1>3, <1>5, EventFacts DEF TypeOK
    <3>2. b \in Boundaries(sent) /\ b \in Nat /\ b <= last
      BY <1>2, <1>4, <1>6, <3>1, <1>7, EventFacts DEF TypeOK
    <3>3. CASE b = last
      BY <1>1, <1>3, <3>3
    <3>4. CASE b < last
      <4>1. PICK g \in sent : EndOf(g) = last
        BY <1>5, <3>2, <3>4 DEF Boundaries
      <4>. QED
        BY <1>3, <3>2, <3>4, <4>1 DEF StreamInv
    <3>. QED
      BY <1>2, <3>2, <3>3, <3>4
  <2>4. last' \in Boundaries(sent)' /\ \A e \in sent' : EndOf(e) <= last'
    <3>1. ASSUME NEW e \in sent'
          PROVE  EndOf(e) <= last + n
      BY <1>1, <1>2, <1>3, <1>5, EventFacts DEF TypeOK
    <3>. QED
      BY <1>3, <1>4, <3>1
  <2>5. \E b \in Boundaries(sent)' : last' <= b
    BY <1>2, <1>3, <2>4
  <2>. QED
    BY <2>1, <2>2, <2>3, <2>4, <2>5 DEF StreamInv
<1>9. BufferIsStream' /\ BeginsAtMessage'
  BY <1>4 DEF Emit, BufferIsStream, BeginsAtMessage
<1>10. \A a : ~Within(new, a, taken)
  BY <1>1, <1>2 DEF Within, TypeOK, HeaderSize
<1>11. UntilReadsWhenNothingWhole'
  BY <1>3, <1>10 DEF Emit, UntilReadsWhenNothingWhole, Within
<1>12. CursorInv'
  BY <1>3, <1>4, <1>10 DEF Emit, CursorInv, Within
<1>. QED
  BY <1>7, <1>8, <1>9, <1>11, <1>12

(* What only names the stream is the same after a step of the client.      *)
LEMMA StreamUnchanged ==
  ASSUME StreamInv, UNCHANGED server
  PROVE  StreamInv' /\ Boundaries(sent)' = Boundaries(sent)
BY DEF StreamInv, server, Boundaries, EndOf

(* The compositor hanging up, also inside an event, keeps the invariant.   *)
LEMMA CloseKeepsInv ==
  ASSUME IInv, NEW end \in taken..last, Close(end)
  PROVE  IInv'
<1> USE DEF IInv, Close
<1>1. TypeOK'
  BY DEF TypeOK
<1>2. StreamInv' /\ Boundaries(sent)' = Boundaries(sent)
  <2>1. Boundaries(sent)' = Boundaries(sent)
    BY DEF Boundaries, EndOf
  <2>2. last \in Boundaries(sent) /\ last' <= last
    BY DEF StreamInv, TypeOK
  <2>. QED
    BY <2>1, <2>2 DEF StreamInv, EndOf
<1>3. BufferIsStream' /\ BeginsAtMessage' /\ UntilReadsWhenNothingWhole' /\ CursorInv'
  BY <1>2 DEF BufferIsStream, BeginsAtMessage, UntilReadsWhenNothingWhole,
              CursorInv, Within, EndOf
<1>. QED
  BY <1>1, <1>2, <1>3

(* recv_more_data: a full read ends off the word.                          *)
LEMMA ReadKeepsInv ==
  ASSUME IInv,
         (\E n \in 1..RecvBlock : ReadPart(n)) \/ ReadFull \/ ReadEOF \/ ReadFails
  PROVE  IInv'
<1> USE DEF IInv
<1>1. UNCHANGED server
  BY DEF ReadPart, ReadFull, ReadEOF, ReadFails
<1>2. StreamInv' /\ Boundaries(sent)' = Boundaries(sent)
  BY <1>1, StreamUnchanged
<1>3. RoomToRead \in Nat /\ RoomToRead > 0
  BY RecvBlockAssumption DEF RoomToRead, TypeOK, WordSize
<1>4. CASE \E n \in 1..RecvBlock : ReadPart(n)
  <2>1. TypeOK' /\ BufferIsStream'
    BY <1>4, RecvBlockAssumption
    DEF ReadPart, TypeOK, Locations, Outside, Reading, BufferIsStream, server
  <2>2. BeginsAtMessage' /\ UntilReadsWhenNothingWhole'
    BY <1>2, <1>4 DEF ReadPart, BeginsAtMessage, UntilReadsWhenNothingWhole
  <2>3. CursorInv'
    BY <1>2, <1>4, <2>1 DEF ReadPart, CursorInv, BeginsAtMessage, TypeOK
  <2>. QED
    BY <1>2, <2>1, <2>2, <2>3
<1>5. CASE ReadFull
  <2>1. TypeOK' /\ BufferIsStream'
    BY <1>3, <1>5
    DEF ReadFull, TypeOK, Locations, Outside, Reading, BufferIsStream, server
  <2>2. BeginsAtMessage' /\ UntilReadsWhenNothingWhole'
    BY <1>2, <1>5 DEF ReadFull, BeginsAtMessage, UntilReadsWhenNothingWhole
  <2>3. taken' % WordSize # 0
    <3>1. base % WordSize = 0
      BY BoundaryAligned DEF BeginsAtMessage
    <3>2. unprocessed = taken - base
      BY <1>5 DEF ReadFull, BufferIsStream, Reading
    <3>3. (unprocessed + RoomToRead) % WordSize # 0
      BY RecvBlockAssumption DEF RoomToRead, TypeOK, WordSize
    <3>4. taken' = base + (unprocessed + RoomToRead)
      BY <1>3, <1>5, <3>2 DEF ReadFull, TypeOK
    <3>. QED
      BY <1>3, <3>1, <3>3, <3>4 DEF TypeOK, WordSize
  <2>4. CursorInv'
    BY <1>2, <1>5, <2>3 DEF ReadFull, CursorInv
  <2>. QED
    BY <1>2, <2>1, <2>2, <2>4
<1>6. CASE ReadEOF
  BY <1>2, <1>6
  DEF ReadEOF, TypeOK, Locations, Outside, Reading, BufferIsStream, BeginsAtMessage,
      UntilReadsWhenNothingWhole, CursorInv, server
<1>7. CASE ReadFails
  BY <1>2, <1>3, <1>7
  DEF ReadFails, TypeOK, Locations, Outside, Reading, BufferIsStream, BeginsAtMessage,
      UntilReadsWhenNothingWhole, CursorInv, server
<1>. QED
  BY <1>4, <1>5, <1>6, <1>7

(* The calls, and a message_parser moving on, keep the invariant.          *)
LEMMA ApplicationKeepsInv ==
  ASSUME IInv, Application
  PROVE  IInv'
<1> USE DEF IInv
<1>1. UNCHANGED server
  BY DEF Application, CallRecvEvents, CallUntil, ParserNext, server
<1>2. StreamInv' /\ Boundaries(sent)' = Boundaries(sent)
  BY <1>1, StreamUnchanged
<1>3. CASE CallRecvEvents
  BY <1>2, <1>3
  DEF CallRecvEvents, TypeOK, Locations, Outside, Reading, BufferIsStream,
      BeginsAtMessage, UntilReadsWhenNothingWhole, CursorInv, server
<1>4. ASSUME NEW k \in Keys, CallUntil(k)
      PROVE  IInv'
  <2>1. TypeOK' /\ BufferIsStream' /\ BeginsAtMessage'
    BY <1>2, <1>4
    DEF CallUntil, TypeOK, Locations, Outside, Reading, BufferIsStream, BeginsAtMessage,
        server
  <2>2. UntilReadsWhenNothingWhole' /\ CursorInv'
    BY <1>2, <1>4
    DEF CallUntil, UntilReadsWhenNothingWhole, CursorInv, TypeOK, BeginsAtMessage
  <2>. QED
    BY <1>2, <2>1, <2>2
<1>5. ASSUME NEW e \in sent, ParserNext(e)
      PROVE  IInv'
  <2>1. parser' = [next |-> EndOf(e), end |-> parser.end]
    BY <1>5 DEF ParserNext, TypeOK
  <2>2. EndOf(e) \in Nat /\ EndOf(e) \in Boundaries(sent)
    BY EventFacts DEF TypeOK, Boundaries
  <2>3. EndOf(e) <= parser.end
    BY <1>5 DEF ParserNext
  <2>. QED
    BY <1>2, <1>5, <2>1, <2>2, <2>3
    DEF ParserNext, TypeOK, BufferIsStream, BeginsAtMessage,
        UntilReadsWhenNothingWhole, CursorInv, server
<1>. QED
  BY <1>3, <1>4, <1>5 DEF Application

(* The scan, and what is done with its result.                             *)
LEMMA ScanKeepsInv ==
  ASSUME IInv, Scan
  PROVE  IInv'
<1> USE DEF IInv
<1>1. UNCHANGED server
  BY DEF Scan, ScanNext, HandOver, StartVisit, server, Erase
<1>2. StreamInv' /\ Boundaries(sent)' = Boundaries(sent)
  BY <1>1, StreamUnchanged
<1>3. ASSUME NEW e \in sent, ScanNext(e)
      PROVE  IInv'
  <2>1. e.size \in Nat /\ base + (whole + e.size) = EndOf(e)
    BY <1>3, EventFacts DEF ScanNext, TypeOK
  <2>2. base + (whole + e.size) \in Boundaries(sent)
    BY <2>1 DEF Boundaries
  <2>. QED
    BY <1>2, <1>3, <2>1, <2>2
    DEF ScanNext, TypeOK, BufferIsStream, BeginsAtMessage,
        UntilReadsWhenNothingWhole, CursorInv, server
<1>4. CASE HandOver
  <2>1. whole <= buffSize /\ base + whole \in Boundaries(sent)
    BY <1>4 DEF HandOver, CursorInv, Erase
  <2>2. buffSize = taken - base
    BY <1>4 DEF HandOver, BufferIsStream, Erase
  <2>3. TypeOK' /\ BufferIsStream' /\ BeginsAtMessage'
    BY <1>2, <1>4, <2>1, <2>2
    DEF HandOver, TypeOK, Locations, Outside, Reading, BufferIsStream, BeginsAtMessage,
        server, Erase
  <2>4. UntilReadsWhenNothingWhole' /\ CursorInv'
    BY <1>2, <1>4, <2>1
    DEF HandOver, TypeOK, UntilReadsWhenNothingWhole, CursorInv, BeginsAtMessage, Erase
  <2>. QED
    BY <1>2, <2>3, <2>4
<1>5. CASE StartVisit
  <2>1. \A e \in sent : ~Within(e, base + whole, taken)
    BY <1>5, ScanIsComplete DEF StartVisit
  <2>2. TypeOK' /\ BufferIsStream' /\ BeginsAtMessage'
    BY <1>2, <1>5
    DEF StartVisit, TypeOK, Locations, Outside, Reading, BufferIsStream, BeginsAtMessage,
        server
  <2>3. UntilReadsWhenNothingWhole' /\ CursorInv'
    BY <1>1, <1>2, <1>5, <2>1
    DEF StartVisit, TypeOK, UntilReadsWhenNothingWhole, CursorInv,
        BeginsAtMessage, server
  <2>. QED
    BY <1>2, <2>2, <2>3
<1>. QED
  BY <1>3, <1>4, <1>5 DEF Scan

(* The loop of until, its returns, throws and erases, keep the invariant.  *)
LEMMA VisitKeepsInv ==
  ASSUME IInv, Visit
  PROVE  IInv'
<1> USE DEF IInv
<1>1. UNCHANGED server
  BY DEF Visit, VisitUntil, VisitOther, CallbackThrows, EraseVisited, server, Erase
<1>2. StreamInv' /\ Boundaries(sent)' = Boundaries(sent)
  BY <1>1, StreamUnchanged
<1>3. pc = "visit" /\ buffSize = taken - base /\ whole <= buffSize
  BY DEF Visit, VisitUntil, VisitOther, CallbackThrows, EraseVisited, Yields,
         CursorInv, BufferIsStream, Erase
<1>4. ASSUME NEW e \in sent, Yields(e)
      PROVE  /\ e.size \in Nat /\ parsed + e.size <= whole
             /\ base + (parsed + e.size) \in Boundaries(sent)
  <2>1. e.size \in Nat /\ base + (parsed + e.size) = EndOf(e)
    BY <1>4, EventFacts DEF Yields, TypeOK
  <2>. QED
    BY <1>4, <2>1 DEF Yields, Boundaries
<1>5. ASSUME NEW e \in sent, VisitUntil(e)
      PROVE  IInv'
  <2>1. /\ e.size \in Nat /\ parsed + e.size <= whole
        /\ base + (parsed + e.size) \in Boundaries(sent)
    BY <1>4, <1>5 DEF VisitUntil, Erase
  <2>. QED
    BY <1>2, <1>3, <1>5, <2>1
    DEF VisitUntil, TypeOK, Locations, Outside, Reading, BufferIsStream, BeginsAtMessage,
        UntilReadsWhenNothingWhole, CursorInv, server, Erase
<1>6. ASSUME NEW e \in sent, VisitOther(e)
      PROVE  IInv'
  <2>1. /\ e.size \in Nat /\ parsed + e.size <= whole
        /\ base + (parsed + e.size) \in Boundaries(sent)
    BY <1>4, <1>6 DEF VisitOther
  <2>. QED
    BY <1>2, <1>3, <1>6, <2>1
    DEF VisitOther, TypeOK, BufferIsStream, BeginsAtMessage,
        UntilReadsWhenNothingWhole, CursorInv, server
<1>7. ASSUME NEW e \in sent, CallbackThrows(e)
      PROVE  IInv'
  BY <1>2, <1>7
  DEF CallbackThrows, Yields, TypeOK, Locations, Outside, Reading, BufferIsStream,
      BeginsAtMessage, UntilReadsWhenNothingWhole, CursorInv, server
<1>8. CASE EraseVisited
  <2>1. base + whole \in Boundaries(sent)
    BY <1>8, <1>3 DEF CursorInv
  <2>2. \A e \in sent' : ~Within(e, base', taken')
    BY <1>1, <1>3, <1>8 DEF EraseVisited, CursorInv, server, Erase
  <2>3. TypeOK' /\ BufferIsStream' /\ BeginsAtMessage'
    BY <1>2, <1>3, <1>8, <2>1
    DEF EraseVisited, TypeOK, Locations, Outside, Reading, BufferIsStream,
        BeginsAtMessage, server, Erase
  <2>4. UntilReadsWhenNothingWhole' /\ CursorInv'
    BY <1>2, <1>8, <2>2
    DEF EraseVisited, UntilReadsWhenNothingWhole, CursorInv, Erase
  <2>. QED
    BY <1>2, <2>3, <2>4
<1>. QED
  BY <1>5, <1>6, <1>7, <1>8 DEF Visit

-----------------------------------------------------------------------------
(* Theorems. *)

(* The invariant holds in every state of every behaviour.                  *)
THEOREM Invariance == Spec => []IInv
<1>1. Init => IInv
  <2> SUFFICES ASSUME Init PROVE IInv
    OBVIOUS
  <2> USE DEF Init
  <2>1. TypeOK
    <3>1. closed \in BOOLEAN
      BY Zenon
    <3>2. sent \subseteq Event /\ parser \in [next : Nat, end : Nat]
      OBVIOUS
    <3>3. pc \in Locations /\ op \in {"recv_events", "until"}
      BY DEF Locations, Outside
    <3>. QED
      BY <3>1, <3>2, <3>3 DEF TypeOK
  <2>2. Boundaries(sent) = {0}
    BY DEF Boundaries
  <2>3. StreamInv
    BY <2>1, <2>2 DEF StreamInv, TypeOK
  <2>4. BufferIsStream /\ BeginsAtMessage /\ UntilReadsWhenNothingWhole
    BY <2>2 DEF BufferIsStream, BeginsAtMessage, UntilReadsWhenNothingWhole, Reading
  <2>5. CursorInv
    BY <2>2 DEF CursorInv
  <2>. QED
    BY <2>1, <2>3, <2>4, <2>5 DEF IInv
<1>2. IInv /\ [Next]_vars => IInv'
  <2> SUFFICES ASSUME IInv, [Next]_vars PROVE IInv'
    OBVIOUS
  <2>1. CASE Compositor
    BY <2>1, EmitKeepsInv, CloseKeepsInv DEF Compositor
  <2>2. CASE Application
    BY <2>2, ApplicationKeepsInv
  <2>3. CASE ReadReturns \/ ReadFails
    BY <2>3, ReadKeepsInv DEF ReadReturns
  <2>4. CASE Scan
    BY <2>4, ScanKeepsInv
  <2>5. CASE Visit
    BY <2>5, VisitKeepsInv
  <2>6. CASE UNCHANGED vars
    BY <2>6 DEF vars, IInv, TypeOK, StreamInv, BufferIsStream, BeginsAtMessage,
                UntilReadsWhenNothingWhole, CursorInv, Boundaries, Within, EndOf
  <2>. QED
    BY <2>1, <2>2, <2>3, <2>4, <2>5, <2>6 DEF Next, Stuck
<1>. QED
  BY <1>1, <1>2, PTL DEF Spec

(* The type invariant, for every stream and every block size.              *)
THEOREM TypeCorrect == Spec => []TypeOK
<1>1. IInv => TypeOK
  BY DEF IInv
<1>. QED
  BY <1>1, Invariance, PTL

(* recv_buff_ begins at a message and holds just the bytes of the stream:  *)
(* the comment at connected_client.hpp:45, as long as no read threw.       *)
THEOREM BufferCorrect == Spec => [](BeginsAtMessage /\ BufferIsStream)
<1>1. IInv => BeginsAtMessage /\ BufferIsStream
  BY DEF IInv
<1>. QED
  BY <1>1, Invariance, PTL

(* The padding of the block works for every block size: recv_more_data     *)
(* never blocks in a second read with nothing owed by the compositor.      *)
THEOREM ReadAgainSafe == Spec => []ReadAgainIsOwed
<1>1. IInv => ReadAgainIsOwed
  BY BoundaryAligned DEF IInv, CursorInv, ReadAgainIsOwed
<1>. QED
  BY <1>1, Invariance, PTL

(* until never blocks in front of an event that it already has.            *)
THEOREM UntilReadsSafe == Spec => []UntilReadsWhenNothingWhole
<1>1. IInv => UntilReadsWhenNothingWhole
  BY DEF IInv
<1>. QED
  BY <1>1, Invariance, PTL

(* No message generator ever throws on what it is given.                   *)
THEOREM GeneratorSafe == Spec => []GeneratorFindsMessage
<1>1. IInv => GeneratorFindsMessage
  <2> SUFFICES ASSUME IInv PROVE GeneratorFindsMessage
    OBVIOUS
  <2> USE DEF IInv
  <2>1. ASSUME pc = "visit", parsed # whole
        PROVE  \E e \in sent : Yields(e)
    <3>1. base + parsed \in Boundaries(sent) /\ base + whole \in Boundaries(sent)
          /\ base + parsed < base + whole
      BY <2>1 DEF CursorInv, TypeOK
    <3>2. PICK e \in sent : e.start = base + parsed /\ EndOf(e) <= base + whole
      BY <3>1, NextMessage
    <3>. QED
      BY <2>1, <3>2, EventFacts DEF Yields, TypeOK
  <2>2. ASSUME parser.next # parser.end
        PROVE  \E e \in sent : e.start = parser.next /\ EndOf(e) <= parser.end
    <3>1. /\ parser.next \in Boundaries(sent) /\ parser.end \in Boundaries(sent)
          /\ parser.next < parser.end
      BY <2>2 DEF CursorInv, TypeOK
    <3>. QED
      BY <3>1, NextMessage
  <2>. QED
    BY <2>1, <2>2 DEF GeneratorFindsMessage
<1>. QED
  BY <1>1, Invariance, PTL

(* recv_events leaves no whole message behind.                             *)
THEOREM RecvEventsComplete == Spec => RecvEventsLeavesNoneBehind
<1>1. IInv /\ [Next]_vars =>
        [HandOver => \A e \in sent : ~Within(e, base', taken')]_vars
  <2> SUFFICES ASSUME IInv, HandOver, NEW e \in sent
               PROVE  ~Within(e, base', taken')
    OBVIOUS
  <2>1. ~Within(e, base + whole, taken)
    BY ScanIsComplete DEF HandOver, IInv, Erase
  <2>. QED
    BY <2>1 DEF HandOver, Erase
<1>. QED
  BY <1>1, Invariance, PTL DEF Spec, RecvEventsLeavesNoneBehind

(* The client implements EventDelivery: the events reach the application   *)
(* in order and none is lost, until stops at the one it waits for, and only *)
(* a throw out of until has any of them delivered again.                   *)
THEOREM Refinement == Spec => DeliversInOrder
<1> DEFINE position == IF pc = "visit" THEN base + parsed ELSE base
           call == CASE pc = "idle" -> "returned"
                     [] pc \in {"thrown", "failed"} -> "threw"
                     [] OTHER -> op
<1> USE DEF Delivery!Boundaries, Delivery!EndOf, Delivery!Within
<1>1. Init => Delivery!Init
  BY DEF Init, Delivery!Init
<1>2. IInv /\ [Next]_vars => [Delivery!Next]_Delivery!vars
  <2> SUFFICES ASSUME IInv, [Next]_vars
               PROVE  Delivery!Next \/ UNCHANGED Delivery!vars
    OBVIOUS
  <2> USE DEF IInv
  <2>0. /\ pc = "visit" => call = "until" /\ position = base + parsed
        /\ pc # "visit" => position = base
        /\ pc \in Reading \cup {"scan"} => call = op /\ op \in Delivery!Running
        /\ pc \in {"idle", "thrown"} => call \notin Delivery!Running
        /\ target \in Keys
    BY DEF CursorInv, TypeOK, Reading, Delivery!Running
  <2>1. ASSUME NEW n \in EventSizes, NEW k \in Keys, Emit(n, k)
        PROVE  Delivery!Send
    <3>1. last \in Boundaries(sent) /\ \A e \in sent : EndOf(e) <= last
      BY <2>1 DEF Emit, StreamInv
    <3>. QED
      BY <2>1, <3>1 DEF Emit, Delivery!Send, Boundaries, EndOf
  <2>2. CASE (\E n \in 1..RecvBlock : ReadPart(n)) \/ ReadFull
    <3>1. PICK b \in Boundaries(sent) : last <= b
      BY DEF StreamInv
    <3>2. b \in Nat
      BY BoundaryAligned
    <3>3. RoomToRead \in Nat /\ RoomToRead > 0
      BY RecvBlockAssumption DEF RoomToRead, TypeOK, WordSize
    <3>4. taken' \in (taken + 1)..b
      BY <2>2, <3>1, <3>2, <3>3 DEF ReadPart, ReadFull, TypeOK
    <3>5. UNCHANGED <<sent, position, base, call, target>> /\ pc \in Reading
      BY <2>2 DEF ReadPart, ReadFull, Reading, server
    <3>6. call \in Delivery!Running
      BY <2>0, <3>5
    <3>. QED
      BY <3>4, <3>5, <3>6 DEF Delivery!Next, Delivery!Arrive, Boundaries, EndOf
  <2>3. CASE HandOver
    <3>1. \A e \in sent : ~Within(e, base + whole, taken)
      BY <2>3, ScanIsComplete DEF HandOver, Erase
    <3>2. /\ whole <= buffSize /\ base + whole \in Boundaries(sent)
          /\ buffSize = taken - base
      BY <2>3 DEF HandOver, CursorInv, BufferIsStream, Erase
    <3>3. /\ call = "recv_events" /\ call' = "returned" /\ position = base
          /\ position' = base + whole /\ base' = base + whole
          /\ UNCHANGED <<sent, taken, target>>
      BY <2>3 DEF HandOver, server, Erase
    <3>. QED
      BY <3>1, <3>2, <3>3
      DEF Delivery!Next, Delivery!HandOver, Boundaries, Within, EndOf, TypeOK
  <2>4. ASSUME NEW e \in sent, Yields(e), UNCHANGED server, UNCHANGED taken
        PROVE  /\ Delivery!IsNext(e) /\ base + (parsed + e.size) = EndOf(e)
    <3>1. e.size \in Nat /\ whole <= buffSize /\ buffSize = taken - base
      BY <2>4, EventFacts DEF Yields, TypeOK, CursorInv, BufferIsStream
    <3>2. base + (parsed + e.size) = EndOf(e) /\ EndOf(e) <= taken
      BY <2>4, <3>1, EventFacts DEF Yields, TypeOK
    <3>. QED
      BY <2>0, <2>4, <3>2 DEF Yields, Delivery!IsNext, EndOf
  <2>5. ASSUME NEW e \in sent, VisitUntil(e)
        PROVE  Delivery!Return
    <3>1. Delivery!IsNext(e) /\ base' = EndOf(e) /\ call = "until"
      BY <2>0, <2>4, <2>5 DEF VisitUntil, Erase, Yields
    <3>. QED
      BY <2>5, <3>1 DEF VisitUntil, Delivery!Return, server, EndOf
  <2>6. ASSUME NEW e \in sent, VisitOther(e)
        PROVE  Delivery!Deliver
    <3>1. Delivery!IsNext(e) /\ base + parsed' = EndOf(e) /\ call = "until"
      BY <2>0, <2>4, <2>6 DEF VisitOther, Yields
    <3>. QED
      BY <2>6, <3>1 DEF VisitOther, Yields, Delivery!Deliver, server, EndOf
  <2>7. CASE ReadEOF \/ ReadFails \/ \E e \in sent : CallbackThrows(e)
    <3>1. call \in Delivery!Running
      BY <2>0, <2>7
      DEF ReadEOF, ReadFails, CallbackThrows, Yields, Delivery!Running
    <3>2. /\ call' = "threw" /\ position' = base
          /\ UNCHANGED <<sent, taken, base, target>>
      BY <2>7 DEF ReadEOF, ReadFails, CallbackThrows, server
    <3>. QED
      BY <3>1, <3>2 DEF Delivery!Next, Delivery!Throw
  <2>8. CASE EraseVisited
    BY <2>0, <2>8 DEF EraseVisited, Delivery!Next, Delivery!Commit, server, Erase
  <2>9. CASE CallRecvEvents \/ \E k \in Keys : CallUntil(k)
    <3>1. /\ pc \in {"idle", "thrown"} /\ target' \in Keys
          /\ call' \in Delivery!Running
          /\ UNCHANGED <<sent, taken, base, position>>
      BY <2>0, <2>9 DEF CallRecvEvents, CallUntil, server, Delivery!Running
    <3>. QED
      BY <2>0, <3>1 DEF Delivery!Next, Delivery!Call
  <2>10. ASSUME \/ \E end \in taken..last : Close(end)
                \/ \E e \in sent : ParserNext(e) \/ ScanNext(e)
                \/ StartVisit \/ UNCHANGED vars
         PROVE  UNCHANGED Delivery!vars
    BY <2>10
    DEF Close, ParserNext, ScanNext, StartVisit, TypeOK, vars, server,
        Delivery!vars
  <2>. QED
    BY <2>1, <2>2, <2>3, <2>5, <2>6, <2>7, <2>8, <2>9, <2>10
    DEF Next, Compositor, Application, ReadReturns, Scan, Visit, Stuck,
        Delivery!Next
<1>. QED
  BY <1>1, <1>2, Invariance, PTL DEF Spec, Delivery!Spec, DeliversInOrder
=============================================================================
