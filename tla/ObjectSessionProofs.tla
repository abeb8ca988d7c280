------------------------- MODULE ObjectSessionProofs -------------------------
(***************************************************************************)
(* Proofs about ObjectSession for every protocol, whatever its requests    *)
(* end and its events create, and for any number of ids and messages.      *)
(***************************************************************************)
EXTENDS ObjectSession, QueueLemmas, TLAPS

IdOrNull == Ids \cup {Null}

RequestType ==
  [obj : Ids, opcode : Nat, types : Seq(ArgumentTypes),
   objs : UNION {[D -> IdOrNull] : D \in SUBSET Nat}, new : IdOrNull,
   named : Interfaces \cup {NoInterface}]

EventType ==
  [obj : Ids, opcode : Nat, types : Seq(ArgumentTypes), new : IdOrNull]

UsedServerIds == FirstServerId..(nextServer - 1)

TypeOK ==
  /\ nextId \in Nat /\ nextBind \in Nat /\ lastNew \in Nat /\ nextServer \in Nat
  /\ 1 <= lastNew /\ lastNew < nextBind /\ nextBind <= nextId
  /\ nextId <= FirstServerId
  /\ FirstServerId <= nextServer /\ nextServer <= MaxServerId + 1
  /\ handles \in [DOMAIN handles -> Interfaces]
  /\ 1..(nextId - 1) \subseteq DOMAIN handles
  /\ DOMAIN handles \subseteq 1..(nextId - 1) \cup UsedServerIds
  /\ live \subseteq 1..(nextBind - 1) \cup UsedServerIds
  /\ live \subseteq DOMAIN handles
  /\ objects \in [DOMAIN objects -> Interfaces]
  /\ DOMAIN objects \subseteq 1..lastNew \cup UsedServerIds
  /\ freed \subseteq UsedServerIds
  /\ toServer \in Seq(RequestType) /\ toClient \in Seq(EventType)

-----------------------------------------------------------------------------
(* Requests *)

Ends(hs, m) == <<hs[m.obj], m.opcode>> \in Destructors

Refers(m, i) == m.obj = i \/ \E a \in DOMAIN m.objs : m.objs[a] = i

(* When the compositor comes to request k of s, it will have object i, as  *)
(* an object of the interface that it has for the program.                 *)
Avail(hs, objs, s, k, i) ==
  /\ \/ i \in DOMAIN objs /\ objs[i] = hs[i]
     \/ \E j \in 1..(k - 1) : s[j].new = i
  /\ \A j \in 1..(k - 1) : Ends(hs, s[j]) => s[j].obj # i

(* A request is laid out as its object's interface has it, with objects of *)
(* the right interfaces.                                                   *)
WellFormed(hs, m) ==
  /\ m.obj \in DOMAIN hs
  /\ m.opcode + 1 \in DOMAIN Requests[hs[m.obj]]
  /\ m.types = Requests[hs[m.obj]][m.opcode + 1].args
  /\ \A a \in DOMAIN m.objs : m.objs[a] # Null =>
       m.objs[a] \in DOMAIN hs /\ Converts(hs[m.objs[a]], m.types[a])
  /\ Creates(m) <=> m.new # Null
  /\ Creates(m) => m.new \in DOMAIN hs /\ CreatedInterface(m) = hs[m.new]

RequestInv ==
  /\ \A k \in 1..Len(toServer) : WellFormed(handles, toServer[k])
  /\ \A k \in 1..Len(toServer) : \A i \in Ids : Refers(toServer[k], i) =>
       /\ Avail(handles, objects, toServer, k, i)
       /\ i \notin nextBind..MaxClientId
  /\ \A h \in live : Avail(handles, objects, toServer, Len(toServer) + 1, h)
  /\ InOrder(toServer, lastNew + 1, nextBind)

-----------------------------------------------------------------------------
(* Events *)

(* An object that one of the first k events of q brings. *)
Brought(q, k, i) == \E j \in 1..k : q[j].new = i

Pending(i) == Brought(toClient, Len(toClient), i)

(* An object on its way to the program is one that the program cannot name *)
(* yet, in no request and by no handle.                                    *)
PendingInv ==
  /\ freed \cap DOMAIN objects = {}
  /\ \A k \in 1..Len(toClient) : LET e == toClient[k] IN
       /\ NewIdArgs(e.types) # {} <=> e.new # Null
       /\ \A a, b \in NewIdArgs(e.types) : a = b
       /\ e.new # Null =>
            /\ e.new \in UsedServerIds /\ e.new \in DOMAIN objects /\ e.new \notin live
            /\ \A a \in NewIdArgs(e.types) : objects[e.new] = e.types[a].of
            /\ \A j \in 1..Len(toServer) : ~Refers(toServer[j], e.new)
            /\ \A j \in 1..Len(toClient) : toClient[j].new = e.new => j = k

(* The objects that the program may have overloads for.                    *)
Tracked == live \cup 1..(nextId - 1) \cup {key[1] : key \in added}

IsEventOf(e, I) ==
  e.opcode + 1 \in DOMAIN Events[I] /\ e.types = Events[I][e.opcode + 1].args

(* An event is one of the object that the program knows by the id, unless  *)
(* an event before it brings another object of that id.                    *)
EventInv ==
  /\ \A k \in 1..Len(toClient) : LET e == toClient[k] IN
       /\ e.obj \in 1..lastNew \cup UsedServerIds
       /\ IF Brought(toClient, k - 1, e.obj)
          THEN e.obj \in DOMAIN objects /\ IsEventOf(e, objects[e.obj])
          ELSE e.obj \in Tracked => IsEventOf(e, handles[e.obj])
  /\ \A o \in DOMAIN objects \cap Tracked : ~Pending(o) => handles[o] = objects[o]

OverloadInv ==
  \A key \in added :
    /\ key = <<key[1], key[2]>> /\ key[2] \in Nat
    /\ key[1] \in DOMAIN handles /\ key \in DOMAIN overloads
    /\ key[2] + 1 \in DOMAIN Events[handles[key[1]]]
    /\ overloads[key] = Events[handles[key[1]]][key[2] + 1]

IInv ==
  TypeOK /\ RequestInv /\ PendingInv /\ EventInv /\ OverloadInv /\ RequestsAccepted

-----------------------------------------------------------------------------
(* Tables, functions and ids. *)

(* A message of a table is at the place of its opcode, and its only new_id *)
(* argument is its only one.                                               *)
LEMMA TableFacts ==
  ASSUME NEW table, WellNumbered(table), NEW I \in Interfaces,
         NEW n \in DOMAIN table[I]
  PROVE  /\ n \in Nat \ {0} /\ table[I][n].opcode = n - 1
         /\ table[I][n].args \in Seq(ArgumentTypes)
         /\ \A i, j \in NewIdArgs(table[I][n].args) : i = j
<1>1. table[I] \in Seq(MessageTypes)
  BY DEF WellNumbered
<1>2. n \in 1..Len(table[I]) /\ Len(table[I]) \in Nat
  BY <1>1, LenProperties
<1>3. table[I][n] \in MessageTypes
  BY <1>1, <1>2, ElementOfSeq
<1>4. table[I][n].args \in Seq(ArgumentTypes)
  BY <1>3 DEF MessageTypes
<1>5. /\ table[I][n].opcode = n - 1
      /\ \A i, j \in NewIdArgs(table[I][n].args) : i = j
  BY <1>2 DEF WellNumbered
<1>. QED
  BY <1>2, <1>4, <1>5

LEMMA Upto ==
  ASSUME NEW a \in Nat, NEW b \in Nat, a <= b
  PROVE  1..(a - 1) \subseteq 1..(b - 1)
OBVIOUS

(* The ids of the program and those of the compositor are apart.           *)
LEMMA IdFacts ==
  ASSUME TypeOK
  PROVE  /\ MaxClientId \in Nat \ {0} /\ MaxServerId \in Nat
         /\ FirstServerId = MaxClientId + 1 /\ MaxClientId <= MaxServerId
         /\ \A i \in UsedServerIds :
              /\ i \in Ids /\ i \in Nat /\ i # Null /\ i >= FirstServerId
              /\ i < nextServer /\ i \notin 1..(nextId - 1) /\ i \notin ClientIds
         /\ \A i \in 1..(nextId - 1) : i \in Ids /\ i \in ClientIds
         /\ DOMAIN handles \subseteq Ids /\ live \subseteq Ids
         /\ DOMAIN objects \subseteq Ids
<1>1. /\ MaxClientId \in Nat \ {0} /\ MaxServerId \in Nat
      /\ FirstServerId = MaxClientId + 1 /\ MaxClientId <= MaxServerId
  BY BoundsAssumption DEF FirstServerId
<1>2. /\ nextId \in Nat /\ nextId <= FirstServerId
      /\ nextServer \in Nat /\ nextServer <= MaxServerId + 1
      /\ nextBind \in Nat /\ nextBind <= nextId
      /\ lastNew \in Nat /\ lastNew < nextBind
  BY DEF TypeOK
<1>3. \A i \in UsedServerIds :
        /\ i \in Ids /\ i \in Nat /\ i # Null /\ i >= FirstServerId
        /\ i < nextServer /\ i \notin 1..(nextId - 1) /\ i \notin ClientIds
  BY <1>1, <1>2 DEF UsedServerIds, Ids, Null, ClientIds
<1>4. \A i \in 1..(nextId - 1) : i \in Ids /\ i \in ClientIds
  BY <1>1, <1>2 DEF Ids, ClientIds
<1>5. 1..(nextBind - 1) \subseteq 1..(nextId - 1) /\ 1..lastNew \subseteq 1..(nextId - 1)
  BY <1>2
<1>. QED
  BY <1>1, <1>3, <1>4, <1>5 DEF TypeOK

LEMMA RequestFacts ==
  ASSUME NEW s \in Seq(RequestType), NEW k \in 1..Len(s)
  PROVE  /\ s[k].obj \in Ids /\ s[k].opcode \in Nat
         /\ s[k].new \in IdOrNull /\ Refers(s[k], s[k].obj)
<1>1. s[k] \in RequestType
  BY ElementOfSeq
<1>. QED
  BY <1>1 DEF RequestType, Refers

LEMMA EventFacts ==
  ASSUME NEW s \in Seq(EventType), NEW k \in 1..Len(s)
  PROVE  /\ s[k].obj \in Ids /\ s[k].opcode \in Nat
         /\ s[k].types \in Seq(ArgumentTypes) /\ s[k].new \in IdOrNull
<1>1. s[k] \in EventType
  BY ElementOfSeq
<1>. QED
  BY <1>1 DEF EventType

LEMMA NewIdType == \A r \in RequestType : r.new \in Nat
BY BoundsAssumption DEF RequestType, IdOrNull, Ids, Null

(* The program knows the objects it may have overloads for.                *)
LEMMA TrackedFacts ==
  ASSUME TypeOK, OverloadInv
  PROVE  Tracked \subseteq DOMAIN handles
BY DEF TypeOK, OverloadInv, Tracked

-----------------------------------------------------------------------------
(* What requests rely on. *)

(* A request stays well formed when its objects keep their interfaces.     *)
LEMMA WellFormedKept ==
  ASSUME NEW hs, NEW hs2, NEW m, WellFormed(hs, m),
         \A i \in DOMAIN hs :
           Refers(m, i) \/ m.new = i => i \in DOMAIN hs2 /\ hs2[i] = hs[i]
  PROVE  WellFormed(hs2, m)
<1>1. m.obj \in DOMAIN hs2 /\ hs2[m.obj] = hs[m.obj]
  BY DEF WellFormed, Refers
<1>2. \A a \in DOMAIN m.objs : m.objs[a] # Null =>
        m.objs[a] \in DOMAIN hs2 /\ hs2[m.objs[a]] = hs[m.objs[a]]
  BY DEF WellFormed, Refers
<1>3. Creates(m) => m.new \in DOMAIN hs2 /\ hs2[m.new] = hs[m.new]
  BY DEF WellFormed
<1>. QED
  BY <1>1, <1>2, <1>3 DEF WellFormed

(* The compositor will still have an object, if the objects of the         *)
(* requests before keep their interfaces.                                  *)
LEMMA AvailKept ==
  ASSUME NEW hs, NEW hs2, NEW objs, NEW objs2, NEW s, NEW k \in Nat \ {0}, NEW i,
         Avail(hs, objs, s, k, i), hs2[i] = hs[i],
         \A j \in 1..(k - 1) : hs2[s[j].obj] = hs[s[j].obj],
         i \in DOMAIN objs => i \in DOMAIN objs2 /\ objs2[i] = objs[i]
  PROVE  Avail(hs2, objs2, s, k, i)
BY DEF Avail, Ends

(* Requests behind do not matter.                                          *)
LEMMA AvailPrefix ==
  ASSUME NEW hs, NEW objs, NEW s \in Seq(RequestType), NEW m \in RequestType,
         NEW k \in 1..(Len(s) + 1), NEW i, Avail(hs, objs, s, k, i)
  PROVE  Avail(hs, objs, Append(s, m), k, i)
<1>1. \A j \in 1..(k - 1) : Append(s, m)[j] = s[j]
  BY AppendProperties, LenProperties
<1>. QED
  BY <1>1 DEF Avail

(* When the first request has been handled, the compositor has what it     *)
(* made, and has not what it ended.                                        *)
Handled(hs, objs, m, objs2) ==
  /\ \A o : o \in DOMAIN objs2 <=>
       (o \in DOMAIN objs \/ (o # Null /\ o = m.new)) /\ ~(Ends(hs, m) /\ o = m.obj)
  /\ \A o \in DOMAIN objs2 :
       objs2[o] = IF o # Null /\ o = m.new THEN hs[o] ELSE objs[o]

LEMMA AvailTail ==
  ASSUME NEW hs, NEW objs, NEW objs2, NEW s \in Seq(RequestType), s # <<>>,
         Handled(hs, objs, Head(s), objs2),
         NEW k \in 1..Len(s), NEW i, i # Null, Avail(hs, objs, s, k + 1, i)
  PROVE  Avail(hs, objs2, Tail(s), k, i)
<1>1. /\ Len(s) \in Nat /\ Len(Tail(s)) = Len(s) - 1 /\ Head(s) = s[1]
      /\ \A j \in 1..(k - 1) : Tail(s)[j] = s[j + 1] /\ j + 1 \in 1..k
      /\ 1 \in 1..k
  BY HeadTailProperties, LenProperties
<1>2. \A j \in 1..k : Ends(hs, s[j]) => s[j].obj # i
  BY DEF Avail
<1>3. ~(Ends(hs, Head(s)) /\ i = Head(s).obj)
  BY <1>1, <1>2
<1>4. CASE i \in DOMAIN objs /\ objs[i] = hs[i]
  BY <1>1, <1>2, <1>3, <1>4 DEF Avail, Handled
<1>5. CASE \E j \in 1..k : s[j].new = i
  <2>1. PICK j \in 1..k : s[j].new = i
    BY <1>5
  <2>2. CASE j = 1
    BY <1>1, <1>2, <1>3, <2>1, <2>2 DEF Avail, Handled
  <2>3. CASE j # 1
    <3>1. j - 1 \in 1..(k - 1) /\ Tail(s)[j - 1] = s[j]
      BY <1>1, <2>3
    <3>. QED
      BY <1>1, <1>2, <2>1, <3>1 DEF Avail
  <2>. QED
    BY <2>2, <2>3
<1>. QED
  BY <1>4, <1>5 DEF Avail


(* The program has handles of the objects that its requests refer to.      *)
LEMMA ReferredFacts ==
  ASSUME TypeOK, RequestInv, NEW k \in 1..Len(toServer)
  PROVE  /\ \A i \in Ids : Refers(toServer[k], i) => i \in DOMAIN handles
         /\ toServer[k].obj \in Ids /\ toServer[k].obj \in DOMAIN handles
         /\ toServer[k].new # Null =>
              /\ toServer[k].new \in (lastNew + 1)..(nextBind - 1)
              /\ toServer[k].new \in DOMAIN handles
<1>1. WellFormed(handles, toServer[k])
  BY DEF RequestInv
<1>2. toServer[k].obj \in Ids /\ toServer[k].new \in IdOrNull
  BY RequestFacts DEF TypeOK
<1>3. \A i \in Ids : i # Null
  BY BoundsAssumption DEF Ids, Null
<1>4. \A i \in Ids : Refers(toServer[k], i) => i \in DOMAIN handles
  BY <1>1, <1>3 DEF WellFormed, Refers
<1>5. toServer[k].new # Null =>
        toServer[k].new \in Nat /\ lastNew + 1 <= toServer[k].new
          /\ toServer[k].new < nextBind
  BY <1>2, BoundsAssumption DEF RequestInv, InOrder, IdOrNull, Ids, Null
<1>6. toServer[k].new # Null => toServer[k].new \in (lastNew + 1)..(nextBind - 1)
  BY <1>5 DEF TypeOK
<1>. QED
  BY <1>1, <1>2, <1>4, <1>6 DEF WellFormed

(* No request under way can tell an object that it refers to, and that has *)
(* kept its interface on both sides, from what it was.                     *)
LEMMA RequestsKept ==
  ASSUME TypeOK, RequestInv, UNCHANGED toServer, UNCHANGED lastNew, UNCHANGED nextBind,
         \A i \in DOMAIN handles :
           \/ i \in DOMAIN handles' /\ handles'[i] = handles[i]
           \/ i \notin live /\ i \in UsedServerIds
                /\ \A k \in 1..Len(toServer) : ~Refers(toServer[k], i),
         \A i \in DOMAIN objects : i \in DOMAIN objects' /\ objects'[i] = objects[i],
         \A h \in live' :
           h \in live \/ Avail(handles', objects', toServer, Len(toServer) + 1, h)
  PROVE  RequestInv'
<1>1. Len(toServer) \in Nat
  BY LenProperties DEF TypeOK
<1>2. ASSUME NEW k \in 1..Len(toServer)
      PROVE  /\ \A i \in Ids : Refers(toServer[k], i) =>
                  i \in DOMAIN handles' /\ handles'[i] = handles[i]
             /\ handles'[toServer[k].obj] = handles[toServer[k].obj]
             /\ WellFormed(handles', toServer[k])
  <2>1. \A i \in Ids : Refers(toServer[k], i) =>
          i \in DOMAIN handles' /\ handles'[i] = handles[i]
    BY ReferredFacts
  <2>2. toServer[k].obj \in Ids /\ Refers(toServer[k], toServer[k].obj)
    BY ReferredFacts DEF Refers
  <2>3. \A i \in DOMAIN handles : toServer[k].new = i =>
          i \in DOMAIN handles' /\ handles'[i] = handles[i]
    <3> SUFFICES ASSUME toServer[k].new \in DOMAIN handles
                 PROVE  toServer[k].new \notin UsedServerIds
      OBVIOUS
    <3>1. toServer[k].new # Null
      BY IdFacts, BoundsAssumption DEF Ids, Null
    <3>2. toServer[k].new \in (lastNew + 1)..(nextBind - 1)
      BY <3>1, ReferredFacts
    <3>3. lastNew \in Nat /\ nextBind \in Nat /\ nextId \in Nat /\ nextBind <= nextId
      BY DEF TypeOK
    <3>4. toServer[k].new \in 1..(nextId - 1)
      BY <3>2, <3>3
    <3>. QED
      BY <3>4, IdFacts
  <2>4. DOMAIN handles \subseteq Ids
    BY IdFacts
  <2>5. WellFormed(handles, toServer[k])
    BY DEF RequestInv
  <2>6. WellFormed(handles', toServer[k])
    BY <2>1, <2>3, <2>4, <2>5, WellFormedKept
  <2>. QED
    BY <2>1, <2>2, <2>6
<1>3. ASSUME NEW k \in 1..(Len(toServer) + 1), NEW i,
             Avail(handles, objects, toServer, k, i), handles'[i] = handles[i]
      PROVE  Avail(handles', objects', toServer, k, i)
  <2>1. \A j \in 1..(k - 1) : handles'[toServer[j].obj] = handles[toServer[j].obj]
    BY <1>1, <1>2
  <2>2. k \in Nat \ {0}
    BY <1>1
  <2>. QED
    BY <1>3, <2>1, <2>2, AvailKept
<1>4. ASSUME NEW k \in 1..Len(toServer), NEW i \in Ids, Refers(toServer[k], i)
      PROVE  Avail(handles', objects', toServer, k, i) /\ i \notin nextBind..MaxClientId
  <2>1. Avail(handles, objects, toServer, k, i) /\ i \notin nextBind..MaxClientId
    BY <1>4 DEF RequestInv
  <2>2. k \in 1..(Len(toServer) + 1)
    BY <1>1
  <2>. QED
    BY <1>2, <1>3, <1>4, <2>1, <2>2
<1>5. ASSUME NEW h \in live'
      PROVE  Avail(handles', objects', toServer, Len(toServer) + 1, h)
  <2>1. CASE h \in live
    <3>1. Avail(handles, objects, toServer, Len(toServer) + 1, h)
      BY <2>1 DEF RequestInv
    <3>2. handles'[h] = handles[h]
      BY <2>1 DEF TypeOK
    <3>3. Len(toServer) + 1 \in 1..(Len(toServer) + 1)
      BY <1>1
    <3>. QED
      BY <1>3, <3>1, <3>2, <3>3
  <2>. QED
    BY <2>1
<1>6. InOrder(toServer, lastNew' + 1, nextBind')
  BY DEF RequestInv
<1>. QED
  BY <1>2, <1>4, <1>5, <1>6 DEF RequestInv

-----------------------------------------------------------------------------
(* The program's steps. *)

LEMMA ReserveKeepsInv ==
  ASSUME IInv, NEW I \in Reserved, Reserve(I)
  PROVE  IInv'
<1> USE DEF IInv
<1>1. /\ nextId <= MaxClientId /\ nextId' = nextId + 1
      /\ handles' = With(handles, nextId, I)
      /\ UNCHANGED nextBind /\ UNCHANGED live /\ UNCHANGED toServer
      /\ UNCHANGED objects /\ UNCHANGED lastNew /\ UNCHANGED nextServer
      /\ UNCHANGED freed /\ UNCHANGED toClient /\ UNCHANGED overloads
      /\ UNCHANGED added /\ UNCHANGED failed
  BY DEF Reserve, compositor
<1>2. I \in Interfaces
  BY TablesAssumption
<1>3. nextId \in Nat \ {0, 1} /\ nextId \notin UsedServerIds
  BY <1>1, IdFacts DEF TypeOK
<1>4. nextId \notin DOMAIN handles
  BY <1>3 DEF TypeOK
<1>5. /\ DOMAIN handles' = DOMAIN handles \cup {nextId} /\ handles'[nextId] = I
      /\ \A i \in DOMAIN handles : handles'[i] = handles[i]
      /\ handles' = [i \in DOMAIN handles' |-> handles'[i]]
  BY <1>1, <1>4 DEF With
<1>6. TypeOK'
  <2>1. handles' \in [DOMAIN handles' -> Interfaces]
    BY <1>2, <1>5 DEF TypeOK
  <2>2. /\ nextId' \in Nat /\ nextBind <= nextId' /\ nextId' <= FirstServerId
        /\ 1..(nextId' - 1) = 1..(nextId - 1) \cup {nextId}
    BY SMTT(30), <1>1, <1>3, IdFacts DEF TypeOK
  <2>3. UsedServerIds' = UsedServerIds
    BY <1>1 DEF UsedServerIds
  <2>. QED
    BY <1>1, <1>5, <2>1, <2>2, <2>3 DEF TypeOK
<1>7. RequestInv'
  BY <1>1, <1>5, RequestsKept
<1>8. PendingInv'
  BY <1>1 DEF PendingInv, UsedServerIds
<1>9. EventInv'
  <2>1. Tracked' = Tracked \cup {nextId}
    BY <1>1, <1>3, IdFacts DEF Tracked
  <2>2. \A i \in 1..lastNew \cup UsedServerIds : i # nextId
    BY <1>3 DEF TypeOK
  <2>3. \A i \in Tracked : handles'[i] = handles[i]
    BY <1>5, TrackedFacts
  <2>4. DOMAIN objects \subseteq 1..lastNew \cup UsedServerIds
    BY DEF TypeOK
  <2>5. \A i \in 1..lastNew \cup UsedServerIds :
          i \in Tracked' <=> i \in Tracked
    BY <2>1, <2>2
  <2>6. UsedServerIds' = UsedServerIds /\ \A i : Pending(i)' <=> Pending(i)
    BY <1>1 DEF UsedServerIds, Pending, Brought
  <2>. QED
    BY <1>1, <2>3, <2>4, <2>5, <2>6 DEF EventInv, Brought
<1>10. OverloadInv'
  BY <1>1, <1>5 DEF OverloadInv
<1>. QED
  BY <1>1, <1>6, <1>7, <1>8, <1>9, <1>10 DEF RequestsAccepted

LEMMA AddOverloadKeepsInv ==
  ASSUME IInv, NEW h \in Listened, NEW msg \in OverloadMessages(h), AddOverload(h, msg)
  PROVE  IInv'
<1> USE DEF IInv
<1> DEFINE key == <<h, msg.opcode>>
<1>1. /\ failed = "no"
      /\ UNCHANGED nextId /\ UNCHANGED nextBind /\ UNCHANGED handles
      /\ UNCHANGED live /\ UNCHANGED toServer /\ UNCHANGED objects
      /\ UNCHANGED lastNew /\ UNCHANGED nextServer /\ UNCHANGED freed
      /\ UNCHANGED toClient
      /\ \/ failed' = "duplicate" /\ UNCHANGED overloads /\ UNCHANGED added
         \/ /\ key \notin DOMAIN overloads /\ overloads' = With(overloads, key, msg)
            /\ added' = added \cup {key} /\ UNCHANGED failed
  BY DEF AddOverload, compositor, Key
<1>2. h \in Tracked /\ h \in DOMAIN handles
  BY DEF Listened, Tracked, TypeOK
<1>3. PICK n \in DOMAIN Events[handles[h]] : msg = Events[handles[h]][n]
  <2>1. handles[h] \in Interfaces
    BY <1>2 DEF TypeOK
  <2>2. Events[handles[h]] \in Seq(MessageTypes)
    BY <2>1, TablesAssumption DEF WellNumbered
  <2>. QED
    BY <2>2, LenProperties DEF OverloadMessages
<1>4. n \in Nat \ {0} /\ msg.opcode = n - 1
  BY <1>2, <1>3, TableFacts, TablesAssumption DEF TypeOK
<1>5. OverloadInv'
  <2>1. CASE UNCHANGED overloads /\ UNCHANGED added
    BY <1>1, <2>1 DEF OverloadInv
  <2>2. CASE /\ key \notin DOMAIN overloads /\ overloads' = With(overloads, key, msg)
             /\ added' = added \cup {key}
    <3>1. /\ DOMAIN overloads' = DOMAIN overloads \cup {key} /\ overloads'[key] = msg
          /\ \A k \in DOMAIN overloads : overloads'[k] = overloads[k]
      BY <2>2 DEF With
    <3>2. /\ key[1] = h /\ key[2] = n - 1 /\ key = <<key[1], key[2]>>
          /\ key[2] \in Nat /\ key[2] + 1 = n
      BY <1>4
    <3>. HIDE DEF key
    <3>3. ASSUME NEW k \in added
          PROVE  /\ k = <<k[1], k[2]>> /\ k[2] \in Nat
                 /\ k[1] \in DOMAIN handles' /\ k \in DOMAIN overloads'
                 /\ k[2] + 1 \in DOMAIN Events[handles'[k[1]]]
                 /\ overloads'[k] = Events[handles'[k[1]]][k[2] + 1]
      BY <1>1, <3>1 DEF OverloadInv
    <3>4. /\ key = <<key[1], key[2]>> /\ key[2] \in Nat
          /\ key[1] \in DOMAIN handles' /\ key \in DOMAIN overloads'
          /\ key[2] + 1 \in DOMAIN Events[handles'[key[1]]]
          /\ overloads'[key] = Events[handles'[key[1]]][key[2] + 1]
      BY <1>1, <1>2, <1>3, <3>1, <3>2
    <3>. QED
      BY <2>2, <3>3, <3>4 DEF OverloadInv
  <2>. QED
    BY <1>1, <2>1, <2>2
<1>6. EventInv'
  <2>1. Tracked' = Tracked
    BY <1>1, <1>2 DEF Tracked
  <2>. QED
    BY <1>1, <2>1 DEF EventInv, Brought, Pending, UsedServerIds
<1>7. TypeOK'
  BY <1>1 DEF TypeOK, UsedServerIds
<1>8. RequestInv'
  BY <1>1 DEF RequestInv
<1>9. PendingInv'
  BY <1>1 DEF PendingInv, UsedServerIds
<1>. QED
  BY <1>1, <1>5, <1>6, <1>7, <1>8, <1>9 DEF RequestsAccepted

(* The request that a program registers is a well formed one, of objects   *)
(* that it has not ended.                                                  *)
LEMMA RegisteredRequest ==
  ASSUME TypeOK, NEW h \in live, NEW n \in DOMAIN Requests[handles[h]],
         NEW objs \in ObjectChoices(Requests[handles[h]][n].args),
         NEW id \in NewIds(Requests[handles[h]][n].args),
         NEW named \in Names(Requests[handles[h]][n].args, id)
  PROVE  LET m == [obj |-> h, opcode |-> Requests[handles[h]][n].opcode,
                   types |-> Requests[handles[h]][n].args, objs |-> objs,
                   new |-> id, named |-> named]
         IN /\ m \in RequestType /\ WellFormed(handles, m)
            /\ \A i \in Ids : Refers(m, i) => i \in live
            /\ id = Null \/ (id = nextBind /\ nextBind < nextId)
<1> DEFINE types == Requests[handles[h]][n].args
           m == [obj |-> h, opcode |-> Requests[handles[h]][n].opcode,
                 types |-> types, objs |-> objs, new |-> id, named |-> named]
<1>1. h \in DOMAIN handles /\ handles[h] \in Interfaces /\ h \in Ids
  BY IdFacts DEF TypeOK
<1>2. /\ n \in Nat \ {0} /\ Requests[handles[h]][n].opcode = n - 1
      /\ types \in Seq(ArgumentTypes)
  <2>1. WellNumbered(Requests)
    BY TablesAssumption
  <2>. QED
    BY <1>1, <2>1, TableFacts
<1>3. ObjectArgs(types) \in SUBSET Nat
  BY <1>2, LenProperties DEF ObjectArgs
<1>4. /\ objs \in [ObjectArgs(types) -> live \cup {Null}]
      /\ \A a \in ObjectArgs(types) :
           objs[a] # Null => Converts(handles[objs[a]], types[a])
  BY DEF ObjectChoices
<1>5. /\ id = Null \/ (id = nextBind /\ nextBind # nextId)
      /\ NewIdArgs(types) # {} <=> id # Null
      /\ \A i \in NewIdArgs(types) : Converts(handles[id], types[i])
  <2>1. nextBind # Null
    BY DEF TypeOK, Null
  <2>2. CASE NewIdArgs(types) = {}
    BY <2>2 DEF NewIds
  <2>3. CASE NewIdArgs(types) # {}
    BY <2>1, <2>3 DEF NewIds
  <2>. QED
    BY <2>2, <2>3
<1>6. id = Null \/ (id = nextBind /\ nextBind < nextId /\ id \in DOMAIN handles)
  BY <1>5 DEF TypeOK
<1>7. named = IF IsGeneric(types) THEN handles[id] ELSE NoInterface
  BY DEF Names
<1>8. m \in RequestType
  <2>1. /\ live \cup {Null} \subseteq IdOrNull
        /\ DOMAIN handles \subseteq Ids
    BY IdFacts DEF IdOrNull
  <2>2. objs \in [ObjectArgs(types) -> IdOrNull]
    BY <1>4, <2>1
  <2>3. objs \in UNION {[D -> IdOrNull] : D \in SUBSET Nat}
    BY <1>3, <2>2
  <2>4. named \in Interfaces \cup {NoInterface}
    <3>1. IsGeneric(types) => id \in DOMAIN handles
      BY <1>5, <1>6 DEF IsGeneric
    <3>. QED
      BY <1>7, <3>1 DEF TypeOK
  <2>5. id \in IdOrNull
    BY <1>6, <2>1 DEF IdOrNull
  <2>6. Requests[handles[h]][n].opcode \in Nat
    BY <1>2
  <2>. HIDE DEF types
  <2>. QED
    BY <1>1, <1>2, <2>3, <2>4, <2>5, <2>6 DEF RequestType
<1>9. \A i \in Ids : Refers(m, i) => i \in live
  <2> SUFFICES ASSUME NEW i \in Ids, Refers(m, i)
               PROVE  i \in live
    OBVIOUS
  <2>1. i # Null
    BY BoundsAssumption DEF Ids, Null
  <2>. QED
    BY <1>4, <2>1 DEF Refers
<1>10. WellFormed(handles, m)
  <2>1. /\ m.opcode + 1 = n /\ m.opcode + 1 \in DOMAIN Requests[handles[m.obj]]
        /\ m.types = Requests[handles[m.obj]][m.opcode + 1].args
    BY <1>2
  <2>2. \A a \in DOMAIN m.objs : m.objs[a] # Null =>
          m.objs[a] \in DOMAIN handles /\ Converts(handles[m.objs[a]], m.types[a])
    BY <1>4 DEF TypeOK
  <2>3. Creates(m) <=> m.new # Null
    BY <1>5 DEF Creates
  <2>4. Creates(m) => m.new \in DOMAIN handles
    BY <1>5, <1>6 DEF Creates
  <2>5. Creates(m) => CreatedInterface(m) = handles[m.new]
    <3> SUFFICES ASSUME NewIdArgs(types) # {}
                 PROVE  CreatedInterface(m) = handles[id]
      BY DEF Creates
    <3> DEFINE i == CHOOSE i \in NewIdArgs(types) : TRUE
    <3>1. i \in NewIdArgs(types)
      OBVIOUS
    <3>2. types[i].of \in {handles[id], generic_object}
      BY SMTT(30), <1>5, <3>1 DEF Converts
    <3>3. types[i].of = generic_object => named = handles[id]
      BY <1>7, <3>1 DEF IsGeneric
    <3>4. CreatedInterface(m) =
            IF types[i].of = generic_object THEN named ELSE types[i].of
      BY DEF CreatedInterface
    <3>. QED
      BY <3>2, <3>3, <3>4
  <2>. QED
    BY <1>1, <2>1, <2>2, <2>3, <2>4, <2>5 DEF WellFormed
<1>. QED
  BY <1>6, <1>8, <1>9, <1>10

LEMMA RegisterKeepsInv ==
  ASSUME IInv, NEW h \in live, NEW n \in DOMAIN Requests[handles[h]],
         NEW objs \in ObjectChoices(Requests[handles[h]][n].args),
         NEW id \in NewIds(Requests[handles[h]][n].args),
         NEW named \in Names(Requests[handles[h]][n].args, id),
         RegisterRequest(h, n, objs, id, named)
  PROVE  IInv'
<1> USE DEF IInv
<1> DEFINE m == [obj |-> h, opcode |-> Requests[handles[h]][n].opcode,
                 types |-> Requests[handles[h]][n].args, objs |-> objs,
                 new |-> id, named |-> named]
<1>1. /\ m \in RequestType /\ WellFormed(handles, m) /\ m.obj = h /\ m.new = id
      /\ \A i \in Ids : Refers(m, i) => i \in live
      /\ id = Null \/ (id = nextBind /\ nextBind < nextId)
      /\ Refers(m, h)
  BY RegisteredRequest DEF Refers
<1>2. /\ toServer' = Append(toServer, m)
      /\ nextBind' = IF id = Null THEN nextBind ELSE nextBind + 1
      /\ live' = (live \cup ({id} \ {Null})) \ (IF Ends(handles, m) THEN {h} ELSE {})
      /\ UNCHANGED nextId /\ UNCHANGED handles /\ UNCHANGED objects
      /\ UNCHANGED lastNew /\ UNCHANGED nextServer /\ UNCHANGED freed
      /\ UNCHANGED toClient /\ UNCHANGED overloads /\ UNCHANGED added
      /\ UNCHANGED failed
  BY DEF RegisterRequest, compositor, Ends
<1> HIDE DEF m
<1>3. /\ toServer \in Seq(RequestType) /\ Len(toServer) \in Nat
      /\ toServer' \in Seq(RequestType) /\ Len(toServer') = Len(toServer) + 1
      /\ \A k \in 1..Len(toServer) : toServer'[k] = toServer[k]
      /\ toServer'[Len(toServer) + 1] = m
  BY <1>1, <1>2, AppendProperties, LenProperties DEF TypeOK
<1>4. /\ nextBind \in Nat /\ nextId \in Nat /\ nextBind <= nextId
      /\ nextBind' \in Nat /\ nextBind <= nextBind' /\ nextBind' <= nextId
      /\ lastNew \in Nat /\ lastNew < nextBind
  BY <1>1, <1>2 DEF TypeOK
<1>5. id # Null => id \in nextBind..MaxClientId /\ id \in 1..(nextId - 1) /\ id \notin live
  BY SMTT(30), <1>1, <1>4, IdFacts DEF TypeOK
<1>6. live' \subseteq live \cup ({id} \ {Null})
  BY <1>2
<1>7. TypeOK'
  <2>1. 1..(nextBind - 1) \subseteq 1..(nextBind' - 1)
    BY <1>4, Upto
  <2>2. id # Null => id \in 1..(nextBind' - 1) /\ id \in DOMAIN handles
    BY <1>1, <1>2, <1>4, <1>5 DEF TypeOK
  <2>. QED
    BY <1>2, <1>3, <1>4, <1>6, <2>1, <2>2 DEF TypeOK, UsedServerIds
<1>8. RequestInv'
  <2>1. \A k \in 1..Len(toServer') : WellFormed(handles', toServer'[k])
    BY <1>1, <1>2, <1>3 DEF RequestInv
  <2>2. ASSUME NEW k \in 1..(Len(toServer) + 1), NEW i,
               Avail(handles, objects, toServer, k, i)
        PROVE  Avail(handles', objects', toServer', k, i)
    BY <1>1, <1>2, <1>3, <2>2, AvailPrefix
  <2>3. ASSUME NEW k \in 1..Len(toServer'), NEW i \in Ids, Refers(toServer'[k], i)
        PROVE  Avail(handles', objects', toServer', k, i) /\ i \notin nextBind'..MaxClientId
    <3>1. k \in 1..(Len(toServer) + 1)
      BY <1>3
    <3>2. CASE k \in 1..Len(toServer)
      <4>1. Avail(handles, objects, toServer, k, i) /\ i \notin nextBind..MaxClientId
        BY <1>3, <2>3, <3>2 DEF RequestInv
      <4>. QED
        BY <1>4, <2>2, <3>1, <4>1
    <3>3. CASE k = Len(toServer) + 1
      <4>1. i \in live
        BY <1>1, <1>3, <2>3, <3>3
      <4>2. Avail(handles, objects, toServer, k, i)
        BY <3>3, <4>1 DEF RequestInv
      <4>3. i \notin nextBind..MaxClientId
        <5>1. i \in 1..(nextBind - 1) \/ i \in UsedServerIds
          BY <4>1 DEF TypeOK
        <5>2. CASE i \in 1..(nextBind - 1)
          BY <5>2 DEF TypeOK
        <5>3. CASE i \in UsedServerIds
          <6>1. i \in Nat /\ i >= MaxClientId + 1 /\ MaxClientId \in Nat
            BY <5>3, IdFacts
          <6>. QED
            BY <6>1
        <5>. QED
          BY <5>1, <5>2, <5>3
      <4>. QED
        BY <1>4, <2>2, <3>1, <4>2, <4>3
    <3>. QED
      BY <1>3, <3>1, <3>2, <3>3
  <2>4. ASSUME NEW h2 \in live'
        PROVE  Avail(handles', objects', toServer', Len(toServer') + 1, h2)
    <3>1. ~(Ends(handles, m) /\ m.obj = h2)
      BY <1>1, <1>2
    <3>2. CASE h2 \in live
      <4>1. Avail(handles', objects', toServer', Len(toServer) + 1, h2)
        BY <1>3, <2>2, <3>2 DEF RequestInv
      <4>2. \A j \in 1..(Len(toServer') + 1 - 1) :
              j \in 1..(Len(toServer) + 1 - 1) \/ toServer'[j] = m
        BY <1>3
      <4>3. \A j \in 1..(Len(toServer) + 1 - 1) : j \in 1..(Len(toServer') + 1 - 1)
        BY <1>3
      <4>. QED
        BY <1>2, <3>1, <4>1, <4>2, <4>3 DEF Avail
    <3>3. CASE h2 = id /\ id # Null
      <4>1. Len(toServer) + 1 \in 1..(Len(toServer') + 1 - 1)
        BY <1>3
      <4>2. \A j \in 1..(Len(toServer') + 1 - 1) : toServer'[j].obj # h2
        <5> SUFFICES ASSUME NEW j \in 1..(Len(toServer) + 1)
                     PROVE  toServer'[j].obj # h2
          BY <1>3
        <5>1. CASE j \in 1..Len(toServer)
          <6>1. toServer[j].obj \in Ids /\ Refers(toServer[j], toServer[j].obj)
            BY <5>1, ReferredFacts DEF Refers
          <6>2. toServer[j].obj \notin nextBind..MaxClientId
            BY <5>1, <6>1 DEF RequestInv
          <6>. QED
            BY <1>3, <1>5, <3>3, <5>1, <6>2
        <5>2. CASE j = Len(toServer) + 1
          BY <1>1, <1>3, <1>5, <3>3, <5>2
        <5>. QED
          BY <1>3, <5>1, <5>2
      <4>3. \E j \in 1..(Len(toServer') + 1 - 1) : toServer'[j].new = h2
        BY <1>1, <1>3, <3>3, <4>1
      <4>. QED
        BY <4>2, <4>3 DEF Avail
    <3>. QED
      BY <1>6, <3>2, <3>3
  <2>5. InOrder(toServer', lastNew' + 1, nextBind')
    <3>1. /\ <<m>> \in Seq(RequestType) /\ Len(<<m>>) = 1 /\ <<m>>[1] = m
          /\ toServer' = toServer \o <<m>>
      BY <1>1, <1>2, <1>3, AppendIsConcat
    <3>2. InOrder(<<m>>, nextBind, nextBind')
      <4>1. /\ \A k \in 1..Len(<<m>>) : k = 1 /\ <<m>>[k].new = id
            /\ 1 \in 1..Len(<<m>>)
        BY <1>1, <3>1
      <4>2. id # 0 => nextBind <= id /\ id < nextBind'
        BY <1>1, <1>2, <1>4 DEF Null
      <4>3. \A i \in nextBind..(nextBind' - 1) : i = id
        BY <1>1, <1>2, <1>4
      <4>. QED
        BY <4>1, <4>2, <4>3 DEF InOrder
    <3>3. /\ InOrder(toServer, lastNew + 1, nextBind) /\ lastNew + 1 \in Nat
          /\ lastNew + 1 <= nextBind
      BY <1>4 DEF RequestInv
    <3>4. InOrder(toServer \o <<m>>, lastNew + 1, nextBind')
      BY <1>3, <1>4, <3>1, <3>2, <3>3, NewIdType, InOrderConcat
    <3>. QED
      BY <1>2, <3>1, <3>4
  <2>. QED
    BY <2>1, <2>3, <2>4, <2>5 DEF RequestInv
<1>9. PendingInv'
  <2> SUFFICES ASSUME NEW k \in 1..Len(toClient), toClient[k].new # Null
               PROVE  /\ toClient[k].new \notin live'
                      /\ \A j \in 1..Len(toServer') : ~Refers(toServer'[j], toClient[k].new)
    BY <1>2 DEF PendingInv, UsedServerIds
  <2> DEFINE x == toClient[k].new
  <2>1. /\ x \in UsedServerIds /\ x \notin live
        /\ \A j \in 1..Len(toServer) : ~Refers(toServer[j], x)
    BY DEF PendingInv
  <2>. HIDE DEF x
  <2>2. x \in Ids /\ x # id
    BY <1>5, <2>1, IdFacts
  <2>3. ~Refers(m, x)
    BY <1>1, <2>1, <2>2
  <2>4. \A j \in 1..Len(toServer') : ~Refers(toServer'[j], x)
    BY <1>3, <2>1, <2>3
  <2>. QED
    BY <1>6, <2>1, <2>2, <2>4 DEF x
<1>10. EventInv'
  <2>1. Tracked' \subseteq Tracked
    BY <1>2, <1>5, <1>6 DEF Tracked
  <2>2. UsedServerIds' = UsedServerIds /\ \A i : Pending(i)' <=> Pending(i)
    BY <1>2 DEF UsedServerIds, Pending, Brought
  <2>. QED
    BY <1>2, <2>1, <2>2 DEF EventInv, Brought
<1>11. OverloadInv'
  BY <1>2 DEF OverloadInv
<1>. QED
  BY <1>2, <1>7, <1>8, <1>9, <1>10, <1>11 DEF RequestsAccepted

(* An event whose object has an overload that was added for it is read as  *)
(* what it was sent as: no event before it brings an object of that id.    *)
LEMMA ReadAsSent ==
  ASSUME TypeOK, EventInv, OverloadInv, toClient # <<>>,
         <<Head(toClient).obj, Head(toClient).opcode>> \in added
  PROVE  overloads[<<Head(toClient).obj, Head(toClient).opcode>>].args
           = Head(toClient).types
<1> DEFINE e == Head(toClient)
           key == <<e.obj, e.opcode>>
<1>1. Len(toClient) \in Nat /\ 1 \in 1..Len(toClient) /\ e = toClient[1]
  BY EmptySeq, HeadTailProperties, LenProperties DEF TypeOK
<1>2. key[1] = e.obj /\ key[2] = e.opcode /\ e.obj \in Tracked
  BY DEF Tracked
<1>3. IsEventOf(e, handles[e.obj])
  BY <1>1, <1>2 DEF EventInv, Brought
<1>4. overloads[key] = Events[handles[e.obj]][e.opcode + 1]
  BY <1>2 DEF OverloadInv
<1>. QED
  BY <1>3, <1>4 DEF IsEventOf

(* What a callback keeps is a handle of the object that the event brings,  *)
(* with the interface that the object has.                                 *)
LEMMA VisitEffect ==
  ASSUME IInv, NEW keep \in BOOLEAN, Visit(keep)
  PROVE  LET x == Head(toClient).new IN
         /\ toClient # <<>> /\ toClient' = Tail(toClient)
         /\ \/ UNCHANGED handles /\ UNCHANGED live
            \/ /\ x # Null /\ handles' = With(handles, x, objects[x])
               /\ live' = live \cup {x}
         /\ added' = {key \in added : key[1] # x}
         /\ UNCHANGED nextId /\ UNCHANGED nextBind /\ UNCHANGED toServer
         /\ UNCHANGED objects /\ UNCHANGED lastNew /\ UNCHANGED nextServer
         /\ UNCHANGED freed /\ UNCHANGED overloads /\ UNCHANGED failed
<1> USE DEF IInv
<1> DEFINE e == Head(toClient)
           key == <<e.obj, e.opcode>>
           args == overloads[key].args
<1>1. /\ toClient # <<>> /\ toClient' = Tail(toClient)
      /\ keep => key \in DOMAIN overloads /\ key \in added /\ e.new # Null
      /\ IF keep /\ NewIdArgs(args) # {}
         THEN \E i \in NewIdArgs(args) :
                handles' = With(handles, e.new, args[i].of) /\ live' = live \cup {e.new}
         ELSE UNCHANGED handles /\ UNCHANGED live
      /\ added' = {k \in added : k[1] # e.new}
      /\ UNCHANGED nextId /\ UNCHANGED nextBind /\ UNCHANGED toServer
      /\ UNCHANGED objects /\ UNCHANGED lastNew /\ UNCHANGED nextServer
      /\ UNCHANGED freed /\ UNCHANGED overloads /\ UNCHANGED failed
  BY DEF Visit, Key, Stale, compositor
<1>2. ASSUME keep, NewIdArgs(args) # {}
      PROVE  /\ e.new # Null /\ handles' = With(handles, e.new, objects[e.new])
             /\ live' = live \cup {e.new}
  <2>1. PICK i \in NewIdArgs(args) :
          handles' = With(handles, e.new, args[i].of) /\ live' = live \cup {e.new}
    BY <1>1, <1>2
  <2>2. args = e.types
    BY <1>1, <1>2, ReadAsSent
  <2>3. 1 \in 1..Len(toClient) /\ e = toClient[1]
    BY <1>1, EmptySeq, HeadTailProperties, LenProperties DEF TypeOK
  <2>4. objects[e.new] = args[i].of
    BY <1>1, <1>2, <2>2, <2>3 DEF PendingInv
  <2>. QED
    BY <1>1, <1>2, <2>1, <2>4
<1>. QED
  BY <1>1, <1>2

LEMMA VisitKeepsInv ==
  ASSUME IInv, NEW keep \in BOOLEAN, Visit(keep)
  PROVE  IInv'
<1> USE DEF IInv
<1> DEFINE x == Head(toClient).new
<1>1. /\ toClient # <<>> /\ toClient' = Tail(toClient)
      /\ \/ UNCHANGED handles /\ UNCHANGED live
         \/ /\ x # Null /\ handles' = With(handles, x, objects[x])
            /\ live' = live \cup {x}
      /\ added' = {key \in added : key[1] # x}
      /\ UNCHANGED nextId /\ UNCHANGED nextBind /\ UNCHANGED toServer
      /\ UNCHANGED objects /\ UNCHANGED lastNew /\ UNCHANGED nextServer
      /\ UNCHANGED freed /\ UNCHANGED overloads /\ UNCHANGED failed
  BY VisitEffect
<1>2. /\ Len(toClient) \in Nat /\ 1 \in 1..Len(toClient) /\ x = toClient[1].new
      /\ toClient' \in Seq(EventType) /\ Len(toClient') = Len(toClient) - 1
      /\ \A k \in 1..Len(toClient') :
           /\ toClient'[k] = toClient[k + 1] /\ k + 1 \in 1..Len(toClient)
           /\ k + 1 # 1
  BY <1>1, EmptySeq, HeadTailProperties, LenProperties DEF TypeOK
<1>3. x # Null =>
        /\ x \in UsedServerIds /\ x \in DOMAIN objects /\ x \notin live
        /\ \A j \in 1..Len(toServer) : ~Refers(toServer[j], x)
        /\ \A j \in 1..Len(toClient) : toClient[j].new = x => j = 1
  BY <1>2 DEF PendingInv
<1> HIDE DEF x
<1>4. /\ DOMAIN handles \subseteq DOMAIN handles'
      /\ \A i \in DOMAIN handles : i # x => handles'[i] = handles[i]
      /\ live' \subseteq live \cup ({x} \ {Null})
      /\ x \in live' => x # Null /\ x \in DOMAIN handles' /\ handles'[x] = objects[x]
  <2>1. CASE UNCHANGED handles /\ UNCHANGED live
    BY <1>3, <2>1, IdFacts, BoundsAssumption DEF Ids, Null
  <2>2. CASE /\ x # Null /\ handles' = With(handles, x, objects[x])
             /\ live' = live \cup {x}
    BY <2>2 DEF With
  <2>. QED
    BY <1>1, <2>1, <2>2
<1>5. TypeOK'
  <2>1. /\ handles' \in [DOMAIN handles' -> Interfaces]
        /\ DOMAIN handles' \subseteq 1..(nextId - 1) \cup UsedServerIds
        /\ live' \subseteq DOMAIN handles'
        /\ live' \subseteq 1..(nextBind - 1) \cup UsedServerIds
    <3>1. CASE UNCHANGED handles /\ UNCHANGED live
      BY <3>1 DEF TypeOK
    <3>2. CASE /\ x # Null /\ handles' = With(handles, x, objects[x])
               /\ live' = live \cup {x}
      <4>1. objects[x] \in Interfaces
        BY <1>3, <3>2 DEF TypeOK
      <4>2. DOMAIN handles' = DOMAIN handles \cup {x}
        BY <3>2 DEF With
      <4>3. handles' \in [DOMAIN handles' -> Interfaces]
        BY <3>2, <4>1 DEF With, TypeOK
      <4>. QED
        BY <1>3, <3>2, <4>2, <4>3 DEF TypeOK
    <3>. QED
      BY <1>1, <3>1, <3>2
  <2>. QED
    BY <1>1, <1>2, <1>4, <2>1 DEF TypeOK, UsedServerIds
<1>6. RequestInv'
  <2>1. \A i \in DOMAIN handles :
          \/ i \in DOMAIN handles' /\ handles'[i] = handles[i]
          \/ i \notin live /\ i \in UsedServerIds
               /\ \A k \in 1..Len(toServer) : ~Refers(toServer[k], i)
    <3>1. \A i \in DOMAIN handles : i # Null
      BY IdFacts, BoundsAssumption DEF Ids, Null
    <3>. QED
      BY <1>3, <1>4, <3>1
  <2>2. ASSUME x \in live'
        PROVE  Avail(handles', objects', toServer, Len(toServer) + 1, x)
    <3>1. /\ x \in DOMAIN objects /\ handles'[x] = objects[x]
          /\ \A j \in 1..Len(toServer) : ~Refers(toServer[j], x)
      BY <1>3, <1>4, <2>2
    <3>2. \A j \in 1..(Len(toServer) + 1 - 1) : toServer[j].obj # x
      BY <3>1, LenProperties DEF Refers, TypeOK
    <3>. QED
      BY <1>1, <3>1, <3>2 DEF Avail
  <2>3. \A h \in live' :
          h \in live \/ Avail(handles', objects', toServer, Len(toServer) + 1, h)
    BY <1>4, <2>2
  <2>4. \A i \in DOMAIN objects : i \in DOMAIN objects' /\ objects'[i] = objects[i]
    BY <1>1
  <2>. QED
    BY <1>1, <2>1, <2>3, <2>4, RequestsKept
<1>7. PendingInv'
  <2>1. freed' \cap DOMAIN objects' = {}
    BY <1>1 DEF PendingInv
  <2>2. ASSUME NEW k \in 1..Len(toClient')
        PROVE  LET e == toClient'[k] IN
               /\ NewIdArgs(e.types) # {} <=> e.new # Null
               /\ \A a, b \in NewIdArgs(e.types) : a = b
               /\ e.new # Null =>
                    /\ e.new \in UsedServerIds' /\ e.new \in DOMAIN objects'
                    /\ e.new \notin live'
                    /\ \A a \in NewIdArgs(e.types) : objects'[e.new] = e.types[a].of
                    /\ \A j \in 1..Len(toServer') : ~Refers(toServer'[j], e.new)
                    /\ \A j \in 1..Len(toClient') : toClient'[j].new = e.new => j = k
    <3> DEFINE e == toClient[k + 1]
    <3>1. e = toClient'[k] /\ k + 1 \in 1..Len(toClient) /\ k + 1 # 1
      BY <1>2
    <3>2. /\ NewIdArgs(e.types) # {} <=> e.new # Null
          /\ \A a, b \in NewIdArgs(e.types) : a = b
          /\ e.new # Null =>
               /\ e.new \in UsedServerIds /\ e.new \in DOMAIN objects
               /\ e.new \notin live
               /\ \A a \in NewIdArgs(e.types) : objects[e.new] = e.types[a].of
               /\ \A j \in 1..Len(toServer) : ~Refers(toServer[j], e.new)
               /\ \A j \in 1..Len(toClient) : toClient[j].new = e.new => j = k + 1
      BY <3>1 DEF PendingInv
    <3>. HIDE DEF e
    <3>3. e.new # Null => e.new # x
      BY <1>2, <3>1, <3>2
    <3>4. e.new # Null => \A j \in 1..Len(toClient') : toClient'[j].new = e.new => j = k
      BY <1>2, <3>2
    <3>. QED
      BY <1>1, <1>4, <3>1, <3>2, <3>3, <3>4 DEF UsedServerIds
  <2>. QED
    BY <2>1, <2>2 DEF PendingInv
<1>8. /\ Tracked' \ {x} \subseteq Tracked
      /\ x \in UsedServerIds /\ x \in Tracked' => handles'[x] = objects[x]
  <2>1. Tracked' \ {x} \subseteq Tracked
    BY <1>1, <1>4 DEF Tracked
  <2>2. x \in UsedServerIds /\ x \in Tracked' => x \in live'
    BY <1>1, IdFacts DEF Tracked
  <2>. QED
    BY <1>4, <2>1, <2>2
<1>9. EventInv'
  <2>1. \A i \in Tracked : i # x => handles'[i] = handles[i]
    BY <1>4, TrackedFacts
  <2>2. UsedServerIds' = UsedServerIds
    BY <1>1 DEF UsedServerIds
  <2>3. ASSUME NEW k \in 0..Len(toClient'), NEW i
        PROVE  Brought(toClient, k + 1, i) <=> i = x \/ Brought(toClient', k, i)
    <3>1. Brought(toClient, k + 1, i) => i = x \/ Brought(toClient', k, i)
      <4> SUFFICES ASSUME Brought(toClient, k + 1, i), i # x
                   PROVE  \E j \in 1..k : toClient'[j].new = i
        BY DEF Brought
      <4>1. PICK j \in 1..(k + 1) : toClient[j].new = i
        BY DEF Brought
      <4>2. j - 1 \in 1..k /\ j - 1 \in 1..Len(toClient') /\ j = (j - 1) + 1
        BY <1>2, <4>1
      <4>. QED
        BY <1>2, <4>1, <4>2
    <3>2. Brought(toClient', k, i) => Brought(toClient, k + 1, i)
      <4> SUFFICES ASSUME NEW j \in 1..k, toClient'[j].new = i
                   PROVE  Brought(toClient, k + 1, i)
        BY DEF Brought
      <4>1. j + 1 \in 1..(k + 1) /\ toClient'[j] = toClient[j + 1]
        BY <1>2
      <4>. QED
        BY <4>1 DEF Brought
    <3>3. Brought(toClient, k + 1, x)
      BY <1>2 DEF Brought
    <3>. QED
      BY <3>1, <3>2, <3>3
  <2>4. ASSUME NEW k \in 1..Len(toClient')
        PROVE  LET e == toClient'[k] IN
               /\ e.obj \in 1..lastNew' \cup UsedServerIds'
               /\ IF Brought(toClient', k - 1, e.obj)
                  THEN e.obj \in DOMAIN objects' /\ IsEventOf(e, objects'[e.obj])
                  ELSE e.obj \in Tracked' => IsEventOf(e, handles'[e.obj])
    <3> DEFINE e == toClient[k + 1]
    <3>1. e = toClient'[k] /\ k + 1 \in 1..Len(toClient) /\ (k + 1) - 1 = (k - 1) + 1
      BY <1>2
    <3>2. /\ e.obj \in 1..lastNew \cup UsedServerIds
          /\ IF Brought(toClient, (k + 1) - 1, e.obj)
             THEN e.obj \in DOMAIN objects /\ IsEventOf(e, objects[e.obj])
             ELSE e.obj \in Tracked => IsEventOf(e, handles[e.obj])
      BY <3>1 DEF EventInv
    <3>. HIDE DEF e
    <3>3. Brought(toClient, (k + 1) - 1, e.obj)
            <=> e.obj = x \/ Brought(toClient', k - 1, e.obj)
      <4>1. k - 1 \in 0..Len(toClient')
        BY <1>2
      <4>2. Brought(toClient, (k - 1) + 1, e.obj)
              <=> e.obj = x \/ Brought(toClient', k - 1, e.obj)
        BY <2>3, <4>1
      <4>. QED
        BY <3>1, <4>2
    <3>4. CASE Brought(toClient', k - 1, e.obj)
      BY <1>1, <2>2, <3>1, <3>2, <3>3, <3>4
    <3>5. CASE ~Brought(toClient', k - 1, e.obj) /\ e.obj = x
      <4>1. e.obj \in DOMAIN objects /\ IsEventOf(e, objects[e.obj])
        BY <3>2, <3>3, <3>5
      <4>2. e.obj \in UsedServerIds
        <5>1. e \in EventType
          BY <3>1, ElementOfSeq DEF e, TypeOK
        <5>2. e.obj # Null
          BY <5>1, BoundsAssumption DEF EventType, Ids, Null
        <5>. QED
          BY <1>3, <3>5, <5>2
      <4>. QED
        BY <1>1, <1>8, <2>2, <3>1, <3>2, <3>5, <4>1, <4>2
    <3>6. CASE ~Brought(toClient', k - 1, e.obj) /\ e.obj # x
      BY <1>1, <1>8, <2>1, <2>2, <3>1, <3>2, <3>3, <3>6
    <3>. QED
      BY <3>4, <3>5, <3>6
  <2>5. ASSUME NEW o \in DOMAIN objects' \cap Tracked', ~Pending(o)'
        PROVE  handles'[o] = objects'[o]
    <3>1. CASE o = x
      <4>1. o \in UsedServerIds
        BY <1>1, <1>3, <2>5, <3>1, IdFacts, BoundsAssumption DEF Ids, Null
      <4>. QED
        BY <1>1, <1>8, <3>1, <4>1
    <3>2. CASE o # x
      <4>1. Len(toClient') \in 0..Len(toClient') /\ Len(toClient') + 1 = Len(toClient)
        BY <1>2
      <4>2. ~Pending(o)
        BY <2>3, <2>5, <3>2, <4>1 DEF Pending
      <4>. QED
        BY <1>1, <1>8, <2>1, <2>5, <3>2, <4>2 DEF EventInv
    <3>. QED
      BY <3>1, <3>2
  <2>. QED
    BY <2>4, <2>5 DEF EventInv
<1>10. OverloadInv'
  BY <1>1, <1>4 DEF OverloadInv
<1>. QED
  BY <1>1, <1>5, <1>6, <1>7, <1>9, <1>10 DEF RequestsAccepted

-----------------------------------------------------------------------------
(* The compositor's steps. *)

(* The compositor has every object that the request at the head refers to, *)
(* and with the interface that the program has for it.                     *)
LEMMA HeadFacts ==
  ASSUME TypeOK, RequestInv, toServer # <<>>
  PROVE  LET m == Head(toServer) IN
         /\ 1 \in 1..Len(toServer) /\ m = toServer[1] /\ WellFormed(handles, m)
         /\ m.obj \in Ids /\ Refers(m, m.obj)
         /\ \A i \in Ids : Refers(m, i) =>
              i \in DOMAIN objects /\ objects[i] = handles[i]
         /\ IF m.new # Null
            THEN /\ m.new = lastNew + 1 /\ lastNew + 1 < nextBind
                 /\ InOrder(Tail(toServer), lastNew + 2, nextBind)
            ELSE InOrder(Tail(toServer), lastNew + 1, nextBind)
<1> DEFINE m == Head(toServer)
<1>1. 1 \in 1..Len(toServer) /\ m = toServer[1]
  BY EmptySeq, HeadTailProperties, LenProperties DEF TypeOK
<1>2. WellFormed(handles, m) /\ m.obj \in Ids /\ Refers(m, m.obj)
  BY <1>1, ReferredFacts DEF RequestInv, Refers
<1>3. \A i \in Ids : Refers(m, i) => i \in DOMAIN objects /\ objects[i] = handles[i]
  <2> SUFFICES ASSUME NEW i \in Ids, Refers(m, i)
               PROVE  i \in DOMAIN objects /\ objects[i] = handles[i]
    OBVIOUS
  <2>1. Avail(handles, objects, toServer, 1, i)
    BY <1>1 DEF RequestInv
  <2>. QED
    BY <2>1 DEF Avail
<1>4. IF m.new # 0
      THEN /\ m.new = lastNew + 1 /\ lastNew + 1 < nextBind
           /\ InOrder(Tail(toServer), (lastNew + 1) + 1, nextBind)
      ELSE InOrder(Tail(toServer), lastNew + 1, nextBind)
  <2>1. /\ lastNew + 1 \in Nat \ {0} /\ nextBind \in Nat
        /\ InOrder(toServer, lastNew + 1, nextBind)
        /\ toServer \in Seq(RequestType)
    BY DEF TypeOK, RequestInv
  <2>. QED
    BY <2>1, NewIdType, InOrderTail
<1>5. (lastNew + 1) + 1 = lastNew + 2
  BY DEF TypeOK
<1>. QED
  BY <1>1, <1>2, <1>3, <1>4, <1>5 DEF Null

(* It accepts the request.                                                 *)
LEMMA HeadAccepted ==
  ASSUME TypeOK, RequestInv, toServer # <<>>
  PROVE  Accepts(Head(toServer))
<1> DEFINE m == Head(toServer)
<1>1. /\ WellFormed(handles, m) /\ m.obj \in Ids /\ Refers(m, m.obj)
      /\ \A i \in Ids : Refers(m, i) =>
           i \in DOMAIN objects /\ objects[i] = handles[i]
      /\ m.new # Null => m.new = lastNew + 1
  BY HeadFacts
<1> HIDE DEF m
<1>2. ASSUME NEW a \in DOMAIN m.objs, m.objs[a] # Null
      PROVE  /\ m.objs[a] \in DOMAIN objects
             /\ Converts(objects[m.objs[a]], m.types[a])
  <2>1. m.objs[a] \in DOMAIN handles /\ Converts(handles[m.objs[a]], m.types[a])
    BY <1>1, <1>2 DEF WellFormed
  <2>2. m.objs[a] \in Ids /\ Refers(m, m.objs[a])
    BY <2>1, IdFacts DEF Refers
  <2>. QED
    BY <1>1, <2>1, <2>2
<1>3. m.obj \in DOMAIN objects /\ objects[m.obj] = handles[m.obj]
  BY <1>1
<1>. QED
  BY <1>1, <1>2, <1>3 DEF Accepts, WellFormed, m

LEMMA ServerHandlesEffect ==
  ASSUME IInv, ServerHandles
  PROVE  LET m == Head(toServer) IN
         /\ toServer # <<>> /\ toServer' = Tail(toServer)
         /\ Handled(handles, objects, m, objects')
         /\ objects' = [o \in DOMAIN objects' |-> objects'[o]]
         /\ lastNew' = IF m.new # Null THEN m.new ELSE lastNew
         /\ \A o \in freed' : o \in freed \/
              (o = m.obj /\ o \notin DOMAIN objects' /\ o \notin ClientIds)
         /\ UNCHANGED failed /\ UNCHANGED nextServer /\ UNCHANGED toClient
         /\ UNCHANGED nextId /\ UNCHANGED nextBind /\ UNCHANGED handles
         /\ UNCHANGED live /\ UNCHANGED overloads /\ UNCHANGED added
<1> USE DEF IInv
<1> DEFINE m == Head(toServer)
           created == IF Creates(m) THEN With(objects, m.new, CreatedInterface(m))
                      ELSE objects
<1>1. toServer # <<>> /\ Accepts(m)
  BY HeadAccepted DEF ServerHandles
<1>2. /\ toServer' = Tail(toServer)
      /\ objects' = Ended(m, created)
      /\ lastNew' = IF Creates(m) THEN m.new ELSE lastNew
      /\ freed' = freed \cup ({m.obj} \ (DOMAIN objects' \cup ClientIds))
      /\ UNCHANGED failed /\ UNCHANGED nextServer /\ UNCHANGED toClient
      /\ UNCHANGED nextId /\ UNCHANGED nextBind /\ UNCHANGED handles
      /\ UNCHANGED live /\ UNCHANGED overloads /\ UNCHANGED added
  BY <1>1 DEF ServerHandles, program
<1>3. /\ Creates(m) <=> m.new # Null
      /\ Creates(m) => CreatedInterface(m) = handles[m.new]
      /\ objects[m.obj] = handles[m.obj]
  BY <1>1, HeadFacts DEF WellFormed
<1> HIDE DEF m
<1>4. /\ \A o : o \in DOMAIN created <=>
            o \in DOMAIN objects \/ (o # Null /\ o = m.new)
      /\ \A o \in DOMAIN created :
            created[o] = IF o # Null /\ o = m.new THEN handles[o] ELSE objects[o]
      /\ created = [o \in DOMAIN created |-> created[o]]
  <2>1. CASE Creates(m)
    BY <1>3, <2>1 DEF With
  <2>2. CASE ~Creates(m)
    <3>1. objects = [o \in DOMAIN objects |-> objects[o]]
      BY DEF TypeOK
    <3>. QED
      BY <1>3, <2>2, <3>1
  <2>. QED
    BY <2>1, <2>2
<1> HIDE DEF created
<1>5. /\ Handled(handles, objects, m, objects')
      /\ objects' = [o \in DOMAIN objects' |-> objects'[o]]
  <2>1. CASE Ends(handles, m)
    <3>1. objects' = [o \in DOMAIN created \ {m.obj} |-> created[o]]
      BY <1>2, <1>3, <2>1 DEF Ended, Ends, Without
    <3>. QED
      BY <1>4, <2>1, <3>1 DEF Handled
  <2>2. CASE ~Ends(handles, m)
    <3>1. objects' = created
      BY <1>2, <1>3, <2>2 DEF Ended, Ends
    <3>. QED
      BY <1>4, <2>2, <3>1 DEF Handled
  <2>. QED
    BY <2>1, <2>2
<1>. QED
  BY <1>1, <1>2, <1>3, <1>5 DEF m

LEMMA ServerHandlesKeepsInv ==
  ASSUME IInv, ServerHandles
  PROVE  IInv'
<1> USE DEF IInv
<1> DEFINE m == Head(toServer)
<1>1. /\ toServer # <<>> /\ toServer' = Tail(toServer)
      /\ Handled(handles, objects, m, objects')
      /\ objects' = [o \in DOMAIN objects' |-> objects'[o]]
      /\ lastNew' = IF m.new # Null THEN m.new ELSE lastNew
      /\ \A o \in freed' : o \in freed \/
           (o = m.obj /\ o \notin DOMAIN objects' /\ o \notin ClientIds)
      /\ UNCHANGED failed /\ UNCHANGED nextServer /\ UNCHANGED toClient
      /\ UNCHANGED nextId /\ UNCHANGED nextBind /\ UNCHANGED handles
      /\ UNCHANGED live /\ UNCHANGED overloads /\ UNCHANGED added
  BY ServerHandlesEffect
<1>2. /\ 1 \in 1..Len(toServer) /\ m = toServer[1] /\ WellFormed(handles, m)
      /\ m.obj \in Ids /\ Refers(m, m.obj)
      /\ \A i \in Ids : Refers(m, i) =>
           i \in DOMAIN objects /\ objects[i] = handles[i]
      /\ IF m.new # Null
         THEN /\ m.new = lastNew + 1 /\ lastNew + 1 < nextBind
              /\ InOrder(Tail(toServer), lastNew + 2, nextBind)
         ELSE InOrder(Tail(toServer), lastNew + 1, nextBind)
  BY <1>1, HeadFacts
<1>3. /\ toServer' \in Seq(RequestType) /\ Len(toServer') = Len(toServer) - 1
      /\ Len(toServer) \in Nat
      /\ \A k \in 1..Len(toServer') :
           /\ toServer'[k] = toServer[k + 1] /\ k + 1 \in 1..Len(toServer)
           /\ k \in 1..Len(toServer)
  BY <1>1, HeadTailProperties, LenProperties DEF TypeOK
<1> HIDE DEF m
<1>4. /\ lastNew \in Nat /\ lastNew' \in Nat /\ lastNew <= lastNew'
      /\ lastNew' < nextBind /\ nextBind \in Nat
  BY <1>1, <1>2 DEF TypeOK
<1>5. m.new # Null =>
        m.new \in 1..lastNew' /\ m.new \in DOMAIN handles /\ m.new \notin UsedServerIds
  <2> SUFFICES ASSUME m.new # Null
               PROVE  /\ m.new \in 1..lastNew' /\ m.new \in DOMAIN handles
                      /\ m.new \notin UsedServerIds
    OBVIOUS
  <2>1. m.new \in Nat /\ 1 <= m.new /\ m.new = lastNew' /\ m.new \in DOMAIN handles
    BY <1>1, <1>2, <1>4, ReferredFacts
  <2>2. m.new \in 1..(nextId - 1)
    BY <1>4, <2>1 DEF TypeOK
  <2>. QED
    BY <1>4, <2>1, <2>2, IdFacts
<1>6. \A o \in DOMAIN objects' :
        /\ o \in DOMAIN objects \/ (m.new # Null /\ o = m.new)
        /\ objects'[o] = IF o # Null /\ o = m.new THEN handles[o] ELSE objects[o]
  BY <1>1 DEF Handled
<1>7. TypeOK'
  <2>1. /\ objects' \in [DOMAIN objects' -> Interfaces]
    <3>1. \A o \in DOMAIN objects' : objects'[o] \in Interfaces
      BY <1>5, <1>6 DEF TypeOK
    <3>. QED
      BY <1>1, <3>1
  <2>2. DOMAIN objects' \subseteq 1..lastNew' \cup UsedServerIds
    <3>1. \A o \in 1..lastNew : o \in 1..lastNew'
      BY <1>4
    <3>. QED
      BY <1>5, <1>6, <3>1 DEF TypeOK
  <2>3. freed' \subseteq UsedServerIds
    <3>1. m.obj \in DOMAIN objects
      BY <1>2
    <3>2. m.obj \in 1..lastNew => m.obj \in ClientIds
      BY SMTT(30), <1>4, IdFacts DEF TypeOK, ClientIds
    <3>. QED
      BY <1>1, <3>1, <3>2 DEF TypeOK
  <2>4. 1 <= lastNew'
    BY <1>4 DEF TypeOK
  <2>. QED
    BY <1>1, <1>3, <1>4, <2>1, <2>2, <2>3, <2>4 DEF TypeOK, UsedServerIds
<1>8. RequestInv'
  <2>1. \A k \in 1..Len(toServer') : WellFormed(handles', toServer'[k])
    BY <1>1, <1>3 DEF RequestInv
  <2>2. ASSUME NEW k \in 1..Len(toServer), NEW i \in Ids,
               Avail(handles, objects, toServer, k + 1, i)
        PROVE  Avail(handles', objects', toServer', k, i)
    <3>1. i # Null
      BY BoundsAssumption DEF Ids, Null
    <3>2. /\ toServer \in Seq(RequestType) /\ toServer # <<>>
          /\ Handled(handles, objects, Head(toServer), objects')
      BY <1>1 DEF TypeOK, m
    <3>3. Avail(handles, objects', Tail(toServer), k, i)
      BY <2>2, <3>1, <3>2, AvailTail
    <3>. QED
      BY <1>1, <3>3
  <2>3. ASSUME NEW k \in 1..Len(toServer'), NEW i \in Ids, Refers(toServer'[k], i)
        PROVE  Avail(handles', objects', toServer', k, i) /\ i \notin nextBind'..MaxClientId
    <3>1. Avail(handles, objects, toServer, k + 1, i) /\ i \notin nextBind..MaxClientId
      BY <1>3, <2>3 DEF RequestInv
    <3>. QED
      BY <1>1, <1>3, <2>2, <3>1
  <2>4. ASSUME NEW h \in live'
        PROVE  Avail(handles', objects', toServer', Len(toServer') + 1, h)
    <3>1. h \in Ids /\ Avail(handles, objects, toServer, Len(toServer) + 1, h)
      BY <1>1, IdFacts DEF RequestInv
    <3>2. Len(toServer) \in 1..Len(toServer) /\ Len(toServer') + 1 = Len(toServer)
      BY <1>2, <1>3
    <3>. QED
      BY <2>2, <3>1, <3>2
  <2>5. InOrder(toServer', lastNew' + 1, nextBind')
    <3>1. m.new # Null => lastNew' + 1 = lastNew + 2
      BY <1>1, <1>2, <1>4
    <3>. QED
      BY <1>1, <1>2, <3>1
  <2>. QED
    BY <2>1, <2>3, <2>4, <2>5 DEF RequestInv
<1>9. \A i \in UsedServerIds : i \in DOMAIN objects =>
        /\ objects'[i] = objects[i] \/ i \notin DOMAIN objects'
        /\ m.obj = i \/ i \in DOMAIN objects'
  BY <1>1, <1>5, <1>6 DEF Handled
<1>10. PendingInv'
  <2>1. freed' \cap DOMAIN objects' = {}
    <3>1. \A o \in freed : o \in UsedServerIds /\ o \notin DOMAIN objects
      BY DEF TypeOK, PendingInv
    <3>. QED
      BY <1>1, <1>5, <1>6, <3>1
  <2>2. UsedServerIds' = UsedServerIds
    BY <1>1 DEF UsedServerIds
  <2>3. ASSUME NEW k \in 1..Len(toClient), toClient[k].new # Null
        PROVE  /\ toClient[k].new \in DOMAIN objects'
               /\ objects'[toClient[k].new] = objects[toClient[k].new]
               /\ \A j \in 1..Len(toServer') : ~Refers(toServer'[j], toClient[k].new)
    <3> DEFINE y == toClient[k].new
    <3>1. /\ y \in UsedServerIds /\ y \in DOMAIN objects
          /\ \A j \in 1..Len(toServer) : ~Refers(toServer[j], y)
      BY <2>3 DEF PendingInv
    <3>. HIDE DEF y
    <3>2. m.obj # y
      BY <1>2, <3>1
    <3>3. \A j \in 1..Len(toServer') : ~Refers(toServer'[j], y)
      BY <1>3, <3>1
    <3>. QED
      BY <1>9, <3>1, <3>2, <3>3 DEF y
  <2>4. ASSUME NEW k \in 1..Len(toClient')
        PROVE  LET e == toClient'[k] IN
               /\ NewIdArgs(e.types) # {} <=> e.new # Null
               /\ \A a, b \in NewIdArgs(e.types) : a = b
               /\ e.new # Null =>
                    /\ e.new \in UsedServerIds' /\ e.new \in DOMAIN objects'
                    /\ e.new \notin live'
                    /\ \A a \in NewIdArgs(e.types) : objects'[e.new] = e.types[a].of
                    /\ \A j \in 1..Len(toServer') : ~Refers(toServer'[j], e.new)
                    /\ \A j \in 1..Len(toClient') : toClient'[j].new = e.new => j = k
    <3> DEFINE e == toClient[k]
    <3>1. /\ k \in 1..Len(toClient) /\ e = toClient'[k]
          /\ NewIdArgs(e.types) # {} <=> e.new # Null
          /\ \A a, b \in NewIdArgs(e.types) : a = b
          /\ e.new # Null =>
               /\ e.new \in UsedServerIds /\ e.new \in DOMAIN objects
               /\ e.new \notin live
               /\ \A a \in NewIdArgs(e.types) : objects[e.new] = e.types[a].of
               /\ \A j \in 1..Len(toClient) : toClient[j].new = e.new => j = k
      BY <1>1 DEF PendingInv
    <3>2. e.new # Null =>
            /\ e.new \in DOMAIN objects' /\ objects'[e.new] = objects[e.new]
            /\ \A j \in 1..Len(toServer') : ~Refers(toServer'[j], e.new)
      BY <2>3, <3>1
    <3>. HIDE DEF e
    <3>. QED
      BY <1>1, <2>2, <3>1, <3>2
  <2>. QED
    BY <2>1, <2>4 DEF PendingInv
<1>11. EventInv'
  <2>1. /\ Tracked' = Tracked /\ UsedServerIds' = UsedServerIds
        /\ \A i : Pending(i)' <=> Pending(i)
    BY <1>1 DEF Tracked, UsedServerIds, Pending
  <2>2. \A o \in 1..lastNew : o \in 1..lastNew'
    BY <1>4
  <2>3. ASSUME NEW k \in 1..Len(toClient), NEW i \in Ids, Brought(toClient, k - 1, i)
        PROVE  i \in DOMAIN objects' /\ objects'[i] = objects[i]
    <3>1. PICK j \in 1..(k - 1) : toClient[j].new = i
      BY <2>3 DEF Brought
    <3>2. j \in 1..Len(toClient) /\ i # Null
      BY SMTT(30), <3>1, LenProperties, BoundsAssumption DEF TypeOK, Ids, Null
    <3>3. /\ i \in UsedServerIds /\ i \in DOMAIN objects
          /\ \A n \in 1..Len(toServer) : ~Refers(toServer[n], i)
      BY <3>1, <3>2 DEF PendingInv
    <3>4. m.obj # i
      BY <1>2, <3>3
    <3>. QED
      BY <1>9, <3>3, <3>4
  <2>4. ASSUME NEW k \in 1..Len(toClient')
        PROVE  LET e == toClient'[k] IN
               /\ e.obj \in 1..lastNew' \cup UsedServerIds'
               /\ IF Brought(toClient', k - 1, e.obj)
                  THEN e.obj \in DOMAIN objects' /\ IsEventOf(e, objects'[e.obj])
                  ELSE e.obj \in Tracked' => IsEventOf(e, handles'[e.obj])
    <3> DEFINE e == toClient[k]
    <3>1. /\ k \in 1..Len(toClient) /\ toClient'[k] = e /\ e.obj \in Ids
          /\ e.obj \in 1..lastNew \cup UsedServerIds
          /\ IF Brought(toClient, k - 1, e.obj)
             THEN e.obj \in DOMAIN objects /\ IsEventOf(e, objects[e.obj])
             ELSE e.obj \in Tracked => IsEventOf(e, handles[e.obj])
      BY <1>1, EventFacts DEF EventInv, TypeOK
    <3>. HIDE DEF e
    <3>2. CASE Brought(toClient, k - 1, e.obj)
      BY <1>1, <2>1, <2>2, <2>3, <3>1, <3>2
    <3>3. CASE ~Brought(toClient, k - 1, e.obj)
      BY <1>1, <2>1, <2>2, <3>1, <3>3
    <3>. QED
      BY <3>2, <3>3
  <2>5. ASSUME NEW o \in DOMAIN objects' \cap Tracked', ~Pending(o)'
        PROVE  handles'[o] = objects'[o]
    BY <1>1, <1>6, <2>1, <2>5 DEF EventInv
  <2>. QED
    BY <2>4, <2>5 DEF EventInv
<1>12. OverloadInv'
  BY <1>1 DEF OverloadInv
<1>. QED
  BY <1>1, <1>7, <1>8, <1>10, <1>11, <1>12 DEF RequestsAccepted

(* An id that the compositor draws for a new object is one of no object,   *)
(* and of none that the program can still name.                            *)
LEMMA FreshServerId ==
  ASSUME IInv, NEW x \in (ServerIds \cap {nextServer}) \cup freed
  PROVE  /\ x \notin DOMAIN objects /\ x \notin live /\ x # Null /\ x \in Ids
         /\ \A k \in 1..Len(toServer) : ~Refers(toServer[k], x)
<1> USE DEF IInv
<1>1. /\ (x \in ServerIds /\ x = nextServer) \/ x \in freed
      /\ nextServer \in Nat /\ FirstServerId <= nextServer
  BY DEF TypeOK
<1>2. x \in Ids /\ x >= FirstServerId /\ x # Null /\ x \in Nat
  BY <1>1, IdFacts DEF TypeOK, ServerIds, Ids, Null
<1>3. x \notin DOMAIN objects
  <2>1. CASE x \in freed
    BY <2>1 DEF PendingInv
  <2>2. CASE x = nextServer
    <3>1. x \notin UsedServerIds
      BY <1>1, <2>2, IdFacts
    <3>2. x \notin 1..lastNew
      BY <1>2, IdFacts DEF TypeOK
    <3>. QED
      BY <3>1, <3>2 DEF TypeOK
  <2>. QED
    BY <1>1, <2>1, <2>2
<1>4. \A k \in 1..Len(toServer) : toServer[k].new # x
  <2> SUFFICES ASSUME NEW k \in 1..Len(toServer), toServer[k].new = x
               PROVE  FALSE
    OBVIOUS
  <2>1. x \in (lastNew + 1)..(nextBind - 1)
    BY <1>2, ReferredFacts
  <2>. QED
    BY SMTT(30), <1>2, <2>1, IdFacts DEF TypeOK
<1>5. \A k \in 1..(Len(toServer) + 1) : ~Avail(handles, objects, toServer, k, x)
  BY <1>3, <1>4, LenProperties DEF Avail, TypeOK
<1>6. ASSUME NEW k \in 1..Len(toServer)
      PROVE  ~Refers(toServer[k], x)
  <2>1. k \in 1..(Len(toServer) + 1)
    BY LenProperties DEF TypeOK
  <2>. QED
    BY <1>2, <1>5, <2>1 DEF RequestInv
<1>7. x \notin live
  <2>1. Len(toServer) + 1 \in 1..(Len(toServer) + 1)
    BY LenProperties DEF TypeOK
  <2>. QED
    BY <1>5, <2>1 DEF RequestInv
<1>. QED
  BY <1>2, <1>3, <1>6, <1>7

LEMMA ServerSendsEffect ==
  ASSUME IInv, NEW o \in DOMAIN objects, NEW n \in DOMAIN Events[objects[o]],
         NEW id \in ServerNewIds(Events[objects[o]][n].args),
         ServerSends(o, n, id)
  PROVE  LET types == Events[objects[o]][n].args
             e == [obj |-> o, opcode |-> n - 1, types |-> types, new |-> id]
         IN
         /\ n \in Nat \ {0} /\ types \in Seq(ArgumentTypes)
         /\ NewIdArgs(types) # {} <=> id # Null
         /\ \A a, b \in NewIdArgs(types) : a = b
         /\ toClient' = Append(toClient, e)
         /\ IF id = Null
            THEN UNCHANGED objects /\ UNCHANGED nextServer /\ UNCHANGED freed
            ELSE /\ id \in (ServerIds \cap {nextServer}) \cup freed
                 /\ \E I \in Interfaces :
                      /\ objects' = With(objects, id, I)
                      /\ \A a \in NewIdArgs(types) : types[a].of = I
                 /\ nextServer' = IF id = nextServer THEN id + 1 ELSE nextServer
                 /\ freed' = freed \ {id}
         /\ UNCHANGED failed /\ UNCHANGED lastNew /\ UNCHANGED toServer
         /\ UNCHANGED nextId /\ UNCHANGED nextBind /\ UNCHANGED handles
         /\ UNCHANGED live /\ UNCHANGED overloads /\ UNCHANGED added
<1> USE DEF IInv
<1> DEFINE types == Events[objects[o]][n].args
           e == [obj |-> o, opcode |-> n - 1, types |-> types, new |-> id]
<1>1. objects[o] \in Interfaces
  BY DEF TypeOK
<1>2. /\ n \in Nat \ {0} /\ types \in Seq(ArgumentTypes)
      /\ \A a, b \in NewIdArgs(types) : a = b
  <2>1. WellNumbered(Events)
    BY TablesAssumption
  <2>. QED
    BY <1>1, <2>1, TableFacts
<1>3. \A a \in NewIdArgs(types) : types[a].of \in Interfaces
  <2>1. Events[objects[o]] \in Seq(MessageTypes)
    BY <1>1, TablesAssumption DEF WellNumbered
  <2>2. n \in 1..Len(Events[objects[o]])
    BY <2>1, LenProperties
  <2>. QED
    BY <1>1, <2>2, TablesAssumption
<1>4. /\ IF NewIdArgs(types) = {}
         THEN UNCHANGED objects /\ UNCHANGED nextServer /\ UNCHANGED freed
         ELSE /\ \E i \in NewIdArgs(types) : objects' = With(objects, id, types[i].of)
              /\ nextServer' = IF id = nextServer THEN id + 1 ELSE nextServer
              /\ freed' = freed \ {id}
      /\ toClient' = Append(toClient, e)
      /\ UNCHANGED failed /\ UNCHANGED lastNew /\ UNCHANGED toServer
      /\ UNCHANGED nextId /\ UNCHANGED nextBind /\ UNCHANGED handles
      /\ UNCHANGED live /\ UNCHANGED overloads /\ UNCHANGED added
  BY DEF ServerSends, program
<1> HIDE DEF types
<1>5. CASE NewIdArgs(types) = {}
  <2>1. id = Null
    BY <1>5 DEF ServerNewIds, types
  <2>. QED
    BY <1>2, <1>4, <1>5, <2>1 DEF types
<1>6. CASE NewIdArgs(types) # {}
  <2>1. id \in (ServerIds \cap {nextServer}) \cup freed
    BY <1>6 DEF ServerNewIds, types
  <2>2. id # Null
    BY <2>1, FreshServerId
  <2>3. PICK i \in NewIdArgs(types) : objects' = With(objects, id, types[i].of)
    BY <1>4, <1>6
  <2>4. \E I \in Interfaces :
          /\ objects' = With(objects, id, I)
          /\ \A a \in NewIdArgs(types) : types[a].of = I
    BY <1>2, <1>3, <2>3
  <2>. QED
    BY <1>2, <1>4, <1>6, <2>1, <2>2, <2>4 DEF types
<1>. QED
  BY <1>5, <1>6

LEMMA ServerSendsKeepsInv ==
  ASSUME IInv, NEW o \in DOMAIN objects, NEW n \in DOMAIN Events[objects[o]],
         NEW id \in ServerNewIds(Events[objects[o]][n].args),
         ServerSends(o, n, id)
  PROVE  IInv'
<1> USE DEF IInv
<1> DEFINE types == Events[objects[o]][n].args
           e == [obj |-> o, opcode |-> n - 1, types |-> types, new |-> id]
           N == Len(toClient)
<1>1. /\ n \in Nat \ {0} /\ types \in Seq(ArgumentTypes)
      /\ NewIdArgs(types) # {} <=> id # Null
      /\ \A a, b \in NewIdArgs(types) : a = b
      /\ toClient' = Append(toClient, e)
      /\ IF id = Null
         THEN UNCHANGED objects /\ UNCHANGED nextServer /\ UNCHANGED freed
         ELSE /\ id \in (ServerIds \cap {nextServer}) \cup freed
              /\ \E I \in Interfaces :
                   /\ objects' = With(objects, id, I)
                   /\ \A a \in NewIdArgs(types) : types[a].of = I
              /\ nextServer' = IF id = nextServer THEN id + 1 ELSE nextServer
              /\ freed' = freed \ {id}
      /\ UNCHANGED failed /\ UNCHANGED lastNew /\ UNCHANGED toServer
      /\ UNCHANGED nextId /\ UNCHANGED nextBind /\ UNCHANGED handles
      /\ UNCHANGED live /\ UNCHANGED overloads /\ UNCHANGED added
  BY ServerSendsEffect
<1>2. /\ e.obj = o /\ e.types = types /\ e.new = id /\ o \in Ids
      /\ e.opcode + 1 = n /\ e.opcode \in Nat /\ IsEventOf(e, objects[o])
  BY <1>1, IdFacts DEF IsEventOf
<1> HIDE DEF types
<1>3. id # Null =>
        /\ id \notin DOMAIN objects /\ id \notin live /\ id \in Ids
        /\ \A k \in 1..Len(toServer) : ~Refers(toServer[k], id)
        /\ DOMAIN objects' = DOMAIN objects \cup {id}
        /\ objects' \in [DOMAIN objects' -> Interfaces]
        /\ \A a \in NewIdArgs(types) : objects'[id] = types[a].of
  <2> SUFFICES ASSUME id # Null
               PROVE  /\ id \notin DOMAIN objects /\ id \notin live /\ id \in Ids
                      /\ \A k \in 1..Len(toServer) : ~Refers(toServer[k], id)
                      /\ DOMAIN objects' = DOMAIN objects \cup {id}
                      /\ objects' \in [DOMAIN objects' -> Interfaces]
                      /\ \A a \in NewIdArgs(types) : objects'[id] = types[a].of
    OBVIOUS
  <2>1. /\ id \notin DOMAIN objects /\ id \notin live /\ id \in Ids
        /\ \A k \in 1..Len(toServer) : ~Refers(toServer[k], id)
    BY <1>1, FreshServerId
  <2>2. PICK I \in Interfaces :
          /\ objects' = With(objects, id, I)
          /\ \A a \in NewIdArgs(types) : types[a].of = I
    BY <1>1
  <2>3. DOMAIN objects' = DOMAIN objects \cup {id} /\ objects'[id] = I
    BY <2>2 DEF With
  <2>4. objects' \in [DOMAIN objects' -> Interfaces]
    BY <2>2 DEF With, TypeOK
  <2>. QED
    BY <2>1, <2>2, <2>3, <2>4
<1>4. /\ \A i \in DOMAIN objects : i \in DOMAIN objects' /\ objects'[i] = objects[i]
      /\ \A i \in DOMAIN objects' : i \in DOMAIN objects \/ (i = id /\ id # Null)
  <2>1. CASE id = Null
    BY <1>1, <2>1
  <2>2. CASE id # Null
    BY <1>1, <1>3, <2>2 DEF With
  <2>. QED
    BY <2>1, <2>2
<1>5. /\ nextServer' \in Nat /\ nextServer <= nextServer'
      /\ nextServer' <= MaxServerId + 1
      /\ \A i \in UsedServerIds : i \in UsedServerIds'
      /\ id # Null => id \in UsedServerIds'
  <2>1. CASE id = Null \/ id # nextServer
    <3>1. nextServer' = nextServer /\ UsedServerIds' = UsedServerIds
      BY <1>1, <2>1 DEF UsedServerIds
    <3>2. id # Null => id \in freed
      BY <1>1, <2>1
    <3>. QED
      BY <3>1, <3>2 DEF TypeOK
  <2>2. CASE id # Null /\ id = nextServer
    <3>1. nextServer' = nextServer + 1
      BY <1>1, <2>2
    <3>2. UsedServerIds' = FirstServerId..nextServer
      BY <3>1 DEF UsedServerIds, TypeOK
    <3>3. id \in Ids
      BY <1>3, <2>2
    <3>. QED
      BY SMTT(30), <2>2, <3>1, <3>2, <3>3, IdFacts DEF TypeOK, UsedServerIds, Ids
  <2>. QED
    BY <2>1, <2>2
<1>6. /\ N \in Nat /\ toClient' \in Seq(EventType) /\ Len(toClient') = N + 1
      /\ \A k \in 1..N : toClient'[k] = toClient[k]
      /\ toClient'[N + 1] = e
  <2>1. e \in EventType
    <3>1. id \in IdOrNull
      BY <1>3 DEF IdOrNull
    <3>. QED
      BY <1>1, <1>2, <3>1 DEF EventType
  <2>. QED
    BY <1>1, <2>1, AppendProperties, LenProperties DEF TypeOK
<1> HIDE DEF e, N
<1>7. TypeOK'
  <2>1. objects' \in [DOMAIN objects' -> Interfaces]
    BY <1>1, <1>3 DEF TypeOK
  <2>2. DOMAIN objects' \subseteq 1..lastNew' \cup UsedServerIds'
    BY <1>1, <1>4, <1>5 DEF TypeOK
  <2>3. freed' \subseteq UsedServerIds'
    BY <1>1, <1>5 DEF TypeOK
  <2>4. /\ DOMAIN handles \subseteq 1..(nextId - 1) \cup UsedServerIds'
        /\ live \subseteq 1..(nextBind - 1) \cup UsedServerIds'
    BY <1>5 DEF TypeOK
  <2>5. FirstServerId <= nextServer'
    BY <1>5, IdFacts DEF TypeOK
  <2>. QED
    BY <1>1, <1>5, <1>6, <2>1, <2>2, <2>3, <2>4, <2>5 DEF TypeOK
<1>8. RequestInv'
  BY <1>1, <1>4, RequestsKept
<1>9. \A k \in 1..N : toClient[k].new # Null =>
        toClient[k].new \in DOMAIN objects /\ toClient[k].new # id
  BY <1>3 DEF PendingInv, N
<1>10. PendingInv'
  <2>1. freed' \cap DOMAIN objects' = {}
    <3>1. freed \cap DOMAIN objects = {}
      BY DEF PendingInv
    <3>. QED
      BY <1>1, <1>4, <3>1
  <2>2. ASSUME NEW k \in 1..Len(toClient')
        PROVE  LET d == toClient'[k] IN
               /\ NewIdArgs(d.types) # {} <=> d.new # Null
               /\ \A a, b \in NewIdArgs(d.types) : a = b
               /\ d.new # Null =>
                    /\ d.new \in UsedServerIds' /\ d.new \in DOMAIN objects'
                    /\ d.new \notin live'
                    /\ \A a \in NewIdArgs(d.types) : objects'[d.new] = d.types[a].of
                    /\ \A j \in 1..Len(toServer') : ~Refers(toServer'[j], d.new)
                    /\ \A j \in 1..Len(toClient') : toClient'[j].new = d.new => j = k
    <3>1. CASE k \in 1..N
      <4> DEFINE d == toClient[k]
      <4>1. /\ d = toClient'[k]
            /\ NewIdArgs(d.types) # {} <=> d.new # Null
            /\ \A a, b \in NewIdArgs(d.types) : a = b
            /\ d.new # Null =>
                 /\ d.new \in UsedServerIds /\ d.new \in DOMAIN objects
                 /\ d.new \notin live /\ d.new # id
                 /\ \A a \in NewIdArgs(d.types) : objects[d.new] = d.types[a].of
                 /\ \A j \in 1..Len(toServer) : ~Refers(toServer[j], d.new)
                 /\ \A j \in 1..N : toClient[j].new = d.new => j = k
        BY <1>6, <1>9, <3>1 DEF PendingInv, N
      <4>. HIDE DEF d
      <4>2. d.new # Null => \A j \in 1..Len(toClient') : toClient'[j].new = d.new => j = k
        BY <1>2, <1>6, <4>1
      <4>. QED
        BY <1>1, <1>4, <1>5, <4>1, <4>2
    <3>2. CASE k = N + 1
      <4>1. id # Null => \A j \in 1..Len(toClient') : toClient'[j].new = id => j = k
        BY <1>6, <1>9, <3>2
      <4>2. toClient'[k] = e
        BY <1>6, <3>2
      <4>. QED
        BY <1>1, <1>2, <1>3, <1>5, <4>1, <4>2
    <3>. QED
      BY <1>6, <3>1, <3>2
  <2>. QED
    BY <2>1, <2>2 DEF PendingInv
<1>11. EventInv'
  <2>1. Tracked' = Tracked
    BY <1>1 DEF Tracked
  <2>2. \A k \in 0..N : \A i : Brought(toClient', k, i) <=> Brought(toClient, k, i)
    BY <1>6 DEF Brought
  <2>3. o \in 1..lastNew \cup UsedServerIds
    BY DEF TypeOK
  <2>4. ASSUME NEW k \in 1..Len(toClient')
        PROVE  LET d == toClient'[k] IN
               /\ d.obj \in 1..lastNew' \cup UsedServerIds'
               /\ IF Brought(toClient', k - 1, d.obj)
                  THEN d.obj \in DOMAIN objects' /\ IsEventOf(d, objects'[d.obj])
                  ELSE d.obj \in Tracked' => IsEventOf(d, handles'[d.obj])
    <3>1. CASE k \in 1..N
      <4> DEFINE d == toClient[k]
      <4>1. /\ toClient'[k] = d /\ k - 1 \in 0..N
            /\ d.obj \in 1..lastNew \cup UsedServerIds
            /\ IF Brought(toClient, k - 1, d.obj)
               THEN d.obj \in DOMAIN objects /\ IsEventOf(d, objects[d.obj])
               ELSE d.obj \in Tracked => IsEventOf(d, handles[d.obj])
        BY <1>6, <3>1 DEF EventInv, N
      <4>. HIDE DEF d
      <4>2. Brought(toClient', k - 1, d.obj) <=> Brought(toClient, k - 1, d.obj)
        BY <2>2, <4>1
      <4>. QED
        BY <1>1, <1>4, <1>5, <2>1, <4>1, <4>2
    <3>2. CASE k = N + 1
      <4>1. toClient'[k] = e /\ k - 1 = N
        BY <1>6, <3>2
      <4>2. Brought(toClient', N, o) <=> Pending(o)
        BY <1>6, <2>2 DEF Pending, N
      <4>3. o \in Tracked /\ ~Pending(o) => IsEventOf(e, handles[o])
        BY <1>2 DEF EventInv
      <4>4. IsEventOf(e, objects'[o]) /\ o \in DOMAIN objects'
        BY <1>2, <1>4
      <4>. QED
        BY <1>1, <1>2, <1>5, <2>1, <2>3, <4>1, <4>2, <4>3, <4>4
    <3>. QED
      BY <1>6, <3>1, <3>2
  <2>5. ASSUME NEW i \in DOMAIN objects' \cap Tracked', ~Pending(i)'
        PROVE  handles'[i] = objects'[i]
    <3>1. \A j \in 1..(N + 1) : toClient'[j].new # i
      BY <1>6, <2>5 DEF Pending, Brought
    <3>2. i # id /\ ~Pending(i)
      BY <1>2, <1>6, <3>1 DEF Pending, Brought, N
    <3>3. i \in DOMAIN objects
      BY <1>4, <3>2
    <3>. QED
      BY <1>1, <1>4, <2>1, <2>5, <3>2, <3>3 DEF EventInv
  <2>. QED
    BY <2>4, <2>5 DEF EventInv
<1>12. OverloadInv'
  BY <1>1 DEF OverloadInv
<1>. QED
  BY <1>1, <1>7, <1>8, <1>10, <1>11, <1>12 DEF RequestsAccepted

-----------------------------------------------------------------------------
(* The inductive invariant, for which the program may end any object and   *)
(* the compositor may draw the id of one that has ended: register_request, *)
(* add_overload and message_visit keep it whatever the other side does.    *)
THEOREM Invariance == Spec => []IInv
<1>1. Init => IInv
  <2> SUFFICES ASSUME Init PROVE IInv
    OBVIOUS
  <2>1. /\ MaxClientId \in Nat \ {0} /\ MaxServerId \in Nat
        /\ MaxClientId <= MaxServerId /\ "wl_display" \in Interfaces
    BY BoundsAssumption, TablesAssumption
  <2>2. /\ DOMAIN handles = {1} /\ handles[1] = "wl_display"
        /\ DOMAIN objects = {1} /\ objects[1] = "wl_display"
        /\ objects = [i \in {1} |-> "wl_display"]
        /\ handles = [i \in {1} |-> "wl_display"]
        /\ live = {1} /\ freed = {} /\ added = {} /\ failed = "no"
        /\ nextId = 2 /\ nextBind = 2 /\ lastNew = 1
        /\ nextServer = FirstServerId /\ FirstServerId = MaxClientId + 1
        /\ toServer = <<>> /\ toClient = <<>>
        /\ Len(toServer) = 0 /\ Len(toClient) = 0
    BY DEF Init, FirstNewId, FirstServerId
  <2>3. UsedServerIds = {}
    BY <2>1, <2>2 DEF UsedServerIds
  <2>4. TypeOK
    BY <2>1, <2>2, <2>3, EmptySeq DEF TypeOK
  <2>5. RequestInv
    BY <2>2 DEF RequestInv, InOrder, Avail
  <2>6. PendingInv /\ EventInv /\ OverloadInv /\ RequestsAccepted
    BY <2>2 DEF PendingInv, EventInv, OverloadInv, RequestsAccepted
  <2>. QED
    BY <2>4, <2>5, <2>6 DEF IInv
<1>2. IInv /\ [Next]_vars => IInv'
  <2> SUFFICES ASSUME IInv, [Next]_vars PROVE IInv'
    OBVIOUS
  <2>1. CASE ProgramStep
    BY <2>1, ReserveKeepsInv, RegisterKeepsInv, AddOverloadKeepsInv, VisitKeepsInv
    DEF ProgramStep
  <2>2. CASE ServerStep
    BY <2>2, ServerHandlesKeepsInv, ServerSendsKeepsInv DEF ServerStep
  <2>3. CASE UNCHANGED vars
    <3>1. /\ UNCHANGED nextId /\ UNCHANGED nextBind /\ UNCHANGED handles
          /\ UNCHANGED live /\ UNCHANGED toServer /\ UNCHANGED objects
          /\ UNCHANGED lastNew /\ UNCHANGED nextServer /\ UNCHANGED freed
          /\ UNCHANGED toClient /\ UNCHANGED overloads /\ UNCHANGED added
          /\ UNCHANGED failed
      BY <2>3 DEF vars
    <3>2. /\ UsedServerIds' = UsedServerIds /\ Tracked' = Tracked
          /\ \A i : Pending(i)' <=> Pending(i)
      BY <3>1 DEF UsedServerIds, Tracked, Pending
    <3>3. TypeOK'
      BY <3>1, <3>2 DEF IInv, TypeOK
    <3>4. RequestInv'
      BY <3>1 DEF IInv, RequestInv
    <3>5. PendingInv'
      BY <3>1, <3>2 DEF IInv, PendingInv
    <3>6. EventInv'
      BY <3>1, <3>2 DEF IInv, EventInv
    <3>7. OverloadInv' /\ RequestsAccepted'
      BY <3>1 DEF IInv, OverloadInv, RequestsAccepted
    <3>. QED
      BY <3>3, <3>4, <3>5, <3>6, <3>7 DEF IInv
  <2>. QED
    BY <2>1, <2>2, <2>3 DEF Next
<1>. QED
  BY <1>1, <1>2, PTL DEF Spec

(* Every id, handle and message under way has its type: the ids that the   *)
(* program draws and those of the compositor stay apart.                   *)
THEOREM TypeCorrect == Spec => []TypeOK
<1>1. IInv => TypeOK
  BY DEF IInv
<1>. QED
  BY <1>1, Invariance, PTL

(* The compositor accepts whatever register_request lets through.          *)
THEOREM AllRequestsAccepted == Spec => []RequestsAccepted
<1>1. IInv => RequestsAccepted
  BY DEF IInv
<1>. QED
  BY <1>1, Invariance, PTL

(* message_visit reads an event as the message it was sent as.             *)
THEOREM VisitReadsAsSent == Spec => []InterpretsAsSent
<1>1. IInv => InterpretsAsSent
  BY ReadAsSent DEF IInv, InterpretsAsSent, Key, Stale
<1>. QED
  BY <1>1, Invariance, PTL

(* The interface of a Wobject is the one of the compositor's object.       *)
THEOREM HandlesTyped == Spec => []HandlesAgree
<1>1. IInv => HandlesAgree
  <2> SUFFICES ASSUME IInv, NEW i \in live \cap DOMAIN objects
               PROVE  handles[i] = objects[i]
    BY DEF HandlesAgree
  <2>1. \A k \in 1..Len(toClient) : toClient[k].new # i
    <3>1. i # Null
      BY IdFacts, BoundsAssumption DEF IInv, Ids, Null
    <3>. QED
      BY <3>1 DEF IInv, PendingInv
  <2>. QED
    BY <2>1 DEF IInv, EventInv, Pending, Brought, Tracked
<1>. QED
  BY <1>1, Invariance, PTL
=============================================================================
