--------------------------- MODULE ObjectSession ----------------------------
(***************************************************************************)
(* Objects and their types on both sides of the socket.  The program has   *)
(* handles, Wobject<I> values whose interface I the compiler checks; the   *)
(* wire has numbers only: an object id and an opcode, from which the       *)
(* receiver of a message infers its type.  The compositor knows what it    *)
(* created; a program knows what it told message_overload_set.             *)
(*                                                                         *)
(* Both directions are FIFO queues, which RequestFlush and EventReceive    *)
(* show them to be.  The compositor is external: it numbers the messages   *)
(* of an interface in the order of the protocol, expects new ids without   *)
(* gaps, and draws the ids of its own objects from a range of their own.   *)
(***************************************************************************)
EXTENDS Integers, Sequences, FiniteSets, WireTypes

CONSTANTS
  Interfaces,     \* the interfaces in use, "wl_display" among them
  Reserved,       \* those the program reserves ids for
  Requests,       \* the requests of every interface, as in the header
  Events,         \* the events of every interface
  Destructors,    \* <<interface, opcode>> of requests that end their object
  ReusesIds,      \* the compositor draws ids of ended objects again
  MaxClientId,    \* bound on the ids of the program
  MaxServerId,    \* bound on the ids of the compositor
  MaxRequests,    \* bound on the requests under way
  MaxEvents,      \* bound on the events under way
  MaxOverloads    \* bound on the number of overloads

(* The compositor's ids begin at 0xff000000; here they follow the others. *)
FirstServerId == MaxClientId + 1
Ids == 1..MaxServerId
ClientIds == 1..MaxClientId
ServerIds == FirstServerId..MaxServerId
Null == 0

ArgumentTypes == [t : STRING, of : STRING]
MessageTypes == [name : STRING, opcode : Nat, args : Seq(ArgumentTypes)]

NewIdArgs(types) == {i \in DOMAIN types : types[i].t = "new_id"}
ObjectArgs(types) == {i \in DOMAIN types : types[i].t = "object"}

(* What the generated headers have to be: opcodes count from zero in the   *)
(* order of the protocol, a message creates at most one object, and of an  *)
(* interface that is there.                                                *)
WellNumbered(table) ==
  /\ table \in [Interfaces -> Seq(MessageTypes)]
  /\ \A I \in Interfaces : \A n \in 1..Len(table[I]) :
       /\ table[I][n].opcode = n - 1
       /\ \A i, j \in NewIdArgs(table[I][n].args) : i = j

ASSUME BoundsAssumption ==
  /\ MaxClientId \in Nat \ {0} /\ MaxServerId \in Nat
  /\ MaxClientId <= MaxServerId
  /\ MaxRequests \in Nat /\ MaxEvents \in Nat /\ MaxOverloads \in Nat
  /\ ReusesIds \in BOOLEAN

ASSUME TablesAssumption ==
  /\ WellNumbered(Requests) /\ WellNumbered(Events)
  /\ "wl_display" \in Interfaces /\ Reserved \subseteq Interfaces
  /\ Interfaces \subseteq STRING \ {generic_object, NoInterface}
  /\ \A I \in Interfaces : \A n \in 1..Len(Requests[I]) :
       \A i \in NewIdArgs(Requests[I][n].args) :
         Requests[I][n].args[i].of \in Interfaces \cup {generic_object}
  /\ \A I \in Interfaces : \A n \in 1..Len(Events[I]) :
       \A i \in NewIdArgs(Events[I][n].args) : Events[I][n].args[i].of \in Interfaces
  /\ Destructors \subseteq Interfaces \X Nat

VARIABLES
  nextId,     \* next_new_id_
  nextBind,   \* the first reserved id that no request has created
  handles,    \* the interface of every handle the program has
  live,       \* the handles whose objects the program has not ended
  toServer,   \* requests registered and not yet handled
  objects,    \* the compositor's objects and their interfaces
  lastNew,    \* the last id of the program that the compositor has seen
  nextServer, \* the compositor's first unused id
  freed,      \* its ids that are free again
  toClient,   \* events sent and not yet visited
  overloads,  \* overloads_: the message by <<object, opcode>>
  added,      \* the keys added for the present object of that id
  failed      \* "no", "request" (a protocol error) or "duplicate" (a throw)

program == <<nextId, nextBind, handles, live, overloads, added>>
compositor == <<objects, lastNew, nextServer, freed>>
vars == <<nextId, nextBind, handles, live, toServer, objects, lastNew,
          nextServer, freed, toClient, overloads, added, failed>>

With(f, x, y) == [z \in DOMAIN f \cup {x} |-> IF z = x THEN y ELSE f[z]]
Without(f, x) == [z \in DOMAIN f \ {x} |-> f[z]]

(* global_display_object is object 1, and next_new_id_ starts behind it. *)
FirstNewId == 2

Init ==
  /\ nextId = FirstNewId /\ nextBind = FirstNewId
  /\ handles = [id \in {1} |-> "wl_display"] /\ live = {1}
  /\ toServer = <<>> /\ toClient = <<>>
  /\ objects = [id \in {1} |-> "wl_display"] /\ lastNew = 1
  /\ nextServer = FirstServerId /\ freed = {}
  /\ overloads = <<>> /\ added = {}
  /\ failed = "no"

-----------------------------------------------------------------------------
(* The program *)

(* reserve_object_id<I>() *)
Reserve(I) ==
  /\ failed = "no" /\ nextId <= MaxClientId
  /\ handles' = With(handles, nextId, I)
  /\ nextId' = nextId + 1
  /\ UNCHANGED <<nextBind, live, toServer, compositor, toClient, overloads,
                 added, failed>>

(* A Wobject<J> is accepted where the message has a member of that type.   *)
Converts(J, type) == type.of \in {J, generic_object}

(* The objects a program may give for the object arguments of a message:   *)
(* handles of the right type, or null.                                     *)
ObjectChoices(types) ==
  {objs \in [ObjectArgs(types) -> live \cup {Null}] :
     \A i \in ObjectArgs(types) :
       objs[i] # Null => Converts(handles[objs[i]], types[i])}

(* Faulty: any reserved id is given to the request.                        *)
NewIdsAny(types) ==
  IF NewIdArgs(types) = {} THEN {Null}
  ELSE {id \in nextBind..(nextId - 1) :
          \A i \in NewIdArgs(types) : Converts(handles[id], types[i])}

(* The id for a new_id argument.  The conversion Wobject<J> -> Wnew_id<J>  *)
(* checks J, and generic_object takes any; that ids are used in the order  *)
(* they were reserved is up to the program.                                *)
NewIds(types) ==
  IF NewIdArgs(types) = {} THEN {Null}
  ELSE {id \in {nextBind} \ {nextId} :
          \A i \in NewIdArgs(types) : Converts(handles[id], types[i])}

IsGeneric(types) == \E i \in NewIdArgs(types) : types[i].of = generic_object

(* Faulty: the name of some interface or other.                            *)
NamesAny(types, id) == IF IsGeneric(types) THEN Interfaces ELSE {NoInterface}

(* bind carries the name of the interface beside the generic new_id; the   *)
(* program gives the name that belongs to the handle.                      *)
Names(types, id) == {IF IsGeneric(types) THEN handles[id] ELSE NoInterface}

(* register_request(h, msg): message_for_inteface lets only messages of    *)
(* the handle's interface pass; that msg is a request and not an event is  *)
(* up to the program, and so is using no object before its creation or     *)
(* after its end.                                                          *)
RegisterRequest(h, n, objs, id, named) ==
  LET msg == Requests[handles[h]][n] IN
  /\ failed = "no" /\ Len(toServer) < MaxRequests
  /\ toServer' = Append(toServer,
       [obj |-> h, opcode |-> msg.opcode, types |-> msg.args, objs |-> objs,
        new |-> id, named |-> named])
  /\ nextBind' = IF id = Null THEN nextBind ELSE nextBind + 1
  /\ live' = (live \cup ({id} \ {Null}))
               \ (IF <<handles[h], msg.opcode>> \in Destructors THEN {h} ELSE {})
  /\ UNCHANGED <<nextId, handles, compositor, toClient, overloads, added,
                 failed>>

(* Faulty: the opcode is left out.                                         *)
KeyOfObject(obj, opcode) == <<obj, 0>>

(* key_t of message_overload_set. *)
Key(obj, opcode) == <<obj, opcode>>

(* The events a program adds overloads for; add_overload takes any struct  *)
(* that has an opcode, that it belongs to h is up to the program.          *)
OverloadMessages(h) == {Events[handles[h]][n] : n \in 1..Len(Events[handles[h]])}

(* add_overload<msg>(h, f), once for every event of an object; throws if   *)
(* the key is there already.                                               *)
AddOverload(h, msg) ==
  LET key == Key(h, msg.opcode) IN
  /\ failed = "no" /\ Cardinality(added) < MaxOverloads
  /\ <<h, msg.opcode>> \notin added
  /\ IF key \in DOMAIN overloads
     THEN failed' = "duplicate" /\ UNCHANGED <<overloads, added>>
     ELSE /\ overloads' = With(overloads, key, msg)
          /\ added' = added \cup {<<h, msg.opcode>>}
          /\ failed' = failed
  /\ UNCHANGED <<nextId, nextBind, handles, live, toServer, compositor, toClient>>

(* Overloads cannot be removed.  One that was added for an object stays    *)
(* when the object has ended and the compositor gives its id to another.   *)
Stale(key) == key \in DOMAIN overloads /\ key \notin added

(* message_visit of the first event: without an overload it is skipped,    *)
(* else the callback may keep the object it brings, as a handle of the     *)
(* type that the overload's message has for it.  The callback of a stale   *)
(* overload runs too; this program knows better than to keep anything.     *)
Visit(keep) ==
  LET ev == Head(toClient)
      key == Key(ev.obj, ev.opcode)
      arg(i) == overloads[key].args[i]
  IN
  /\ failed = "no" /\ toClient # <<>>
  /\ toClient' = Tail(toClient)
  /\ keep => key \in DOMAIN overloads /\ ~Stale(key) /\ ev.new # Null
  /\ IF keep /\ NewIdArgs(overloads[key].args) # {}
     THEN \E i \in NewIdArgs(overloads[key].args) :
            /\ handles' = With(handles, ev.new, arg(i).of)
            /\ live' = live \cup {ev.new}
     ELSE UNCHANGED <<handles, live>>
  /\ added' = {key2 \in added : key2[1] # ev.new}
  /\ UNCHANGED <<nextId, nextBind, toServer, compositor, overloads, failed>>

-----------------------------------------------------------------------------
(* The compositor *)

Creates(msg) == NewIdArgs(msg.types) # {}

(* The interface of the object a request creates: that of the signature,   *)
(* or the one the request names.                                           *)
CreatedInterface(msg) ==
  LET i == CHOOSE i \in NewIdArgs(msg.types) : TRUE IN
  IF msg.types[i].of = generic_object THEN msg.named ELSE msg.types[i].of

(* The compositor knows the object and the request, reads the arguments as *)
(* they were laid out, knows the objects among them, and the new id is the *)
(* one it expects.                                                         *)
Accepts(msg) ==
  /\ msg.obj \in DOMAIN objects
  /\ msg.opcode + 1 \in DOMAIN Requests[objects[msg.obj]]
  /\ msg.types = Requests[objects[msg.obj]][msg.opcode + 1].args
  /\ \A i \in DOMAIN msg.objs : msg.objs[i] # Null =>
       /\ msg.objs[i] \in DOMAIN objects
       /\ Converts(objects[msg.objs[i]], msg.types[i])
  /\ Creates(msg) => msg.new = lastNew + 1

(* What is left when a request has ended its object. *)
Ended(msg, objs) ==
  IF <<objects[msg.obj], msg.opcode>> \in Destructors
  THEN Without(objs, msg.obj) ELSE objs

ServerHandles ==
  LET msg == Head(toServer) IN
  /\ failed = "no" /\ toServer # <<>>
  /\ toServer' = Tail(toServer)
  /\ IF Accepts(msg)
     THEN /\ objects' = Ended(msg, IF Creates(msg)
                          THEN With(objects, msg.new, CreatedInterface(msg))
                          ELSE objects)
          /\ lastNew' = IF Creates(msg) THEN msg.new ELSE lastNew
          /\ freed' = freed \cup ({msg.obj} \ (DOMAIN objects' \cup ClientIds))
          /\ failed' = failed
     ELSE failed' = "request" /\ UNCHANGED <<objects, lastNew, freed>>
  /\ UNCHANGED <<nextServer, toClient, program>>

(* The id for an event's new object, if it has one: the compositor's next  *)
(* one, or one that is free again.                                         *)
ServerNewIds(types) ==
  IF NewIdArgs(types) = {} THEN {Null}
  ELSE (ServerIds \cap {nextServer}) \cup (IF ReusesIds THEN freed ELSE {})

(* An event of object o, with a new object where the event has one. *)
ServerSends(o, n, id) ==
  LET msg == Events[objects[o]][n] IN
  /\ failed = "no" /\ Len(toClient) < MaxEvents
  /\ IF NewIdArgs(msg.args) = {}
     THEN UNCHANGED <<objects, nextServer, freed>>
     ELSE /\ \E i \in NewIdArgs(msg.args) :
               objects' = With(objects, id, msg.args[i].of)
          /\ nextServer' = IF id = nextServer THEN id + 1 ELSE nextServer
          /\ freed' = freed \ {id}
  /\ toClient' = Append(toClient, [obj |-> o, opcode |-> n - 1,
                                   types |-> msg.args, new |-> id])
  /\ UNCHANGED <<lastNew, toServer, program, failed>>

-----------------------------------------------------------------------------
(* Overloads may be added before the object is created, not behind its end. *)
Listened == live \cup nextBind..(nextId - 1)

ProgramStep ==
  \/ \E I \in Reserved : Reserve(I)
  \/ \E h \in live : \E n \in DOMAIN Requests[handles[h]] :
       LET types == Requests[handles[h]][n].args IN
       \E objs \in ObjectChoices(types), id \in NewIds(types) :
         \E named \in Names(types, id) : RegisterRequest(h, n, objs, id, named)
  \/ \E h \in Listened : \E msg \in OverloadMessages(h) : AddOverload(h, msg)
  \/ \E keep \in BOOLEAN : Visit(keep)

ServerStep ==
  \/ ServerHandles
  \/ \E o \in DOMAIN objects : \E n \in DOMAIN Events[objects[o]] :
       \E id \in ServerNewIds(Events[objects[o]][n].args) : ServerSends(o, n, id)

Next == ProgramStep \/ ServerStep

Spec == Init /\ [][Next]_vars

-----------------------------------------------------------------------------
(* The compositor accepts every request of a program that creates its      *)
(* objects in the order it reserved their ids: it knows the object, reads  *)
(* the arguments with the signature they were written with, and the new id *)
(* is the one it expects.                                                  *)
RequestsAccepted == failed # "request"

(* The precondition of message_visit: an event that has an overload is     *)
(* read as the message it was sent as, if the overload was added for the   *)
(* object that the event comes from and not for one that had its id before. *)
InterpretsAsSent ==
  toClient # <<>> =>
    LET ev == Head(toClient)
        key == Key(ev.obj, ev.opcode)
    IN key \in DOMAIN overloads /\ ~Stale(key) => overloads[key].args = ev.types

(* A handle has the interface of the compositor's object. *)
HandlesAgree ==
  \A id \in live \cap DOMAIN objects : handles[id] = objects[id]
=============================================================================
