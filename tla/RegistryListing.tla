--------------------------- MODULE RegistryListing ---------------------------
(***************************************************************************)
(* The example list_registry_globals: find the socket, ask the compositor  *)
(* for its registry and for an answer behind the globals it announces,     *)
(* print them until that answer comes.                                     *)
(*                                                                         *)
(* The client below it is EventReceive and RequestFlush by what they       *)
(* promise: requests arrive in order once flushed, events are visited one  *)
(* by one in order.  When the compositor hangs up, what was received but   *)
(* not visited may be lost with the exception.  The compositor, external,  *)
(* may fail, hang up, and announce or remove globals at any time.          *)
(***************************************************************************)
EXTENDS Naturals, SequencesExt, SocketPath

CONSTANTS
  Displays,     \* values of WAYLAND_DISPLAY
  RuntimeDirs,  \* values of XDG_RUNTIME_DIR
  Sockets,      \* where compositors listen
  Globals,      \* what may be announced
  MaxGlobals,   \* bound on the announcements
  MaxRemovals   \* bound on the removals

ASSUME BoundsAssumption == MaxGlobals \in Nat /\ MaxRemovals \in Nat

display == 1  \* global_display_object

VARIABLES
  pc,         \* what main does next, or how it ended
  WAYLAND_DISPLAY, XDG_RUNTIME_DIR,
  socket,     \* the path that was looked up
  nextId,     \* next_new_id_ of the client
  registery, sync_callback,
  printed,    \* the globals printed
  toServer, toClient,
  bound,      \* the registry it knows, 0 before get_registry
  initial,    \* the globals it had then
  announced,  \* all it has announced, in order
  removals,   \* how many it has removed
  synced,     \* how many it had announced when it answered sync
  failing     \* "no", "error" (sent) or "gone"

environment == <<WAYLAND_DISPLAY, XDG_RUNTIME_DIR>>
program == <<pc, environment, socket, nextId, registery, sync_callback, printed>>
compositor == <<bound, initial, announced, removals, synced, failing>>
vars == <<pc, WAYLAND_DISPLAY, XDG_RUNTIME_DIR, socket, nextId, registery,
          sync_callback, printed, toServer, toClient, bound, initial,
          announced, removals, synced, failing>>

Request(op, new) == [op |-> op, obj |-> display, new |-> new]
Event(obj, ev, with) == [obj |-> obj, ev |-> ev, with |-> with]

Init ==
  /\ pc = "look up"
  /\ WAYLAND_DISPLAY \in Displays /\ XDG_RUNTIME_DIR \in RuntimeDirs
  /\ socket = <<>> /\ nextId = 2 /\ registery = 0 /\ sync_callback = 0
  /\ printed = <<>> /\ toServer = <<>> /\ toClient = <<>>
  /\ bound = 0 /\ announced = <<>> /\ removals = 0 /\ synced = 0
  /\ initial \in UNION {[1..n -> Globals] : n \in 0..MaxGlobals}
  /\ failing = "no"

-----------------------------------------------------------------------------
(* The program *)

LookUp ==
  /\ pc = "look up"
  /\ socket' = wayland_socket_path(WAYLAND_DISPLAY, XDG_RUNTIME_DIR)
  /\ pc' = IF socket' = Throws THEN "thrown" ELSE "connect"
  /\ UNCHANGED <<environment, nextId, registery, sync_callback, printed,
                 toServer, toClient, compositor>>

(* The socket is connected to, or that throws. *)
Connect ==
  /\ pc = "connect"
  /\ pc' = IF socket \in Sockets THEN "ask" ELSE "thrown"
  /\ UNCHANGED <<environment, socket, nextId, registery, sync_callback, printed,
                 toServer, toClient, compositor>>

(* Faulty: the sync is registered before the registry is asked for.        *)
AskSyncFirst ==
  /\ pc = "ask"
  /\ registery' = nextId /\ sync_callback' = nextId + 1
  /\ nextId' = nextId + 2
  /\ toServer' = <<Request("sync", nextId + 1), Request("get_registry", nextId)>>
  /\ pc' = "list"
  /\ UNCHANGED <<environment, socket, printed, toClient, compositor>>

(* Reserve both ids, register the requests in that order, flush them, and  *)
(* add the overloads; nothing is received before that.                     *)
Ask ==
  /\ pc = "ask"
  /\ registery' = nextId /\ sync_callback' = nextId + 1
  /\ nextId' = nextId + 2
  /\ toServer' = <<Request("get_registry", nextId), Request("sync", nextId + 1)>>
  /\ pc' = "list"
  /\ UNCHANGED <<environment, socket, printed, toClient, compositor>>

(* until<done_t>(sync_callback) visits the next event. *)
Takes(obj, ev) ==
  /\ pc = "list"
  /\ toClient # <<>> /\ Head(toClient).obj = obj /\ Head(toClient).ev = ev
  /\ toClient' = Tail(toClient)

PrintGlobal ==
  /\ Takes(registery, "global")
  /\ printed' = Append(printed, Head(toClient).with)
  /\ UNCHANGED <<pc, environment, socket, nextId, registery, sync_callback,
                 toServer, compositor>>

(* Faulty: errors have no overload and are skipped.                        *)
FatalErrorSkipped ==
  /\ Takes(display, "error")
  /\ UNCHANGED <<program, toServer, compositor>>

(* The overload of fatal_error_t prints and calls std::exit(1). *)
FatalError ==
  /\ Takes(display, "error")
  /\ pc' = "exited"
  /\ UNCHANGED <<environment, socket, nextId, registery, sync_callback, printed,
                 toServer, compositor>>

(* global_remove has no overload. *)
Skip ==
  /\ Takes(registery, "global_remove")
  /\ UNCHANGED <<program, toServer, compositor>>

Done ==
  /\ Takes(sync_callback, "done")
  /\ pc' = "listed"
  /\ UNCHANGED <<environment, socket, nextId, registery, sync_callback, printed,
                 toServer, compositor>>

(* recv_more_data throws at the end of the stream. *)
EndOfStream ==
  /\ pc = "list" /\ failing = "gone"
  /\ pc' = "thrown"
  /\ UNCHANGED <<environment, socket, nextId, registery, sync_callback, printed,
                 toServer, toClient, compositor>>

-----------------------------------------------------------------------------
(* The compositor *)

Sends(events) == toClient' = toClient \o events

HandleGetRegistry ==
  /\ failing = "no" /\ toServer # <<>> /\ Head(toServer).op = "get_registry"
  /\ toServer' = Tail(toServer)
  /\ bound' = Head(toServer).new
  /\ announced' = initial
  /\ Sends([n \in 1..Len(initial) |-> Event(bound', "global", initial[n])])
  /\ UNCHANGED <<program, initial, removals, synced, failing>>

HandleSync ==
  /\ failing = "no" /\ toServer # <<>> /\ Head(toServer).op = "sync"
  /\ toServer' = Tail(toServer)
  /\ synced' = Len(announced)
  /\ Sends(<<Event(Head(toServer).new, "done", 0)>>)
  /\ UNCHANGED <<program, bound, initial, announced, removals, failing>>

Announce(g) ==
  /\ failing = "no" /\ bound # 0 /\ Len(announced) < MaxGlobals
  /\ announced' = Append(announced, g)
  /\ Sends(<<Event(bound, "global", g)>>)
  /\ UNCHANGED <<program, toServer, bound, initial, removals, synced,
                 failing>>

RemoveGlobal ==
  /\ failing = "no" /\ bound # 0 /\ removals < MaxRemovals
  /\ removals' = removals + 1
  /\ Sends(<<Event(bound, "global_remove", 0)>>)
  /\ UNCHANGED <<program, toServer, bound, initial, announced, synced,
                 failing>>

(* A fatal error is the last event. *)
Fail ==
  /\ failing = "no" /\ pc = "list"
  /\ failing' = "error"
  /\ Sends(<<Event(display, "error", 0)>>)
  /\ UNCHANGED <<program, toServer, bound, initial, announced, removals,
                 synced>>

HangUp ==
  /\ failing # "gone" /\ pc = "list"
  /\ failing' = "gone"
  /\ UNCHANGED <<program, toServer, toClient, bound, initial, announced,
                 removals, synced>>

-----------------------------------------------------------------------------
Program ==
  LookUp \/ Connect \/ Ask \/ PrintGlobal \/ FatalError \/ Skip \/ Done
    \/ EndOfStream

Handles == HandleGetRegistry \/ HandleSync

Ended == pc \in {"listed", "exited", "thrown"} /\ UNCHANGED vars

Next ==
  Program \/ Handles \/ (\E g \in Globals : Announce(g)) \/ RemoveGlobal \/ Fail
    \/ HangUp \/ Ended

Spec == Init /\ [][Next]_vars

(* The process runs; the compositor handles requests while it is there.    *)
FairSpec == Spec /\ WF_vars(Program) /\ WF_vars(Handles)

-----------------------------------------------------------------------------
(* The steps that system_utils.hpp:28-33 lists, one after the other.       *)
Documented ==
  CASE WAYLAND_DISPLAY # Unset /\ IsAbsolute(WAYLAND_DISPLAY) -> WAYLAND_DISPLAY
    [] OTHER ->
  CASE XDG_RUNTIME_DIR = Unset -> Throws
    [] OTHER ->
  CASE WAYLAND_DISPLAY # Unset -> XDG_RUNTIME_DIR \o WAYLAND_DISPLAY
    [] OTHER -> XDG_RUNTIME_DIR \o <<"wayland-0">>

(* Wherever the program gets, it gets there through the socket that the    *)
(* documentation of wayland_socket_path says.                              *)
ConnectsAsDocumented ==
  pc # "look up" =>
    /\ socket = Documented
    /\ pc \in {"ask", "list", "listed", "exited"} => socket \in Sockets

(* Globals are printed as they were announced, and a listing that ends     *)
(* normally is complete: it has every global that was announced before the *)
(* sync was handled, the initial ones among them, and no others.           *)
ListsAllGlobals ==
  /\ IsPrefix(printed, announced)
  /\ pc = "listed" => /\ bound # 0 /\ Len(initial) <= synced
                      /\ Len(printed) = synced

(* The listing ends whatever the compositor does: it answers, fails or     *)
(* hangs up, and a fatal error without a hang-up ends it too.              *)
ListingEnds == <>(pc \in {"listed", "exited", "thrown"})
=============================================================================
