------------------------- MODULE StaticPictureWindow -------------------------
(***************************************************************************)
(* static_picture_window of the example display_static_picture: it binds   *)
(* globals as they are announced, creates a surface, answers the configure *)
(* event with a picture and waits until it is closed.  Its requests are    *)
(* registered between, and in callbacks during, three calls of until; only *)
(* flush_registered_requests sends them.                                   *)
(*                                                                         *)
(* The client below it is EventReceive and RequestFlush by what they       *)
(* promise: events reach until one by one and in order, requests that were *)
(* flushed reach the compositor in order.  The compositor is external and  *)
(* does what the protocol lets it do.                                      *)
(***************************************************************************)
EXTENDS Naturals, Sequences

CONSTANTS
  GlobalLists,   \* what the compositor may announce: sequences of interfaces
  MaxPings,      \* bound on the pings
  MaxConfigures  \* bound on the configure events

ASSUME BoundsAssumption == MaxPings \in Nat /\ MaxConfigures \in Nat \ {0}

(* The name in an event wl_registry::global is a string. *)
ASSUME GlobalsAssumption == GlobalLists \subseteq Seq(STRING)

Wanted == {"wl_shm", "wl_compositor", "xdg_wm_base"}
Display == 1  \* global_display_object

VARIABLES
  pc,        \* which until the window is in
  outbox,    \* request_buff_ of the client
  nextId,    \* next_new_id_ of the client
  id,        \* the ..._obj_id_ members, 0 before they are reserved
  found,     \* wl_shm_found, wl_compositor_found, xdg_wm_base_found
  toServer,  \* requests flushed
  toClient,  \* events sent
  globals,   \* what this compositor announces
  objects,   \* the objects it knows, with their interfaces
  nextNew,   \* the id it expects for the next new object
  configures, acked, attached,  \* of the one surface
  pings, ponged, closing        \* pings sent and answered; close sent

client == <<pc, outbox, nextId, id, found>>
compositor == <<globals, objects, nextNew, configures, acked, attached, pings,
                ponged, closing>>
vars == <<pc, outbox, nextId, id, found, toServer, toClient, globals, objects,
          nextNew, configures, acked, attached, pings, ponged, closing>>

Names == Wanted \cup {"wl_registry", "wl_callback", "wl_shm_pool", "wl_buffer",
                      "wl_surface", "xdg_surface", "xdg_toplevel"}

(* A request op on object obj; new is the id of the object it creates, if  *)
(* any, and with is another object, an interface or a serial.              *)
Request(op, obj, new, with) ==
  [op |-> op, obj |-> obj, new |-> new, with |-> with]
Event(ev, with) == [ev |-> ev, with |-> with]

Init ==
  /\ pc = "start"
  /\ outbox = <<>>
  /\ nextId = 2
  /\ id = [n \in Names |-> 0]
  /\ found = {}
  /\ toServer = <<>> /\ toClient = <<>>
  /\ globals \in GlobalLists
  /\ objects = {[id |-> Display, iface |-> "wl_display"]}
  /\ nextNew = 2
  /\ configures = 0 /\ acked = FALSE /\ attached = FALSE
  /\ pings = 0 /\ ponged = {} /\ closing = "no"

-----------------------------------------------------------------------------
(* The window. *)

(* register_request of some requests, then flush_registered_requests. *)
RegisterAndFlush(requests) ==
  /\ toServer' = toServer \o outbox \o requests
  /\ outbox' = <<>>

(* Faulty: the requests of the initial stage are registered, never sent.   *)
StartUnflushed ==
  /\ pc = "start"
  /\ id' = [id EXCEPT !["wl_registry"] = nextId, !["wl_callback"] = nextId + 1]
  /\ nextId' = nextId + 2
  /\ outbox' = outbox \o <<Request("get_registry", Display, nextId, 0),
                         Request("sync", Display, nextId + 1, 0)>>
  /\ pc' = "initial"
  /\ UNCHANGED <<found, toServer, toClient, compositor>>

(* Ask for the registry, and for an event behind all its globals. *)
Start ==
  /\ pc = "start"
  /\ id' = [id EXCEPT !["wl_registry"] = nextId, !["wl_callback"] = nextId + 1]
  /\ nextId' = nextId + 2
  /\ RegisterAndFlush(
       <<Request("get_registry", Display, nextId, 0),
         Request("sync", Display, nextId + 1, 0)>>)
  /\ pc' = "initial"
  /\ UNCHANGED <<found, toClient, compositor>>

(* until takes the next event off recv_buff_. *)
Takes(stage, ev) ==
  /\ pc = stage
  /\ toClient # <<>> /\ Head(toClient).ev = ev
  /\ toClient' = Tail(toClient)

(* Of xdg_wm_base only the first one is bound. *)
WantsGlobal(iface) ==
  iface \in Wanted /\ (iface = "xdg_wm_base" => iface \notin found)

(* Faulty: the id of the new object is reserved once too often.            *)
BindGlobalTwoIds ==
  /\ Takes("initial", "global")
  /\ LET iface == Head(toClient).with IN
     /\ WantsGlobal(iface)
     /\ id' = [id EXCEPT ![iface] = nextId + 1]
     /\ nextId' = nextId + 2
     /\ found' = found \cup {iface}
     /\ outbox' = Append(outbox,
                         Request("bind", id["wl_registry"], nextId + 1, iface))
  /\ UNCHANGED <<pc, toServer, compositor>>

(* The callback of wl_registry::global: reserve an id and register bind. *)
BindGlobal ==
  /\ Takes("initial", "global")
  /\ LET iface == Head(toClient).with IN
     /\ WantsGlobal(iface)
     /\ id' = [id EXCEPT ![iface] = nextId]
     /\ nextId' = nextId + 1
     /\ found' = found \cup {iface}
     /\ outbox' = Append(outbox,
                         Request("bind", id["wl_registry"], nextId, iface))
  /\ UNCHANGED <<pc, toServer, compositor>>

IgnoreGlobal ==
  /\ Takes("initial", "global")
  /\ ~WantsGlobal(Head(toClient).with)
  /\ UNCHANGED <<client, toServer, compositor>>

(* Faulty: the pool is destroyed before the buffer is created from it.      *)
ConfigRequestsPoolFirst(n) ==
  <<Request("create_pool", id["wl_shm"], n, 0),
    Request("destroy", n, 0, 0),
    Request("create_buffer", n, n + 1, 0),
    Request("create_surface", id["wl_compositor"], n + 2, 0),
    Request("get_xdg_surface", id["xdg_wm_base"], n + 3, n + 2),
    Request("get_toplevel", n + 3, n + 4, 0),
    Request("commit", n + 2, 0, 0)>>

(* The requests of the config stage, with the ids n to n + 4 for the pool, *)
(* the buffer, the surface, the xdg_surface and the toplevel.              *)
ConfigRequests(n) ==
  <<Request("create_pool", id["wl_shm"], n, 0),
    Request("create_buffer", n, n + 1, 0),
    Request("destroy", n, 0, 0),
    Request("create_surface", id["wl_compositor"], n + 2, 0),
    Request("get_xdg_surface", id["xdg_wm_base"], n + 3, n + 2),
    Request("get_toplevel", n + 3, n + 4, 0),
    Request("commit", n + 2, 0, 0)>>

(* wl_callback::done: exit(1) when a global is missing ... *)
DoneMissing ==
  /\ Takes("initial", "done")
  /\ found # Wanted
  /\ pc' = "exited"
  /\ UNCHANGED <<outbox, nextId, id, found, toServer, compositor>>

(* Faulty: a global that is missing is not noticed.                        *)
DoneUnchecked ==
  /\ Takes("initial", "done")
  /\ RegisterAndFlush(ConfigRequests(nextId))
  /\ id' = [id EXCEPT !["wl_shm_pool"] = nextId, !["wl_buffer"] = nextId + 1,
                      !["wl_surface"] = nextId + 2,
                      !["xdg_surface"] = nextId + 3,
                      !["xdg_toplevel"] = nextId + 4]
  /\ nextId' = nextId + 5
  /\ pc' = "config"
  /\ UNCHANGED <<found, compositor>>

(* ... or else flush the binds and set up the surface. *)
Done ==
  /\ Takes("initial", "done")
  /\ found = Wanted
  /\ RegisterAndFlush(ConfigRequests(nextId))
  /\ id' = [id EXCEPT !["wl_shm_pool"] = nextId, !["wl_buffer"] = nextId + 1,
                      !["wl_surface"] = nextId + 2,
                      !["xdg_surface"] = nextId + 3,
                      !["xdg_toplevel"] = nextId + 4]
  /\ nextId' = nextId + 5
  /\ pc' = "config"
  /\ UNCHANGED <<found, compositor>>

(* Faulty: the acknowledgement is registered behind the commit.            *)
ConfigureAckLast ==
  /\ Takes("config", "configure")
  /\ RegisterAndFlush(
       <<Request("attach", id["wl_surface"], 0, id["wl_buffer"]),
         Request("commit", id["wl_surface"], 0, 0),
         Request("ack_configure", id["xdg_surface"], 0, Head(toClient).with)>>)
  /\ pc' = "wait"
  /\ UNCHANGED <<nextId, id, found, compositor>>

(* Faulty: what the callbacks have registered is not sent.                 *)
ConfigureDropsPongs ==
  /\ Takes("config", "configure")
  /\ toServer' = toServer \o
       <<Request("ack_configure", id["xdg_surface"], 0, Head(toClient).with),
         Request("attach", id["wl_surface"], 0, id["wl_buffer"]),
         Request("commit", id["wl_surface"], 0, 0)>>
  /\ pc' = "wait"
  /\ UNCHANGED <<outbox, nextId, id, found, compositor>>

(* Faulty: until visits all that is buffered before it returns.            *)
ConfigureDrains ==
  /\ pc = "config"
  /\ toClient # <<>> /\ Head(toClient).ev = "configure"
  /\ toClient' = <<>>
  /\ RegisterAndFlush(
       <<Request("ack_configure", id["xdg_surface"], 0, Head(toClient).with),
         Request("attach", id["wl_surface"], 0, id["wl_buffer"]),
         Request("commit", id["wl_surface"], 0, 0)>>)
  /\ pc' = "wait"
  /\ UNCHANGED <<nextId, id, found, compositor>>

(* xdg_surface::configure: acknowledge it and commit the picture. *)
Configure ==
  /\ Takes("config", "configure")
  /\ RegisterAndFlush(
       <<Request("ack_configure", id["xdg_surface"], 0, Head(toClient).with),
         Request("attach", id["wl_surface"], 0, id["wl_buffer"]),
         Request("commit", id["wl_surface"], 0, 0)>>)
  /\ pc' = "wait"
  /\ UNCHANGED <<nextId, id, found, compositor>>

(* default_overloads_: xdg_wm_base::ping registers a pong. *)
Ping(stage) ==
  /\ Takes(stage, "ping")
  /\ LET serial == Head(toClient).with IN
     outbox' = Append(outbox, Request("pong", id["xdg_wm_base"], 0, serial))
  /\ UNCHANGED <<pc, nextId, id, found, toServer, compositor>>

(* fatal_error_overloads_: wl_display::error exits. *)
FatalError(stage) ==
  /\ Takes(stage, "error")
  /\ pc' = "exited"
  /\ UNCHANGED <<outbox, nextId, id, found, toServer, compositor>>

(* Events without overloads are skipped. *)
Skip(stage, ev) ==
  /\ Takes(stage, ev)
  /\ UNCHANGED <<client, toServer, compositor>>

(* wait_for_close_event returns. *)
Close ==
  /\ Takes("wait", "close")
  /\ pc' = "closed"
  /\ UNCHANGED <<outbox, nextId, id, found, toServer, compositor>>

-----------------------------------------------------------------------------
(* The compositor. *)

Known(i, iface) == [id |-> i, iface |-> iface] \in objects

(* What the request creates, on an object of which interface. *)
Creates(op) ==
  CASE op = "get_registry"    -> "wl_registry"
    [] op = "sync"            -> "wl_callback"
    [] op = "create_pool"     -> "wl_shm_pool"
    [] op = "create_buffer"   -> "wl_buffer"
    [] op = "create_surface"  -> "wl_surface"
    [] op = "get_xdg_surface" -> "xdg_surface"
    [] op = "get_toplevel"    -> "xdg_toplevel"

Target(op) ==
  CASE op \in {"get_registry", "sync"}     -> "wl_display"
    [] op = "bind"                         -> "wl_registry"
    [] op = "create_pool"                  -> "wl_shm"
    [] op \in {"create_buffer", "destroy"} -> "wl_shm_pool"
    [] op = "create_surface"               -> "wl_compositor"
    [] op \in {"get_xdg_surface", "pong"}  -> "xdg_wm_base"
    [] op \in {"get_toplevel", "ack_configure"} -> "xdg_surface"
    [] op \in {"attach", "commit"}         -> "wl_surface"

(* It handles a request, and announces its globals or answers a sync. *)
Handle ==
  /\ toServer # <<>>
  /\ toServer' = Tail(toServer)
  /\ LET r == Head(toServer)
         made == IF r.op = "bind" THEN r.with ELSE Creates(r.op) IN
     /\ IF r.new # 0
        THEN /\ objects' = objects \cup {[id |-> r.new, iface |-> made]}
             /\ nextNew' = nextNew + 1
        ELSE /\ objects' = IF r.op = "destroy"
                           THEN {o \in objects : o.id # r.obj} ELSE objects
             /\ UNCHANGED nextNew
     /\ toClient' = toClient \o
          CASE r.op = "get_registry" ->
                 [i \in 1..Len(globals) |-> Event("global", globals[i])]
            [] r.op = "sync" -> <<Event("done", r.new)>>
            [] OTHER -> <<>>
     /\ acked' = (acked \/ r.op = "ack_configure")
     /\ attached' = (attached \/ r.op = "attach")
     /\ ponged' = ponged \cup (IF r.op = "pong" THEN {r.with} ELSE {})
  /\ UNCHANGED <<client, globals, configures, pings, closing>>

(* A role has been given to the surface, so it is to be configured. *)
Configurable == \E o \in objects : o.iface = "xdg_toplevel"

Sends(ev, with) ==
  /\ toClient' = Append(toClient, Event(ev, with))
  /\ UNCHANGED <<client, toServer, globals, objects, nextNew, acked, attached,
                 ponged>>

SendConfigure ==
  /\ Configurable
  /\ configures < MaxConfigures
  /\ configures' = configures + 1
  /\ Sends("configure", configures')
  /\ UNCHANGED <<pings, closing>>

SendPing ==
  /\ \E o \in objects : o.iface = "xdg_wm_base"
  /\ pings < MaxPings
  /\ pings' = pings + 1
  /\ Sends("ping", pings')
  /\ UNCHANGED <<configures, closing>>

(* The user closes the window, once. *)
SendClose ==
  /\ Configurable /\ closing = "no"
  /\ closing' = IF configures > 0 THEN "configured" ELSE "early"
  /\ Sends("close", 0)
  /\ UNCHANGED <<pings, configures>>

(* An error is the last event it sends, the model needs no more of them. *)
SendError ==
  /\ closing = "no"
  /\ closing' = "error"
  /\ Sends("error", 0)
  /\ UNCHANGED <<pings, configures>>

-----------------------------------------------------------------------------
Window ==
  \/ Start \/ BindGlobal \/ IgnoreGlobal \/ DoneMissing \/ Done \/ Configure
  \/ \E stage \in {"config", "wait"} : Ping(stage)
  \/ \E stage \in {"initial", "config", "wait"} : FatalError(stage)
  \/ Skip("config", "close")
  \/ Skip("wait", "configure")
  \/ Close

(* The window is gone, or all is quiet. *)
Quiet ==
  /\ \/ pc \in {"closed", "exited"}
     \/ pc = "wait" /\ toClient = <<>> /\ toServer = <<>>
  /\ UNCHANGED vars

Next ==
  \/ Window
  \/ Handle
  \/ SendConfigure \/ SendPing \/ SendClose \/ SendError
  \/ Quiet

Spec == Init /\ [][Next]_vars

(* The process runs, the compositor handles requests and sends the first   *)
(* configure; it need not ping, close or fail.                             *)
FairSpec ==
  /\ Spec
  /\ WF_vars(Window) /\ WF_vars(Handle)
  /\ WF_vars(SendConfigure /\ configures = 0)

-----------------------------------------------------------------------------
(* Properties. *)

Offered == {globals[i] : i \in 1..Len(globals)}

(* The objects are created at the compositor in the order their ids were   *)
(* reserved, without a gap, though binds are registered in callbacks and   *)
(* only sent with later requests: "the order matters. If one reserves the  *)
(* ids in some order, then they have be binded in the same"                *)
(* (list_registry_globals.cpp:36).                                         *)
NewIdsInOrder ==
  toServer # <<>> /\ Head(toServer).new # 0 => Head(toServer).new = nextNew

(* What the compositor is asked is asked of an object that it knows, of    *)
(* the interface the request belongs to, and about objects it knows: the   *)
(* pool lives until its buffer is made, the binds were sent before their   *)
(* objects are used.                                                       *)
RequestsOfKnownObjects ==
  toServer # <<>> =>
    LET r == Head(toServer) IN
    /\ Known(r.obj, Target(r.op))
    /\ r.op = "get_xdg_surface" => Known(r.with, "wl_surface")
    /\ r.op = "attach" => Known(r.with, "wl_buffer")

(* No content reaches the surface before its configure is acknowledged.    *)
ContentAfterAck == attached => acked

(* The process exits only as the code says: a global it wants was not      *)
(* announced, or the compositor sent an error; and the window is not set   *)
(* up without its globals.                                                 *)
ExitsForReason ==
  /\ pc = "exited" => ~(Wanted \subseteq Offered) \/ closing = "error"
  /\ pc \in {"config", "wait", "closed"} => Wanted \subseteq Offered

(* The constructor ends: with the picture attached, or with exit if a      *)
(* global is missing or the compositor fails.  No until in it waits for an *)
(* event whose request is still in request_buff_.                          *)
ConstructorEnds == <>(attached \/ pc = "exited")

(* A close that the compositor sends after a configure ends the wait, even *)
(* when both are received at once: until<configure> leaves it buffered.    *)
CloseEndsWait == (closing = "configured") ~> (pc \in {"closed", "exited"})

(* A ping that comes before the first configure is answered.               *)
EarlyPingsAnswered ==
  \A i \in 1..MaxPings :
    (pings >= i /\ configures = 0) ~> (i \in ponged \/ pc = "exited")

(* "Handels: wl_display::error, xdg_wm_base::ping"                         *)
(* (display_static_picture.cpp:169): every ping is answered while the      *)
(* window exists.                                                          *)
PingsAnswered ==
  \A i \in 1..MaxPings :
    (pings >= i) ~> (i \in ponged \/ pc \in {"closed", "exited"})
=============================================================================
