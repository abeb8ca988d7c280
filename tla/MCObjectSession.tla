-------------------------- MODULE MCObjectSession ---------------------------
(* Instances of ObjectSession for TLC: tables of the protocol headers. *)
EXTENDS ObjectSession, Protocols

(* The requests that end their object are named so.                        *)
MCDestructors ==
  {d \in Interfaces \X (0..19) :
     /\ d[2] + 1 \in DOMAIN AllRequests[d[1]]
     /\ AllRequests[d[1]][d[2] + 1].name \in {"destroy", "release"}}

MCRequests == [I \in Interfaces |-> AllRequests[I]]
MCEvents == [I \in Interfaces |-> AllEvents[I]]

(* Tablets: the compositor creates objects of several interfaces. *)
Tablets ==
  {"wl_display", "wl_registry", "wl_callback", "zwp_tablet_manager_v2"}
    \cup {TabletInterfaces[o] : o \in 1..Len(TabletInterfaces)}
ToTablets == {"wl_registry", "zwp_tablet_manager_v2", "zwp_tablet_seat_v2"}
=============================================================================
