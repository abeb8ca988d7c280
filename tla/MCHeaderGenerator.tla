------------------------- MODULE MCHeaderGenerator --------------------------
(* Instances of HeaderGenerator for TLC. *)
EXTENDS HeaderGenerator, Protocols

(* Three interfaces that name each other and no others: bind is generic,   *)
(* wl_callback has one message and wl_display several of both kinds.       *)
MCInterfaces == {"wl_display", "wl_registry", "wl_callback"}
MCRequests == [I \in Interfaces |-> AllRequests[I]]
MCEvents == [I \in Interfaces |-> AllEvents[I]]
=============================================================================
