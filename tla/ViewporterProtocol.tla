------------------------- MODULE ViewporterProtocol -------------------------
(***************************************************************************)
(* Messages of viewporter_protocol.hpp: cropping and scaling.              *)
(* One sequence of messages per interface and direction, in the order of   *)
(* the header; an enum argument is given as its underlying type.           *)
(***************************************************************************)
EXTENDS WireTypes

wp_viewporter_request ==
  <<Message("destroy", 0, <<>>),
    Message("get_viewport", 1, <<Wnew_id("wp_viewport"),
        Wobject("wl_surface")>>)>>

wp_viewport_request ==
  <<Message("destroy", 0, <<>>),
    Message("set_source", 1, <<Wfixed, Wfixed, Wfixed, Wfixed>>),
    Message("set_destination", 2, <<Wint, Wint>>)>>

(* The interfaces in the order of their declarations. *)
ViewporterInterfaces ==
  <<"wp_viewporter", "wp_viewport">>

ViewporterRequests ==
  [wp_viewporter |-> wp_viewporter_request,
   wp_viewport |-> wp_viewport_request]

ViewporterEvents ==
  [wp_viewporter |-> <<>>,
   wp_viewport |-> <<>>]
=============================================================================
