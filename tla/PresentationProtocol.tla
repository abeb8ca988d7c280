------------------------ MODULE PresentationProtocol ------------------------
(***************************************************************************)
(* Messages of presentation_time_protocol.hpp: when a surface was shown.   *)
(* One sequence of messages per interface and direction, in the order of   *)
(* the header; an enum argument is given as its underlying type.           *)
(***************************************************************************)
EXTENDS WireTypes

wp_presentation_request ==
  <<Message("destroy", 0, <<>>),
    Message("feedback", 1, <<Wobject("wl_surface"),
        Wnew_id("wp_presentation_feedback")>>)>>

wp_presentation_event ==
  <<Message("clock_id", 0, <<Wuint>>)>>

wp_presentation_feedback_event ==
  <<Message("sync_output", 0, <<Wobject("wl_output")>>),
    Message("presented", 1, <<Wuint, Wuint, Wuint, Wuint, Wuint, Wuint,
        Wuint>>),
    Message("discarded", 2, <<>>)>>

(* The interfaces in the order of their declarations. *)
PresentationInterfaces ==
  <<"wp_presentation", "wp_presentation_feedback">>

PresentationRequests ==
  [wp_presentation |-> wp_presentation_request,
   wp_presentation_feedback |-> <<>>]

PresentationEvents ==
  [wp_presentation |-> wp_presentation_event,
   wp_presentation_feedback |-> wp_presentation_feedback_event]
=============================================================================
