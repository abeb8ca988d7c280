--------------------------- MODULE TabletProtocol ---------------------------
(***************************************************************************)
(* Messages of tablet_v2_protocol.hpp: drawing tablets.                    *)
(* One sequence of messages per interface and direction, in the order of   *)
(* the header; an enum argument is given as its underlying type.           *)
(***************************************************************************)
EXTENDS WireTypes

zwp_tablet_manager_v2_request ==
  <<Message("get_tablet_seat", 0, <<Wnew_id("zwp_tablet_seat_v2"),
        Wobject("wl_seat")>>),
    Message("destroy", 1, <<>>)>>

zwp_tablet_seat_v2_request ==
  <<Message("destroy", 0, <<>>)>>

zwp_tablet_seat_v2_event ==
  <<Message("tablet_added", 0, <<Wnew_id("zwp_tablet_v2")>>),
    Message("tool_added", 1, <<Wnew_id("zwp_tablet_tool_v2")>>),
    Message("pad_added", 2, <<Wnew_id("zwp_tablet_pad_v2")>>)>>

zwp_tablet_tool_v2_request ==
  <<Message("set_cursor", 0, <<Wuint, Wobject("wl_surface"), Wint, Wint>>),
    Message("destroy", 1, <<>>)>>

zwp_tablet_tool_v2_event ==
  <<Message("type", 0, <<Wint>>),
    Message("hardware_serial", 1, <<Wuint, Wuint>>),
    Message("hardware_id_wacom", 2, <<Wuint, Wuint>>),
    Message("capability", 3, <<Wint>>),
    Message("done", 4, <<>>),
    Message("removed", 5, <<>>),
    Message("proximity_in", 6, <<Wuint, Wobject("zwp_tablet_v2"),
        Wobject("wl_surface")>>),
    Message("proximity_out", 7, <<>>),
    Message("down", 8, <<Wuint>>),
    Message("up", 9, <<>>),
    Message("motion", 10, <<Wfixed, Wfixed>>),
    Message("pressure", 11, <<Wuint>>),
    Message("distance", 12, <<Wuint>>),
    Message("tilt", 13, <<Wfixed, Wfixed>>),
    Message("rotation", 14, <<Wfixed>>),
    Message("slider", 15, <<Wint>>),
    Message("wheel", 16, <<Wfixed, Wint>>),
    Message("button", 17, <<Wuint, Wuint, Wint>>),
    Message("frame", 18, <<Wuint>>)>>

zwp_tablet_v2_request ==
  <<Message("destroy", 0, <<>>)>>

zwp_tablet_v2_event ==
  <<Message("name", 0, <<Wstring>>),
    Message("id", 1, <<Wuint, Wuint>>),
    Message("path", 2, <<Wstring>>),
    Message("done", 3, <<>>),
    Message("removed", 4, <<>>)>>

zwp_tablet_pad_ring_v2_request ==
  <<Message("set_feedback", 0, <<Wstring, Wuint>>),
    Message("destroy", 1, <<>>)>>

zwp_tablet_pad_ring_v2_event ==
  <<Message("source", 0, <<Wint>>),
    Message("angle", 1, <<Wfixed>>),
    Message("stop", 2, <<>>),
    Message("frame", 3, <<Wuint>>)>>

zwp_tablet_pad_strip_v2_request ==
  <<Message("set_feedback", 0, <<Wstring, Wuint>>),
    Message("destroy", 1, <<>>)>>

zwp_tablet_pad_strip_v2_event ==
  <<Message("source", 0, <<Wint>>),
    Message("position", 1, <<Wuint>>),
    Message("stop", 2, <<>>),
    Message("frame", 3, <<Wuint>>)>>

zwp_tablet_pad_group_v2_request ==
  <<Message("destroy", 0, <<>>)>>

zwp_tablet_pad_group_v2_event ==
  <<Message("buttons", 0, <<Warray>>),
    Message("ring", 1, <<Wnew_id("zwp_tablet_pad_ring_v2")>>),
    Message("strip", 2, <<Wnew_id("zwp_tablet_pad_strip_v2")>>),
    Message("modes", 3, <<Wuint>>),
    Message("done", 4, <<>>),
    Message("mode_switch", 5, <<Wuint, Wuint, Wuint>>)>>

zwp_tablet_pad_v2_request ==
  <<Message("set_feedback", 0, <<Wuint, Wstring, Wuint>>),
    Message("destroy", 1, <<>>)>>

zwp_tablet_pad_v2_event ==
  <<Message("group", 0, <<Wnew_id("zwp_tablet_pad_group_v2")>>),
    Message("path", 1, <<Wstring>>),
    Message("buttons", 2, <<Wuint>>),
    Message("done", 3, <<>>),
    Message("button", 4, <<Wuint, Wuint, Wint>>),
    Message("enter", 5, <<Wuint, Wobject("zwp_tablet_v2"),
        Wobject("wl_surface")>>),
    Message("leave", 6, <<Wuint, Wobject("wl_surface")>>),
    Message("removed", 7, <<>>)>>

(* The interfaces in the order of their declarations. *)
TabletInterfaces ==
  <<"zwp_tablet_manager_v2", "zwp_tablet_seat_v2", "zwp_tablet_tool_v2",
    "zwp_tablet_v2", "zwp_tablet_pad_ring_v2", "zwp_tablet_pad_strip_v2",
    "zwp_tablet_pad_group_v2", "zwp_tablet_pad_v2">>

TabletRequests ==
  [zwp_tablet_manager_v2 |-> zwp_tablet_manager_v2_request,
   zwp_tablet_seat_v2 |-> zwp_tablet_seat_v2_request,
   zwp_tablet_tool_v2 |-> zwp_tablet_tool_v2_request,
   zwp_tablet_v2 |-> zwp_tablet_v2_request,
   zwp_tablet_pad_ring_v2 |-> zwp_tablet_pad_ring_v2_request,
   zwp_tablet_pad_strip_v2 |-> zwp_tablet_pad_strip_v2_request,
   zwp_tablet_pad_group_v2 |-> zwp_tablet_pad_group_v2_request,
   zwp_tablet_pad_v2 |-> zwp_tablet_pad_v2_request]

TabletEvents ==
  [zwp_tablet_manager_v2 |-> <<>>,
   zwp_tablet_seat_v2 |-> zwp_tablet_seat_v2_event,
   zwp_tablet_tool_v2 |-> zwp_tablet_tool_v2_event,
   zwp_tablet_v2 |-> zwp_tablet_v2_event,
   zwp_tablet_pad_ring_v2 |-> zwp_tablet_pad_ring_v2_event,
   zwp_tablet_pad_strip_v2 |-> zwp_tablet_pad_strip_v2_event,
   zwp_tablet_pad_group_v2 |-> zwp_tablet_pad_group_v2_event,
   zwp_tablet_pad_v2 |-> zwp_tablet_pad_v2_event]
=============================================================================
