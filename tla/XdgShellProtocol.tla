-------------------------- MODULE XdgShellProtocol --------------------------
(***************************************************************************)
(* Messages of xdg_shell_protocol.hpp: windows.                            *)
(* One sequence of messages per interface and direction, in the order of   *)
(* the header; an enum argument is given as its underlying type.           *)
(***************************************************************************)
EXTENDS WireTypes

xdg_wm_base_request ==
  <<Message("destroy", 0, <<>>),
    Message("create_positioner", 1, <<Wnew_id("xdg_positioner")>>),
    Message("get_xdg_surface", 2, <<Wnew_id("xdg_surface"),
        Wobject("wl_surface")>>),
    Message("pong", 3, <<Wuint>>)>>

xdg_wm_base_event ==
  <<Message("ping", 0, <<Wuint>>)>>

xdg_positioner_request ==
  <<Message("destroy", 0, <<>>),
    Message("set_size", 1, <<Wint, Wint>>),
    Message("set_anchor_rect", 2, <<Wint, Wint, Wint, Wint>>),
    Message("set_anchor", 3, <<Wint>>),
    Message("set_gravity", 4, <<Wint>>),
    Message("set_constraint_adjustment", 5, <<Wuint>>),
    Message("set_offset", 6, <<Wint, Wint>>),
    Message("set_reactive", 7, <<>>),
    Message("set_parent_size", 8, <<Wint, Wint>>),
    Message("set_parent_configure", 9, <<Wuint>>)>>

xdg_surface_request ==
  <<Message("destroy", 0, <<>>),
    Message("get_toplevel", 1, <<Wnew_id("xdg_toplevel")>>),
    Message("get_popup", 2, <<Wnew_id("xdg_popup"), Wobject("xdg_surface"),
        Wobject("xdg_positioner")>>),
    Message("set_window_geometry", 3, <<Wint, Wint, Wint, Wint>>),
    Message("ack_configure", 4, <<Wuint>>)>>

xdg_surface_event ==
  <<Message("configure", 0, <<Wuint>>)>>

xdg_toplevel_request ==
  <<Message("destroy", 0, <<>>),
    Message("set_parent", 1, <<Wobject("xdg_toplevel")>>),
    Message("set_title", 2, <<Wstring>>),
    Message("set_app_id", 3, <<Wstring>>),
    Message("show_window_menu", 4, <<Wobject("wl_seat"), Wuint, Wint, Wint>>),
    Message("move", 5, <<Wobject("wl_seat"), Wuint>>),
    Message("resize", 6, <<Wobject("wl_seat"), Wuint, Wint>>),
    Message("set_max_size", 7, <<Wint, Wint>>),
    Message("set_min_size", 8, <<Wint, Wint>>),
    Message("set_maximized", 9, <<>>),
    Message("unset_maximized", 10, <<>>),
    Message("set_fullscreen", 11, <<Wobject("wl_output")>>),
    Message("unset_fullscreen", 12, <<>>),
    Message("set_minimized", 13, <<>>)>>

xdg_toplevel_event ==
  <<Message("configure", 0, <<Wint, Wint, Warray>>),
    Message("close", 1, <<>>),
    Message("configure_bounds", 2, <<Wint, Wint>>),
    Message("wm_capabilities", 3, <<Warray>>)>>

xdg_popup_request ==
  <<Message("destroy", 0, <<>>),
    Message("grab", 1, <<Wobject("wl_seat"), Wuint>>),
    Message("reposition", 2, <<Wobject("xdg_positioner"), Wuint>>)>>

xdg_popup_event ==
  <<Message("configure", 0, <<Wint, Wint, Wint, Wint>>),
    Message("popup_done", 1, <<>>),
    Message("repositioned", 2, <<Wuint>>)>>

(* The interfaces in the order of their declarations. *)
XdgShellInterfaces ==
  <<"xdg_wm_base", "xdg_positioner", "xdg_surface", "xdg_toplevel",
    "xdg_popup">>

XdgShellRequests ==
  [xdg_wm_base |-> xdg_wm_base_request,
   xdg_positioner |-> xdg_positioner_request,
   xdg_surface |-> xdg_surface_request,
   xdg_toplevel |-> xdg_toplevel_request,
   xdg_popup |-> xdg_popup_request]

XdgShellEvents ==
  [xdg_wm_base |-> xdg_wm_base_event,
   xdg_positioner |-> <<>>,
   xdg_surface |-> xdg_surface_event,
   xdg_toplevel |-> xdg_toplevel_event,
   xdg_popup |-> xdg_popup_event]
=============================================================================
