-------------------------- MODULE WaylandProtocol ---------------------------
(***************************************************************************)
(* Messages of wayland_protocol.hpp, the core protocol.                    *)
(* One sequence of messages per interface and direction, in the order of   *)
(* the header; an enum argument is given as its underlying type.           *)
(***************************************************************************)
EXTENDS WireTypes

wl_display_request ==
  <<Message("sync", 0, <<Wnew_id("wl_callback")>>),
    Message("get_registry", 1, <<Wnew_id("wl_registry")>>)>>

wl_display_event ==
  <<Message("error", 0, <<Wobject(generic_object), Wuint, Wstring>>),
    Message("delete_id", 1, <<Wuint>>)>>

wl_registry_request ==
  <<Message("bind", 0, <<Wuint, Wstring, Wuint, Wnew_id(generic_object)>>)>>

wl_registry_event ==
  <<Message("global", 0, <<Wuint, Wstring, Wuint>>),
    Message("global_remove", 1, <<Wuint>>)>>

wl_callback_event ==
  <<Message("done", 0, <<Wuint>>)>>

wl_compositor_request ==
  <<Message("create_surface", 0, <<Wnew_id("wl_surface")>>),
    Message("create_region", 1, <<Wnew_id("wl_region")>>)>>

wl_shm_pool_request ==
  <<Message("create_buffer", 0, <<Wnew_id("wl_buffer"), Wint, Wint, Wint, Wint,
        Wint>>),
    Message("destroy", 1, <<>>),
    Message("resize", 2, <<Wint>>)>>

wl_shm_request ==
  <<Message("create_pool", 0, <<Wnew_id("wl_shm_pool"), Wfd, Wint>>),
    Message("release", 1, <<>>)>>

wl_shm_event ==
  <<Message("format", 0, <<Wint>>)>>

wl_buffer_request ==
  <<Message("destroy", 0, <<>>)>>

wl_buffer_event ==
  <<Message("release", 0, <<>>)>>

(* Faulty: one counter for requests and events, in the order of the XML.   *)
wl_data_offer_request_one_counter ==
  <<Message("accept", 0, <<Wuint, Wstring>>),
    Message("receive", 1, <<Wstring, Wfd>>),
    Message("destroy", 2, <<>>),
    Message("finish", 4, <<>>),
    Message("set_actions", 5, <<Wuint, Wuint>>)>>

wl_data_offer_request ==
  <<Message("accept", 0, <<Wuint, Wstring>>),
    Message("receive", 1, <<Wstring, Wfd>>),
    Message("destroy", 2, <<>>),
    Message("finish", 3, <<>>),
    Message("set_actions", 4, <<Wuint, Wuint>>)>>

wl_data_offer_event ==
  <<Message("offer", 0, <<Wstring>>),
    Message("source_actions", 1, <<Wuint>>),
    Message("action", 2, <<Wuint>>)>>

wl_data_source_request ==
  <<Message("offer", 0, <<Wstring>>),
    Message("destroy", 1, <<>>),
    Message("set_actions", 2, <<Wuint>>)>>

wl_data_source_event ==
  <<Message("target", 0, <<Wstring>>),
    Message("send", 1, <<Wstring, Wfd>>),
    Message("cancelled", 2, <<>>),
    Message("dnd_drop_performed", 3, <<>>),
    Message("dnd_finished", 4, <<>>),
    Message("action", 5, <<Wuint>>)>>

wl_data_device_request ==
  <<Message("start_drag", 0, <<Wobject("wl_data_source"),
        Wobject("wl_surface"), Wobject("wl_surface"), Wuint>>),
    Message("set_selection", 1, <<Wobject("wl_data_source"), Wuint>>),
    Message("release", 2, <<>>)>>

wl_data_device_event ==
  <<Message("data_offer", 0, <<Wnew_id("wl_data_offer")>>),
    Message("enter", 1, <<Wuint, Wobject("wl_surface"), Wfixed, Wfixed,
        Wobject("wl_data_offer")>>),
    Message("leave", 2, <<>>),
    Message("motion", 3, <<Wuint, Wfixed, Wfixed>>),
    Message("drop", 4, <<>>),
    Message("selection", 5, <<Wobject("wl_data_offer")>>)>>

wl_data_device_manager_request ==
  <<Message("create_data_source", 0, <<Wnew_id("wl_data_source")>>),
    Message("get_data_device", 1, <<Wnew_id("wl_data_device"),
        Wobject("wl_seat")>>)>>

wl_shell_request ==
  <<Message("get_shell_surface", 0, <<Wnew_id("wl_shell_surface"),
        Wobject("wl_surface")>>)>>

wl_shell_surface_request ==
  <<Message("pong", 0, <<Wuint>>),
    Message("move", 1, <<Wobject("wl_seat"), Wuint>>),
    Message("resize", 2, <<Wobject("wl_seat"), Wuint, Wuint>>),
    Message("set_toplevel", 3, <<>>),
    Message("set_transient", 4, <<Wobject("wl_surface"), Wint, Wint, Wuint>>),
    Message("set_fullscreen", 5, <<Wint, Wuint, Wobject("wl_output")>>),
    Message("set_popup", 6, <<Wobject("wl_seat"), Wuint, Wobject("wl_surface"),
        Wint, Wint, Wuint>>),
    Message("set_maximized", 7, <<Wobject("wl_output")>>),
    Message("set_title", 8, <<Wstring>>),
    Message("set_class", 9, <<Wstring>>)>>

wl_shell_surface_event ==
  <<Message("ping", 0, <<Wuint>>),
    Message("configure", 1, <<Wuint, Wint, Wint>>),
    Message("popup_done", 2, <<>>)>>

wl_surface_request ==
  <<Message("destroy", 0, <<>>),
    Message("attach", 1, <<Wobject("wl_buffer"), Wint, Wint>>),
    Message("damage", 2, <<Wint, Wint, Wint, Wint>>),
    Message("frame", 3, <<Wnew_id("wl_callback")>>),
    Message("set_opaque_region", 4, <<Wobject("wl_region")>>),
    Message("set_input_region", 5, <<Wobject("wl_region")>>),
    Message("commit", 6, <<>>),
    Message("set_buffer_transform", 7, <<Wint>>),
    Message("set_buffer_scale", 8, <<Wint>>),
    Message("damage_buffer", 9, <<Wint, Wint, Wint, Wint>>),
    Message("offset", 10, <<Wint, Wint>>)>>

wl_surface_event ==
  <<Message("enter", 0, <<Wobject("wl_output")>>),
    Message("leave", 1, <<Wobject("wl_output")>>),
    Message("preferred_buffer_scale", 2, <<Wint>>),
    Message("preferred_buffer_transform", 3, <<Wint>>)>>

wl_seat_request ==
  <<Message("get_pointer", 0, <<Wnew_id("wl_pointer")>>),
    Message("get_keyboard", 1, <<Wnew_id("wl_keyboard")>>),
    Message("get_touch", 2, <<Wnew_id("wl_touch")>>),
    Message("release", 3, <<>>)>>

wl_seat_event ==
  <<Message("capabilities", 0, <<Wuint>>),
    Message("name", 1, <<Wstring>>)>>

wl_pointer_request ==
  <<Message("set_cursor", 0, <<Wuint, Wobject("wl_surface"), Wint, Wint>>),
    Message("release", 1, <<>>)>>

wl_pointer_event ==
  <<Message("enter", 0, <<Wuint, Wobject("wl_surface"), Wfixed, Wfixed>>),
    Message("leave", 1, <<Wuint, Wobject("wl_surface")>>),
    Message("motion", 2, <<Wuint, Wfixed, Wfixed>>),
    Message("button", 3, <<Wuint, Wuint, Wuint, Wint>>),
    Message("axis", 4, <<Wuint, Wint, Wfixed>>),
    Message("frame", 5, <<>>),
    Message("axis_source", 6, <<Wint>>),
    Message("axis_stop", 7, <<Wuint, Wint>>),
    Message("axis_discrete", 8, <<Wint, Wint>>),
    Message("axis_value120", 9, <<Wint, Wint>>),
    Message("axis_relative_direction", 10, <<Wint, Wint>>)>>

wl_keyboard_request ==
  <<Message("release", 0, <<>>)>>

wl_keyboard_event ==
  <<Message("keymap", 0, <<Wint, Wfd, Wuint>>),
    Message("enter", 1, <<Wuint, Wobject("wl_surface"), Warray>>),
    Message("leave", 2, <<Wuint, Wobject("wl_surface")>>),
    Message("key", 3, <<Wuint, Wuint, Wuint, Wint>>),
    Message("modifiers", 4, <<Wuint, Wuint, Wuint, Wuint, Wuint>>),
    Message("repeat_info", 5, <<Wint, Wint>>)>>

wl_touch_request ==
  <<Message("release", 0, <<>>)>>

wl_touch_event ==
  <<Message("down", 0, <<Wuint, Wuint, Wobject("wl_surface"), Wint, Wfixed,
        Wfixed>>),
    Message("up", 1, <<Wuint, Wuint, Wint>>),
    Message("motion", 2, <<Wuint, Wint, Wfixed, Wfixed>>),
    Message("frame", 3, <<>>),
    Message("cancel", 4, <<>>),
    Message("shape", 5, <<Wint, Wfixed, Wfixed>>),
    Message("orientation", 6, <<Wint, Wfixed>>)>>

wl_output_request ==
  <<Message("release", 0, <<>>)>>

wl_output_event ==
  <<Message("geometry", 0, <<Wint, Wint, Wint, Wint, Wint, Wstring, Wstring,
        Wint>>),
    Message("mode", 1, <<Wuint, Wint, Wint, Wint>>),
    Message("done", 2, <<>>),
    Message("scale", 3, <<Wint>>),
    Message("name", 4, <<Wstring>>),
    Message("description", 5, <<Wstring>>)>>

wl_region_request ==
  <<Message("destroy", 0, <<>>),
    Message("add", 1, <<Wint, Wint, Wint, Wint>>),
    Message("subtract", 2, <<Wint, Wint, Wint, Wint>>)>>

wl_subcompositor_request ==
  <<Message("destroy", 0, <<>>),
    Message("get_subsurface", 1, <<Wnew_id("wl_subsurface"),
        Wobject("wl_surface"), Wobject("wl_surface")>>)>>

wl_subsurface_request ==
  <<Message("destroy", 0, <<>>),
    Message("set_position", 1, <<Wint, Wint>>),
    Message("place_above", 2, <<Wobject("wl_surface")>>),
    Message("place_below", 3, <<Wobject("wl_surface")>>),
    Message("set_sync", 4, <<>>),
    Message("set_desync", 5, <<>>)>>

wl_fixes_request ==
  <<Message("destroy", 0, <<>>),
    Message("destroy_registry", 1, <<Wobject("wl_registry")>>)>>

(* The interfaces in the order of their declarations. *)
WaylandInterfaces ==
  <<"wl_display", "wl_registry", "wl_callback", "wl_compositor",
    "wl_shm_pool", "wl_shm", "wl_buffer", "wl_data_offer", "wl_data_source",
    "wl_data_device", "wl_data_device_manager", "wl_shell",
    "wl_shell_surface", "wl_surface", "wl_seat", "wl_pointer", "wl_keyboard",
    "wl_touch", "wl_output", "wl_region", "wl_subcompositor",
    "wl_subsurface", "wl_fixes">>

WaylandRequests ==
  [wl_display |-> wl_display_request,
   wl_registry |-> wl_registry_request,
   wl_callback |-> <<>>,
   wl_compositor |-> wl_compositor_request,
   wl_shm_pool |-> wl_shm_pool_request,
   wl_shm |-> wl_shm_request,
   wl_buffer |-> wl_buffer_request,
   wl_data_offer |-> wl_data_offer_request,
   wl_data_source |-> wl_data_source_request,
   wl_data_device |-> wl_data_device_request,
   wl_data_device_manager |-> wl_data_device_manager_request,
   wl_shell |-> wl_shell_request,
   wl_shell_surface |-> wl_shell_surface_request,
   wl_surface |-> wl_surface_request,
   wl_seat |-> wl_seat_request,
   wl_pointer |-> wl_pointer_request,
   wl_keyboard |-> wl_keyboard_request,
   wl_touch |-> wl_touch_request,
   wl_output |-> wl_output_request,
   wl_region |-> wl_region_request,
   wl_subcompositor |-> wl_subcompositor_request,
   wl_subsurface |-> wl_subsurface_request,
   wl_fixes |-> wl_fixes_request]

WaylandEvents ==
  [wl_display |-> wl_display_event,
   wl_registry |-> wl_registry_event,
   wl_callback |-> wl_callback_event,
   wl_compositor |-> <<>>,
   wl_shm_pool |-> <<>>,
   wl_shm |-> wl_shm_event,
   wl_buffer |-> wl_buffer_event,
   wl_data_offer |-> wl_data_offer_event,
   wl_data_source |-> wl_data_source_event,
   wl_data_device |-> wl_data_device_event,
   wl_data_device_manager |-> <<>>,
   wl_shell |-> <<>>,
   wl_shell_surface |-> wl_shell_surface_event,
   wl_surface |-> wl_surface_event,
   wl_seat |-> wl_seat_event,
   wl_pointer |-> wl_pointer_event,
   wl_keyboard |-> wl_keyboard_event,
   wl_touch |-> wl_touch_event,
   wl_output |-> wl_output_event,
   wl_region |-> <<>>,
   wl_subcompositor |-> <<>>,
   wl_subsurface |-> <<>>,
   wl_fixes |-> <<>>]
=============================================================================
