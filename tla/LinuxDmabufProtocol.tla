------------------------ MODULE LinuxDmabufProtocol -------------------------
(***************************************************************************)
(* Messages of linux_dmabuf_v1_protocol.hpp: buffers made of dmabufs.      *)
(* One sequence of messages per interface and direction, in the order of   *)
(* the header; an enum argument is given as its underlying type.           *)
(***************************************************************************)
EXTENDS WireTypes

zwp_linux_dmabuf_v1_request ==
  <<Message("destroy", 0, <<>>),
    Message("create_params", 1, <<Wnew_id("zwp_linux_buffer_params_v1")>>),
    Message("get_default_feedback", 2,
        <<Wnew_id("zwp_linux_dmabuf_feedback_v1")>>),
    Message("get_surface_feedback", 3,
        <<Wnew_id("zwp_linux_dmabuf_feedback_v1"), Wobject("wl_surface")>>)>>

zwp_linux_dmabuf_v1_event ==
  <<Message("format", 0, <<Wuint>>),
    Message("modifier", 1, <<Wuint, Wuint, Wuint>>)>>

zwp_linux_buffer_params_v1_request ==
  <<Message("destroy", 0, <<>>),
    Message("add", 1, <<Wfd, Wuint, Wuint, Wuint, Wuint, Wuint>>),
    Message("create", 2, <<Wint, Wint, Wuint, Wuint>>),
    Message("create_immed", 3, <<Wnew_id("wl_buffer"), Wint, Wint, Wuint,
        Wuint>>)>>

zwp_linux_buffer_params_v1_event ==
  <<Message("created", 0, <<Wnew_id("wl_buffer")>>),
    Message("failed", 1, <<>>)>>

zwp_linux_dmabuf_feedback_v1_request ==
  <<Message("destroy", 0, <<>>)>>

zwp_linux_dmabuf_feedback_v1_event ==
  <<Message("done", 0, <<>>),
    Message("format_table", 1, <<Wfd, Wuint>>),
    Message("main_device", 2, <<Warray>>),
    Message("tranche_done", 3, <<>>),
    Message("tranche_target_device", 4, <<Warray>>),
    Message("tranche_formats", 5, <<Warray>>),
    Message("tranche_flags", 6, <<Wuint>>)>>

(* The interfaces in the order of their declarations. *)
LinuxDmabufInterfaces ==
  <<"zwp_linux_dmabuf_v1", "zwp_linux_buffer_params_v1",
    "zwp_linux_dmabuf_feedback_v1">>

LinuxDmabufRequests ==
  [zwp_linux_dmabuf_v1 |-> zwp_linux_dmabuf_v1_request,
   zwp_linux_buffer_params_v1 |-> zwp_linux_buffer_params_v1_request,
   zwp_linux_dmabuf_feedback_v1 |-> zwp_linux_dmabuf_feedback_v1_request]

LinuxDmabufEvents ==
  [zwp_linux_dmabuf_v1 |-> zwp_linux_dmabuf_v1_event,
   zwp_linux_buffer_params_v1 |-> zwp_linux_buffer_params_v1_event,
   zwp_linux_dmabuf_feedback_v1 |-> zwp_linux_dmabuf_feedback_v1_event]
=============================================================================
