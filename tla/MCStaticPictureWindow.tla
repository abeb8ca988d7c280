------------------------ MODULE MCStaticPictureWindow ------------------------
(* Model values for StaticPictureWindow. *)
EXTENDS StaticPictureWindow

(* Globals in either order, a second xdg_wm_base, one nobody wants, and    *)
(* lists in which one is missing.                                          *)
MCGlobalLists ==
  { <<"wl_shm", "wl_compositor", "xdg_wm_base">>,
    <<"xdg_wm_base", "wl_compositor", "wl_seat", "wl_shm">>,
    <<"wl_compositor", "xdg_wm_base", "xdg_wm_base", "wl_shm">>,
    <<"wl_shm", "wl_compositor">>,
    <<"wl_seat">> }
==============================================================================
