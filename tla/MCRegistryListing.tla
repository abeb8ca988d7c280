-------------------------- MODULE MCRegistryListing --------------------------
(* Model values for RegistryListing. *)
EXTENDS RegistryListing

(* Not set, absolute, relative and empty. *)
MCDisplays == {Unset, <<"/", "display">>, <<"wayland-1">>, <<>>}
MCRuntimeDirs == {Unset, <<"/", "run">>}

(* All the paths above but one, where nobody listens. *)
MCSockets ==
  {<<"/", "display">>, <<"/", "run", "wayland-0">>, <<"/", "run", "wayland-1">>}

MCGlobals == {"wl_shm", "wl_seat"}
=============================================================================
