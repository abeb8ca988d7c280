------------------------------ MODULE SocketPath -----------------------------
(***************************************************************************)
(* wayland_socket_path(): where the socket of the compositor is looked     *)
(* for, from two environment variables.  A path is a sequence of names,    *)
(* which begins with "/" if it is absolute.                                *)
(***************************************************************************)
EXTENDS Sequences

Unset == <<"unset">>   \* std::getenv returns nullptr
Throws == <<"throws">> \* a std::runtime_error instead of a path

IsAbsolute(path) == path # <<>> /\ Head(path) = "/"

(* Faulty: a relative path is returned as it is.                           *)
wayland_socket_path_relative(display, runtimeDir) ==
  IF display # Unset THEN display
  ELSE IF runtimeDir = Unset THEN Throws ELSE runtimeDir \o <<"wayland-0">>

(* display and runtimeDir are $WAYLAND_DISPLAY and $XDG_RUNTIME_DIR. *)
wayland_socket_path(display, runtimeDir) ==
  LET name == IF display # Unset THEN display ELSE <<"wayland-0">> IN
  IF display # Unset /\ IsAbsolute(display) THEN display
  ELSE IF runtimeDir = Unset THEN Throws
  ELSE runtimeDir \o name
=============================================================================
