----------------------------- MODULE Protocols ------------------------------
(* The messages of all protocol headers. *)
EXTENDS WaylandProtocol, XdgShellProtocol, TabletProtocol,
        LinuxDmabufProtocol, PresentationProtocol, ViewporterProtocol, TLC

AllInterfaces ==
  WaylandInterfaces \o XdgShellInterfaces \o TabletInterfaces
    \o LinuxDmabufInterfaces \o PresentationInterfaces \o ViewporterInterfaces

AllRequests ==
  WaylandRequests @@ XdgShellRequests @@ TabletRequests
    @@ LinuxDmabufRequests @@ PresentationRequests @@ ViewporterRequests

AllEvents ==
  WaylandEvents @@ XdgShellEvents @@ TabletEvents
    @@ LinuxDmabufEvents @@ PresentationEvents @@ ViewporterEvents
=============================================================================
