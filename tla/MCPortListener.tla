--------------------------- MODULE MCPortListener ---------------------------
(* Two remote nodes that want one port and a local node on another. *)
EXTENDS PortListener

CONSTANTS remote1, remote2, local, remote_port, local_port

MCProcesses == {remote1, remote2, local}
MCPorts == {remote_port, local_port}
MCport == [p \in MCProcesses |-> IF p = local THEN local_port ELSE remote_port]
=============================================================================
