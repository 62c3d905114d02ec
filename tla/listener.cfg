SPECIFICATION Spec
CONSTANTS
  remote1 = remote1
  remote2 = remote2
  local = local
  remote_port = remote_port
  local_port = local_port
  NoOne = NoOne
  Other = Other
  Processes <- MCProcesses
  Ports <- MCPorts
  port <- MCport
INVARIANTS
  TypeOK
  NeverAdvisesItself
PROPERTIES
  ServingIsSafe
  Settles
CHECK_DEADLOCK FALSE
