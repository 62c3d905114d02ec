SPECIFICATION Spec
CONSTANTS
  OpenRequests <- MCOpenRequests
  PageRequests <- MCPageRequests
  ForwardRequests <- MCForwardRequests
  Accounts <- MCAccounts
  AliceAddy = "alice"
  From <- MCFrom
  MaxFree = 1
INVARIANTS TypeOK AcceptedWereFunded
PROPERTIES HandlersEnd
CHECK_DEADLOCK FALSE
