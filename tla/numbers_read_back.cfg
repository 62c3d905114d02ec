SPECIFICATION Spec
CONSTANTS
  Requests <- MCRequests
  Heads <- MCHeads
  SenderKey = "alice"
  RecipientKey = "alice"
  SigningKey = "gnode"
  Commit = "commit"
  Nonce = "nonce"
INVARIANT NumbersReadBack
CHECK_DEADLOCK FALSE
