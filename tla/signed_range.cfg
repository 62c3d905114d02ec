SPECIFICATION Spec
CONSTANTS
  Requests <- MCRequests
  Heads <- MCHeads
  SenderKey = "alice"
  RecipientKey = "alice"
  SigningKey = "gnode"
  Commit = "commit"
  Nonce = "nonce"
INVARIANT SignatureCoversUnsigned
CHECK_DEADLOCK FALSE
