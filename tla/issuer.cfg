SPECIFICATION Spec
CONSTANTS
  Requests <- MCRequests
  Heads <- MCHeads
  SenderKey = "alice"
  RecipientKey = "alice"
  SigningKey = "gnode"
  Commit = "commit"
  Nonce = "nonce"
INVARIANTS TypeOK FieldsSurvive EraIsFresh
PROPERTIES RepliedIsAnswered
CHECK_DEADLOCK FALSE
