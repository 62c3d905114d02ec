SPECIFICATION Spec
CONSTANTS
  chain_id = "dev"
  CustomSpec <- MCFour
  Running <- MCAliceAndBob
  force_authoring = TRUE
  VOTE_LAG = 2
  MaxSlot = 14
  MaxReverted = 0
  MaxCrashes = 0
PROPERTIES
  AliceAndBobFinalise
CHECK_DEADLOCK FALSE
