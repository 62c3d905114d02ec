SPECIFICATION Spec
CONSTANTS
  chain_id = "four.json"
  CustomSpec <- MCFour
  Running <- MCFourRun
  force_authoring = FALSE
  VOTE_LAG = 0
  MaxSlot = 3
  MaxReverted = 1
  MaxCrashes = 1
INVARIANTS
  TypeOK
  NeverStuck
PROPERTIES
  DrawsSettle
  FinalSpec
  FinalityCatchesUp
CHECK_DEADLOCK FALSE
