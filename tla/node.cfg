SPECIFICATION Spec
CONSTANTS
  Configs <- MCConfigs
INVARIANTS TypeOK ServedByWholeNode NonAuthorityIsSilent
PROPERTIES NoLingering
CHECK_DEADLOCK FALSE
