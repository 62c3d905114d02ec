SPECIFICATION Spec
CONSTANTS
  alice = alice
  Accounts <- MCAccounts
  BlockHashCount = 5
  MaxLife = 1
  MaxBlock = 8
  MaxForks = 2
  MaxSigned = 4
  MaxMade = 2
  MaxNonce = 1
INVARIANTS
  TypeOK
  SignatureMeansEra
  NonceOrder
  ReplayIsConfined
CHECK_DEADLOCK FALSE
