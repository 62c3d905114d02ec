SPECIFICATION Spec
CONSTANTS
  EPOCH_LENGTH = 3
  RANDOM_MATERIAL_LEN = 2
  VOUCHER_LEN = 192
  U256_MAX = 3
  Hashes <- MCHashes
  Accounts <- MCAccounts
  Vouchers <- MCVouchers
  Blake2 <- MCBlake2
  MaxBlock = 7
  MaxExtrinsics = 2
  alice = alice
  bob = bob
INVARIANTS TypeOK HistoryIsWindow HistoryIsChainRandomness
PROPERTIES DrawnOnce LedgerSpec
CHECK_DEADLOCK FALSE
