SPECIFICATION Spec
CONSTANTS
  EPOCH_LENGTH = 3
  RANDOM_MATERIAL_LEN = 2
  VOUCHER_LEN = 192
  U256_MAX = 3
  Hashes <- MCHashes
  Accounts <- MCAccounts
  Vouchers <- MCVouchers
  Blake2 <- MCBlake2
  MaxBlock = 7
  MaxExtrinsics = 1
  alice = alice
  bob = bob
INVARIANT RedeemableWhenDue
CHECK_DEADLOCK FALSE
