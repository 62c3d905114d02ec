------------------------ MODULE ProbabilisticPayments ------------------------
(***************************************************************************)
(* The probabilistic-payments pallet as the runtime executes it:           *)
(* blockchain/pallets/probabilistic-payments/src/lib.rs, hooked into block *)
(* execution by blockchain/runtime/src/lib.rs.                             *)
(*                                                                         *)
(* A block is initialised (the hooks of all pallets run in the order of    *)
(* construct_runtime!), then its claim extrinsics are dispatched one after *)
(* the other.  Hash functions and signatures are ideal: the randomness of  *)
(* a block is the record of what is mixed into it, a signature is the pair *)
(* of the signer and the signed message, and the lottery hash is a         *)
(* constant operator the checker or the prover knows nothing about.        *)
(***************************************************************************)
EXTENDS Integers, Sequences, FiniteSets

CONSTANTS
  EPOCH_LENGTH,         \* blocks a randomness entry is kept (1024)
  RANDOM_MATERIAL_LEN,  \* parent hashes the collective flip mixes (81)
  VOUCHER_LEN,          \* bytes a voucher needs to be parsed (192)
  U256_MAX,             \* the largest lottery hash (2^256 - 1)
  Hashes,               \* block hashes
  Accounts,             \* account ids, that is public keys
  Vouchers,             \* the vouchers claimants hold
  Blake2(_, _),         \* lottery hash of the 128 unsigned bytes and a randomness
  MaxBlock,             \* bound: the chain stops growing at this block
  MaxExtrinsics         \* bound: claims one block has room for

ASSUME EpochAssumption == EPOCH_LENGTH \in Nat \ {0}
ASSUME MaterialAssumption == RANDOM_MATERIAL_LEN \in Nat \ {0}
ASSUME BoundsAssumption == MaxBlock \in Nat /\ MaxExtrinsics \in Nat
ASSUME VoucherAssumption ==
  /\ VOUCHER_LEN \in Nat
  /\ \A v \in Vouchers :
       /\ v.len \in Nat
       /\ v.unsigned.oracle_block \in Nat
       /\ v.unsigned.difficulty \in Nat
       /\ v.unsigned.no_redeem_before_block \in Nat

VARIABLES
  block_number,        \* frame_system: number of the block being executed
  parent_hash,         \* parent_hash[b]: the parent hash in the header of block b
  random_material,     \* collective flip: the last parent hashes, by block
  randomness_history,  \* RandomnessHistory: randomness by block, pruned
  events               \* outcomes of the claims dispatched in this block

vars == <<block_number, parent_hash, random_material, randomness_history, events>>

Errors == {"InvalidVoucher", "InvalidRecipient", "InvalidVoucherSignature",
           "ClaimedTooSoonOrLate", "VoucherDidNotWin"}

-----------------------------------------------------------------------------
(* Storage maps keyed by block number. *)

\* The map m with value x under key k.
Put(m, k, x) == [b \in DOMAIN m \cup {k} |-> IF b = k THEN x ELSE m[b]]

\* The map m without key k.
Kill(m, k) == [b \in DOMAIN m \ {k} |-> m[b]]

SaturatingSub(a, b) == IF a > b THEN a - b ELSE 0

-----------------------------------------------------------------------------
(* pallet_insecure_randomness_collective_flip, outside the repository. *)

\* Its on_initialize: the parent hash replaces the oldest one once the ring is full.
PushParentHash(material, n, h) == Kill(Put(material, n, h), n - RANDOM_MATERIAL_LEN)

\* Its random(topic): a value determined by the topic and the hashes in the ring.
Random(topic, material) == [topic |-> topic, material |-> material]

-----------------------------------------------------------------------------
(* The pallet's hook and dispatchable. *)

\* Slip: the entry that expires is one block too young.
OnInitializeDropsEarly(history, n, material) ==
  LET stored == Put(history, n, Random(n, material))
  IN  IF n >= EPOCH_LENGTH THEN Kill(stored, n - EPOCH_LENGTH + 1) ELSE stored

\* Slip: the entry of the parent block is filled in as well.
OnInitializeRedraws(history, n, material) ==
  LET stored == Put(Put(history, n - 1, Random(n - 1, material)), n, Random(n, material))
  IN  IF n > EPOCH_LENGTH THEN Kill(stored, n - EPOCH_LENGTH) ELSE stored

\* Slip: the randomness is stored under the next block's key.
OnInitializeNextKey(history, n, material) ==
  LET stored  == Put(history, n + 1, Random(n, material))
      expired == SaturatingSub(n, EPOCH_LENGTH)
  IN  IF expired > 0 THEN Kill(stored, expired) ELSE stored

\* on_initialize: store the randomness of block n, drop the one that expires.
OnInitialize(history, n, material) ==
  LET stored  == Put(history, n, Random(n, material))
      expired == SaturatingSub(n, EPOCH_LENGTH)
  IN  IF expired > 0 THEN Kill(stored, expired) ELSE stored

\* signature.verify(unsigned_voucher, sender_pk)
Verify(signature, message, pk) ==
  signature.signer = pk /\ signature.message = message

\* The lottery: the hash lies below U256::MAX / difficulty.
Wins(v, rand) == Blake2(v.unsigned, rand) < U256_MAX \div v.unsigned.difficulty

\* Slip: the randomness is looked up first and the due block compared strictly.
ClaimResultStrictlyDue(v, who) ==
  LET u == v.unsigned IN
  IF      v.len < VOUCHER_LEN                             THEN "InvalidVoucher"
  ELSE IF u.recipient_pk # who                            THEN "InvalidRecipient"
  ELSE IF u.oracle_block \notin DOMAIN randomness_history THEN "ClaimedTooSoonOrLate"
  ELSE IF block_number <= u.no_redeem_before_block        THEN "ClaimedTooSoonOrLate"
  ELSE IF ~ Verify(v.signature, u, u.sender_pk)           THEN "InvalidVoucherSignature"
  ELSE IF u.difficulty = 0                                THEN "Panic"
  ELSE IF ~ Wins(v, randomness_history[u.oracle_block])   THEN "VoucherDidNotWin"
  ELSE "VoucherClaimed"

\* The dispatch result of claim, its checks in the order of the code.  A
\* difficulty of zero divides by zero, which traps the runtime.
ClaimResult(v, who) ==
  LET u == v.unsigned IN
  IF      v.len < VOUCHER_LEN                             THEN "InvalidVoucher"
  ELSE IF u.recipient_pk # who                            THEN "InvalidRecipient"
  ELSE IF block_number < u.no_redeem_before_block         THEN "ClaimedTooSoonOrLate"
  ELSE IF ~ Verify(v.signature, u, u.sender_pk)           THEN "InvalidVoucherSignature"
  ELSE IF u.oracle_block \notin DOMAIN randomness_history THEN "ClaimedTooSoonOrLate"
  ELSE IF u.difficulty = 0                                THEN "Panic"
  ELSE IF ~ Wins(v, randomness_history[u.oracle_block])   THEN "VoucherDidNotWin"
  ELSE "VoucherClaimed"

-----------------------------------------------------------------------------
(* Block execution. *)

Init ==
  /\ block_number = 0
  /\ parent_hash = [b \in {} |-> 0]
  /\ random_material = [b \in {} |-> 0]
  /\ randomness_history = [b \in {} |-> 0]
  /\ events = <<>>

\* Slip: the pallet's hook runs before the collective flip's.
InitializeBlockHooksSwapped ==
  /\ block_number < MaxBlock
  /\ block_number' = block_number + 1
  /\ \E h \in Hashes :
       /\ parent_hash' = Put(parent_hash, block_number', h)
       /\ random_material' = PushParentHash(random_material, block_number', h)
  /\ randomness_history' = OnInitialize(randomness_history, block_number', random_material)
  /\ events' = <<>>

\* Executive::initialize_block: frame_system sets the number and the parent hash
\* and clears the events, then the collective flip's hook and the pallet's run,
\* in the order of construct_runtime!.
InitializeBlock ==
  /\ block_number < MaxBlock
  /\ block_number' = block_number + 1
  /\ \E h \in Hashes :
       /\ parent_hash' = Put(parent_hash, block_number', h)
       /\ random_material' = PushParentHash(random_material, block_number', h)
  /\ randomness_history' = OnInitialize(randomness_history, block_number', random_material')
  /\ events' = <<>>

\* Executive::apply_extrinsic of a claim signed by who.  A claim that traps is
\* left out of the block with all its effects, so it is no step.  A claim never
\* writes the pallet's storage: a success and an error differ in the event only.
Claim(v, who) ==
  /\ block_number > 0
  /\ Len(events) < MaxExtrinsics
  /\ ClaimResult(v, who) # "Panic"
  /\ events' = Append(events, [voucher |-> v, who |-> who, result |-> ClaimResult(v, who)])
  /\ UNCHANGED <<block_number, parent_hash, random_material, randomness_history>>

Next ==
  \/ InitializeBlock
  \/ \E v \in Vouchers, who \in Accounts : Claim(v, who)

Spec == Init /\ [][Next]_vars

-----------------------------------------------------------------------------
(* Properties. *)

\* The blocks among 1..n that are fewer than len blocks behind n.
Recent(n, len) == {b \in 1..n : b > n - len}

\* The randomness block b has by its own header and those before it.
RandomnessOf(b) ==
  Random(b, [m \in Recent(b, RANDOM_MATERIAL_LEN) |-> parent_hash[m]])

\* Every variable has its type.
TypeOK ==
  /\ block_number \in 0..MaxBlock
  /\ parent_hash \in [1..block_number -> Hashes]
  /\ random_material \in [Recent(block_number, RANDOM_MATERIAL_LEN) -> Hashes]
  /\ DOMAIN randomness_history \subseteq 1..block_number
  /\ events \in Seq([voucher : Vouchers, who : Accounts, result : Errors \cup {"VoucherClaimed"}])
  /\ Len(events) <= MaxExtrinsics

\* RandomnessHistory holds exactly the last EPOCH_LENGTH blocks: on_initialize
\* forgets no block early, keeps none longer, and leaves no hole, although it
\* only ever removes the one key it computes with saturating_sub.
HistoryIsWindow == DOMAIN randomness_history = Recent(block_number, EPOCH_LENGTH)

\* Every stored randomness mixes the parent hash of its own block and the hashes
\* right before it, so it was unknown before that block: the pallet's hook sees
\* the ring the collective flip has just updated.
HistoryIsChainRandomness ==
  \A b \in DOMAIN randomness_history : randomness_history[b] = RandomnessOf(b)

\* A draw is made in the block it belongs to and never again: no later block
\* changes, restores or back-fills the randomness of an earlier one, so the
\* verdict on a voucher cannot flip and a voucher once too late stays too late.
DrawnOnce ==
  [][\A b \in 1..block_number :
       b \in DOMAIN randomness_history' =>
          /\ b \in DOMAIN randomness_history
          /\ randomness_history'[b] = randomness_history[b]]_vars

\* What the state means to VoucherLedger.
EntitledTo(v, who) ==
  /\ v.len >= VOUCHER_LEN
  /\ who = v.unsigned.recipient_pk
  /\ Verify(v.signature, v.unsigned, v.unsigned.sender_pk)
OracleBlockOf(v) == v.unsigned.oracle_block
DueBlockOf(v) == v.unsigned.no_redeem_before_block
Drawn == [b \in 1..block_number |-> RandomnessOf(b)]
Payouts ==
  [i \in 1..Len(events) |->
     [voucher |-> events[i].voucher, who |-> events[i].who,
      paid |-> events[i].result = "VoucherClaimed"]]

Ledger == INSTANCE VoucherLedger WITH
  WINDOW <- EPOCH_LENGTH, Entitled <- EntitledTo, OracleBlock <- OracleBlockOf,
  DueBlock <- DueBlockOf, Winning <- Wins,
  now <- block_number, drawn <- Drawn, payouts <- Payouts

\* Refinement: the pallet with its pruned map, bounded ring and ordered checks pays
\* exactly the claims the ledger that remembers every draw would pay.
LedgerSpec == Ledger!Spec

-----------------------------------------------------------------------------
(* What the documents say and the code does not do. *)

\* README.md:58-60: the oracle block lies in the era after the current block c and
\* the voucher is due two eras after c.  When it falls due, the randomness that
\* decides it can still be looked up.
RedeemableWhenDue ==
  \A c \in 0..block_number :
     block_number = c + 2 * EPOCH_LENGTH =>
       LET next == EPOCH_LENGTH * (c \div EPOCH_LENGTH + 1)
       IN  next..(next + EPOCH_LENGTH - 1) \subseteq DOMAIN randomness_history
=============================================================================
