--------------------- MODULE ProbabilisticPaymentsProofs ---------------------
(***************************************************************************)
(* Proofs about ProbabilisticPayments for every epoch length, ring size,   *)
(* set of vouchers and lottery hash: the retention window, what the stored *)
(* randomness is made of, that draws are final, and that the pallet        *)
(* implements VoucherLedger.                                               *)
(***************************************************************************)
EXTENDS ProbabilisticPayments, SequenceTheorems, TLAPS

\* The ring of the collective flip holds the latest parent hashes.
MaterialIsRecent ==
  random_material = [m \in Recent(block_number, RANDOM_MATERIAL_LEN) |-> parent_hash[m]]

\* The inductive invariant.  HistoryIsChainRandomness needs MaterialIsRecent: the
\* randomness of the new block is computed from the ring, not from the headers.
IInv == TypeOK /\ MaterialIsRecent /\ HistoryIsWindow /\ HistoryIsChainRandomness

-----------------------------------------------------------------------------
(* The windows and the maps kept over them. *)

\* The window of the next block: the new block in, the oldest one out.
LEMMA RecentStep ==
  ASSUME NEW n \in Nat, NEW len \in Nat \ {0}
  PROVE  Recent(n + 1, len) = (Recent(n, len) \cup {n + 1}) \ {(n + 1) - len}
BY DEF Recent

\* Nothing is recent before the first block.
LEMMA RecentZero ==
  ASSUME NEW len \in Nat
  PROVE  Recent(0, len) = {}
BY DEF Recent

\* A pushed ring covers the window of the new block.
LEMMA PushedMaterial ==
  ASSUME NEW n \in Nat, NEW material, NEW h,
         DOMAIN material = Recent(n, RANDOM_MATERIAL_LEN)
  PROVE  PushParentHash(material, n + 1, h) =
           [m \in Recent(n + 1, RANDOM_MATERIAL_LEN) |-> IF m = n + 1 THEN h ELSE material[m]]
<1> DEFINE pushed == Put(material, n + 1, h)
<1>1. Recent(n + 1, RANDOM_MATERIAL_LEN)
        = (Recent(n, RANDOM_MATERIAL_LEN) \cup {n + 1}) \ {(n + 1) - RANDOM_MATERIAL_LEN}
  BY RecentStep, MaterialAssumption
<1>2. pushed = [m \in Recent(n, RANDOM_MATERIAL_LEN) \cup {n + 1} |->
                  IF m = n + 1 THEN h ELSE material[m]]
  BY DEF Put
<1>3. PushParentHash(material, n + 1, h) = Kill(pushed, (n + 1) - RANDOM_MATERIAL_LEN)
  BY DEF PushParentHash
<1>. HIDE DEF pushed
<1>. QED
  BY <1>1, <1>2, <1>3 DEF Kill

\* The hook leaves the window of the new block, the old entries untouched.
LEMMA InitializedHistory ==
  ASSUME NEW n \in Nat, NEW history, NEW material,
         DOMAIN history = Recent(n, EPOCH_LENGTH)
  PROVE  OnInitialize(history, n + 1, material) =
           [b \in Recent(n + 1, EPOCH_LENGTH) |->
              IF b = n + 1 THEN Random(n + 1, material) ELSE history[b]]
<1> DEFINE stored == Put(history, n + 1, Random(n + 1, material))
<1>1. Recent(n + 1, EPOCH_LENGTH)
        = (Recent(n, EPOCH_LENGTH) \cup {n + 1}) \ {(n + 1) - EPOCH_LENGTH}
  BY RecentStep, EpochAssumption
<1>2. stored = [b \in Recent(n, EPOCH_LENGTH) \cup {n + 1} |->
                  IF b = n + 1 THEN Random(n + 1, material) ELSE history[b]]
  BY DEF Put
<1>3. CASE n + 1 > EPOCH_LENGTH
  <2>1. OnInitialize(history, n + 1, material) = Kill(stored, (n + 1) - EPOCH_LENGTH)
    BY <1>3, EpochAssumption DEF OnInitialize, SaturatingSub
  <2>. QED
    BY <1>1, <1>2, <2>1 DEF Kill
<1>4. CASE ~ (n + 1 > EPOCH_LENGTH)
  <2>1. OnInitialize(history, n + 1, material) = stored
    BY <1>4, EpochAssumption DEF OnInitialize, SaturatingSub
  <2>2. Recent(n + 1, EPOCH_LENGTH) = Recent(n, EPOCH_LENGTH) \cup {n + 1}
    BY <1>4, EpochAssumption DEF Recent
  <2>. QED
    BY <1>2, <2>1, <2>2
<1>. QED
  BY <1>3, <1>4

\* The randomness of a block that is in the chain does not depend on later headers.
LEMMA RandomnessKept ==
  ASSUME block_number \in Nat, DOMAIN parent_hash = 1..block_number,
         NEW h, parent_hash' = Put(parent_hash, block_number + 1, h),
         NEW b \in 1..block_number
  PROVE  RandomnessOf(b)' = RandomnessOf(b)
<1>1. \A m \in Recent(b, RANDOM_MATERIAL_LEN) : parent_hash'[m] = parent_hash[m]
  BY DEF Put, Recent
<1>. QED
  BY <1>1, Zenon DEF RandomnessOf, Random

-----------------------------------------------------------------------------
(* The invariant. *)

\* The invariant holds before the first block.
LEMMA InitIInv == Init => IInv
<1>. SUFFICES ASSUME Init PROVE IInv
  OBVIOUS
<1>1. Recent(block_number, RANDOM_MATERIAL_LEN) = {} /\ Recent(block_number, EPOCH_LENGTH) = {}
  BY RecentZero, MaterialAssumption, EpochAssumption DEF Init
<1>2. TypeOK
  BY <1>1, BoundsAssumption DEF Init, TypeOK
<1>3. MaterialIsRecent /\ HistoryIsWindow /\ HistoryIsChainRandomness
  BY <1>1 DEF Init, MaterialIsRecent, HistoryIsWindow, HistoryIsChainRandomness
<1>. QED
  BY <1>2, <1>3 DEF IInv

\* What initialising a block does to the maps.
LEMMA InitializeBlockEffect ==
  ASSUME IInv, NEW h \in Hashes,
         block_number' = block_number + 1,
         parent_hash' = Put(parent_hash, block_number', h),
         random_material' = PushParentHash(random_material, block_number', h),
         randomness_history' = OnInitialize(randomness_history, block_number', random_material')
  PROVE  /\ block_number \in Nat
         /\ parent_hash' \in [1..block_number' -> Hashes]
         /\ random_material' \in [Recent(block_number', RANDOM_MATERIAL_LEN) -> Hashes]
         /\ MaterialIsRecent'
         /\ randomness_history' =
              [b \in Recent(block_number', EPOCH_LENGTH) |->
                 IF b = block_number' THEN Random(block_number', random_material')
                                      ELSE randomness_history[b]]
<1>1. /\ block_number \in Nat
      /\ parent_hash \in [1..block_number -> Hashes]
      /\ DOMAIN random_material = Recent(block_number, RANDOM_MATERIAL_LEN)
      /\ DOMAIN randomness_history = Recent(block_number, EPOCH_LENGTH)
  BY BoundsAssumption DEF IInv, TypeOK, HistoryIsWindow
<1>2. parent_hash' = [b \in 1..block_number' |-> IF b = block_number' THEN h ELSE parent_hash[b]]
  <2>1. (1..block_number) \cup {block_number + 1} = 1..(block_number + 1)
    BY <1>1
  <2>. QED
    BY <1>1, <2>1 DEF Put
<1>3. random_material' = [m \in Recent(block_number', RANDOM_MATERIAL_LEN) |->
                            IF m = block_number' THEN h ELSE random_material[m]]
  BY <1>1, PushedMaterial
<1>4. \A m \in Recent(block_number', RANDOM_MATERIAL_LEN) :
        /\ m \in 1..block_number'
        /\ m # block_number' => /\ m \in Recent(block_number, RANDOM_MATERIAL_LEN)
                                /\ m \in 1..block_number
                                /\ random_material[m] = parent_hash[m]
  <2>. SUFFICES ASSUME NEW m \in Recent(block_number', RANDOM_MATERIAL_LEN)
                PROVE  /\ m \in 1..block_number'
                       /\ m # block_number' => /\ m \in Recent(block_number, RANDOM_MATERIAL_LEN)
                                               /\ m \in 1..block_number
                                               /\ random_material[m] = parent_hash[m]
    OBVIOUS
  <2>1. /\ m \in 1..block_number'
        /\ m # block_number' => /\ m \in Recent(block_number, RANDOM_MATERIAL_LEN)
                                /\ m \in 1..block_number
    BY <1>1, MaterialAssumption DEF Recent
  <2>2. m \in Recent(block_number, RANDOM_MATERIAL_LEN) => random_material[m] = parent_hash[m]
    BY DEF IInv, MaterialIsRecent
  <2>. QED
    BY <2>1, <2>2
<1>5. parent_hash' \in [1..block_number' -> Hashes]
  BY <1>1, <1>2
<1>6. \A m \in Recent(block_number', RANDOM_MATERIAL_LEN) : random_material'[m] = parent_hash'[m]
  BY <1>2, <1>3, <1>4
<1>7. MaterialIsRecent'
  BY <1>3, <1>6 DEF MaterialIsRecent
<1>8. random_material' \in [Recent(block_number', RANDOM_MATERIAL_LEN) -> Hashes]
  BY <1>3, <1>4, <1>5, <1>6
<1>9. randomness_history' =
        [b \in Recent(block_number', EPOCH_LENGTH) |->
           IF b = block_number' THEN Random(block_number', random_material')
                                ELSE randomness_history[b]]
  BY <1>1, InitializedHistory
<1>. QED
  BY <1>1, <1>5, <1>7, <1>8, <1>9

\* Initialising a block preserves the invariant.
LEMMA InitializeBlockIInv == IInv /\ InitializeBlock => IInv'
<1>. SUFFICES ASSUME IInv, InitializeBlock PROVE IInv'
  OBVIOUS
<1>1. PICK h \in Hashes : /\ parent_hash' = Put(parent_hash, block_number', h)
                          /\ random_material' = PushParentHash(random_material, block_number', h)
  BY DEF InitializeBlock
<1>2. /\ block_number < MaxBlock
      /\ block_number' = block_number + 1
      /\ randomness_history' = OnInitialize(randomness_history, block_number', random_material')
      /\ events' = <<>>
  BY DEF InitializeBlock
<1>3. /\ block_number \in Nat
      /\ parent_hash' \in [1..block_number' -> Hashes]
      /\ random_material' \in [Recent(block_number', RANDOM_MATERIAL_LEN) -> Hashes]
      /\ MaterialIsRecent'
      /\ randomness_history' =
           [b \in Recent(block_number', EPOCH_LENGTH) |->
              IF b = block_number' THEN Random(block_number', random_material')
                                   ELSE randomness_history[b]]
  BY <1>1, <1>2, InitializeBlockEffect
<1>4. HistoryIsWindow'
  BY <1>3 DEF HistoryIsWindow
<1>5. TypeOK'
  <2>1. DOMAIN randomness_history' \subseteq 1..block_number'
    BY <1>4 DEF HistoryIsWindow, Recent
  <2>2. block_number' \in 0..MaxBlock
    BY <1>2, <1>3, BoundsAssumption
  <2>3. /\ events' \in Seq([voucher : Vouchers, who : Accounts,
                            result : Errors \cup {"VoucherClaimed"}])
        /\ Len(events') <= MaxExtrinsics
    BY <1>2, BoundsAssumption
  <2>. QED
    BY <1>3, <2>1, <2>2, <2>3 DEF TypeOK
<1>6. HistoryIsChainRandomness'
  <2>. SUFFICES ASSUME NEW b \in Recent(block_number', EPOCH_LENGTH)
                PROVE  randomness_history'[b] = RandomnessOf(b)'
    BY <1>3, Zenon DEF HistoryIsChainRandomness
  <2>1. CASE b = block_number'
    <3>1. randomness_history'[b] = Random(block_number', random_material')
      BY <1>3, <2>1
    <3>2. random_material' = [m \in Recent(b, RANDOM_MATERIAL_LEN) |-> parent_hash'[m]]
      BY <1>3, <2>1 DEF MaterialIsRecent
    <3>3. Random(block_number', random_material') = RandomnessOf(b)'
      BY <2>1, <3>2, Zenon DEF RandomnessOf
    <3>. QED
      BY <3>1, <3>3
  <2>2. CASE b # block_number'
    <3>1. b \in Recent(block_number, EPOCH_LENGTH) /\ b \in 1..block_number
      BY <1>2, <1>3, <2>2, EpochAssumption DEF Recent
    <3>2. randomness_history[b] = RandomnessOf(b)
      BY <3>1 DEF IInv, HistoryIsWindow, HistoryIsChainRandomness
    <3>3. RandomnessOf(b)' = RandomnessOf(b)
      BY <1>1, <1>2, <1>3, <3>1, RandomnessKept DEF IInv, TypeOK
    <3>. QED
      BY <1>3, <2>2, <3>2, <3>3
  <2>. QED
    BY <2>1, <2>2
<1>. QED
  BY <1>3, <1>4, <1>5, <1>6 DEF IInv

\* A claim preserves the invariant.
LEMMA ClaimIInv ==
  ASSUME IInv, NEW v \in Vouchers, NEW who \in Accounts, Claim(v, who)
  PROVE  IInv'
<1>1. ClaimResult(v, who) \in Errors \cup {"VoucherClaimed"}
  BY DEF Claim, ClaimResult, Errors
<1>2. TypeOK'
  BY <1>1, BoundsAssumption DEF Claim, IInv, TypeOK
<1>3. MaterialIsRecent' /\ HistoryIsWindow'
  BY DEF Claim, IInv, MaterialIsRecent, HistoryIsWindow
<1>4. HistoryIsChainRandomness'
  BY DEF Claim, IInv, HistoryIsChainRandomness, RandomnessOf
<1>. QED
  BY <1>2, <1>3, <1>4 DEF IInv

\* Every step preserves the invariant.
LEMMA NextIInv == IInv /\ [Next]_vars => IInv'
<1>. SUFFICES ASSUME IInv, [Next]_vars PROVE IInv'
  OBVIOUS
<1>1. CASE InitializeBlock
  BY <1>1, InitializeBlockIInv
<1>2. CASE \E v \in Vouchers, who \in Accounts : Claim(v, who)
  BY <1>2, ClaimIInv
<1>3. CASE UNCHANGED vars
  BY <1>3 DEF vars, IInv, TypeOK, MaterialIsRecent, HistoryIsWindow,
              HistoryIsChainRandomness, RandomnessOf
<1>. QED
  BY <1>1, <1>2, <1>3 DEF Next

\* The invariant holds in every reachable state.
LEMMA Invariance == Spec => []IInv
BY InitIInv, NextIInv, PTL DEF Spec

\* Every variable keeps its type, for every set of vouchers and every bound.
THEOREM TypeCorrect == Spec => []TypeOK
<1>1. IInv => TypeOK
  BY DEF IInv
<1>. QED
  BY <1>1, Invariance, PTL

\* on_initialize keeps exactly the last EPOCH_LENGTH blocks, whatever EPOCH_LENGTH is.
THEOREM RetentionWindow == Spec => []HistoryIsWindow
<1>1. IInv => HistoryIsWindow
  BY DEF IInv
<1>. QED
  BY <1>1, Invariance, PTL

\* The stored randomness of a block mixes its own parent hash and the hashes before.
THEOREM ChainRandomness == Spec => []HistoryIsChainRandomness
<1>1. IInv => HistoryIsChainRandomness
  BY DEF IInv
<1>. QED
  BY <1>1, Invariance, PTL

-----------------------------------------------------------------------------
(* The documented calendar. *)

\* Rounding down to an era and one era on never leads further than one era on.
LEMMA NextEraIsNear ==
  ASSUME NEW c \in Nat, NEW e \in Nat \ {0}
  PROVE  e * (c \div e + 1) \in Nat /\ e * (c \div e + 1) <= c + e
<1> DEFINE q == c \div e
           p == e * q
<1>1. q \in Nat /\ c % e \in 0..(e - 1) /\ c = e * q + (c % e)
  OBVIOUS
<1>. HIDE DEF q
<1>2. p \in Nat
  BY <1>1
<1>3. e * (q + 1) = p + e
  BY <1>1
<1>. HIDE DEF p
<1>4. c = p + (c % e)
  BY <1>1 DEF p
<1>. QED
  BY <1>1, <1>2, <1>3, <1>4 DEF q

\* From the second era on, there is no block at which the calendar of README.md:58-60
\* works: when a voucher drawn in the era after block c falls due two eras after c, the
\* randomness of the first block of that era is gone, whatever the length of an era.
THEOREM NeverRedeemableWhenDue ==
  Spec => [](block_number >= 2 * EPOCH_LENGTH => ~ RedeemableWhenDue)
<1>1. IInv => (block_number >= 2 * EPOCH_LENGTH => ~ RedeemableWhenDue)
  <2>. SUFFICES ASSUME IInv, block_number >= 2 * EPOCH_LENGTH, RedeemableWhenDue
                PROVE  FALSE
    OBVIOUS
  <2> DEFINE c == block_number - 2 * EPOCH_LENGTH
             next == EPOCH_LENGTH * (c \div EPOCH_LENGTH + 1)
  <2>1. EPOCH_LENGTH \in Nat \ {0} /\ block_number \in Nat
    BY EpochAssumption, BoundsAssumption DEF IInv, TypeOK
  <2>2. c \in 0..block_number /\ c \in Nat /\ block_number = c + 2 * EPOCH_LENGTH
    BY <2>1
  <2>3. next..(next + EPOCH_LENGTH - 1) \subseteq DOMAIN randomness_history
    BY <2>2 DEF RedeemableWhenDue
  <2>4. next \in Nat /\ next <= c + EPOCH_LENGTH
    BY <2>1, <2>2, NextEraIsNear
  <2>. HIDE DEF next, c
  <2>5. next \in DOMAIN randomness_history
    BY <2>1, <2>3, <2>4
  <2>6. next > block_number - EPOCH_LENGTH
    BY <2>5 DEF IInv, HistoryIsWindow, Recent
  <2>. QED
    BY <2>1, <2>2, <2>4, <2>6
<1>. QED
  BY <1>1, Invariance, PTL

-----------------------------------------------------------------------------
(* Draws are final. *)

\* Initialising a block neither changes nor restores the draw of an earlier block.
LEMMA InitializeBlockKeepsDraws ==
  ASSUME IInv, InitializeBlock, NEW b \in 1..block_number, b \in DOMAIN randomness_history'
  PROVE  /\ b \in DOMAIN randomness_history
         /\ randomness_history'[b] = randomness_history[b]
<1>1. PICK h \in Hashes : /\ parent_hash' = Put(parent_hash, block_number', h)
                          /\ random_material' = PushParentHash(random_material, block_number', h)
  BY DEF InitializeBlock
<1>2. /\ block_number' = block_number + 1
      /\ randomness_history' = OnInitialize(randomness_history, block_number', random_material')
  BY DEF InitializeBlock
<1>3. /\ block_number \in Nat
      /\ randomness_history' =
           [c \in Recent(block_number', EPOCH_LENGTH) |->
              IF c = block_number' THEN Random(block_number', random_material')
                                   ELSE randomness_history[c]]
  BY <1>1, <1>2, InitializeBlockEffect
<1>4. b \in Recent(block_number, EPOCH_LENGTH) /\ b # block_number'
  BY <1>2, <1>3, EpochAssumption DEF Recent
<1>. QED
  BY <1>3, <1>4 DEF IInv, HistoryIsWindow

\* No step changes or restores the draw of an earlier block.
LEMMA StepKeepsDraws ==
  ASSUME IInv, [Next]_vars, NEW b \in 1..block_number, b \in DOMAIN randomness_history'
  PROVE  /\ b \in DOMAIN randomness_history
         /\ randomness_history'[b] = randomness_history[b]
<1>1. CASE InitializeBlock
  BY <1>1, InitializeBlockKeepsDraws
<1>2. CASE \E v \in Vouchers, who \in Accounts : Claim(v, who)
  BY <1>2 DEF Claim
<1>3. CASE UNCHANGED vars
  BY <1>3 DEF vars
<1>. QED
  BY <1>1, <1>2, <1>3 DEF Next

\* The draw of a block never changes and never comes back once it is forgotten.
THEOREM DrawsAreFinal == Spec => DrawnOnce
<1>1. IInv /\ [Next]_vars =>
        [\A b \in 1..block_number :
           b \in DOMAIN randomness_history' =>
              /\ b \in DOMAIN randomness_history
              /\ randomness_history'[b] = randomness_history[b]]_vars
  BY StepKeepsDraws
<1>. QED
  BY <1>1, Invariance, PTL DEF Spec, DrawnOnce

\* The verdict of the draw on a voucher, that it won or that it did not, is the same for
\* every later claim of it, in this block and all that follow, until its oracle block is
\* forgotten: nothing that is claimed or drawn meanwhile turns a blank into a prize, and
\* a prize is paid again for each claim (lib.rs:204).
THEOREM VerdictsStand ==
  Spec => [][\A v \in Vouchers, who \in Accounts :
               /\ ClaimResult(v, who) \in {"VoucherClaimed", "VoucherDidNotWin"}
               /\ v.unsigned.oracle_block \in DOMAIN randomness_history'
               => ClaimResult(v, who)' = ClaimResult(v, who)]_vars
<1>1. ASSUME IInv, [Next]_vars, NEW v \in Vouchers, NEW who \in Accounts,
             ClaimResult(v, who) \in {"VoucherClaimed", "VoucherDidNotWin"},
             v.unsigned.oracle_block \in DOMAIN randomness_history'
      PROVE  ClaimResult(v, who)' = ClaimResult(v, who)
  <2> DEFINE o == v.unsigned.oracle_block
  <2>1. /\ v.len >= VOUCHER_LEN
        /\ v.unsigned.recipient_pk = who
        /\ ~ block_number < v.unsigned.no_redeem_before_block
        /\ Verify(v.signature, v.unsigned, v.unsigned.sender_pk)
        /\ o \in DOMAIN randomness_history
        /\ v.unsigned.difficulty # 0
    BY <1>1, VoucherAssumption DEF ClaimResult
  <2>2. o \in 1..block_number
    BY <1>1, <2>1 DEF IInv, TypeOK
  <2>3. randomness_history'[o] = randomness_history[o]
    BY <1>1, <2>2, StepKeepsDraws
  <2>4. /\ block_number \in Nat /\ v.unsigned.no_redeem_before_block \in Nat
        /\ v.len \in Nat /\ VOUCHER_LEN \in Nat
    BY <1>1, VoucherAssumption, BoundsAssumption DEF IInv, TypeOK
  <2>5. block_number' = block_number \/ block_number' = block_number + 1
    BY <1>1 DEF Next, InitializeBlock, Claim, vars
  <2>6. ~ block_number' < v.unsigned.no_redeem_before_block
    BY <2>1, <2>4, <2>5
  <2>7. ClaimResult(v, who) = IF ~ Wins(v, randomness_history[o]) THEN "VoucherDidNotWin"
                                                                  ELSE "VoucherClaimed"
    BY <2>1, <2>4 DEF ClaimResult
  <2>8. ClaimResult(v, who)' = IF ~ Wins(v, randomness_history'[o]) THEN "VoucherDidNotWin"
                                                                    ELSE "VoucherClaimed"
    BY <1>1, <2>1, <2>4, <2>6 DEF ClaimResult
  <2>. QED
    BY <2>3, <2>7, <2>8
<1>2. IInv /\ [Next]_vars =>
        [\A v \in Vouchers, who \in Accounts :
           /\ ClaimResult(v, who) \in {"VoucherClaimed", "VoucherDidNotWin"}
           /\ v.unsigned.oracle_block \in DOMAIN randomness_history'
           => ClaimResult(v, who)' = ClaimResult(v, who)]_vars
  BY <1>1
<1>. QED
  BY <1>2, Invariance, PTL DEF Spec

-----------------------------------------------------------------------------
(* The pallet implements the ledger. *)

\* A claim that does not trap succeeds exactly when the ledger pays it: the pruned
\* map answers like the full record of draws.
LEMMA ClaimPays ==
  ASSUME IInv, NEW v \in Vouchers, NEW who \in Accounts, ClaimResult(v, who) # "Panic"
  PROVE  (ClaimResult(v, who) = "VoucherClaimed") <=> Ledger!Pays(v, who)
<1> DEFINE o == v.unsigned.oracle_block
<1>1. /\ block_number \in Nat
      /\ o \in Nat
      /\ v.unsigned.no_redeem_before_block \in Nat
      /\ v.len \in Nat
  BY VoucherAssumption, BoundsAssumption DEF IInv, TypeOK
<1>2. o \in DOMAIN randomness_history <=> o \in 1..block_number /\ o > block_number - EPOCH_LENGTH
  BY DEF IInv, HistoryIsWindow, Recent
<1>3. o \in DOMAIN randomness_history => randomness_history[o] = Drawn[o]
  BY <1>2 DEF IInv, HistoryIsChainRandomness, Drawn
<1>4. Ledger!Pays(v, who) <=>
        /\ EntitledTo(v, who)
        /\ block_number >= v.unsigned.no_redeem_before_block
        /\ o \in 1..block_number
        /\ o > block_number - EPOCH_LENGTH
        /\ Wins(v, Drawn[o])
  BY DEF Ledger!Pays, OracleBlockOf, DueBlockOf
<1>. QED
  BY <1>1, <1>2, <1>3, <1>4, VoucherAssumption DEF ClaimResult, EntitledTo

\* The pallet starts as the ledger does.
LEMMA InitLedger == Init => Ledger!Init
BY DEF Init, Ledger!Init, Drawn, Payouts

\* Initialising a block is one more draw.
LEMMA InitializeBlockLedger == IInv /\ InitializeBlock => Ledger!NextBlock
<1>. SUFFICES ASSUME IInv, InitializeBlock PROVE Ledger!NextBlock
  OBVIOUS
<1>1. PICK h \in Hashes : parent_hash' = Put(parent_hash, block_number', h)
  BY DEF InitializeBlock
<1>2. block_number' = block_number + 1 /\ events' = <<>>
  BY DEF InitializeBlock
<1>3. block_number \in Nat /\ DOMAIN parent_hash = 1..block_number
  BY DEF IInv, TypeOK
<1>4. \A b \in 1..block_number : RandomnessOf(b)' = RandomnessOf(b)
  BY <1>1, <1>2, <1>3, RandomnessKept
<1>5. Drawn' = [b \in 1..block_number' |-> RandomnessOf(b)']
  BY DEF Drawn
<1>6. \A b \in 1..block_number : Drawn'[b] = Drawn[b]
  BY <1>2, <1>3, <1>4, <1>5 DEF Drawn
<1>7. Payouts' = <<>>
  BY <1>2 DEF Payouts
<1>. QED
  BY <1>2, <1>5, <1>6, <1>7 DEF Ledger!NextBlock

\* A sequence with an element appended, as a function.
LEMMA AppendedSequence ==
  ASSUME NEW T, NEW s \in Seq(T), NEW x \in T
  PROVE  /\ Append(s, x) = [i \in 1..(Len(s) + 1) |-> IF i = Len(s) + 1 THEN x ELSE s[i]]
         /\ Len(Append(s, x)) = Len(s) + 1
<1> DEFINE t == Append(s, x)
<1>1. /\ t \in Seq(T)
      /\ Len(t) = Len(s) + 1
      /\ \A i \in 1..Len(s) : t[i] = s[i]
      /\ t[Len(s) + 1] = x
      /\ Len(s) \in Nat
  BY AppendProperties, LenProperties
<1>. HIDE DEF t
<1>2. t = [i \in 1..Len(t) |-> t[i]]
  BY <1>1, LenProperties
<1>3. \A i \in 1..(Len(s) + 1) : t[i] = IF i = Len(s) + 1 THEN x ELSE s[i]
  BY <1>1
<1>4. t = [i \in 1..(Len(s) + 1) |-> IF i = Len(s) + 1 THEN x ELSE s[i]]
  BY <1>1, <1>2, <1>3, Zenon
<1>. QED
  BY <1>1, <1>4 DEF t

\* A claim is a decision of the ledger.
LEMMA ClaimLedger ==
  ASSUME IInv, NEW v \in Vouchers, NEW who \in Accounts, Claim(v, who)
  PROVE  Ledger!Decide
<1> DEFINE event == [voucher : Vouchers, who : Accounts, result : Errors \cup {"VoucherClaimed"}]
           payout == [voucher : Vouchers, who : Accounts, paid : BOOLEAN]
           PayoutOf(x) == [voucher |-> x.voucher, who |-> x.who,
                           paid |-> x.result = "VoucherClaimed"]
           e == [voucher |-> v, who |-> who, result |-> ClaimResult(v, who)]
<1>1. events' = Append(events, e) /\ block_number > 0 /\ ClaimResult(v, who) # "Panic"
  BY DEF Claim
<1>2. UNCHANGED <<block_number, parent_hash>>
  BY DEF Claim
<1>3. Drawn' = Drawn
  BY <1>2 DEF Drawn, RandomnessOf
<1>4. events \in Seq(event) /\ e \in event
  <2>1. ClaimResult(v, who) \in Errors \cup {"VoucherClaimed"}
    BY <1>1 DEF ClaimResult, Errors
  <2>. QED
    BY <2>1 DEF IInv, TypeOK
<1>5. \A x \in event : PayoutOf(x) \in payout
  BY Zenon
<1>6. /\ Payouts = [i \in 1..Len(events) |-> PayoutOf(events[i])]
      /\ Payouts' = [i \in 1..Len(events') |-> PayoutOf(events'[i])]
  BY Zenon DEF Payouts
<1>7. /\ PayoutOf(e).voucher = v
      /\ PayoutOf(e).who = who
      /\ PayoutOf(e).paid <=> Ledger!Pays(v, who)
  <2>1. e.voucher = v /\ e.who = who /\ e.result = ClaimResult(v, who)
    BY Zenon
  <2>2. PayoutOf(e).paid = (e.result = "VoucherClaimed")
    BY Zenon
  <2>3. PayoutOf(e).voucher = e.voucher /\ PayoutOf(e).who = e.who
    BY Zenon
  <2>. QED
    BY <1>1, <2>1, <2>2, <2>3, ClaimPays, Zenon
<1>. HIDE DEF PayoutOf, event, payout, e
<1>8. /\ Len(events) \in Nat
      /\ Len(events') = Len(events) + 1
      /\ events'[Len(events) + 1] = e
      /\ \A i \in 1..Len(events) : events'[i] = events[i] /\ events[i] \in event
  BY <1>1, <1>4
<1>9. Payouts \in Seq(payout) /\ Len(Payouts) = Len(events)
  BY <1>5, <1>6, <1>8
<1>10. Payouts' = [i \in 1..(Len(events) + 1) |->
                     IF i = Len(events) + 1 THEN PayoutOf(e) ELSE Payouts[i]]
  BY <1>6, <1>8
<1>11. Payouts' = Append(Payouts, PayoutOf(e)) /\ Len(Payouts') = Len(Payouts) + 1
  <2>1. PayoutOf(e) \in payout
    BY <1>4, <1>5
  <2>. QED
    BY <1>9, <1>10, <2>1, AppendedSequence
<1>12. Payouts'[Len(Payouts')] = PayoutOf(e)
  BY <1>8, <1>9, <1>10, <1>11
<1>. QED
  BY <1>1, <1>2, <1>3, <1>7, <1>11, <1>12, Zenon DEF Ledger!Decide

\* The pallet implements VoucherLedger: a claim is paid exactly when the ledger that
\* remembers every draw would pay it.
THEOREM Refinement == Spec => LedgerSpec
<1>1. Init => Ledger!Init
  BY InitLedger
<1>2. IInv /\ [Next]_vars => [Ledger!Next]_(Ledger!vars)
  <2>. SUFFICES ASSUME IInv, [Next]_vars PROVE [Ledger!Next]_(Ledger!vars)
    OBVIOUS
  <2>1. CASE InitializeBlock
    BY <2>1, InitializeBlockLedger DEF Ledger!Next
  <2>2. CASE \E v \in Vouchers, who \in Accounts : Claim(v, who)
    BY <2>2, ClaimLedger DEF Ledger!Next
  <2>3. CASE UNCHANGED vars
    BY <2>3 DEF vars, Ledger!vars, Drawn, Payouts, RandomnessOf
  <2>. QED
    BY <2>1, <2>2, <2>3 DEF Next
<1>. QED
  BY <1>1, <1>2, Invariance, PTL DEF Spec, LedgerSpec, Ledger!Spec

-----------------------------------------------------------------------------
(* What the nodes of a network agree on. *)

\* The draw of block b on the chain with the given headers.
DrawOn(headers, b) == Random(b, [m \in Recent(b, RANDOM_MATERIAL_LEN) |-> headers[m]])

\* What a claim in block n of the chain with the given headers comes to.
ResultOn(n, headers, v, who) ==
  LET u == v.unsigned IN
  IF      v.len < VOUCHER_LEN                              THEN "InvalidVoucher"
  ELSE IF u.recipient_pk # who                             THEN "InvalidRecipient"
  ELSE IF n < u.no_redeem_before_block                     THEN "ClaimedTooSoonOrLate"
  ELSE IF ~ Verify(v.signature, u, u.sender_pk)            THEN "InvalidVoucherSignature"
  ELSE IF u.oracle_block \notin Recent(n, EPOCH_LENGTH)    THEN "ClaimedTooSoonOrLate"
  ELSE IF u.difficulty = 0                                 THEN "Panic"
  ELSE IF ~ Wins(v, DrawOn(headers, u.oracle_block))       THEN "VoucherDidNotWin"
  ELSE "VoucherClaimed"

EventsFollowChain ==
  \A i \in 1..Len(events) :
    events[i].result = ResultOn(block_number, parent_hash, events[i].voucher, events[i].who)

\* The storage of the pallet answers a claim like the headers of the chain.
LEMMA ClaimFollowsChain ==
  ASSUME IInv, NEW v, NEW who
  PROVE  ClaimResult(v, who) = ResultOn(block_number, parent_hash, v, who)
<1> DEFINE o == v.unsigned.oracle_block
<1>1. DOMAIN randomness_history = Recent(block_number, EPOCH_LENGTH)
  BY DEF IInv, HistoryIsWindow
<1>2. o \in DOMAIN randomness_history => randomness_history[o] = DrawOn(parent_hash, o)
  BY Zenon DEF IInv, HistoryIsChainRandomness, RandomnessOf, DrawOn
<1>. QED
  BY <1>1, <1>2 DEF ClaimResult, ResultOn

\* The events of every block say of its claims what the headers of its chain make of them:
\* neither the claims before, nor the pruning, nor anything else the storage went through
\* has a part in it, so nodes on one chain agree on every payout (lib.rs:178-207).
THEOREM OutcomesFollowTheChain == Spec => []EventsFollowChain
<1>1. Init => EventsFollowChain
  BY DEF Init, EventsFollowChain
<1>2. ASSUME IInv, EventsFollowChain, [Next]_vars PROVE EventsFollowChain'
  <2>1. CASE InitializeBlock
    <3>1. events' = <<>>
      BY <2>1 DEF InitializeBlock
    <3>. QED
      BY <3>1 DEF EventsFollowChain
  <2>2. ASSUME NEW v \in Vouchers, NEW who \in Accounts, Claim(v, who) PROVE EventsFollowChain'
    <3> DEFINE event == [voucher : Vouchers, who : Accounts, result : Errors \cup {"VoucherClaimed"}]
               e == [voucher |-> v, who |-> who, result |-> ClaimResult(v, who)]
    <3>1. events' = Append(events, e) /\ block_number' = block_number /\ parent_hash' = parent_hash
      BY <2>2 DEF Claim
    <3>2. events \in Seq(event)
      BY <1>2 DEF IInv, TypeOK
    <3>3. e.voucher = v /\ e.who = who /\ e.result = ResultOn(block_number, parent_hash, v, who)
      BY <1>2, ClaimFollowsChain
    <3>. HIDE DEF event, e
    <3>4. /\ Len(events) \in Nat /\ Len(events') = Len(events) + 1
          /\ \A i \in 1..Len(events) : events'[i] = events[i]
          /\ events'[Len(events) + 1] = e
      BY <3>1, <3>2
    <3>5. ASSUME NEW i \in 1..Len(events')
          PROVE  events'[i].result
                   = ResultOn(block_number, parent_hash, events'[i].voucher, events'[i].who)
      <4>1. CASE i \in 1..Len(events)
        BY <1>2, <3>4, <4>1 DEF EventsFollowChain
      <4>2. CASE i = Len(events) + 1
        BY <3>3, <3>4, <4>2
      <4>3. i \in 1..Len(events) \/ i = Len(events) + 1
        BY <3>4
      <4>. QED
        BY <4>1, <4>2, <4>3
    <3>. QED
      BY <3>1, <3>5 DEF EventsFollowChain
  <2>3. CASE UNCHANGED vars
    BY <1>2, <2>3 DEF vars, EventsFollowChain
  <2>. QED
    BY <1>2, <2>1, <2>2, <2>3 DEF Next
<1>. QED
  BY <1>1, <1>2, Invariance, PTL DEF Spec

\* On two chains that are one up to the oracle block of a voucher, and may differ in length
\* and in every later block, a claim that is decided on both is decided the same on both
\* (lib.rs:196-204): once the oracle block is final, so is the verdict.
THEOREM BranchesAgree ==
  ASSUME NEW m \in Nat, NEW n \in Nat, NEW left, NEW right, NEW v \in Vouchers, NEW who \in Accounts,
         \A b \in 1..v.unsigned.oracle_block : left[b] = right[b],
         ResultOn(m, left, v, who) \in {"VoucherClaimed", "VoucherDidNotWin"},
         ResultOn(n, right, v, who) \in {"VoucherClaimed", "VoucherDidNotWin"}
  PROVE  ResultOn(m, left, v, who) = ResultOn(n, right, v, who)
<1> DEFINE o == v.unsigned.oracle_block
           verdict(r) == IF ~ Wins(v, r) THEN "VoucherDidNotWin" ELSE "VoucherClaimed"
<1>1. ASSUME NEW k \in Nat, NEW headers,
             ResultOn(k, headers, v, who) \in {"VoucherClaimed", "VoucherDidNotWin"}
      PROVE  ResultOn(k, headers, v, who) = verdict(DrawOn(headers, o))
  BY <1>1 DEF ResultOn
<1>2. \A b \in Recent(o, RANDOM_MATERIAL_LEN) : left[b] = right[b]
  BY DEF Recent
<1>3. DrawOn(left, o) = DrawOn(right, o)
  BY <1>2, Zenon DEF DrawOn
<1>. HIDE DEF verdict, o
<1>. QED
  BY <1>1, <1>3
=============================================================================
