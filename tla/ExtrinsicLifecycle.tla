------------------------- MODULE ExtrinsicLifecycle -------------------------
(***************************************************************************)
(* Signed extrinsics of the chain, from the signature to the block:        *)
(* blockchain/runtime/src/lib.rs (create_transaction, SignedExtra, the     *)
(* storage frame_system is configured with) and the builder of             *)
(* blockchain/node/src/benchmarking.rs.                                    *)
(*                                                                         *)
(* An extrinsic is signed for an era of blocks on one branch, then lies in *)
(* pools and on the wire: it may be applied late, repeatedly, out of order *)
(* or on another branch, and a block may be left for a fork with the       *)
(* storage it had.  The signed extensions decide.  Their code and the      *)
(* executive are outside the repository, which composes and configures     *)
(* them.                                                                   *)
(***************************************************************************)
EXTENDS Integers, Sequences, FiniteSets

CONSTANTS
  Accounts,        \* the accounts that sign
  BlockHashCount,  \* block hashes the storage keeps (2400)
  MaxBlock,        \* bound: the height of the chain
  MaxForks,        \* bound: how often the best branch changes
  MaxSigned,       \* bound: the height up to which extrinsics are signed
  MaxMade,         \* bound: the extrinsics signed
  MaxNonce,        \* bound: the nonces that are signed
  MaxLife          \* bound: how often a reaped account is endowed again

\* Up to here a period is at most 4096 and Era rounds no phase; from 2 on the least
\* period of Era is not too long for the hashes that are kept.
ASSUME BlockHashCountAssumption == BlockHashCount \in 2..8192
ASSUME LimitAssumption ==
  MaxBlock \in Nat /\ MaxForks \in Nat /\ MaxSigned \in Nat /\ MaxMade \in Nat /\ MaxNonce \in Nat
  /\ MaxLife \in Nat

VARIABLES
  chain,      \* the best branch: each block with the storage after it
  forks,      \* how often the best branch changed
  executing,  \* the storage of the block under construction, or NoBlock
  made        \* the extrinsics that were signed; anyone may submit them, at any time

vars == <<chain, forks, executing, made>>

NoBlock == [building |-> FALSE]

SaturatingSub(a, b) == IF a > b THEN a - b ELSE 0

-----------------------------------------------------------------------------
(* Mortal eras. *)

PowersOfTwo == {1, 2, 4, 8, 16, 32, 64, 128, 256, 512, 1024, 2048, 4096, 8192}

NextPowerOfTwo(n) ==
  CHOOSE p \in PowersOfTwo : p >= n /\ \A q \in PowersOfTwo : q >= n => p <= q

\* Slip: the next power of two itself.
PeriodUnhalved == NextPowerOfTwo(BlockHashCount)

\* BlockHashCount::get().checked_next_power_of_two() / 2; Era::mortal has a least
\* period of 4.
Period ==
  LET half == NextPowerOfTwo(BlockHashCount) \div 2 IN IF half < 4 THEN 4 ELSE half

\* Era::mortal(period, current) keeps the phase only.
Phase(current) == current % Period

\* Era::birth at block n: the last block of that phase up to n, or the first one.
Birth(phase, n) == (SaturatingSub(n, phase) \div Period) * Period + phase

-----------------------------------------------------------------------------
(* Storage. *)

\* The hash of a block stands for its header, the number included.
Hash(number, id) == [number |-> number, id |-> id]

HashAt(n) == IF n = 0 THEN Hash(0, 0) ELSE chain[n].hash

\* What the runtime stores, and the history the properties speak about: applied
\* lists the extrinsics, life counts how often an account was reaped.
Genesis ==
  [block_hash |-> [b \in {} |-> Hash(0, 0)],
   alive      |-> Accounts,
   nonce      |-> [a \in Accounts |-> 0],
   life       |-> [a \in Accounts |-> 0],
   applied    |-> <<>>]

\* The storage after the head of the chain.
HeadStorage == IF chain = <<>> THEN Genesis ELSE chain[Len(chain)].storage

\* The number of the block under construction.
Number == Len(chain) + 1

Building == executing # NoBlock

-----------------------------------------------------------------------------
(* Signing. *)

\* An extrinsic as it is sent, and the block it was signed for.
Extrinsic(from, nonce, call, born, birth_hash) ==
  [from |-> from, nonce |-> nonce, call |-> call, phase |-> Phase(born),
   birth_hash |-> birth_hash, born |-> born]

\* Any call, or the one that empties the account of its signer.
Calls == {"any", "transfer_all"}

Make(x) ==
  /\ ~ Building
  /\ Len(chain) <= MaxSigned
  /\ Cardinality(made \cup {x}) <= MaxMade
  /\ made' = made \cup {x}
  /\ UNCHANGED <<chain, forks, executing>>

\* create_transaction, called by an offchain worker after block n: the era begins
\* at block n - 1 and the nonce is the one in storage.
CreateTransaction(a, call) ==
  LET n       == Len(chain)
      current == SaturatingSub(n, 1)
  IN  /\ n > 0
      /\ a \in HeadStorage.alive /\ HeadStorage.nonce[a] <= MaxNonce
      /\ Make(Extrinsic(a, HeadStorage.nonce[a], call, Birth(Phase(current), n),
                        HashAt(Birth(Phase(current), n))))

\* create_benchmark_extrinsic: the era begins at the best block, whose hash is
\* signed without a look into the storage; the caller counts the nonces, and neither
\* remark nor transfer_keep_alive empties an account.
CreateBenchmarkExtrinsic(a, nonce) ==
  Make(Extrinsic(a, nonce, "any", Len(chain), HashAt(Len(chain))))

-----------------------------------------------------------------------------
(* The signed extensions. *)

\* CheckEra while the signature is verified at block n: the hash of the birth block
\* must be stored, and be the one that was signed.
SignatureVerifies(x, storage, n) ==
  LET birth == Birth(x.phase, n)
  IN  birth \in DOMAIN storage.block_hash /\ storage.block_hash[birth] = x.birth_hash

\* Slip: a nonce of the past is good enough.
PreDispatchStale(x, storage) ==
  x.from \in storage.alive /\ x.nonce <= storage.nonce[x.from]

\* Slip: a nonce of the future is good enough.
PreDispatchFuture(x, storage) ==
  x.from \in storage.alive /\ x.nonce >= storage.nonce[x.from]

\* CheckNonce asks for the nonce in storage, ChargeTransactionPayment for funds.
PreDispatch(x, storage) ==
  x.from \in storage.alive /\ x.nonce = storage.nonce[x.from]

\* The nonce goes up whatever the call does; a call that empties the account reaps
\* it, and its nonce with it.
Dispatched(x, storage) ==
  LET a    == x.from
      reap == x.call = "transfer_all"
      done == [xt |-> x, life |-> storage.life[a], number |-> Number]
  IN  [storage EXCEPT
         !.nonce[a] = IF reap THEN 0 ELSE @ + 1,
         !.life[a]  = IF reap THEN @ + 1 ELSE @,
         !.alive    = IF reap THEN @ \ {a} ELSE @,
         !.applied  = Append(@, done)]

-----------------------------------------------------------------------------
(* Blocks. *)

Init ==
  /\ chain = <<>>
  /\ forks = 0
  /\ executing = NoBlock
  /\ made = {}

\* Core::initialize_block: the hash of the parent is stored.
InitializeBlock ==
  /\ ~ Building
  /\ Len(chain) < MaxBlock
  /\ executing' = [HeadStorage EXCEPT !.block_hash =
                     [b \in DOMAIN @ \cup {Len(chain)} |->
                        IF b = Len(chain) THEN HashAt(b) ELSE @[b]]]
  /\ UNCHANGED <<chain, forks, made>>

\* BlockBuilder::apply_extrinsic; an extrinsic that is not valid leaves no trace.
ApplyExtrinsic(x) ==
  /\ Building
  /\ SignatureVerifies(x, executing, Number)
  /\ PreDispatch(x, executing)
  /\ executing' = Dispatched(x, executing)
  /\ UNCHANGED <<chain, forks, made>>

\* Somebody else's transfer brings a reaped account to life.
Endow(a) ==
  /\ Building
  /\ a \notin executing.alive /\ executing.life[a] <= MaxLife
  /\ executing' = [executing EXCEPT !.alive = @ \cup {a}]
  /\ UNCHANGED <<chain, forks, made>>

\* Slip: off by one.
ToRemoveEarly(n) == SaturatingSub(n, BlockHashCount)

\* The block whose hash leaves the storage with block n; 0, the genesis, never does.
ToRemove(n) == SaturatingSub(SaturatingSub(n, BlockHashCount), 1)

\* BlockBuilder::finalize_block.
FinalizeBlock ==
  /\ Building
  /\ LET kept == DOMAIN executing.block_hash \ ({ToRemove(Number)} \ {0})
     IN  chain' = Append(chain,
           [hash    |-> Hash(Number, forks),
            storage |-> [executing EXCEPT !.block_hash = [b \in kept |-> @[b]]]])
  /\ executing' = NoBlock
  /\ UNCHANGED <<forks, made>>

\* The proposer runs out of time, and the block is dropped.
Abandon ==
  /\ Building
  /\ executing' = NoBlock
  /\ UNCHANGED <<chain, forks, made>>

\* The best branch is left at block k; the blocks of the other branch follow.
Reorg(k) ==
  /\ ~ Building
  /\ k < Len(chain)
  /\ forks < MaxForks /\ forks' = forks + 1
  /\ chain' = SubSeq(chain, 1, k)
  /\ UNCHANGED <<executing, made>>

Next ==
  \/ \E a \in Accounts :
       \/ \E call \in Calls : CreateTransaction(a, call)
       \/ \E nonce \in 0..MaxNonce : CreateBenchmarkExtrinsic(a, nonce)
       \/ Endow(a)
  \/ InitializeBlock \/ FinalizeBlock \/ Abandon
  \/ \E x \in made : ApplyExtrinsic(x)
  \/ \E k \in 0..MaxBlock : Reorg(k)

Spec == Init /\ [][Next]_vars

-----------------------------------------------------------------------------
(* Properties. *)

\* The storages the system may be in: after each block of the chain, and under way.
Storages ==
  {chain[i].storage : i \in 1..Len(chain)} \cup (IF Building THEN {executing} ELSE {})

Extrinsics ==
  [from : Accounts, nonce : 0..MaxNonce, call : Calls, phase : 0..(Period - 1),
   birth_hash : [number : 0..MaxBlock, id : 0..MaxForks], born : 0..MaxBlock]

\* Every variable has its type, and the storage keeps the hashes of the last
\* BlockHashCount blocks and of the genesis block, on every branch.
TypeOK ==
  /\ Len(chain) <= MaxBlock
  /\ forks \in 0..MaxForks
  /\ made \subseteq Extrinsics
  /\ \A i \in 1..Len(chain) :
       DOMAIN chain[i].storage.block_hash = {b \in 0..(i - 1) : b = 0 \/ b >= i - BlockHashCount}
  /\ \A s \in Storages :
       /\ s.alive \subseteq Accounts
       /\ \A a \in Accounts : s.nonce[a] \in Nat /\ s.life[a] \in Nat

\* The branch under construction contains the block the extrinsic was signed for.
OnBranch(x) == x.born < Number /\ HashAt(x.born) = x.birth_hash

\* A signature verifies in a block exactly if the block lies in the era of the
\* extrinsic, on a branch through its birth block: it neither dies early because
\* the hash of its birth block was pruned, nor lives on, on this branch or another,
\* although only the phase of its birth is sent (lib.rs:370-373).
SignatureMeansEra ==
  Building =>
    \A x \in made :
      SignatureVerifies(x, executing, Number)
        <=> OnBranch(x) /\ Number < x.born + Period

SameAccountAndLife(e, f) == e.xt.from = f.xt.from /\ e.life = f.life

\* However extrinsics are delayed, repeated, reordered or carried to another branch,
\* those of an account are applied in the order of their nonces and without a gap,
\* from 0 on after each time the account was reaped.
NonceOrder ==
  \A s \in Storages : \A j \in 1..Len(s.applied) :
    LET e       == s.applied[j]
        earlier == {s.applied[i] : i \in 1..(j - 1)}
    IN  /\ \A f \in earlier : SameAccountAndLife(e, f) => f.xt.nonce < e.xt.nonce
        /\ e.xt.nonce = 0 \/ \E f \in earlier :
                               SameAccountAndLife(e, f) /\ f.xt.nonce = e.xt.nonce - 1

\* An extrinsic is applied once; only if its account was reaped and endowed meanwhile
\* may it be applied again, and then no later than its era ends.
ReplayIsConfined ==
  \A s \in Storages : \A j \in 1..Len(s.applied) : \A i \in 1..(j - 1) :
    s.applied[i].xt = s.applied[j].xt =>
      /\ s.applied[i].life < s.applied[j].life
      /\ s.applied[j].number < s.applied[j].xt.born + Period
=============================================================================
