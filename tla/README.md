# Guillotine: a TLA+ verification project

This directory models the Guillotine prototype (`src/`) in TLA+, checks the models with TLC
on small instances and proves the central theorems with TLAPS for every instance.

## 1. The system

Guillotine sells the fetching of web pages. A *local node* next to the browser passes requests
to a *remote node*, and pays it with *vouchers*: 192 signed bytes that win with probability
`1/difficulty`. A *chain node* (Substrate) draws one random value a block; a winning voucher is
claimed on the chain by its recipient.

```
browser --/request--> local node --/page--> remote node --> web server
                          |                      |
                 /completePayment          /openSession
                          |                      |
                          +----> sidecar (REST) <+ ----> chain node (runtime, pallet)
```

| component | state | operations | talks to |
|---|---|---|---|
| pallet `probabilistic-payments` (`pallets/.../lib.rs`) | `RandomnessHistory`, a map from block number to randomness | hook `on_initialize`, dispatchable `claim` | collective flip pallet, System |
| runtime (`runtime/src/lib.rs`) | the pallets' storage, in the order of `construct_runtime!` | block initialisation, extrinsics, `create_transaction` | node, by runtime API |
| chain node (`node/src`) | keystore and database on disk, tasks, network | `new_partial`, `new_full`, subcommands, genesis of two networks | peers, RPC |
| network of chain nodes (`chain_spec.rs`, `service.rs`, `run_network.sh`) | each node's best chain, votes, final block | author, import, vote, finalise, crash, revert | each other |
| local node: payment (`completePayment.js`, `payPaymentRequest.js`, `packAndSignVoucher.js`) | promises in flight | query the head of the chain, pack and sign a voucher, answer | sidecar |
| local node: forwarding (`forwardRequest.js`) | promises in flight | fetch from the remote node | remote node |
| remote node (`openSession.js`, `acceptPageRequest.js`) | `sessions`, promises in flight | judge a client's funds, open a session; fetch a page | sidecar, web servers |
| start of both nodes (`index.js`, `server.js`) | `triesRemaining` | listen twice | operating system |

What is hard about it:

- *Windows of block numbers.* A draw is kept for 1024 blocks; a voucher names the block that
  decides it and the block it is due in. Off by one shows only after an epoch.
- *Order of hooks.* The pallet reads the ring of parent hashes that another pallet updates in
  the same block.
- *Conversions between two languages.* JavaScript strings, doubles and hexadecimal texts become
  bytes that Rust reads as little-endian integers.
- *Asynchronous handlers.* The chain and other requests move on between a query and the use of
  its answer; a server may refuse, or answer with an error document nobody checks for.
- *Errors.* Every handler ends in a `catch` that logs and leaves the response open
  (`openSession.js:138` and its likes, "bubble up and send error", are wishes).
- *Forks.* A block, its draws and its extrinsics may be abandoned for another branch; extrinsics are
  delayed, repeated and reordered; nodes crash, and their databases may be reverted by hand.
- *Start-up.* The second try to listen is a timer that races the callback of the first; a chain
  node spawns tasks, and lets them fail, long before its launch is over.

What makes each component correct:

- pallet: it keeps exactly the last epoch of draws, each made in its own block from that block's
  hash, never changed afterwards; a claim pays exactly when the signed voucher is due, its draw is
  in the window and it wins;
- codec: what the local node writes is what the pallet reads, whatever the numbers (it is not: the two
  disagree on the order of the bytes, and large numbers spill; what survives is checked);
- payment: a voucher is dated by a head the chain had while its request was under way, and a
  request for which there is an answer is answered;
- sessions: a client is accepted on funds that were there, its session is stored, it is told;
- extrinsics: a signed call is applied in the order of nonces, on the branch and in the era it was signed
  for, and twice only if its account was reaped in between;
- network: what is final stays, with its draws, on every node; finality follows the best block;
- start: a process serves its port or ends, and its own diagnosis does not bring it down;
- chain node: no peer meets a half-built node, nobody signs without the role, and the process of a node
  does not outlive an essential task.

## 2. Modules

| module | models | role |
|---|---|---|
| `VoucherLedger` | nothing directly | abstract specification: a ledger that remembers every draw for ever and pays entitled, due, recent, winning vouchers |
| `ProbabilisticPayments` | `pallets/probabilistic-payments/src/lib.rs`, hook order of `runtime/src/lib.rs` | detailed specification, refines `VoucherLedger` |
| `ProbabilisticPaymentsProofs` | | its theorems |
| `VoucherWire` | `packAndSignVoucher.js`, `Voucher::parse` | pure operators on digits and bytes |
| `VoucherWireProofs` | | theorems about its operators |
| `VoucherIssuer` | `completePayment.js`, `payPaymentRequest.js` | the handler as a process; uses `VoucherWire` |
| `HttpHandlers` | `openSession.js`, `acceptPageRequest.js`, `forwardRequest.js` | the other handlers |
| `HttpHandlersProofs` | | its theorems |
| `PortListener` | `index.js`, the port of `server.js`, of both nodes | processes, their event loops and the operating system |
| `PortListenerProofs` | | its theorems |
| `NodeService` | `service.rs`, the launches of `command.rs`, the end of `run_network.sh` | a launch and its tasks, run after run |
| `NodeServiceProofs` | | its theorems |
| `ExtrinsicLifecycle` | signed extrinsics in `runtime/src/lib.rs`, `benchmarking.rs` | branches of blocks, each with its storage; extrinsics that anyone may submit |
| `ExtrinsicLifecycleProofs` | | its theorems |
| `FinalLedger` | nothing directly | abstract specification: one ledger that only grows, of which every node knows a beginning |
| `ForkedLedger` | `chain_spec.rs`, `load_spec` and `revert` of `command.rs`, consensus in `service.rs` and the runtime | the chains and votes of a network of nodes; refines `FinalLedger` |
| `ForkedLedgerProofs` | | its theorems, one of them about `ProbabilisticPayments` on its chains |
| `VoucherIssuerProofs` | | theorems about `VoucherIssuer` |
| `MC...` | | values of the constants for TLC |

Operators whose comment starts with *Slip* are faulty variants of the definition that follows
them. They are used by no specification: put in place of that definition, each makes one of the
checked properties fail, which shows that the property depends on the code's behaviour.

### ProbabilisticPayments

| code | model |
|---|---|
| `System::block_number`, `parent_hash` | `block_number`, `parent_hash` (all of them, by block) |
| `RandomMaterial` of the collective flip (81 hashes) | `random_material`, a map over the last `RANDOM_MATERIAL_LEN` blocks |
| `RandomnessHistory` | `randomness_history` |
| `System::events` | `events`: the outcome of each claim of the block, errors included |
| `Executive::initialize_block` with the hooks in order | `InitializeBlock` |
| `on_initialize` | `OnInitialize` |
| `claim` | `ClaimResult` (the checks, in order) and `Claim` (its effects) |

The randomness of a block is the record of its topic and of the hashes mixed into it, so that two
draws are equal only if the same data went in. A signature is the pair of signer and message. The
lottery hash is the constant operator `Blake2`: TLC gets a small one, the proofs know nothing about
it. A claim with difficulty 0 traps: the block author drops it, so it is no step. `VoucherLedger` takes `Wins` from
here, so the refinement says nothing of the lottery at difficulties 0 and 1. The voucher's
bytes are already parsed here; `VoucherWire` is about the bytes.

### VoucherWire and VoucherIssuer

Numbers are sequences of digits, with real widths and real values: eight hexadecimal digits a
field, block numbers of at most ten decimal digits, which is what a `u32` has. Bytes of keys and hashes carry their origin.
What the pallet decodes is a number again: `FromLeBytes` gives its digits to base 256, the highest first, since
a `u32` may exceed TLC's integers. `Number(n)` is the value n in that form, `Swapped(n)` the one with the same bytes in
the other order. The JavaScript
conversions do what they do: `+` on a string appends, `toString(16)` leaves a string alone,
`padStart` does not shorten, `parseInt` of a 256 bit number is a double without low bits, `hexToU8a`
of an odd text shifts, a missing number is the text `NaN`. `MCVoucherIssuer` contains, as an
assumption TLC evaluates, the test vector of `tests.rs:80-89`: the model yields the first 16 bytes
that the real code produced at block 6568.

A request goes from `idle` (`Arrive`: up to the `await`) to `fetching`, then `replied` or `refused`,
then `answered` (`Resume`: pack, sign, respond 200) or `abandoned` (`Catch`). The chain advances at any
time.

### HttpHandlers

One process counter per request: `fetching` while a fetch is out, `replied` or `fetched` once it
settled, `logged` when the handler has ended in its `catch`. `funded` is a history variable: the
accounts that held funds at some time since the request arrived. There is no variable for `sessions`,
because no path of the code adds to it: `openSession.js:107` throws on an undeclared variable before
line 114 stores the session. No response is sent either: `acceptPageRequest.js:70` throws on a property
`fetch` does not have, `forwardRequest.js` fetches a URL without a scheme.

### PortListener

| code | model |
|---|---|
| `triesRemaining`, `nextTry` | the same, for each process |
| `server.listen` | `TryToListen` binds the socket at once and leaves its event in `tick` |
| the next tick queue | `tick`: `listening` or an error code; no timer runs before it is empty |
| `exec('netstat ...')` and its callback | `netstat`: `idle`, `running`, then whom it has seen |
| the line `kill -9 <pid>` | `advice`, the processes a process was told to kill |
| ports | `holder`, which other programs change as well |

Both scripts are the same program, so one module stands for both. `TryToListen` keeps the order of
`triesRemaining--`: the counter goes to -1 when the timer of a serving process runs. In
`NetstatReturns` a scan that shows no node process throws, and the process is `crashed`. The message of
`index.js:20` announces 500 ms, which `setTimeout` at line 38 is not given; no property is about time.

### NodeService

| code | model |
|---|---|
| `new_partial`, `new_full` | `stage`, one action per component; every `?` is a disjunct `Fails` |
| `task_manager.spawn_handle()`, `spawn_essential_handle()` | `Spawn`, `SpawnEssential` on `task` and `essential` |
| the channel of the essential tasks | `essential_failed`, looked at in stage `running` by the runner of a node |
| `run_node_until_exit`, `async_run` | `EssentialFailed` (of a node only), `Stopped` (a signal, or a subcommand that is done) |
| `network_starter` | `network`: `waiting` until `StartNetwork` |
| `keystore_container`, `keystore` of the voter | `keystore` (stays on disk), `voter_keystore` |
| `Role`, `disable_grandpa`, `offchain_worker`, telemetry, subcommand | `config`, a set of flags |

The framework is external: a running task may end at any moment, sign if it has keys, and a peer is
served whenever the network is open. Aura may wait for peers; the model lets it author without, which
covers a forced or single authority. Only `run_node_until_exit` polls the task manager's future (`command.rs:199-205`);
the subcommands of `async_run` (`command.rs:61-118`) wait for their own future, so one whose import queue has
ended may stay until a signal comes, and `NoLingering` is about nodes. `effects` remembers what one launch has done to others.

### ExtrinsicLifecycle

| code | model |
|---|---|
| `System::block_number`, the best branch | `chain`: for each block its hash and the storage after it |
| `System::block_hash`, `Account.nonce`, existence of an account | `block_hash`, `nonce`, `alive` in a storage |
| a block under construction | `executing`, dropped by `Abandon` |
| a signed extrinsic in pools, on the wire | `made`; any of them may come at any time, any number of times |
| `create_transaction`, `create_benchmark_extrinsic` | the actions of these names |
| `CheckEra` | `Period`, `Phase`, `Birth`, `SignatureVerifies` |
| `CheckNonce`, `ChargeTransactionPayment` | `PreDispatch`; an account that cannot pay is one that is not `alive` |
| `EXISTENTIAL_DEPOSIT`, `AccountStore = System` | `transfer_all` reaps the account and its nonce, `Endow` brings it back |

An offchain worker signs after a block, so `create_transaction` begins the era at the block before. An
extrinsic carries only the phase of its birth block; `born` and `applied`, `life` in a storage are history
variables. A block hash contains the number and the branch. Fees, weights, versions and the genesis hash
do not tell extrinsics of one chain apart and are left out.

### ForkedLedger

| code | model |
|---|---|
| `load_spec`, `development_config`, `local_testnet_config`, `testnet_genesis` | operators of these names; `CustomSpec` is the content of a JSON file |
| slots of `SLOT_DURATION` | `slot`; `Author` takes the next slot, `Tick` lets it pass |
| `start_aura`: its turn, `force_authoring`, `sync_oracle` | `Expected`, `Online` |
| `LongestChain`, import queue | `best`, `Import` of a longer chain of a peer |
| `run_grandpa_voter`, the two default rules of `voting_rule` | `MayVote` with `VOTE_LAG` and `ThreeQuarters`, `FinaliseRound`, `voted`, `rounds` |
| `justification_import` | `ImportJustification` |
| database, `kill -9` in `run_network.sh`, the same base path | `best`, `voted`, `finalised` survive `Crash` and `Restart` |
| `revert` with its `aux_revert` | `Revert`, on a stopped node: back to the final block, and the votes forgotten |

A block is the slot it claims, a chain the sequence of them, so two chains with the same blocks are the same
chain. The rounds of GRANDPA are code outside the repository: a round is one step in which a quorum votes
for one block. Its justification then reaches every node by itself. `Draw` is what the randomness of the
blocks before depends on: the claims of block `o` pay by `Draw(chain, o)`, as `ProbabilisticPayments`
shows (`HistoryIsChainRandomness`), so agreement on it is agreement on the payouts.

The ledger of `FinalLedger` is the longest justified block (`Agreed`), what a node knows of it is `finalised`.
`NeverStuck` says without fairness what finality needs: a round that a running quorum may end, or a
justification that a running node has not seen, whenever finality lags behind a shared best block.

The sidecar's `/blocks/head/header`, which the local node dates its vouchers with, answers with the final
head by default; on a network that does not finalise it stays at the genesis block. The two authorities of
`run_network.sh` both have to vote: one crash stops finality, not authoring.

## 3. Runs

| run | question | result |
|---|---|---|
| `pallet` | is the history the window, made of the chain's own hashes, drawn once; does the pallet implement the ledger? | holds |
| `redeemable_when_due` | can a voucher dated as `README.md:58-60` says still be decided when due? | no: part of its era is forgotten |
| `issuer` | do all bytes of the fields survive the packing (the numbers' in the other order), are vouchers fresh, is every answered query answered? | holds |
| `numbers_read_back` | does the pallet read the numbers that were written (`README.md:34-35`, `45`)? | no: they are written high byte first and read low byte first |
| `no_redeem_two_eras` | is the due block two eras on (`README.md:60`)? | no: `2048` is appended to the digits |
| `signed_range` | does the signature cover bytes 0-127 (`README.md:41`)? | no: 192 bytes are signed |
| `handlers` | are clients accepted on real funds; does every handler end? | holds |
| `listener` | do the two tries, the netstat child and SIGHUP leave each process serving or ended, and never against itself? | holds |
| `node` | whatever fails, ends or is killed in whatever stage: whole nodes only, silent non-authorities, no lingering? | holds |
| `extrinsics` | are signatures good for exactly their era and branch, nonces in order, replays confined to reaped accounts? | holds |
| `finality` | do the nodes agree on one ledger that only grows, do draws of final blocks agree, is finality never stuck and does it follow, through forks, crashes and a revert? | holds |
| `dev_finality` | do Alice and Bob, the validators `blockchain/README.md:53` names, finalise the development chain? | no: they are two of six |

Seen while modelling and visible in the definitions, without a run of their own: a successful claim leaves
the storage as it was (`Claim`, against `lib.rs:171`) and can be repeated; the oracle block is the first of the
current era, already drawn, where `README.md:58` says it "will be in the next era" (theorem `OracleIsDrawn`); the session of an accepted client is not
stored (`JudgePeer`, against `README.md:48`); a difficulty of 1 loses on the largest hash (`Wins`, against `README.md:43`); the nonce never influences the oracle block
(`ParsedNonceLow`, against `README.md:56`); a handler that fails leaves the response open (`logged`, `abandoned`; `HandlersEnd`
only says that it ends); from block 10000 on the digits of `noRedeemBeforeBlock`
spill into `valueIfPaid` (`Pack`); the seed in `packAndSignVoucher.js:36` is not the key in the voucher;
`openSession.js:68` looks up the funds of a constant account.

### Bounds

- `pallet`: epochs of 3 blocks, a ring of 2, 7 blocks, 2 parent hashes, up to 2 claims a block. Seven
  blocks are two epochs and one: every entry is expired, the first one (block 0) is skipped, and a due
  block two epochs ahead is reached. The ring overflows five times. The vouchers have oracle blocks
  0 (never drawn), 2 and 5 (drawn, then forgotten, or not yet), difficulties 0, 1 and 2, early and late due
  blocks, and wrong length, signer and signed content.
- `issuer`: two requests are what interleaving needs, since requests share only the chain. The heads
  1023, 1024, 6568, 9999 and 10000 are the edges of an era and of four decimal digits.
- `handlers`: two clients, one of them the looked-up account, five requests over all three routes, one of
  them with an address that does not decode; balances 0 and 1.
- `listener`: two processes of one script compete for a port, which is all a port can tell apart (a
  third would be one more holder); the local node shows that ports do not interfere. Foreign programs take
  and release both ports at any time. The number of tries is the code's.
- `extrinsics`: `BlockHashCount` 5, so that the period is 4 and not the next power of two, 8; eight blocks,
  the first of which are pruned and seen by era arithmetic twice; two changes of branch, from and to any
  height; two extrinsics, which is what order and repetition need; nonces 0 and 1; a reaped account
  is endowed again once in a branch.
- `finality`: four authorities, the least number that one may leave; three slots; one crash and one reverted
  database, the most that `SpecAssumption` allows for four. `VOTE_LAG` is 0 here: with the 2 of the code,
  conflicting votes take six slots; votes at the best block itself are the harder case, because a fork
  in the last slot is voted on. Three blocks are the least at which `ThreeQuarters` holds a vote back at lag 0. The theorems
  hold for every lag.
- `dev_finality`: lag 2 as in the code, no crashes, 14 slots, in which Alice and Bob author five times.
- `node`: all 32 combinations of the five flags, launches repeated without bound on one disk.

The runs set `CHECK_DEADLOCK FALSE` because each system may stop: the bounded chain at its last block,
the nodes when all requests are done, a listener when every process has ended.

### Fairness

`pallet` assumes none. `issuer` assumes that the event loop runs a callback whose promise has settled, and
nothing about the sidecar: a fetch it never answers stays out. `handlers` assumes the same, and that a fetch settles: Node's `fetch` ends with
an answer, an error or its own timeout. Nothing makes clients ask or the chain grow.
`listener` assumes that an event loop runs what is due and that the netstat child ends; nobody need start
or stop a process. `node` assumes that the steps of a launch return, that the runner of a node is woken by the
closed channel (it polls the task manager's future), and that a closing process ends (the framework gives its tasks
a minute at most); nothing makes a subcommand finish. `extrinsics` assumes none. `finality` assumes that the voters that run go on with their
rounds and that blocks and justifications keep arriving at the nodes that run, each as one weak fairness:
gossip and sync repeat until they succeed. No authority need author in its slot, and nobody need restart a
node. A node that is never stopped runs for ever.

## 4. Proofs

`ProbabilisticPaymentsProofs` proves, for every epoch length and ring size above zero, every set of
vouchers, accounts and hashes, every lottery hash and every bound:

- `TypeCorrect`, `RetentionWindow`, `ChainRandomness`: the invariants of the run `pallet`;
- `DrawsAreFinal`: its action property `DrawnOnce`;
- `Refinement`: `Spec => LedgerSpec`, the pallet implements `VoucherLedger`;
- `VerdictsStand`: won or lost, a voucher that was decided is decided the same for every later claim until
  its draw is forgotten, because draws are final and a due voucher stays due;
- `NeverRedeemableWhenDue`: the finding of `redeemable_when_due` for every epoch length and every block;
- `OutcomesFollowTheChain`: every outcome is a function of the block number, the headers and the claim
  (`ResultOn`), so that blocks executed again, or by another node, give the same outcomes;
- `BranchesAgree`: on two branches that are one up to the oracle block, a claim decided on both is decided the same.

Assumptions: `EpochAssumption`, `MaterialAssumption`, `BoundsAssumption`, `VoucherAssumption`, all stated in
the specification and evaluated by TLC. The inductive invariant adds `MaterialIsRecent` to the
invariants: the randomness of a new block is computed from the ring, so one must know that the ring holds
the headers' hashes. `RecentStep` (a window moves by one block in and one out) carries the argument
for both windows; `RandomnessKept` shows that a new header does not change the randomness of an old block;
`ClaimPays` shows that the lookup in the pruned map and in the full record of draws agree on every claim
that does not trap.

`HttpHandlersProofs` proves `HandlersTyped` and `AcceptanceIsFunded` for any number of requests and
accounts. The invariant says where a positive answer comes from (`RepliesWereFunded`) and that a
request under way has seen the funds of the moment (`SeesFunds`).

`PortListenerProofs` proves `NoSelfAdvice` and `ServingSurvives` for any number of processes and ports.
The invariant joins the counter to the timer and the pending event (`TimerPends`, `ServingIsDone`): while
'listening' is pending no timer can run, and after it the counter is zero, so a process that asks netstat
(`AskingIsLast`) has no socket and is not on any list. `NodeServiceProofs` proves `ServiceTyped`,
`PeersSeeWholeNodes` and `NonAuthoritiesAreSilent` for any set of configurations. Its invariant `Built` says
what each stage of the launch has left behind, `Roles` which launches have keys; ending, stopping and
killing tasks keep them because a task that was spawned stays known as such. `EndsAreNoticed` is the
safety half of `NoLingering`: an essential task that ends in any stage has raised the signal the runner
of a node looks at, since it was entered in `essential` when it was spawned. `PortListenerProofs` also proves the types,
and `StartsEnd`, the safety half of `Settles`: `StepsLeft` bounds the steps the event loop of a process can
still take, from its life, its timer, the pending event and the netstat child; it starts at eleven,
every step of the process lowers it, and no other process or program changes it.
Assumptions: `PortAssumption`, `HolderAssumption`, `ConfigsAssumption`.

`ExtrinsicLifecycleProofs` proves all four invariants of `extrinsics`, for every `BlockHashCount` from 2 to 8192
(the powers of two are listed, since nothing proves facts about exponents) and every bound. The era arguments:
the period is at most `BlockHashCount`, so the hash of a birth block is stored as long as the era lasts;
two blocks of one phase are a period apart, so the stored hash at the computed birth block is the signed one
only in the right era; hashes hold number and branch, so only on the right branch. The inductive invariant
says what each storage of the branch holds, and that `applied` and `nonce` go together in each life of an
account.

`ForkedLedgerProofs` proves `TypeCorrect` and `DrawsAreSettled` for every chain specification, running set, lag and
number of crashes, with reverted databases of less than a third of the authorities (`SpecAssumption`). The
invariant keeps, for each justified block, a quorum whose unreverted members voted for it or beyond
(`Justified`); two quorums share a node that remembers (`QuorumsIntersect`, by counting), so justified
blocks are in line (`RoundsInLine`), and a node's final block is one of them and on its best chain
(`FinalIsBest`). With as many reverted databases as a third the theorem would be false. From the same invariant:

- `Refinement`: `Spec => FinalSpec`. A tip, a justified block that all justified blocks lead to, always
  exists (`HasTip`); it is the longest one (`TipIsLongest`). By `RoundExtends` a round puts a new tip on the old
  one, and a justification that arrives is a beginning of it; nothing else touches rounds or final blocks.
- `FinalityNeverStuck`: `NeverStuck` is an invariant, the safety half of `FinalityCatchesUp`. It needs
  `VotedIsJustified`: a vote that counted is for a justified block, so voters that know all justifications may
  all vote for one block that both voting rules allow (`VoteReach`, `VotersAgree`). That holds because a round is one step
  here; votes in rounds that did not end are inside the protocol.
- `NoQuorumNoFinality`, `AliceAndBobNeverFinalise`: with fewer running authorities than have to vote
  nothing ever becomes final: the finding of `dev_finality` for every bound.
- `PayoutsAreSettled` composes the network with `ProbabilisticPayments`, instantiated once for each chain
  (`On`): its block number is the length of the chain, its headers stand for the blocks before, and its storage is
  what `RetentionWindow` and `ChainRandomness` say of every reachable state. Two nodes that know the oracle block
  of a voucher to be final, now or later, never decide a claim of it differently on their best chains: the
  verdict is a function of the randomness of that block (`VerdictByDraw`), the randomness of the blocks before
  it (`SameRandomness`), and those settle (`DrawsAreSettled`). This theorem only is proved and not run: one
  more block and the pallet's state would make the run too long.

`VoucherWireProofs` proves `FieldsArriveSwapped`: whatever texts the numbers have, up to 96 digits together (they
need at most 38), the pallet gets the commitment, keys and nonce as they were packed, and each of the four
numbers that has eight hexadecimal digits with its bytes in the other order, as long as no number before it has more than
eight (`NumbersInPlace`; one that has shifts the rest, which is what happens to the issuer's vouchers).
`WrittenBytes` says which bytes stand in the fields (`RawFields`), `ParseDecodes` and `NumbersDecode` what decoding makes
of them. The arrays are functions on `1..192`; `SetWrites` says
what one write leaves, `PackBytes` composes the five writes in their order, `SliceBytes` reads a field.
`EightDigits` turns eight hexadecimal digits into four bytes, `DecimalDigits` and `HexDigits` are about
`toString`: the powers of ten and sixteen up to a `u32` are listed, and the length of the text lies among them.

`VoucherIssuerProofs` proves, for every set of `u32` block numbers (`HeadsAssumption`) and any number of requests:

- `TypeCorrect`, `HeadIsFresh`: the types, and that the head behind a voucher is one its request could see;
- `VouchersSurvive`, `ErasAreFresh`: the invariants `FieldsSurvive` and `EraIsFresh`, from the lemmas of
  `VoucherWireProofs` and `HeadIsFresh`; the value survives up to block 9,999, because the text before it
  then fits its field (`NoRedeemFits`);
- `DifficultyNeverReadsBack`, `SignatureNeverFits`: the findings of `numbers_read_back` and `signed_range` hold of
  every voucher, not only of the one in the counterexample;
- `OracleIsDrawn`: every voucher names a block of the era the head was in, one that was already drawn;
- `NoRedeemNeverTwoErasOn`: the finding of `no_redeem_two_eras` for every voucher up to block 9,999,999. The text
  of the number is the block's digits and then 2048. Up to block 9,999 (`ShortText`) all of it is read, and its last
  two bytes are 0x20 and 0x48: too large low byte first, and high byte first right only for block 6,216, whose
  last digit, 6, is then read as well; later (`LongText`) neither the first byte
  nor the fourth is zero, and a sum below 2^24 has a zero as its high byte. The bound is needed: for block
  429,296,194 the digits happen to give the right number, low byte first.

Only model-checked: the liveness properties `RepliedIsAnswered`, `HandlersEnd`, `Settles`, `NoLingering` and
`FinalityCatchesUp`, since fairness is out of the prover's reach. For the last three the safety half is proved:
`StartsEnd`, `EndsAreNoticed`, `FinalityNeverStuck`. The test vector of `tests.rs:80-89` is an assumption that TLC
evaluates.

## 5. Not modelled, and the plan

Not modelled: subcommands without components, RPC wiring, the inside of tasks and of a GRANDPA round,
generated weights, the mock, configuration constants, cookies and page contents (no state of their own or
pure input and output); sudo, NFT, timestamp and balances pallets (framework code, configured only).

What would come next, in order of importance:

1. A module that runs the claims of `ProbabilisticPayments` on the forks of `ForkedLedger` step by step, with the claims
   that a reorganisation puts back into the pool; the composition is proved for verdicts, not for the pool.
2. Equivocating authorities: the runtime accepts no report of them (`EquivocationReportSystem = ()`).
