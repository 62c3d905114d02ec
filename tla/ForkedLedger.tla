---------------------------- MODULE ForkedLedger ----------------------------
(***************************************************************************)
(* The ledger of a network of nodes: who authors and who finalises, from   *)
(* blockchain/node/src/chain_spec.rs, through the genesis, to the runtime's *)
(* Aura and GRANDPA and the service's LongestChain.                        *)
(*                                                                         *)
(* Nodes build on the longest chain they know, so the ledger forks; a      *)
(* claim is drawn with the randomness of the branch it is in.  GRANDPA     *)
(* ends the forks.  The protocols' own code is outside the repository,     *)
(* which names their authorities and configures them: a round of votes is  *)
(* one step, while blocks and justifications take as long as they like.    *)
(* Nodes crash and come back with their database.                          *)
(***************************************************************************)
EXTENDS Integers, Sequences, FiniteSets

CONSTANTS
  chain_id,         \* the --chain option
  CustomSpec,       \* the authorities of the chain specification in a JSON file
  Running,          \* the authorities that somebody runs a node for
  force_authoring,  \* --force-authoring, which --dev implies
  VOTE_LAG,         \* BeforeBestBlockBy, the other default voting rule (2)
  MaxSlot,          \* bound: the slots
  MaxReverted,      \* bound: the nodes whose database is reverted by hand
  MaxCrashes        \* bound: the crashes

VARIABLES
  slot,       \* the present slot
  up,         \* the nodes that run
  crashes,    \* how many crashes there were
  reverted,   \* the nodes whose database was reverted
  best,       \* the best chain of each node, a block being the slot it claims
  voted,      \* the last block of which a node took part in a round
  finalised,  \* the last block that a node knows to be final
  rounds      \* the blocks with a justification, which nodes gossip and ask for

vars == <<slot, up, crashes, reverted, best, voted, finalised, rounds>>

-----------------------------------------------------------------------------
(* The chain specification. *)

DevelopmentConfig == <<"Alice", "Bob", "Charlie", "Dave", "Eve", "Ferdie">>

LocalTestnetConfig == <<"Alice", "Bob">>

LoadSpec(id) ==
  CASE id = "dev" -> DevelopmentConfig
    [] id \in {"", "local"} -> LocalTestnetConfig
    [] OTHER -> CustomSpec

\* The initial authorities author in turn, and each has one vote.
TestnetGenesis(initial_authorities) ==
  LET names == {initial_authorities[i] : i \in 1..Len(initial_authorities)}
  IN  [aura |-> initial_authorities, grandpa |-> [name \in names |-> 1]]

RuntimeGenesis == TestnetGenesis(LoadSpec(chain_id))

Authorities == DOMAIN RuntimeGenesis.grandpa

ASSUME SpecAssumption ==
  /\ LoadSpec(chain_id) \in Seq(STRING) \ {<<>>}
  /\ Running \subseteq Authorities
  /\ force_authoring \in BOOLEAN
  /\ VOTE_LAG \in Nat /\ MaxSlot \in Nat /\ MaxCrashes \in Nat
  /\ MaxReverted \in Nat /\ 3 * MaxReverted < Len(LoadSpec(chain_id))

-----------------------------------------------------------------------------
(* Chains. *)

IsPrefix(s, t) == Len(s) <= Len(t) /\ \A i \in 1..Len(s) : s[i] = t[i]

Prefixes(chain) == {SubSeq(chain, 1, n) : n \in 0..Len(chain)}

\* What the draws of block o depend on: the hashes of the blocks before it.
Draw(chain, o) == [i \in {i \in DOMAIN chain : i < o} |-> chain[i]]

-----------------------------------------------------------------------------
(* Aura. *)

Init ==
  /\ slot = 0
  /\ up = Running /\ crashes = 0 /\ reverted = {}
  /\ best = [a \in Running |-> <<>>]
  /\ voted = [a \in Running |-> <<>>]
  /\ finalised = [a \in Running |-> <<>>]
  /\ rounds = {}

\* Slots follow the clock, which waits for nobody: one passes without a block.
Tick ==
  /\ slot < MaxSlot
  /\ slot' = slot + 1
  /\ UNCHANGED <<up, crashes, reverted, best, voted, finalised, rounds>>

Expected(s) == RuntimeGenesis.aura[(s % Len(RuntimeGenesis.aura)) + 1]

Online(a) == a \in up /\ (up # {a} \/ force_authoring \/ Authorities = {a})

\* Slip: a second block in the present slot.
AuthorTwice(a) ==
  /\ slot > 0 /\ Len(best[a]) < MaxSlot
  /\ Online(a) /\ a = Expected(slot)
  /\ best' = [best EXCEPT ![a] = Append(@, slot)]
  /\ UNCHANGED <<slot, up, crashes, reverted, voted, finalised, rounds>>

\* The next slot's authority builds on its best block, unless it is offline.
Author(a) ==
  /\ slot < MaxSlot
  /\ Online(a) /\ a = Expected(slot + 1)
  /\ slot' = slot + 1
  /\ best' = [best EXCEPT ![a] = Append(@, slot + 1)]
  /\ UNCHANGED <<up, crashes, reverted, voted, finalised, rounds>>

\* The best chain of a peer arrives.  LongestChain: it is the new best if it is longer,
\* and no block is imported on a branch that finality has closed.
Import(a, c) ==
  /\ a \in up /\ c \in up
  /\ Len(best[a]) < Len(best[c])
  /\ IsPrefix(finalised[a], best[c])
  /\ best' = [best EXCEPT ![a] = best[c]]
  /\ UNCHANGED <<slot, up, crashes, reverted, voted, finalised, rounds>>

-----------------------------------------------------------------------------
(* GRANDPA. *)

\* More than two thirds of n votes.
Threshold(n) == n - ((n - 1) \div 3)

Quorums == {S \in SUBSET Running : Cardinality(S) >= Threshold(Len(RuntimeGenesis.aura))}

\* ThreeQuartersOfTheUnfinalizedChain, a default voting rule: how far a vote may reach
\* from the last final block towards the best one.
ThreeQuarters(final, top) == final + ((3 * (top - final) + 2) \div 4)

\* Slip: one block too far behind.
MayVoteLate(a, b) ==
  /\ IsPrefix(b, best[a]) /\ Len(b) + VOTE_LAG < Len(best[a])
  /\ Len(b) <= ThreeQuarters(Len(finalised[a]), Len(best[a]))
  /\ Len(finalised[a]) < Len(b) /\ IsPrefix(voted[a], b)

\* Slip: a vote forgets the ones before.
MayVoteAnew(a, b) ==
  /\ IsPrefix(b, best[a]) /\ Len(b) + VOTE_LAG <= Len(best[a])
  /\ Len(b) <= ThreeQuarters(Len(finalised[a]), Len(best[a]))
  /\ Len(finalised[a]) < Len(b)

\* The block is as far behind the best block of the voter as the default voting rules
\* ask, and extends what it voted for and what it knows to be final.
MayVote(a, b) ==
  /\ IsPrefix(b, best[a]) /\ Len(b) + VOTE_LAG <= Len(best[a])
  /\ Len(b) <= ThreeQuarters(Len(finalised[a]), Len(best[a]))
  /\ Len(finalised[a]) < Len(b) /\ IsPrefix(voted[a], b)

\* A round ends with the votes of a quorum, before any node knows.
FinaliseRound(b, S) ==
  /\ \A a \in S : MayVote(a, b)
  /\ voted' = [a \in Running |-> IF a \in S THEN b ELSE voted[a]]
  /\ rounds' = rounds \cup {b}
  /\ UNCHANGED <<slot, up, crashes, reverted, best, finalised>>

\* Slip: the longest chain stays the best.
ImportJustificationKept(a, b) ==
  /\ a \in up
  /\ b \in rounds /\ Len(finalised[a]) < Len(b)
  /\ finalised' = [finalised EXCEPT ![a] = b]
  /\ UNCHANGED <<slot, up, crashes, reverted, best, voted, rounds>>

\* The justification arrives; a best chain without the block is given up for it.
ImportJustification(a, b) ==
  /\ a \in up
  /\ b \in rounds /\ Len(finalised[a]) < Len(b)
  /\ finalised' = [finalised EXCEPT ![a] = b]
  /\ best' = [best EXCEPT ![a] = IF IsPrefix(b, @) THEN @ ELSE b]
  /\ UNCHANGED <<slot, up, crashes, reverted, voted, rounds>>

-----------------------------------------------------------------------------
(* Nodes. *)

Crash(a) ==
  /\ a \in up /\ crashes < MaxCrashes
  /\ up' = up \ {a} /\ crashes' = crashes + 1
  /\ UNCHANGED <<slot, reverted, best, voted, finalised, rounds>>

\* The database holds the chain and the voter's state.
Restart(a) ==
  /\ a \in Running \ up
  /\ up' = up \cup {a}
  /\ UNCHANGED <<slot, crashes, reverted, best, voted, finalised, rounds>>

\* The revert subcommand, which takes 256 blocks back unless told otherwise: those that
\* are final are left, and the voter starts anew from there.
Revert(a) ==
  /\ a \in Running \ up
  /\ Cardinality(reverted \cup {a}) <= MaxReverted
  /\ best' = [best EXCEPT ![a] = finalised[a]]
  /\ voted' = [voted EXCEPT ![a] = finalised[a]]
  /\ reverted' = reverted \cup {a}
  /\ UNCHANGED <<slot, up, crashes, finalised, rounds>>

Rounds ==
  \E S \in {S \in Quorums : S \subseteq up} :
    \E b \in (UNION {Prefixes(best[a]) : a \in S}) \ rounds : FinaliseRound(b, S)

Imports == \E a, c \in up : Import(a, c)

Finalisations == \E a \in up, b \in rounds : ImportJustification(a, b)

Next ==
  \/ Tick
  \/ Rounds
  \/ Imports
  \/ Finalisations
  \/ \E a \in Running : Author(a) \/ Crash(a) \/ Restart(a) \/ Revert(a)

\* The nodes that run go on voting, and keep each other informed.  Nothing makes an
\* authority author in its slot or come back.
Spec ==
  /\ Init /\ [][Next]_vars
  /\ WF_vars(Rounds) /\ WF_vars(Imports) /\ WF_vars(Finalisations)

-----------------------------------------------------------------------------
(* Properties. *)

Chain(chain) == \A i \in 1..Len(chain) : chain[i] \in 1..slot /\ (i > 1 => chain[i - 1] < chain[i])

\* Every variable has its type, and in a chain each block claims a later slot.
TypeOK ==
  /\ slot \in 0..MaxSlot
  /\ up \subseteq Running /\ crashes \in 0..MaxCrashes /\ reverted \subseteq Running
  /\ \A a \in Running : Chain(best[a]) /\ Chain(voted[a]) /\ Chain(finalised[a])
  /\ \A b \in rounds : Chain(b)

\* Once a node knows that block o is final, the draws of its claims are what they are
\* on every other node that ever knows so, whatever forks there were, whoever crashed,
\* and although no node waits for finality before it draws (service.rs:94).
DrawsSettle ==
  [][\A a \in Running : \A o \in 1..Len(finalised[a]) : \A c \in Running :
       o <= Len(finalised[c]') => Draw(best[a], o) = Draw(best[c]', o)]_vars

\* What the state means to FinalLedger: the longest justified block is the ledger.
Agreed == CHOOSE b \in rounds \cup {<<>>} : \A c \in rounds : Len(c) <= Len(b)

Final == INSTANCE FinalLedger WITH Nodes <- Running, ledger <- Agreed, known <- finalised

\* Refinement: the nodes that fork, vote, crash and come back with a reverted database
\* agree on one ledger that only grows, and never learn of a block that is not in it or
\* unlearn one that is.
FinalSpec == Final!Spec

SameBest == \A a, c \in up : best[a] = best[c]

CaughtUp == \A a \in up : Len(best[a]) <= Len(finalised[a]) + VOTE_LAG

\* A quorum of the nodes that run may end a round.
RoundAhead ==
  \E S \in {S \in Quorums : S \subseteq up} :
    \E b \in (UNION {Prefixes(best[a]) : a \in S}) \ rounds : \A a \in S : MayVote(a, b)

\* A node that runs has not seen a justification yet.
JustificationAhead == \E a \in up, b \in rounds : Len(finalised[a]) < Len(b)

\* While finality lags behind a best block that a quorum shares, there is a round to vote
\* in or a justification to learn of: earlier votes, abandoned branches, crashes and
\* reverts never leave the voters (service.rs:331) with nothing that they may do.
NeverStuck ==
  (\E S \in Quorums : S \subseteq up) /\ SameBest => CaughtUp \/ RoundAhead \/ JustificationAhead

\* While a quorum stays up and the last fork is decided, finality follows the best
\* block at the distance of BeforeBestBlockBy, although a single vote may fall further
\* behind (service.rs:324).
FinalityCatchesUp == []<>((\E S \in Quorums : S \subseteq up) /\ SameBest => CaughtUp)

\* blockchain/README.md:53 "Use the Alice and Bob accounts as default validator
\* authorities": with the two of them up, what they build gets finalised.
AliceAndBobFinalise ==
  (\A a \in Running : Len(best[a]) > VOTE_LAG /\ SameBest)
    ~> \E a \in Running : finalised[a] # <<>>
=============================================================================
