------------------------- MODULE ForkedLedgerProofs -------------------------
(***************************************************************************)
(* Theorems about ForkedLedger, for every chain specification, whoever     *)
(* runs a node, any number of slots and crashes, and reverted databases of *)
(* less than a third of the authorities.                                   *)
(***************************************************************************)
EXTENDS ForkedLedger, FiniteSetTheorems, SequenceTheorems, TLAPS

\* The pallet that every branch runs, for the theorem PayoutsSettle.
CONSTANTS EPOCH_LENGTH, RANDOM_MATERIAL_LEN, VOUCHER_LEN, U256_MAX, Hashes, Accounts, Vouchers,
          Blake2(_, _), MaxBlock, MaxExtrinsics

Chains == Seq(Nat)

Typed ==
  /\ slot \in 0..MaxSlot
  /\ up \subseteq Running /\ crashes \in 0..MaxCrashes
  /\ reverted \subseteq Running /\ Cardinality(reverted) <= MaxReverted
  /\ best \in [Running -> Chains]
  /\ voted \in [Running -> Chains]
  /\ finalised \in [Running -> Chains]
  /\ rounds \subseteq Chains

\* A quorum voted for each justified block, or for one that extends it; a node whose
\* database was reverted may know nothing of it.
Justified ==
  \A b \in rounds : \E S \in Quorums : \A a \in S \ reverted : IsPrefix(b, voted[a])

\* No two justified blocks are on different branches.
RoundsInLine == \A b, c \in rounds : IsPrefix(b, c) \/ IsPrefix(c, b)

\* What a node knows to be final was justified, and is on its best chain.
FinalIsBest ==
  \A a \in Running : /\ finalised[a] = <<>> \/ finalised[a] \in rounds
                     /\ IsPrefix(finalised[a], best[a])

\* The inductive invariant.
Inv == Typed /\ Justified /\ RoundsInLine /\ FinalIsBest

-----------------------------------------------------------------------------
(* Quorums. *)

LEMMA AuthoritiesFinite ==
  /\ IsFiniteSet(Authorities)
  /\ Cardinality(Authorities) <= Len(RuntimeGenesis.aura)
  /\ Len(RuntimeGenesis.aura) \in Nat \ {0}
<1> DEFINE names == LoadSpec(chain_id)
           n     == Len(names)
           T     == {names[i] : i \in 1..n}
           f     == [i \in 1..n |-> names[i]]
<1>1. n \in Nat \ {0}
  BY SpecAssumption
<1>2. Authorities = T /\ RuntimeGenesis.aura = names
  BY DEF Authorities, RuntimeGenesis, TestnetGenesis
<1> HIDE DEF names
<1>3. f \in Surjection(1..n, T)
  BY DEF Surjection
<1>4. IsFiniteSet(1..n) /\ Cardinality(1..n) = n
  <2>1. 1 \in Int /\ n \in Int /\ ~ 1 > n /\ n - 1 + 1 = n
    BY <1>1
  <2> HIDE DEF n
  <2> QED BY <2>1, FS_Interval
<1> HIDE DEF f, T, n
<1>5. IsFiniteSet(T) /\ Cardinality(T) <= n
  BY <1>3, <1>4, FS_Surjection
<1> QED BY <1>1, <1>2, <1>5 DEF n

\* Two quorums share a node that remembers its votes.
LEMMA QuorumsIntersect ==
  ASSUME NEW S \in Quorums, NEW T \in Quorums,
         NEW R \in SUBSET Running, Cardinality(R) <= MaxReverted
  PROVE  \E a \in Running : a \in S /\ a \in T /\ a \notin R
<1> DEFINE n == Len(RuntimeGenesis.aura)
           k == Threshold(n)
           s == Cardinality(S)
           t == Cardinality(T)
           both == Cardinality(S \cap T)
           all == Cardinality(S \cup T)
<1>1. n \in Nat \ {0} /\ IsFiniteSet(Authorities) /\ Cardinality(Authorities) <= n
  BY AuthoritiesFinite
<1>2. S \subseteq Running /\ T \subseteq Running /\ s >= k /\ t >= k
  BY DEF Quorums
<1>3. S \subseteq Authorities /\ T \subseteq Authorities /\ R \subseteq Authorities
  BY <1>2, SpecAssumption
<1>4. IsFiniteSet(S) /\ IsFiniteSet(T) /\ IsFiniteSet(R) /\ IsFiniteSet(S \cap T)
      /\ IsFiniteSet(S \cup T) /\ all <= Cardinality(Authorities)
  BY <1>1, <1>3, FS_Subset
<1>5. /\ Cardinality(Authorities) \in Nat /\ s \in Nat /\ t \in Nat /\ both \in Nat
      /\ all \in Nat /\ Cardinality(R) \in Nat
  BY <1>1, <1>4, FS_CardinalityType
<1>6. all = s + t - both
  BY <1>4, FS_Union
<1>7. MaxReverted \in Nat /\ 3 * MaxReverted < n
  BY SpecAssumption DEF RuntimeGenesis, TestnetGenesis
<1> HIDE DEF n, s, t, both, all
<1>8. k \in Int /\ k + k - n > MaxReverted
  BY <1>1, <1>7 DEF Threshold
<1> HIDE DEF k
<1>9. both > Cardinality(R)
  BY ONLY <1>1, <1>2, <1>4, <1>5, <1>6, <1>7, <1>8, Cardinality(R) <= MaxReverted
<1>10. ~ (S \cap T \subseteq R)
  <2>1. S \cap T \subseteq R => both <= Cardinality(R)
    BY <1>4, FS_Subset DEF both
  <2> QED BY <1>5, <1>9, <2>1
<1> QED BY <1>2, <1>10

-----------------------------------------------------------------------------
(* Prefixes. *)

LEMMA PrefixTransitive ==
  ASSUME NEW s \in Chains, NEW t \in Chains, NEW u \in Chains, IsPrefix(s, t), IsPrefix(t, u)
  PROVE  IsPrefix(s, u)
<1>1. /\ Len(s) \in Nat /\ Len(t) \in Nat /\ Len(u) \in Nat
      /\ Len(s) <= Len(t) /\ Len(t) <= Len(u)
  BY DEF IsPrefix, Chains
<1>2. ASSUME NEW i \in 1..Len(s) PROVE s[i] = u[i]
  <2>1. i \in 1..Len(t)
    BY <1>1
  <2> QED BY <2>1 DEF IsPrefix
<1> QED BY <1>1, <1>2 DEF IsPrefix

LEMMA PrefixReflexive == \A s \in Chains : IsPrefix(s, s)
BY DEF IsPrefix, Chains

LEMMA EmptyIsPrefix == \A s \in Chains : IsPrefix(<<>>, s)
BY DEF IsPrefix, Chains

\* Prefixes of one chain are prefixes of each other.
LEMMA ShorterPrefix ==
  ASSUME NEW s \in Chains, NEW t \in Chains, IsPrefix(s, t) \/ IsPrefix(t, s), Len(s) <= Len(t)
  PROVE  IsPrefix(s, t)
BY DEF IsPrefix, Chains

LEMMA AppendExtends ==
  ASSUME NEW s \in Chains, NEW t \in Chains, NEW n \in Nat, IsPrefix(s, t)
  PROVE  IsPrefix(s, Append(t, n))
BY DEF IsPrefix, Chains

-----------------------------------------------------------------------------
(* The steps. *)

\* A justified block leads to every block that is justified later: the intersection of
\* the quorums, of which a node remembers its vote.
LEMMA RoundExtends ==
  ASSUME Inv, NEW b \in Chains, NEW S \in Quorums, FinaliseRound(b, S)
  PROVE  \A c \in rounds : IsPrefix(c, b)
<1> SUFFICES ASSUME NEW c \in rounds PROVE IsPrefix(c, b)
  OBVIOUS
<1>1. PICK T \in Quorums : \A a \in T \ reverted : IsPrefix(c, voted[a])
  BY DEF Inv, Justified
<1>2. PICK a \in Running : a \in S /\ a \in T /\ a \notin reverted
  BY QuorumsIntersect DEF Inv, Typed
<1>3. IsPrefix(c, voted[a]) /\ IsPrefix(voted[a], b) /\ c \in Chains /\ voted[a] \in Chains
  BY <1>1, <1>2 DEF Inv, Typed, FinaliseRound, MayVote
<1> QED BY <1>3, PrefixTransitive

LEMMA RoundStep ==
  ASSUME Inv, NEW b \in Chains, NEW S \in Quorums, FinaliseRound(b, S)
  PROVE  Inv'
<1>1. /\ voted' = [a \in Running |-> IF a \in S THEN b ELSE voted[a]]
      /\ rounds' = rounds \cup {b}
      /\ best' = best /\ finalised' = finalised /\ reverted' = reverted /\ S \subseteq Running
      /\ \A a \in S : IsPrefix(voted[a], b)
  BY DEF FinaliseRound, MayVote, Quorums
<1>2. Typed'
  BY <1>1 DEF Inv, Typed, FinaliseRound
<1>3. \A c \in rounds : IsPrefix(c, b)
  BY RoundExtends
<1>4. Justified'
  <2>1. ASSUME NEW c \in rounds PROVE \E T \in Quorums : \A a \in T \ reverted : IsPrefix(c, voted'[a])
    <3>1. PICK T \in Quorums : \A a \in T \ reverted : IsPrefix(c, voted[a])
      BY DEF Inv, Justified
    <3>2. ASSUME NEW a \in T \ reverted PROVE IsPrefix(c, voted'[a])
      BY <1>1, <1>3, <3>1 DEF Quorums
    <3> QED BY <3>2
  <2>2. \A a \in S : IsPrefix(b, voted'[a])
    BY <1>1, PrefixReflexive
  <2> QED BY <1>1, <2>1, <2>2 DEF Justified
<1>5. RoundsInLine'
  BY <1>1, <1>3, PrefixReflexive DEF Inv, RoundsInLine
<1>6. FinalIsBest'
  BY <1>1 DEF Inv, FinalIsBest
<1> QED BY <1>2, <1>4, <1>5, <1>6 DEF Inv

LEMMA ImportJustificationStep ==
  ASSUME Inv, NEW a \in Running, NEW b \in rounds, ImportJustification(a, b)
  PROVE  Inv'
<1>1. /\ finalised' = [finalised EXCEPT ![a] = b]
      /\ best' = [best EXCEPT ![a] = IF IsPrefix(b, best[a]) THEN best[a] ELSE b]
      /\ voted' = voted /\ rounds' = rounds /\ reverted' = reverted
  BY DEF ImportJustification
<1>2. b \in Chains /\ IsPrefix(b, b)
  BY PrefixReflexive DEF Inv, Typed
<1>3. Typed'
  BY <1>1, <1>2 DEF Inv, Typed, ImportJustification
<1>4. Justified' /\ RoundsInLine'
  BY <1>1 DEF Inv, Justified, RoundsInLine
<1>5. FinalIsBest'
  BY <1>1, <1>2 DEF Inv, Typed, FinalIsBest
<1> QED BY <1>3, <1>4, <1>5 DEF Inv

LEMMA InvStep == Inv /\ [Next]_vars => Inv'
<1> SUFFICES ASSUME Inv, [Next]_vars PROVE Inv'
  OBVIOUS
<1>1. ASSUME UNCHANGED <<reverted, best, voted, finalised, rounds>>, Typed' PROVE Inv'
  BY <1>1 DEF Inv, Justified, RoundsInLine, FinalIsBest
<1>2. CASE Tick
  <2>1. slot \in Nat /\ MaxSlot \in Nat
    BY SpecAssumption DEF Inv, Typed
  <2>2. slot < MaxSlot /\ slot' = slot + 1
    BY <1>2 DEF Tick
  <2>3. slot' \in 0..MaxSlot
    BY <2>1, <2>2
  <2>4. Typed'
    BY <1>2, <2>2, <2>3 DEF Tick, Inv, Typed
  <2> QED BY <1>1, <1>2, <2>4 DEF Tick
<1>3. CASE Rounds
  <2>1. PICK S \in Quorums : /\ S \subseteq up
                             /\ \E b \in UNION {Prefixes(best[a]) : a \in S} : FinaliseRound(b, S)
    BY <1>3 DEF Rounds
  <2>0. PICK b \in UNION {Prefixes(best[a]) : a \in S} : FinaliseRound(b, S)
    BY <2>1
  <2>2. PICK a \in S : b \in Prefixes(best[a])
    BY <2>0
  <2>3. best[a] \in Chains
    BY <2>1, <2>2 DEF Inv, Typed
  <2>4. b \in Chains
    BY <2>2, <2>3 DEF Prefixes, Chains
  <2> QED BY <2>0, <2>4, RoundStep
<1>4. ASSUME NEW a \in Running, Author(a) PROVE Inv'
  <2>1. /\ best' = [best EXCEPT ![a] = Append(best[a], slot + 1)]
        /\ slot < MaxSlot /\ slot' = slot + 1
        /\ UNCHANGED <<up, crashes, reverted, voted, finalised, rounds>>
    BY <1>4 DEF Author
  <2>5. slot \in Nat /\ MaxSlot \in Nat /\ best[a] \in Chains
    BY SpecAssumption DEF Inv, Typed
  <2>6. slot + 1 \in 0..MaxSlot /\ slot + 1 \in Nat
    BY <2>1, <2>5
  <2>7. Append(best[a], slot + 1) \in Chains
    BY <2>5, <2>6 DEF Chains
  <2>2. Typed'
    BY <2>1, <2>6, <2>7 DEF Inv, Typed
  <2>3. IsPrefix(finalised[a], Append(best[a], slot + 1))
    BY <2>5, <2>6, AppendExtends DEF Inv, Typed, FinalIsBest
  <2>4. Justified' /\ RoundsInLine' /\ FinalIsBest'
    BY <2>1, <2>3 DEF Inv, Typed, Justified, RoundsInLine, FinalIsBest
  <2> QED BY <2>2, <2>4 DEF Inv
<1>5. ASSUME NEW a \in Running, NEW c \in Running, Import(a, c) PROVE Inv'
  BY <1>5 DEF Import, Inv, Typed, Justified, RoundsInLine, FinalIsBest
<1>6. ASSUME NEW a \in Running, NEW b \in rounds, ImportJustification(a, b) PROVE Inv'
  BY <1>6, ImportJustificationStep
<1>7. ASSUME NEW a \in Running, Crash(a) \/ Restart(a) PROVE Inv'
  BY <1>1, <1>7, SpecAssumption DEF Crash, Restart, Inv, Typed
<1>8. ASSUME NEW a \in Running, Revert(a) PROVE Inv'
  <2>1. /\ best' = [best EXCEPT ![a] = finalised[a]]
        /\ voted' = [voted EXCEPT ![a] = finalised[a]]
        /\ reverted' = reverted \cup {a} /\ Cardinality(reverted') <= MaxReverted
        /\ UNCHANGED <<slot, up, crashes, finalised, rounds>>
    BY <1>8 DEF Revert
  <2>2. Typed'
    BY <2>1 DEF Inv, Typed
  <2>3. Justified'
    BY <2>1 DEF Inv, Typed, Justified, Quorums
  <2>4. RoundsInLine' /\ FinalIsBest'
    BY <2>1, PrefixReflexive DEF Inv, Typed, RoundsInLine, FinalIsBest
  <2> QED BY <2>2, <2>3, <2>4 DEF Inv
<1>9. CASE UNCHANGED vars
  BY <1>1, <1>9 DEF vars, Inv, Typed
<1>10. up \subseteq Running
  BY DEF Inv, Typed
<1> QED BY <1>2, <1>3, <1>4, <1>5, <1>6, <1>7, <1>8, <1>9, <1>10 DEF Next, Imports, Finalisations

LEMMA InvInit == Init => Inv
<1> SUFFICES ASSUME Init PROVE Inv
  OBVIOUS
<1>1. <<>> \in Chains
  BY DEF Chains
<1>2. 0 \in 0..MaxSlot /\ 0 \in 0..MaxCrashes /\ Cardinality({}) <= MaxReverted
  BY SpecAssumption, FS_EmptySet
<1>3. Typed
  BY <1>1, <1>2 DEF Init, Typed
<1>4. Justified /\ RoundsInLine
  BY DEF Init, Justified, RoundsInLine
<1>5. FinalIsBest
  BY <1>1, EmptyIsPrefix DEF Init, FinalIsBest
<1> QED BY <1>3, <1>4, <1>5 DEF Inv

THEOREM InvHolds == Spec => []Inv
BY InvInit, InvStep, PTL DEF Spec

-----------------------------------------------------------------------------
(* The draws. *)

LEMMA PrefixDraw ==
  ASSUME NEW s \in Chains, NEW t \in Chains, IsPrefix(s, t), NEW o \in Nat, o <= Len(s)
  PROVE  Draw(s, o) = Draw(t, o)
<1> DEFINE D == {i \in 1..Len(s) : i < o}
           E == {i \in 1..Len(t) : i < o}
<1>1. Len(s) \in Nat /\ Len(t) \in Nat /\ Len(s) <= Len(t)
      /\ \A i \in 1..Len(s) : s[i] = t[i]
  BY DEF IsPrefix, Chains
<1>2. D = E /\ \A i \in D : s[i] = t[i]
  BY <1>1
<1>3. Draw(s, o) = [i \in D |-> s[i]] /\ Draw(t, o) = [i \in E |-> t[i]]
  BY DEF Draw, Chains
<1> HIDE DEF D, E
<1> QED BY <1>2, <1>3

\* Final blocks are on one branch, whichever nodes know them and whenever.
LEMMA FinalInLine ==
  ASSUME Inv, Inv', rounds \subseteq rounds', NEW a \in Running, NEW c \in Running
  PROVE  IsPrefix(finalised[a], finalised'[c]) \/ IsPrefix(finalised'[c], finalised[a])
<1>1. finalised[a] \in Chains /\ finalised'[c] \in Chains
  BY DEF Inv, Typed
<1>2. CASE finalised[a] = <<>> \/ finalised'[c] = <<>>
  BY <1>1, <1>2, EmptyIsPrefix
<1>3. CASE finalised[a] \in rounds' /\ finalised'[c] \in rounds'
  BY <1>3 DEF Inv, RoundsInLine
<1> QED BY <1>2, <1>3 DEF Inv, FinalIsBest

\* Once a node knows that block o is final, the draws of the block's claims are what
\* they are on every other node that ever knows so.
THEOREM DrawsAreSettled == Spec => DrawsSettle
<1> DEFINE Same(a, c, o) ==
             o <= Len(finalised[c]') => Draw(best[a], o) = Draw(best[c]', o)
<1>1. Inv /\ Inv' /\ [Next]_vars =>
        [\A a \in Running : \A o \in 1..Len(finalised[a]) : \A c \in Running : Same(a, c, o)]_vars
  <2> SUFFICES ASSUME Inv, Inv', Next, NEW a \in Running, NEW c \in Running,
                      NEW o \in 1..Len(finalised[a]), o <= Len(finalised[c]')
               PROVE  Draw(best[a], o) = Draw(best[c]', o)
    OBVIOUS
  <2> DEFINE f == finalised[a]
             g == finalised'[c]
  <2>1. rounds \subseteq rounds'
    BY DEF Next, Tick, Rounds, Imports, Finalisations, FinaliseRound, Author, Crash, Restart,
           Revert, Import, ImportJustification
  <2>2. /\ f \in Chains /\ g \in Chains /\ best[a] \in Chains /\ best'[c] \in Chains
        /\ IsPrefix(f, best[a]) /\ IsPrefix(g, best'[c])
    BY DEF Inv, Typed, FinalIsBest
  <2>3. o \in Nat /\ o <= Len(f) /\ o <= Len(g)
    BY <2>2 DEF Chains
  <2>4. IsPrefix(f, g) \/ IsPrefix(g, f)
    BY <2>1, FinalInLine
  <2> HIDE DEF f, g
  <2>5. Draw(best[a], o) = Draw(f, o) /\ Draw(best'[c], o) = Draw(g, o)
    BY <2>2, <2>3, PrefixDraw
  <2>6. Draw(f, o) = Draw(g, o)
    BY <2>2, <2>3, <2>4, PrefixDraw
  <2> QED BY <2>5, <2>6
<1> QED BY <1>1, InvHolds, PTL DEF Spec, DrawsSettle

-----------------------------------------------------------------------------
(* Types: every chain claims later and later slots. *)

Increasing(s, n) == \A i \in 1..Len(s) : s[i] \in 1..n /\ (i > 1 => s[i - 1] < s[i])

Ordered ==
  /\ \A a \in Running : /\ Increasing(best[a], slot) /\ Increasing(voted[a], slot)
                        /\ Increasing(finalised[a], slot)
  /\ \A b \in rounds : Increasing(b, slot)

LEMMA LaterSlot ==
  ASSUME NEW s, NEW m \in Nat, NEW n \in Nat, m <= n, Increasing(s, m)
  PROVE  Increasing(s, n)
BY DEF Increasing

LEMMA OrderedStep == Inv /\ Ordered /\ [Next]_vars => Ordered'
<1> SUFFICES ASSUME Inv, Ordered, [Next]_vars PROVE Ordered'
  OBVIOUS
<1>1. slot \in Nat /\ (slot' = slot \/ slot' = slot + 1)
  <2>1. slot \in Nat
    BY DEF Inv, Typed
  <2>2. slot' = slot \/ slot' = slot + 1
    BY Zenon DEF Next, Tick, Rounds, Imports, Finalisations, FinaliseRound, Author,
                 Crash, Restart, Revert, Import, ImportJustification, vars
  <2> QED BY <2>1, <2>2
<1>2. ASSUME UNCHANGED <<best, voted, finalised, rounds>> PROVE Ordered'
  BY <1>1, <1>2, LaterSlot DEF Ordered
<1>3. CASE Tick \/ (\E a \in Running : Crash(a) \/ Restart(a)) \/ UNCHANGED vars
  BY <1>2, <1>3 DEF Tick, Crash, Restart, vars
<1>4. CASE Rounds
  <2>0. PICK S \in Quorums : \E b \in UNION {Prefixes(best[a]) : a \in S} : FinaliseRound(b, S)
    BY <1>4 DEF Rounds
  <2>1. PICK b \in UNION {Prefixes(best[a]) : a \in S} : FinaliseRound(b, S)
    BY <2>0
  <2>2. /\ voted' = [a \in Running |-> IF a \in S THEN b ELSE voted[a]]
        /\ rounds' = rounds \cup {b}
        /\ UNCHANGED <<slot, best, finalised>> /\ \A a \in S : IsPrefix(b, best[a])
    BY <2>1 DEF FinaliseRound, MayVote
  <2>3. PICK a \in S : a \in Running
    BY <2>1 DEF Quorums
  <2>4. Increasing(b, slot)
    <3>1. IsPrefix(b, best[a]) /\ Increasing(best[a], slot) /\ best[a] \in Chains
      BY <2>2, <2>3 DEF Inv, Typed, Ordered
    <3>2. Len(b) <= Len(best[a]) /\ Len(best[a]) \in Nat
          /\ \A i \in 1..Len(b) : b[i] = best[a][i]
      BY <3>1 DEF IsPrefix, Chains
    <3>3. \A i \in 1..Len(b) : i \in 1..Len(best[a]) /\ b[i] = best[a][i]
                               /\ (i > 1 => (i - 1) \in 1..Len(b))
      BY <3>2
    <3> QED BY <3>1, <3>3 DEF Increasing
  <2>5. \A c \in Running : voted'[c] = b \/ voted'[c] = voted[c]
    BY <2>2
  <2> QED BY <2>2, <2>4, <2>5 DEF Ordered
<1>5. ASSUME NEW a \in Running, Author(a) PROVE Ordered'
  <2>1. /\ best' = [best EXCEPT ![a] = Append(best[a], slot + 1)]
        /\ slot' = slot + 1 /\ UNCHANGED <<voted, finalised, rounds>>
    BY <1>5 DEF Author
  <2>2. Increasing(Append(best[a], slot + 1), slot + 1)
    <3> DEFINE s == best[a]
               t == Append(s, slot + 1)
    <3>1. s \in Chains /\ Increasing(s, slot)
      BY DEF Inv, Typed, Ordered
    <3> HIDE DEF s
    <3>2. Len(s) \in Nat /\ \A i \in 1..Len(s) : s[i] \in 1..slot
      BY <3>1 DEF Increasing, Chains
    <3>3. Len(t) = Len(s) + 1 /\ t[Len(s) + 1] = slot + 1 /\ \A i \in 1..Len(s) : t[i] = s[i]
      BY <3>1, <1>1 DEF Chains
    <3> HIDE DEF t
    <3>4. ASSUME NEW i \in 1..Len(t)
          PROVE  t[i] \in 1..(slot + 1) /\ (i > 1 => t[i - 1] < t[i])
      <4>1. CASE i \in 1..Len(s)
        <5>1. s[i] \in 1..slot /\ (i > 1 => s[i - 1] < s[i])
          BY <3>1, <4>1 DEF Increasing
        <5>2. t[i] = s[i] /\ (i > 1 => t[i - 1] = s[i - 1])
          BY <3>2, <3>3, <4>1
        <5> QED BY <1>1, <5>1, <5>2
      <4>2. CASE i = Len(s) + 1
        <5>1. t[i] = slot + 1
          BY <3>3, <4>2
        <5>2. i > 1 => t[i - 1] = s[Len(s)] /\ s[Len(s)] \in 1..slot
          BY <3>2, <3>3, <4>2
        <5> QED BY <1>1, <5>1, <5>2
      <4> QED BY <3>2, <3>3, <4>1, <4>2
    <3>5. Increasing(t, slot + 1)
      BY <3>4 DEF Increasing
    <3> QED BY <3>5 DEF t, s
  <2>3. \A c \in Running : best'[c] = IF c = a THEN Append(best[a], slot + 1) ELSE best[c]
    BY <2>1 DEF Inv, Typed
  <2>4. slot \in Nat /\ slot + 1 \in Nat /\ slot <= slot + 1
    BY <1>1
  <2>5. ASSUME NEW c \in Running PROVE Increasing(best'[c], slot + 1)
    BY <2>2, <2>3, <2>4, LaterSlot DEF Ordered
  <2> QED BY <2>1, <2>4, <2>5, LaterSlot DEF Ordered
<1>6. ASSUME NEW a \in Running, NEW c \in Running, Import(a, c) PROVE Ordered'
  BY <1>6 DEF Import, Ordered, Inv, Typed
<1>7. ASSUME NEW a \in Running, NEW b \in rounds, ImportJustification(a, b) PROVE Ordered'
  BY <1>7 DEF ImportJustification, Ordered, Inv, Typed
<1>8. ASSUME NEW a \in Running, Revert(a) PROVE Ordered'
  BY <1>8 DEF Revert, Ordered, Inv, Typed
<1>9. up \subseteq Running
  BY DEF Inv, Typed
<1> QED BY <1>3, <1>4, <1>5, <1>6, <1>7, <1>8, <1>9 DEF Next, Imports, Finalisations

\* Every variable has its type, and in a chain each block claims a later slot, also
\* after a justification made a node give up its best chain.
THEOREM TypeCorrect == Spec => []TypeOK
<1>1. Init => Ordered
  BY DEF Init, Ordered, Increasing
<1>2. Inv /\ Ordered => TypeOK
  BY DEF Inv, Typed, Ordered, Increasing, TypeOK, Chain
<1> QED BY <1>1, <1>2, OrderedStep, InvHolds, PTL DEF Spec
-----------------------------------------------------------------------------
(* The nodes implement the ledger. *)

\* The block of R that all blocks of R lead to.
Tip(R, b) == b \in R \cup {<<>>} /\ \A c \in R : IsPrefix(c, b)

HasTip == \E b \in rounds \cup {<<>>} : Tip(rounds, b)

\* Chains that lead to each other are the same.
LEMMA SameChain ==
  ASSUME NEW s \in Chains, NEW t \in Chains, IsPrefix(s, t), Len(t) <= Len(s)
  PROVE  s = t
<1>1. Len(s) = Len(t) /\ \A i \in 1..Len(s) : s[i] = t[i]
  BY DEF IsPrefix, Chains
<1> QED BY <1>1, SeqEqual DEF Chains

\* The tip is the longest block, the only one of its length.
LEMMA TipIsLongest ==
  ASSUME NEW R \in SUBSET Chains, NEW b, Tip(R, b)
  PROVE  b \in Chains /\ b = CHOOSE d \in R \cup {<<>>} : \A c \in R : Len(c) <= Len(d)
<1> DEFINE Longest(d) == \A c \in R : Len(c) <= Len(d)
<1>1. b \in R \cup {<<>>} /\ \A c \in R : IsPrefix(c, b)
  BY DEF Tip
<1>2. <<>> \in Chains
  BY DEF Chains
<1>3. b \in Chains
  BY <1>1, <1>2
<1>4. Longest(b)
  BY <1>1 DEF IsPrefix
<1>5. ASSUME NEW d \in R \cup {<<>>}, Longest(d) PROVE d = b
  <2>0. d \in Chains
    BY <1>2
  <2>1. d \in Chains /\ Len(d) \in Nat /\ Len(b) \in Nat
    BY <1>3, <2>0 DEF Chains
  <2>2. IsPrefix(d, b)
    BY <1>1, <1>3, EmptyIsPrefix
  <2>3. Len(b) <= Len(d)
    <3>1. CASE b \in R
      BY <1>5, <3>1
    <3>2. CASE b = <<>>
      BY <2>1, <3>2
    <3> QED BY <1>1, <3>1, <3>2
  <2> QED BY <1>3, <2>1, <2>2, <2>3, SameChain
<1> HIDE DEF Longest
<1>6. b = CHOOSE d \in R \cup {<<>>} : Longest(d)
  BY <1>1, <1>4, <1>5
<1> QED BY <1>3, <1>6 DEF Longest

\* A round puts its block on top of the ledger.
LEMMA RoundIsExtend ==
  ASSUME Inv, Inv', HasTip, Rounds
  PROVE  HasTip' /\ Final!Extend
<1>1. PICK S \in Quorums : \E b \in (UNION {Prefixes(best[a]) : a \in S}) \ rounds : FinaliseRound(b, S)
  BY DEF Rounds
<1>2. PICK b \in (UNION {Prefixes(best[a]) : a \in S}) \ rounds : FinaliseRound(b, S)
  BY <1>1
<1>3. PICK a \in S : b \in Prefixes(best[a])
  BY <1>2
<1>4. a \in Running
  BY DEF Quorums
<1>5. b \in Chains /\ b \notin rounds
  <2>1. best[a] \in Chains
    BY <1>4 DEF Inv, Typed
  <2>2. b \in Chains
    BY <1>3, <2>1 DEF Prefixes, Chains
  <2>3. b \notin rounds
    BY <1>2
  <2> QED BY <2>2, <2>3
<1>6. rounds' = rounds \cup {b} /\ finalised' = finalised /\ Len(finalised[a]) < Len(b)
  BY <1>2 DEF FinaliseRound, MayVote
<1>7. \A c \in rounds : IsPrefix(c, b)
  BY <1>2, <1>5, RoundExtends
<1>8. Tip(rounds', b)
  BY <1>5, <1>6, <1>7, PrefixReflexive DEF Tip
<1>9. Agreed' = b
  <2>1. rounds' \in SUBSET Chains
    BY DEF Inv, Typed
  <2> QED BY <1>8, <2>1, TipIsLongest DEF Agreed
<1>10. PICK t \in rounds \cup {<<>>} : Tip(rounds, t)
  BY DEF HasTip
<1>11. Agreed = t /\ t \in Chains
  BY <1>10, TipIsLongest DEF Agreed, Inv, Typed
<1>12. IsPrefix(t, b) /\ t # b
  <2>1. CASE t \in rounds
    BY <1>5, <1>7, <2>1
  <2>2. CASE t = <<>>
    <3>1. finalised[a] \in Seq(Nat) /\ b \in Seq(Nat)
      BY <1>4, <1>5 DEF Inv, Typed, Chains
    <3>3. Len(finalised[a]) \in Nat /\ Len(b) \in Nat
      BY <3>1
    <3>2. Len(b) # 0
      BY <1>6, <3>3
    <3> QED BY <1>5, <2>2, <3>2, EmptyIsPrefix
  <2> QED BY <1>10, <2>1, <2>2
<1>13. Len(t) < Len(b)
  <2>1. ~ Len(b) <= Len(t)
    BY <1>5, <1>11, <1>12, SameChain
  <2> QED BY <1>5, <1>11, <2>1 DEF Chains
<1>14. Final!Begins(t, b)
  BY <1>12 DEF Final!Begins, IsPrefix
<1>15. HasTip'
  BY <1>8 DEF HasTip, Tip
<1> QED BY <1>6, <1>9, <1>11, <1>13, <1>14, <1>15 DEF Final!Extend

\* A justification that arrives is a part of the ledger that its node learns.
LEMMA JustificationIsLearn ==
  ASSUME Inv, HasTip, NEW a \in Running, NEW b \in rounds, ImportJustification(a, b)
  PROVE  HasTip' /\ Final!Learn(a)
<1>1. /\ rounds' = rounds /\ finalised' = [finalised EXCEPT ![a] = b]
      /\ Len(finalised[a]) < Len(b)
  BY DEF ImportJustification
<1>2. HasTip' /\ Agreed' = Agreed
  BY <1>1 DEF HasTip, Tip, Agreed
<1>3. PICK t \in rounds \cup {<<>>} : Tip(rounds, t)
  BY DEF HasTip
<1>4. Agreed = t
  BY <1>3, TipIsLongest DEF Agreed, Inv, Typed
<1>5. Final!Begins(b, t)
  BY <1>3 DEF Tip, IsPrefix, Final!Begins
<1>6. /\ finalised'[a] = b /\ DOMAIN finalised' = Running
      /\ \A c \in Running \ {a} : finalised'[c] = finalised[c]
  BY <1>1 DEF Inv, Typed
<1> QED BY <1>1, <1>2, <1>4, <1>5, <1>6 DEF Final!Learn

\* The nodes agree on one ledger that only grows: the longest justified block.  Each of
\* them knows the beginning of it, and never learns of a block that is not in it nor
\* unlearns one that is, whatever forks, crashes and reverts there are.
THEOREM Refinement == Spec => FinalSpec
<1>1. Init => HasTip /\ Final!Init
  <2> SUFFICES ASSUME Init PROVE HasTip /\ Final!Init
    OBVIOUS
  <2>1. Tip(rounds, <<>>) /\ HasTip
    BY DEF Init, Tip, HasTip
  <2>2. Agreed = <<>>
    BY <2>1, TipIsLongest, InvInit DEF Agreed, Inv, Typed
  <2> QED BY <2>1, <2>2 DEF Init, Final!Init
<1>2. Inv /\ Inv' /\ HasTip /\ [Next]_vars => HasTip' /\ [Final!Next]_(Final!vars)
  <2> SUFFICES ASSUME Inv, Inv', HasTip, [Next]_vars
               PROVE  HasTip' /\ [Final!Next]_(Final!vars)
    OBVIOUS
  <2>1. ASSUME UNCHANGED <<rounds, finalised>> PROVE HasTip' /\ UNCHANGED Final!vars
    BY <2>1 DEF HasTip, Tip, Agreed, Final!vars
  <2>2. CASE Rounds
    BY <2>2, RoundIsExtend DEF Final!Next
  <2>3. ASSUME NEW a \in up, NEW b \in rounds, ImportJustification(a, b)
        PROVE  HasTip' /\ Final!Next
    <3>1. a \in Running
      BY DEF Inv, Typed
    <3> QED BY <2>3, <3>1, JustificationIsLearn DEF Final!Next
  <2>4. CASE Tick \/ Imports \/ UNCHANGED vars
             \/ \E a \in Running : Author(a) \/ Crash(a) \/ Restart(a) \/ Revert(a)
    <3>1. UNCHANGED <<rounds, finalised>>
      BY <2>4 DEF Tick, Imports, Import, Author, Crash, Restart, Revert, vars
    <3> QED BY <2>1, <3>1
  <2> QED BY <2>2, <2>3, <2>4 DEF Next, Finalisations
<1> QED BY <1>1, <1>2, InvHolds, PTL DEF Spec, FinalSpec, Final!Spec
-----------------------------------------------------------------------------
(* Too few voters. *)

\* When fewer authorities are run than have to vote (service.rs:331), no round ever ends
\* and no node ever has a final block, whatever is authored.
THEOREM NoQuorumNoFinality ==
  ASSUME Cardinality(Running) < Threshold(Len(RuntimeGenesis.aura))
  PROVE  Spec => [](rounds = {} /\ \A a \in Running : finalised[a] = <<>>)
<1> DEFINE Nothing == rounds = {} /\ \A a \in Running : finalised[a] = <<>>
<1>1. Quorums = {}
  <2> SUFFICES ASSUME NEW S \in Quorums PROVE FALSE
    OBVIOUS
  <2>1. S \subseteq Running /\ Cardinality(S) >= Threshold(Len(RuntimeGenesis.aura))
    BY DEF Quorums
  <2>2. IsFiniteSet(Running)
    BY AuthoritiesFinite, SpecAssumption, FS_Subset
  <2>3. IsFiniteSet(S) /\ Cardinality(S) <= Cardinality(Running)
    BY <2>1, <2>2, FS_Subset
  <2>4. Cardinality(S) \in Nat /\ Cardinality(Running) \in Nat
    BY <2>2, <2>3, FS_CardinalityType
  <2>5. Threshold(Len(RuntimeGenesis.aura)) \in Int
    BY AuthoritiesFinite DEF Threshold
  <2> QED BY <2>1, <2>3, <2>4, <2>5
<1>2. Init => Nothing
  BY DEF Init
<1>3. Nothing /\ [Next]_vars => Nothing'
  <2> SUFFICES ASSUME Nothing, [Next]_vars PROVE Nothing'
    OBVIOUS
  <2>1. ~ Rounds /\ ~ Finalisations
    BY <1>1 DEF Rounds, Finalisations
  <2> QED BY <2>1 DEF Next, Tick, Imports, Import, Author, Crash, Restart, Revert, vars
<1> QED BY <1>2, <1>3, PTL DEF Spec

\* The finding of run dev_finality, for ever and for every bound: on the development chain
\* (chain_spec.rs:66) what Alice and Bob build is never final, so that the best chain of a
\* claim stays open to a reorganisation.
THEOREM AliceAndBobNeverFinalise ==
  ASSUME chain_id = "dev", Running = {"Alice", "Bob"}
  PROVE  Spec => [](\A a \in Running : finalised[a] = <<>>)
<1>1. Len(RuntimeGenesis.aura) = 6
  BY DEF RuntimeGenesis, TestnetGenesis, LoadSpec, DevelopmentConfig
<1>2. Threshold(Len(RuntimeGenesis.aura)) = 5
  BY <1>1 DEF Threshold
<1>3. IsFiniteSet(Running) /\ Cardinality(Running) = 2
  <2>1. Running = {"Alice"} \cup {"Bob"} /\ "Bob" \notin {"Alice"}
    OBVIOUS
  <2>2. IsFiniteSet({"Alice"}) /\ Cardinality({"Alice"}) = 1
    BY FS_Singleton
  <2> QED BY <2>1, <2>2, FS_AddElement
<1>4. Cardinality(Running) < Threshold(Len(RuntimeGenesis.aura))
  BY <1>2, <1>3
<1>5. Spec => [](rounds = {} /\ \A a \in Running : finalised[a] = <<>>)
  BY <1>4, NoQuorumNoFinality
<1> QED BY <1>5, PTL
-----------------------------------------------------------------------------
(* Finality is never stuck. *)

\* What a node voted for last was justified, also after its votes were forgotten.
VotedIsJustified == \A a \in Running : voted[a] \in rounds \cup {<<>>}

LEMMA VotedStep == Inv /\ VotedIsJustified /\ [Next]_vars => VotedIsJustified'
<1> SUFFICES ASSUME Inv, VotedIsJustified, [Next]_vars PROVE VotedIsJustified'
  OBVIOUS
<1>1. CASE Rounds
  <2>1. PICK S \in Quorums : \E b \in (UNION {Prefixes(best[a]) : a \in S}) \ rounds :
                               FinaliseRound(b, S)
    BY <1>1 DEF Rounds
  <2>2. PICK b : FinaliseRound(b, S)
    BY <2>1
  <2>3. /\ voted' = [a \in Running |-> IF a \in S THEN b ELSE voted[a]]
        /\ rounds' = rounds \cup {b}
    BY <2>2 DEF FinaliseRound
  <2> QED BY <2>3 DEF VotedIsJustified
<1>2. ASSUME NEW a \in Running, Revert(a) PROVE VotedIsJustified'
  <2>1. voted' = [voted EXCEPT ![a] = finalised[a]] /\ rounds' = rounds
    BY <1>2 DEF Revert
  <2> QED BY <2>1 DEF VotedIsJustified, Inv, Typed, FinalIsBest
<1>3. CASE Tick \/ Imports \/ Finalisations \/ UNCHANGED vars
           \/ \E a \in Running : Author(a) \/ Crash(a) \/ Restart(a)
  <2>1. UNCHANGED <<voted, rounds>>
    BY <1>3 DEF Tick, Imports, Import, Finalisations, ImportJustification, Author, Crash,
                Restart, vars
  <2> QED BY <2>1 DEF VotedIsJustified
<1> QED BY <1>1, <1>2, <1>3 DEF Next

\* The shorter one of two beginnings of a chain is the beginning of the longer one.
LEMMA PrefixesInLine ==
  ASSUME NEW s \in Chains, NEW t \in Chains, NEW u \in Chains,
         IsPrefix(s, u), IsPrefix(t, u), Len(s) <= Len(t)
  PROVE  IsPrefix(s, t)
<1>1. Len(s) \in Nat /\ Len(t) \in Nat /\ \A i \in 1..Len(s) : i \in 1..Len(t)
  BY DEF Chains
<1>2. \A i \in 1..Len(s) : s[i] = u[i] /\ t[i] = u[i]
  BY <1>1 DEF IsPrefix
<1> QED BY <1>2 DEF IsPrefix

\* The beginning of a chain up to some block.
LEMMA PrefixOfLength ==
  ASSUME NEW s \in Chains, NEW n \in 0..Len(s)
  PROVE  /\ SubSeq(s, 1, n) \in Chains /\ Len(SubSeq(s, 1, n)) = n
         /\ IsPrefix(SubSeq(s, 1, n), s) /\ SubSeq(s, 1, n) \in Prefixes(s)
<1> DEFINE t == SubSeq(s, 1, n)
<1>1. t \in Chains /\ Len(t) = n /\ \A i \in 1..n : t[i] = s[i]
  BY DEF Chains
<1>2. Len(s) \in Nat /\ n <= Len(s)
  BY DEF Chains
<1>3. t \in Prefixes(s)
  BY DEF Prefixes
<1> HIDE DEF t
<1> QED BY <1>1, <1>2, <1>3 DEF IsPrefix, t

\* A quorum is not empty.
LEMMA QuorumHasMember == \A S \in Quorums : \E a \in Running : a \in S
<1> SUFFICES ASSUME NEW S \in Quorums PROVE \E a \in Running : a \in S
  OBVIOUS
<1>1. Cardinality({}) <= MaxReverted
  BY SpecAssumption, FS_EmptySet
<1> QED BY <1>1, QuorumsIntersect

\* A block that both default voting rules allow, later than the last final one.
LEMMA VoteReach ==
  ASSUME NEW k \in Nat, NEW m \in Nat, k + VOTE_LAG < m
  PROVE  \E n \in 0..m : k < n /\ n + VOTE_LAG <= m /\ n <= ThreeQuarters(k, m)
<1> DEFINE t == ThreeQuarters(k, m)
           n == IF m - VOTE_LAG <= t THEN m - VOTE_LAG ELSE t
<1>1. VOTE_LAG \in Nat
  BY SpecAssumption
<1>2. t \in Int /\ k < t
  <2>1. 3 * (m - k) + 2 >= 4
    BY <1>1
  <2>2. (3 * (m - k) + 2) \div 4 \in Int /\ (3 * (m - k) + 2) \div 4 >= 1
    BY <2>1, SMT
  <2> QED BY <2>2, SMT DEF ThreeQuarters
<1> HIDE DEF t
<1>3. n \in 0..m /\ k < n /\ n + VOTE_LAG <= m /\ n <= t
  BY <1>1, <1>2, SMT
<1> QED BY <1>3 DEF t

\* Voters that know of all justifications may vote for a block that the rules allow.
LEMMA VotersAgree ==
  ASSUME Inv, VotedIsJustified, SameBest, ~ CaughtUp, ~ JustificationAhead,
         NEW S \in Quorums, S \subseteq up
  PROVE  RoundAhead
<1>1. PICK c \in up : ~ Len(best[c]) <= Len(finalised[c]) + VOTE_LAG
  BY DEF CaughtUp
<1>2. up \subseteq Running /\ VOTE_LAG \in Nat
  BY SpecAssumption DEF Inv, Typed
<1> DEFINE B == best[c]
<1>3. B \in Chains /\ finalised[c] \in Chains /\ Len(B) \in Nat /\ Len(finalised[c]) \in Nat
  BY <1>2 DEF Inv, Typed, Chains
<1>4. PICK n \in 0..Len(B) : /\ Len(finalised[c]) < n /\ n + VOTE_LAG <= Len(B)
                             /\ n <= ThreeQuarters(Len(finalised[c]), Len(B))
  <2>1. Len(finalised[c]) + VOTE_LAG < Len(B)
    BY <1>1, <1>2, <1>3
  <2> QED BY <1>3, <2>1, VoteReach
<1> DEFINE b == SubSeq(B, 1, n)
<1> HIDE DEF B
<1>5. b \in Chains /\ Len(b) = n /\ IsPrefix(b, B) /\ b \in Prefixes(B)
  BY <1>3, <1>4, PrefixOfLength
<1> HIDE DEF b
<1>6. ASSUME NEW d \in rounds \cup {<<>>}, NEW a \in up
      PROVE  d \in Chains /\ Len(d) \in Nat /\ Len(d) <= Len(finalised[a])
  <2>1. <<>> \in Chains /\ Len(<<>>) = 0
    BY DEF Chains
  <2>2. d \in Chains
    BY <2>1 DEF Inv, Typed
  <2>3. Len(d) \in Nat /\ Len(finalised[a]) \in Nat
    BY <1>2, <2>2 DEF Inv, Typed, Chains
  <2>4. d \in rounds => Len(d) <= Len(finalised[a])
    BY <2>3 DEF JustificationAhead
  <2>5. d = <<>> => Len(d) <= Len(finalised[a])
    BY <2>1, <2>3
  <2> QED BY <2>2, <2>3, <2>4, <2>5
<1>7. b \notin rounds
  <2>1. b \in rounds => Len(b) <= Len(finalised[c])
    BY <1>6
  <2> QED BY <1>3, <1>4, <1>5, <2>1
<1>8. ASSUME NEW a \in S PROVE MayVote(a, b)
  <2>1. a \in up /\ a \in Running /\ best[a] = B
    BY <1>2 DEF SameBest, B
  <2>2. /\ finalised[a] \in rounds \cup {<<>>} /\ finalised[c] \in rounds \cup {<<>>}
        /\ voted[a] \in rounds \cup {<<>>}
    BY <1>2, <2>1 DEF VotedIsJustified, Inv, FinalIsBest
  <2>3. /\ Len(finalised[a]) <= Len(finalised[c]) /\ Len(voted[a]) <= Len(finalised[c])
        /\ Len(finalised[a]) \in Nat /\ Len(voted[a]) \in Nat
        /\ voted[a] \in Chains
    BY <1>6, <2>2
  <2>4. IsPrefix(voted[a], finalised[c])
    <3>1. CASE voted[a] = <<>>
      BY <1>3, <3>1, EmptyIsPrefix
    <3>2. CASE finalised[c] = <<>>
      <4>1. Len(voted[a]) = 0 /\ Len(finalised[c]) = 0
        BY <2>3, <3>2
      <4> QED BY <4>1, <2>3 DEF IsPrefix
    <3>3. CASE voted[a] \in rounds /\ finalised[c] \in rounds
      <4>1. IsPrefix(voted[a], finalised[c]) \/ IsPrefix(finalised[c], voted[a])
        BY <3>3 DEF Inv, RoundsInLine
      <4> QED BY <1>3, <2>3, <4>1, ShorterPrefix
    <3> QED BY <2>2, <3>1, <3>2, <3>3
  <2>5. IsPrefix(finalised[c], B)
    BY <1>2 DEF Inv, FinalIsBest, B
  <2>6. IsPrefix(voted[a], B)
    BY <1>3, <2>3, <2>4, <2>5, PrefixTransitive
  <2>7. Len(voted[a]) <= Len(b) /\ Len(finalised[a]) < Len(b)
    BY <1>3, <1>4, <1>5, <2>3
  <2>8. IsPrefix(voted[a], b)
    BY <1>3, <1>5, <2>3, <2>6, <2>7, PrefixesInLine
  <2>9. Len(finalised[a]) = Len(finalised[c])
    <3>1. Len(finalised[c]) <= Len(finalised[a])
      BY <1>6, <2>1, <2>2
    <3> QED BY <1>3, <2>3, <3>1
  <2>10. Len(b) <= ThreeQuarters(Len(finalised[a]), Len(best[a]))
    BY <1>4, <1>5, <2>1, <2>9, Zenon
  <2> QED BY <1>4, <1>5, <2>1, <2>7, <2>8, <2>10 DEF MayVote
<1>9. PICK a \in Running : a \in S
  BY QuorumHasMember
<1>10. best[a] = B
  BY <1>9 DEF SameBest, B
<1>11. b \in (UNION {Prefixes(best[e]) : e \in S}) \ rounds
  BY <1>5, <1>7, <1>9, <1>10
<1> QED BY <1>8, <1>11 DEF RoundAhead

\* Whatever was voted for, abandoned, crashed or reverted: while finality lags behind the
\* best block of a quorum that runs, somebody may do something about it.  It is what
\* FinalityCatchesUp needs besides fairness.
THEOREM FinalityNeverStuck == Spec => []NeverStuck
<1>1. Init => VotedIsJustified
  BY DEF Init, VotedIsJustified
<1>2. Inv /\ VotedIsJustified => NeverStuck
  BY VotersAgree DEF NeverStuck
<1> QED BY <1>1, <1>2, VotedStep, InvHolds, PTL DEF Spec

-----------------------------------------------------------------------------
(* The pallet on the branches. *)

\* The blocks up to n that are fewer than len blocks behind it.
Window(n, len) == {b \in 1..n : b > n - len}

\* The parent hash in the header of a block stands for all the blocks before it.
Headers(chain) == [b \in 1..Len(chain) |-> Draw(chain, b)]

\* What block b mixes on a chain, as ProbabilisticPaymentsProofs shows (ChainRandomness).
RandomnessOn(chain, b) ==
  [topic |-> b, material |-> [m \in Window(b, RANDOM_MATERIAL_LEN) |-> Headers(chain)[m]]]

\* The pallet in the last block of a chain; the blocks whose randomness it keeps are
\* those of RetentionWindow.
On(chain) == INSTANCE ProbabilisticPayments WITH
  block_number       <- Len(chain),
  parent_hash        <- Headers(chain),
  random_material    <- [m \in Window(Len(chain), RANDOM_MATERIAL_LEN) |-> Headers(chain)[m]],
  randomness_history <- [b \in Window(Len(chain), EPOCH_LENGTH) |-> RandomnessOn(chain, b)],
  events             <- <<>>

\* The result of a claim in the last block of a chain.
Verdict(chain, v, who) == On(chain)!ClaimResult(v, who)

Decided == {"VoucherClaimed", "VoucherDidNotWin"}

\* Whether a voucher wins with a randomness.
Wins(v, rand) == Blake2(v.unsigned, rand) < U256_MAX \div v.unsigned.difficulty

\* A decided claim was decided by the randomness of its oracle block.
LEMMA VerdictByDraw ==
  ASSUME NEW chain, NEW v, NEW who, Verdict(chain, v, who) \in Decided
  PROVE  /\ v.unsigned.oracle_block \in 1..Len(chain)
         /\ Verdict(chain, v, who) =
              IF ~ Wins(v, RandomnessOn(chain, v.unsigned.oracle_block))
              THEN "VoucherDidNotWin" ELSE "VoucherClaimed"
<1> DEFINE o == v.unsigned.oracle_block
           H == [b \in Window(Len(chain), EPOCH_LENGTH) |-> RandomnessOn(chain, b)]
<1>1. o \in DOMAIN H /\ Verdict(chain, v, who) =
        IF ~ Wins(v, H[o]) THEN "VoucherDidNotWin" ELSE "VoucherClaimed"
  BY DEF Verdict, Decided, Wins, On!ClaimResult, On!Wins, On!Verify
<1>2. o \in Window(Len(chain), EPOCH_LENGTH) /\ H[o] = RandomnessOn(chain, o)
  BY <1>1
<1>3. o \in 1..Len(chain)
  BY <1>2 DEF Window
<1> HIDE DEF o, H
<1> QED BY <1>1, <1>2, <1>3 DEF o

\* Chains that are one up to a block mix the same in it.
LEMMA SameRandomness ==
  ASSUME NEW s \in Chains, NEW t \in Chains, NEW o \in 1..Len(s), o <= Len(t),
         Draw(s, o) = Draw(t, o)
  PROVE  RandomnessOn(s, o) = RandomnessOn(t, o)
<1> DEFINE D(chain, b) == {i \in DOMAIN chain : i < b}
<1>1. Len(s) \in Nat /\ Len(t) \in Nat /\ o \in Nat /\ DOMAIN s = 1..Len(s) /\ DOMAIN t = 1..Len(t)
  BY DEF Chains
<1>2. ASSUME NEW m \in Window(o, RANDOM_MATERIAL_LEN) PROVE Headers(s)[m] = Headers(t)[m]
  <2>1. m \in 1..o /\ m \in 1..Len(s) /\ m \in 1..Len(t)
    BY <1>1 DEF Window
  <2>2. D(s, m) = D(t, m) /\ D(s, m) \subseteq D(s, o) /\ D(t, m) \subseteq D(t, o)
    BY <1>1, <2>1
  <2>3. \A i \in D(s, m) : s[i] = t[i]
    <3> SUFFICES ASSUME NEW i \in D(s, m) PROVE s[i] = t[i]
      OBVIOUS
    <3>1. i \in D(s, o) /\ i \in D(t, o)
      BY <2>2
    <3>2. Draw(s, o)[i] = s[i] /\ Draw(t, o)[i] = t[i]
      BY <3>1 DEF Draw
    <3> QED BY <3>2
  <2>4. Draw(s, m) = [i \in D(s, m) |-> s[i]] /\ Draw(t, m) = [i \in D(t, m) |-> t[i]]
    BY DEF Draw
  <2> HIDE DEF D
  <2>5. Draw(s, m) = Draw(t, m)
    BY <2>2, <2>3, <2>4
  <2> QED BY <2>1, <2>5 DEF Headers
<1> QED BY <1>2, Zenon DEF RandomnessOn

\* Once a node knows that the oracle block of a voucher is final, the voucher is won or lost:
\* a claim that is decided on its best chain is decided the same on the best chain of
\* every other node that ever knows so, however far and on whatever branch each of
\* them has come since (lib.rs:196-204, service.rs:324-346).
PayoutsSettle ==
  [][\A a, c \in Running, s, t \in Chains, v \in Vouchers, who \in Accounts :
       /\ s = best[a]
       /\ t = best[c]'
       /\ v.unsigned.oracle_block <= Len(finalised[a])
       /\ v.unsigned.oracle_block <= Len(finalised[c]')
       /\ Verdict(s, v, who) \in Decided
       /\ Verdict(t, v, who) \in Decided
       => Verdict(s, v, who) = Verdict(t, v, who)]_vars

\* The pallet composed with the nodes that fork: PayoutsSettle holds, from the draws that
\* settle and from what decides a claim.
THEOREM PayoutsAreSettled == Spec => PayoutsSettle
<1> DEFINE Draws(a, c, o) ==
             o <= Len(finalised[c]') => Draw(best[a], o) = Draw(best[c]', o)
           Same(a, c, s, t, v, who) ==
             /\ s = best[a]
             /\ t = best[c]'
             /\ v.unsigned.oracle_block <= Len(finalised[a])
             /\ v.unsigned.oracle_block <= Len(finalised[c]')
             /\ Verdict(s, v, who) \in Decided
             /\ Verdict(t, v, who) \in Decided
             => Verdict(s, v, who) = Verdict(t, v, who)
<1>1. /\ Inv /\ Inv'
      /\ [\A a \in Running : \A o \in 1..Len(finalised[a]) : \A c \in Running : Draws(a, c, o)]_vars
      => [\A a, c \in Running, s, t \in Chains, v \in Vouchers, who \in Accounts :
            Same(a, c, s, t, v, who)]_vars
  <2> SUFFICES ASSUME Inv, Inv',
                      \A a \in Running : \A o \in 1..Len(finalised[a]) : \A c \in Running : Draws(a, c, o),
                      NEW a \in Running, NEW c \in Running, NEW s \in Chains, NEW t \in Chains,
                      NEW v \in Vouchers, NEW who \in Accounts,
                      s = best[a],
                      t = best[c]',
                      v.unsigned.oracle_block <= Len(finalised[a]),
                      v.unsigned.oracle_block <= Len(finalised[c]'),
                      Verdict(s, v, who) \in Decided,
                      Verdict(t, v, who) \in Decided
               PROVE  Verdict(s, v, who) = Verdict(t, v, who)
    OBVIOUS
  <2> DEFINE o == v.unsigned.oracle_block
  <2>1. finalised[a] \in Chains
    BY DEF Inv, Typed
  <2>2. o \in 1..Len(s) /\ o \in 1..Len(t)
    BY VerdictByDraw
  <2>3. o \in 1..Len(finalised[a])
    BY <2>1, <2>2 DEF Chains
  <2>4. Draw(s, o) = Draw(t, o)
    BY <2>3
  <2>5. RandomnessOn(s, o) = RandomnessOn(t, o)
    BY <2>1, <2>2, <2>4, SameRandomness DEF Chains
  <2>6. /\ Verdict(s, v, who) =
             IF ~ Wins(v, RandomnessOn(s, o)) THEN "VoucherDidNotWin" ELSE "VoucherClaimed"
        /\ Verdict(t, v, who) =
             IF ~ Wins(v, RandomnessOn(t, o)) THEN "VoucherDidNotWin" ELSE "VoucherClaimed"
    BY VerdictByDraw
  <2> QED BY <2>5, <2>6
<1> QED BY <1>1, InvHolds, DrawsAreSettled, PTL DEF DrawsSettle, PayoutsSettle
=============================================================================
