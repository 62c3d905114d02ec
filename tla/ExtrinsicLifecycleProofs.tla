---------------------- MODULE ExtrinsicLifecycleProofs ----------------------
(***************************************************************************)
(* Theorems about ExtrinsicLifecycle, for any accounts, any number of      *)
(* forks and every BlockHashCount that its assumption allows, the 2400 of  *)
(* the runtime among them.                                                 *)
(***************************************************************************)
EXTENDS ExtrinsicLifecycle, TLAPS

-----------------------------------------------------------------------------
(* The arithmetic of mortal eras. *)

Periods == {4, 8, 16, 32, 64, 128, 256, 512, 1024, 2048, 4096}

LEMMA NextPower ==
  /\ NextPowerOfTwo(BlockHashCount) \in PowersOfTwo
  /\ NextPowerOfTwo(BlockHashCount) >= BlockHashCount
  /\ \A q \in PowersOfTwo : q >= BlockHashCount => NextPowerOfTwo(BlockHashCount) <= q
<1> DEFINE IsNext(p) == p >= BlockHashCount /\ \A q \in PowersOfTwo : q >= BlockHashCount => p <= q
<1>1. \E p \in PowersOfTwo : IsNext(p)
  <2> DEFINE Above(p, q) == BlockHashCount > p /\ BlockHashCount <= q
  <2>1. BlockHashCount \in Int /\ 2 <= BlockHashCount /\ BlockHashCount <= 8192
    BY BlockHashCountAssumption
  <2>2. \/ BlockHashCount <= 2 \/ Above(2, 4) \/ Above(4, 8) \/ Above(8, 16) \/ Above(16, 32)
        \/ Above(32, 64) \/ Above(64, 128) \/ Above(128, 256) \/ Above(256, 512)
        \/ Above(512, 1024) \/ Above(1024, 2048) \/ Above(2048, 4096) \/ Above(4096, 8192)
    BY <2>1
  <2>3. CASE BlockHashCount <= 2
    BY <2>1, <2>3, IsNext(2) DEF PowersOfTwo
  <2> QED BY <2>1, <2>2, <2>3, SMTT(30) DEF PowersOfTwo
<1>2. NextPowerOfTwo(BlockHashCount) = CHOOSE p \in PowersOfTwo : IsNext(p)
  BY DEF NextPowerOfTwo
<1> QED BY <1>1, <1>2

\* The period is a power of two that Era leaves alone, and the hashes of a period
\* are kept.
LEMMA PeriodBounds == Period \in Periods /\ Period <= BlockHashCount + 2
<1> DEFINE next == NextPowerOfTwo(BlockHashCount)
<1>1. BlockHashCount \in Int /\ 2 <= BlockHashCount
  BY BlockHashCountAssumption
<1>2. next \in PowersOfTwo /\ next >= BlockHashCount
  BY NextPower
<1>3. \A q \in PowersOfTwo : q >= BlockHashCount => next <= q
  BY NextPower
<1>4. Period = IF next \div 2 < 4 THEN 4 ELSE next \div 2
  BY DEF Period
<1> HIDE DEF next
<1>5. next # 1
  BY <1>1, <1>2
<1>6. next \div 2 \in PowersOfTwo /\ next \div 2 < next
  BY <1>2, <1>5 DEF PowersOfTwo
<1>7. next \div 2 < BlockHashCount
  <2>1. next \in Int /\ next \div 2 \in Int
    BY <1>2, <1>6 DEF PowersOfTwo
  <2>2. next \div 2 >= BlockHashCount => next <= next \div 2
    BY <1>3, <1>6
  <2> HIDE DEF next
  <2> QED BY ONLY <2>1, <2>2, <1>1, <1>6
<1>8. Period \in Periods
  BY <1>2, <1>4 DEF PowersOfTwo, Periods
<1> QED BY <1>1, <1>4, <1>6, <1>7, <1>8 DEF PowersOfTwo, Periods

\* The next block of a phase: the arithmetic, for one literal period after another.
BirthOf(p, phase, n) == (SaturatingSub(n, phase) \div p) * p + phase

LEMMA BirthArithmetic ==
  ASSUME NEW p \in Periods, NEW born \in Nat, NEW n \in Nat
  PROVE  /\ born <= n /\ n < born + p => BirthOf(p, born % p, n) = born
         /\ BirthOf(p, born % p, n) = born /\ born < n => n < born + p
         /\ born % p \in 0..(p - 1)
         /\ BirthOf(p, born % p, n) \in Nat
<1>1. CASE p = 4 BY <1>1, SMTT(30) DEF BirthOf, SaturatingSub
<1>2. CASE p = 8 BY <1>2, SMTT(30) DEF BirthOf, SaturatingSub
<1>3. CASE p = 16 BY <1>3, SMTT(30) DEF BirthOf, SaturatingSub
<1>4. CASE p = 32 BY <1>4, SMTT(30) DEF BirthOf, SaturatingSub
<1>5. CASE p = 64 BY <1>5, SMTT(30) DEF BirthOf, SaturatingSub
<1>6. CASE p = 128 BY <1>6, SMTT(30) DEF BirthOf, SaturatingSub
<1>7. CASE p = 256 BY <1>7, SMTT(30) DEF BirthOf, SaturatingSub
<1>8. CASE p = 512 BY <1>8, SMTT(30) DEF BirthOf, SaturatingSub
<1>9. CASE p = 1024 BY <1>9, SMTT(30) DEF BirthOf, SaturatingSub
<1>10. CASE p = 2048 BY <1>10, SMTT(30) DEF BirthOf, SaturatingSub
<1>11. CASE p = 4096 BY <1>11, SMTT(30) DEF BirthOf, SaturatingSub
<1> QED
  BY <1>1, <1>2, <1>3, <1>4, <1>5, <1>6, <1>7, <1>8, <1>9, <1>10, <1>11 DEF Periods

\* From the phase alone a block of the era finds the block the era began with.
LEMMA BirthOfPhase ==
  ASSUME NEW born \in Nat, NEW n \in Nat
  PROVE  /\ born <= n /\ n < born + Period => Birth(Phase(born), n) = born
         /\ Birth(Phase(born), n) = born /\ born < n => n < born + Period
         /\ Phase(born) \in 0..(Period - 1)
         /\ Birth(Phase(born), n) \in Nat
<1>1. Birth(Phase(born), n) = BirthOf(Period, born % Period, n)
  BY DEF Birth, BirthOf, Phase
<1>2. Phase(born) = born % Period
  BY DEF Phase
<1>3. Period \in Periods
  BY PeriodBounds
<1>4. /\ born <= n /\ n < born + Period => BirthOf(Period, born % Period, n) = born
      /\ BirthOf(Period, born % Period, n) = born /\ born < n => n < born + Period
      /\ born % Period \in 0..(Period - 1)
      /\ BirthOf(Period, born % Period, n) \in Nat
  BY <1>3, BirthArithmetic
<1> QED BY <1>1, <1>2, <1>4

-----------------------------------------------------------------------------
(* The inductive invariant. *)

Hashes == [number : Nat, id : Nat]

HashTables == UNION {[D -> Hashes] : D \in SUBSET Nat}

Entries == [xt : Extrinsics, life : Nat, number : Nat]

Storage ==
  [block_hash : HashTables, alive : SUBSET Accounts, nonce : [Accounts -> Nat],
   life : [Accounts -> Nat], applied : Seq(Entries)]

Blocks == [hash : Hashes, storage : Storage]

Typed ==
  /\ chain \in Seq(Blocks) /\ Len(chain) <= MaxBlock
  /\ Building => Len(chain) < MaxBlock
  /\ forks \in 0..MaxForks
  /\ executing \in Storage \cup {NoBlock}
  /\ made \subseteq Extrinsics

\* The hash of a block tells its number.
Numbered ==
  \A i \in 1..Len(chain) : chain[i].hash.number = i /\ chain[i].hash.id \in 0..MaxForks

\* The table holds the hashes of this branch, from block m to n, and of the genesis.
Table(h, m, n) ==
  /\ DOMAIN h = {b \in 0..n : b = 0 \/ b >= m}
  /\ \A b \in DOMAIN h : h[b] = HashAt(b)

KeepsHashes ==
  /\ \A i \in 1..Len(chain) : Table(chain[i].storage.block_hash, i - BlockHashCount, i - 1)
  /\ Building => Table(executing.block_hash, Number - BlockHashCount - 1, Number - 1)

\* What was signed agrees with the block it was signed for.
Signed == \A x \in made : x.phase = Phase(x.born) /\ x.birth_hash.number = x.born

\* The history up to one entry: the entry was applied in its era, it came after all
\* entries of its account with a smaller nonce or in an earlier life, and the entry
\* before it was there.
EntryInOrder(h, j) ==
  /\ h[j].number < h[j].xt.born + Period
  /\ \A i \in 1..(j - 1) : h[i].xt.from = h[j].xt.from =>
       /\ h[i].life <= h[j].life
       /\ h[i].life = h[j].life => h[i].xt.nonce < h[j].xt.nonce
  /\ h[j].xt.nonce = 0 \/ \E i \in 1..(j - 1) :
       /\ SameAccountAndLife(h[j], h[i])
       /\ h[i].xt.nonce = h[j].xt.nonce - 1

\* The storage knows the life of each account and the nonce that is next in it.
NonceIsNext(h, nonce, life) ==
  /\ \A j \in 1..Len(h) :
       /\ h[j].life <= life[h[j].xt.from]
       /\ h[j].life = life[h[j].xt.from] => h[j].xt.nonce < nonce[h[j].xt.from]
  /\ \A a \in Accounts : nonce[a] = 0 \/ \E j \in 1..Len(h) :
       h[j].xt.from = a /\ h[j].life = life[a] /\ h[j].xt.nonce = nonce[a] - 1

InOrder(s) ==
  /\ \A j \in 1..Len(s.applied) : EntryInOrder(s.applied, j)
  /\ NonceIsNext(s.applied, s.nonce, s.life)

HistoryInOrder ==
  /\ \A i \in 1..Len(chain) : InOrder(chain[i].storage)
  /\ Building => InOrder(executing)

Inv == Typed /\ Numbered /\ KeepsHashes /\ Signed /\ HistoryInOrder

-----------------------------------------------------------------------------
(* Facts that hold wherever the invariant does. *)

LEMMA NoBlockIsNoStorage == NoBlock \notin Storage
<1>1. \A s \in Storage : DOMAIN s # DOMAIN NoBlock
  <2>1. "building" \in DOMAIN NoBlock
    BY DEF NoBlock
  <2>2. \A s \in Storage : "building" \notin DOMAIN s
    BY DEF Storage
  <2> QED BY <2>1, <2>2
<1> QED BY <1>1

LEMMA BuildingHasStorage ==
  ASSUME Typed
  PROVE  Building <=> executing \in Storage
BY NoBlockIsNoStorage DEF Typed, Building

LEMMA HashTells ==
  ASSUME Typed, Numbered, NEW b \in 0..Len(chain)
  PROVE  HashAt(b) \in Hashes /\ HashAt(b).number = b /\ HashAt(b).id \in 0..MaxForks
<1>1. CASE b = 0
  BY <1>1, LimitAssumption DEF HashAt, Hash, Hashes
<1>2. CASE b # 0
  <2>1. b \in 1..Len(chain)
    BY <1>2
  <2>2. chain[b] \in Blocks
    BY <2>1 DEF Typed
  <2> QED BY <1>2, <2>1, <2>2 DEF HashAt, Numbered, Blocks
<1> QED BY <1>1, <1>2

LEMMA GenesisInOrder == Genesis \in Storage /\ InOrder(Genesis)
<1>1. Genesis.block_hash \in HashTables
  BY DEF Genesis, HashTables
<1>2. Genesis.applied = <<>> /\ Len(Genesis.applied) = 0
  BY DEF Genesis
<1>3. /\ Genesis.nonce = [a \in Accounts |-> 0] /\ Genesis.life = [a \in Accounts |-> 0]
      /\ Genesis.alive = Accounts
  BY DEF Genesis
<1>4. Genesis \in Storage
  BY <1>1, <1>2, <1>3 DEF Genesis, Storage
<1>5. InOrder(Genesis)
  BY <1>2, <1>3 DEF InOrder, NonceIsNext
<1> QED BY <1>4, <1>5

LEMMA HeadInOrder ==
  ASSUME Typed, HistoryInOrder
  PROVE  HeadStorage \in Storage /\ InOrder(HeadStorage)
<1>1. CASE chain = <<>>
  BY <1>1, GenesisInOrder DEF HeadStorage
<1>2. CASE chain # <<>>
  <2>1. Len(chain) \in 1..Len(chain)
    BY <1>2 DEF Typed
  <2>2. chain[Len(chain)] \in Blocks
    BY <2>1 DEF Typed
  <2> QED BY <1>2, <2>1, <2>2 DEF HeadStorage, HistoryInOrder, Blocks
<1> QED BY <1>1, <1>2

\* What InOrder speaks about is not touched by the hashes or by an endowment.
LEMMA SameHistory ==
  ASSUME NEW s, NEW t, InOrder(s),
         t.applied = s.applied, t.nonce = s.nonce, t.life = s.life
  PROVE  InOrder(t)
BY DEF InOrder

-----------------------------------------------------------------------------
(* The signature means the era. *)

LEMMA EraFromInv == Inv => SignatureMeansEra
<1> SUFFICES ASSUME Inv, Building, NEW x \in made
             PROVE  SignatureVerifies(x, executing, Number)
                      <=> OnBranch(x) /\ Number < x.born + Period
  BY DEF SignatureMeansEra
<1> DEFINE birth == Birth(x.phase, Number)
           kept  == DOMAIN executing.block_hash
<1>1. /\ x.born \in Nat /\ x.phase = Phase(x.born) /\ x.birth_hash.number = x.born
      /\ Number = Len(chain) + 1 /\ Len(chain) \in Nat /\ Number \in Nat
  BY DEF Inv, Typed, Signed, Extrinsics, Number
<1>2. /\ kept = {b \in 0..(Number - 1) : b = 0 \/ b >= Number - BlockHashCount - 1}
      /\ \A b \in kept : executing.block_hash[b] = HashAt(b)
  BY DEF Inv, KeepsHashes, Table
<1>3. /\ x.born <= Number /\ Number < x.born + Period => birth = x.born
      /\ birth = x.born /\ x.born < Number => Number < x.born + Period
      /\ birth \in Nat
  BY <1>1, BirthOfPhase
<1>4. \A b \in 0..(Number - 1) : HashAt(b).number = b
  BY <1>1, HashTells DEF Inv
<1>5. /\ SignatureVerifies(x, executing, Number)
           <=> birth \in kept /\ executing.block_hash[birth] = x.birth_hash
      /\ OnBranch(x) <=> x.born < Number /\ HashAt(x.born) = x.birth_hash
  BY DEF SignatureVerifies, OnBranch
<1>6. Period \in Nat /\ Period <= BlockHashCount + 2 /\ BlockHashCount \in Nat
  BY PeriodBounds, BlockHashCountAssumption DEF Periods
<1> HIDE DEF birth, kept
<1>7. ASSUME birth \in kept, executing.block_hash[birth] = x.birth_hash
      PROVE  x.born < Number /\ HashAt(x.born) = x.birth_hash /\ Number < x.born + Period
  <2>1. birth \in 0..(Number - 1) /\ HashAt(birth) = x.birth_hash
    BY <1>2, <1>7
  <2>2. birth = x.born
    BY <2>1, <1>1, <1>4
  <2> QED BY <2>1, <2>2, <1>1, <1>3
<1>8. ASSUME x.born < Number, HashAt(x.born) = x.birth_hash, Number < x.born + Period
      PROVE  birth \in kept /\ executing.block_hash[birth] = x.birth_hash
  <2>1. birth = x.born
    BY ONLY <1>1, <1>3, <1>8
  <2>2. x.born \in 0..(Number - 1) /\ x.born >= Number - BlockHashCount - 1
    BY ONLY <1>1, <1>6, <1>8
  <2> QED BY <2>1, <2>2, <1>2, <1>8
<1> QED BY <1>5, <1>7, <1>8

-----------------------------------------------------------------------------
(* The steps. *)

\* An extrinsic that is applied is the next one of its account.
LEMMA DispatchedInOrder ==
  ASSUME Typed, executing \in Storage, InOrder(executing),
         NEW x \in made, x \in Extrinsics, PreDispatch(x, executing),
         Number \in Nat, Number < x.born + Period
  PROVE  Dispatched(x, executing) \in Storage /\ InOrder(Dispatched(x, executing))
<1> DEFINE a    == x.from
           reap == x.call = "transfer_all"
           e    == [xt |-> x, life |-> executing.life[a], number |-> Number]
           h    == executing.applied
           g    == Append(h, e)
           t    == Dispatched(x, executing)
           n    == Len(h)
<1>1. /\ a \in Accounts /\ x.nonce = executing.nonce[a] /\ x.nonce \in Nat
      /\ h \in Seq(Entries) /\ n \in Nat
      /\ executing.nonce \in [Accounts -> Nat] /\ executing.life \in [Accounts -> Nat]
      /\ executing.alive \in SUBSET Accounts /\ executing.block_hash \in HashTables
  BY DEF Storage, Extrinsics, PreDispatch
<1>2. e \in Entries /\ e.xt = x /\ e.life = executing.life[a] /\ e.number = Number
  BY <1>1 DEF Entries
<1>3. /\ t.block_hash = executing.block_hash
      /\ t.alive = IF reap THEN executing.alive \ {a} ELSE executing.alive
      /\ t.nonce = [executing.nonce EXCEPT ![a] = IF reap THEN 0 ELSE @ + 1]
      /\ t.life = [executing.life EXCEPT ![a] = IF reap THEN @ + 1 ELSE @]
      /\ t.applied = g
  <2>1. t.block_hash = executing.block_hash
    BY DEF Dispatched, Storage
  <2>2. t.alive = IF reap THEN executing.alive \ {a} ELSE executing.alive
    BY DEF Dispatched, Storage
  <2>3. t.nonce = [executing.nonce EXCEPT ![a] = IF reap THEN 0 ELSE @ + 1]
    BY DEF Dispatched, Storage
  <2>4. t.life = [executing.life EXCEPT ![a] = IF reap THEN @ + 1 ELSE @]
    BY DEF Dispatched, Storage
  <2>5. t.applied = g
    BY DEF Dispatched, Storage
  <2> QED BY <2>1, <2>2, <2>3, <2>4, <2>5
<1> HIDE DEF t
<1>4. g \in Seq(Entries) /\ Len(g) = n + 1 /\ g[n + 1] = e /\ \A j \in 1..n : g[j] = h[j]
  BY <1>1, <1>2
<1> HIDE DEF e, g, h, n
<1>5. t \in Storage
  <2>1. t.nonce \in [Accounts -> Nat] /\ t.life \in [Accounts -> Nat]
    BY <1>1, <1>3
  <2>2. t.alive \in SUBSET Accounts
    BY <1>1, <1>3
  <2> DEFINE nonce == [executing.nonce EXCEPT ![a] = IF reap THEN 0 ELSE @ + 1]
             life  == [executing.life EXCEPT ![a] = IF reap THEN @ + 1 ELSE @]
             alive == IF reap THEN executing.alive \ {a} ELSE executing.alive
  <2>3. t = [executing EXCEPT !.nonce = nonce, !.life = life, !.alive = alive, !.applied = g]
    BY DEF Dispatched, t, g, e, h
  <2>4. nonce \in [Accounts -> Nat] /\ life \in [Accounts -> Nat] /\ alive \in SUBSET Accounts
    BY <1>3, <2>1, <2>2
  <2> HIDE DEF nonce, life, alive
  <2> QED BY <1>4, <2>3, <2>4 DEF Storage
<1>6. \A j \in 1..n : h[j] \in Entries /\ h[j].xt \in Extrinsics /\ h[j].life \in Nat
                      /\ h[j].xt.nonce \in Nat /\ h[j].xt.from \in Accounts
  <2>1. \A j \in 1..n : h[j] \in Entries
    BY <1>1 DEF n
  <2> QED BY <2>1 DEF Entries, Extrinsics
<1>7. /\ \A j \in 1..n : EntryInOrder(h, j)
      /\ NonceIsNext(h, executing.nonce, executing.life)
  BY DEF InOrder, h, n
<1>8. \A j \in 1..n : /\ h[j].life <= executing.life[h[j].xt.from]
                      /\ h[j].life = executing.life[h[j].xt.from]
                           => h[j].xt.nonce < executing.nonce[h[j].xt.from]
  BY <1>7 DEF NonceIsNext, n
<1>9. ASSUME NEW j \in 1..Len(g) PROVE EntryInOrder(g, j)
  <2>1. CASE j \in 1..n
    <3>1. g[j] = h[j] /\ \A i \in 1..(j - 1) : g[i] = h[i]
      <4>1. n \in Nat
        BY <1>1
      <4>2. 1..(j - 1) \subseteq 1..n
        BY ONLY <2>1, <4>1
      <4> QED BY <2>1, <4>2, <1>4
    <3>2. EntryInOrder(h, j)
      BY <2>1, <1>7
    <3>3. h[j].xt.nonce = 0 \/ \E i \in 1..(j - 1) :
            SameAccountAndLife(h[j], h[i]) /\ h[i].xt.nonce = h[j].xt.nonce - 1
      BY <3>2 DEF EntryInOrder
    <3>4. g[j].xt.nonce = 0 \/ \E i \in 1..(j - 1) :
            SameAccountAndLife(g[j], g[i]) /\ g[i].xt.nonce = g[j].xt.nonce - 1
      BY ONLY <3>1, <3>3, ZenonT(30)
    <3>5. \A i \in 1..(j - 1) : g[i].xt.from = g[j].xt.from =>
            /\ g[i].life <= g[j].life
            /\ g[i].life = g[j].life => g[i].xt.nonce < g[j].xt.nonce
      BY <3>1, <3>2 DEF EntryInOrder
    <3> QED BY <3>1, <3>2, <3>4, <3>5 DEF EntryInOrder
  <2>2. CASE j = n + 1
    <3>1. g[j] = e /\ 1..(j - 1) = 1..n
      BY <2>2, <1>1, <1>4
    <3>2. \A i \in 1..n : h[i].xt.from = a =>
             /\ h[i].life <= e.life
             /\ h[i].life = e.life => h[i].xt.nonce < x.nonce
      BY <1>1, <1>2, <1>8
    <3>3. x.nonce = 0 \/ \E i \in 1..n :
             SameAccountAndLife(e, h[i]) /\ h[i].xt.nonce = x.nonce - 1
      <4>1. executing.nonce[a] = 0 \/ \E i \in 1..n :
               /\ h[i].xt.from = a /\ h[i].life = executing.life[a]
               /\ h[i].xt.nonce = executing.nonce[a] - 1
        BY <1>1, <1>7 DEF NonceIsNext, n
      <4> QED BY <4>1, <1>1, <1>2 DEF SameAccountAndLife
    <3>4. \A i \in 1..n : g[i] = h[i]
      BY <1>4
    <3> QED BY <3>1, <3>2, <3>3, <3>4, <1>2 DEF EntryInOrder
  <2> QED BY <2>1, <2>2, <1>1, <1>4
<1>10. NonceIsNext(g, t.nonce, t.life)
  <2>1. ASSUME NEW b \in Accounts
        PROVE  t.nonce[b] = 0 \/ \E j \in 1..Len(g) :
                 g[j].xt.from = b /\ g[j].life = t.life[b] /\ g[j].xt.nonce = t.nonce[b] - 1
    <3>1. CASE b = a /\ ~ reap
      <4>1. t.nonce[b] = x.nonce + 1 /\ t.life[b] = executing.life[a]
        BY <3>1, <1>1, <1>3
      <4>2. n + 1 \in 1..Len(g) /\ g[n + 1] = e
        BY <1>1, <1>4
      <4> QED BY <4>1, <4>2, <3>1, <1>1, <1>2
    <3>2. CASE b = a /\ reap
      BY <3>2, <1>1, <1>3
    <3>3. CASE b # a
      <4>1. t.nonce[b] = executing.nonce[b] /\ t.life[b] = executing.life[b]
        BY <3>3, <1>1, <1>3
      <4>2. executing.nonce[b] = 0 \/ \E j \in 1..n :
              h[j].xt.from = b /\ h[j].life = executing.life[b]
              /\ h[j].xt.nonce = executing.nonce[b] - 1
        BY <1>7 DEF NonceIsNext, n
      <4>3. 1..n \subseteq 1..Len(g)
        BY <1>1, <1>4
      <4> QED BY <4>1, <4>2, <4>3, <1>4
    <3> QED BY <3>1, <3>2, <3>3
  <2>2. ASSUME NEW j \in 1..Len(g)
        PROVE  /\ g[j].life <= t.life[g[j].xt.from]
               /\ g[j].life = t.life[g[j].xt.from] => g[j].xt.nonce < t.nonce[g[j].xt.from]
    <3>1. CASE j = n + 1
      <4>1. g[j] = e /\ g[j].xt = x /\ g[j].life = executing.life[a]
        BY <3>1, <1>2, <1>4
      <4>2. CASE reap
        <5>1. t.life[a] = executing.life[a] + 1 /\ executing.life[a] \in Nat
          BY <4>2, <1>1, <1>3
        <5> QED BY <4>1, <5>1
      <4>3. CASE ~ reap
        <5>1. t.life[a] = executing.life[a] /\ t.nonce[a] = x.nonce + 1 /\ executing.life[a] \in Nat
          BY <4>3, <1>1, <1>3
        <5> QED BY <4>1, <5>1, <1>1
      <4> QED BY <4>2, <4>3
    <3>2. CASE j \in 1..n
      <4> DEFINE b == h[j].xt.from
      <4>1. /\ g[j] = h[j] /\ b \in Accounts /\ h[j].life \in Nat /\ h[j].xt.nonce \in Nat
            /\ h[j].life <= executing.life[b]
            /\ h[j].life = executing.life[b] => h[j].xt.nonce < executing.nonce[b]
        BY <3>2, <1>4, <1>6, <1>8
      <4>2. /\ executing.life[b] \in Nat /\ executing.nonce[b] \in Nat
            /\ t.life[b] = IF b = a /\ reap THEN executing.life[b] + 1 ELSE executing.life[b]
            /\ t.nonce[b] = IF b = a THEN IF reap THEN 0 ELSE executing.nonce[b] + 1
                                     ELSE executing.nonce[b]
        BY <4>1, <1>1, <1>3
      <4> HIDE DEF b, reap
      <4>3. /\ h[j].life <= t.life[b]
            /\ h[j].life = t.life[b] => h[j].xt.nonce < t.nonce[b]
        BY ONLY <4>1, <4>2
      <4> QED BY <4>1, <4>3 DEF b
    <3> QED BY <3>1, <3>2, <1>1, <1>4
  <2> QED BY <2>1, <2>2 DEF NonceIsNext
<1> QED BY <1>3, <1>5, <1>9, <1>10 DEF InOrder, t

LEMMA MakeStep ==
  ASSUME Inv, NEW x, x \in Extrinsics, x.phase = Phase(x.born),
         x.birth_hash.number = x.born, Make(x)
  PROVE  Inv'
<1>1. chain' = chain /\ forks' = forks /\ executing' = executing /\ made' = made \cup {x}
  BY DEF Make
<1>2. Typed'
  BY <1>1 DEF Inv, Typed, Building
<1>3. Numbered' /\ KeepsHashes'
  BY <1>1 DEF Inv, Numbered, KeepsHashes, Table, HashAt, Building, Number
<1>4. Signed'
  BY <1>1 DEF Inv, Signed
<1>5. HistoryInOrder'
  BY <1>1 DEF Inv, HistoryInOrder, Building
<1> QED BY <1>2, <1>3, <1>4, <1>5 DEF Inv

LEMMA ExtrinsicIsSigned ==
  ASSUME Inv, NEW a \in Accounts, NEW nonce \in 0..MaxNonce, NEW call \in Calls,
         NEW born \in 0..Len(chain)
  PROVE  LET x == Extrinsic(a, nonce, call, born, HashAt(born))
         IN  x \in Extrinsics /\ x.phase = Phase(x.born) /\ x.birth_hash.number = x.born
<1>1. Len(chain) \in Nat /\ Len(chain) <= MaxBlock /\ MaxBlock \in Nat
  BY LimitAssumption DEF Inv, Typed
<1>2. HashAt(born) \in Hashes /\ HashAt(born).number = born /\ HashAt(born).id \in 0..MaxForks
  BY HashTells DEF Inv
<1>3. born \in Nat /\ born \in 0..MaxBlock /\ Phase(born) \in 0..(Period - 1)
  BY <1>1, BirthOfPhase
<1>4. HashAt(born) \in [number : 0..MaxBlock, id : 0..MaxForks]
  BY <1>2, <1>3 DEF Hashes
<1> QED BY <1>2, <1>3, <1>4 DEF Extrinsic, Extrinsics

LEMMA CreateTransactionStep ==
  ASSUME Inv, NEW a \in Accounts, NEW call \in Calls, CreateTransaction(a, call)
  PROVE  Inv'
<1> DEFINE n       == Len(chain)
           current == SaturatingSub(n, 1)
<1>1. n \in Nat /\ n > 0
  BY DEF Inv, Typed, CreateTransaction
<1>2. current = n - 1 /\ current \in Nat /\ current \in 0..n
  BY <1>1 DEF SaturatingSub
<1>3. Period \in Nat /\ Period >= 4
  BY PeriodBounds DEF Periods
<1>4. Birth(Phase(current), n) = current
  BY <1>1, <1>2, <1>3, BirthOfPhase
<1>5. HeadStorage \in Storage
  BY HeadInOrder DEF Inv
<1>6. HeadStorage.nonce[a] \in 0..MaxNonce
  BY <1>5, LimitAssumption DEF CreateTransaction, Storage
<1>7. Make(Extrinsic(a, HeadStorage.nonce[a], call, current, HashAt(current)))
  BY <1>4 DEF CreateTransaction
<1> QED BY <1>2, <1>6, <1>7, ExtrinsicIsSigned, MakeStep

LEMMA CreateBenchmarkExtrinsicStep ==
  ASSUME Inv, NEW a \in Accounts, NEW nonce \in 0..MaxNonce, CreateBenchmarkExtrinsic(a, nonce)
  PROVE  Inv'
<1>1. Len(chain) \in 0..Len(chain) /\ "any" \in Calls
  BY DEF Inv, Typed, Calls
<1> QED BY <1>1, ExtrinsicIsSigned, MakeStep DEF CreateBenchmarkExtrinsic

LEMMA InitializeBlockStep ==
  ASSUME Inv, InitializeBlock
  PROVE  Inv'
<1> DEFINE n == Len(chain)
           h == [b \in DOMAIN HeadStorage.block_hash \cup {n} |->
                   IF b = n THEN HashAt(b) ELSE HeadStorage.block_hash[b]]
<1>1. /\ chain' = chain /\ forks' = forks /\ made' = made /\ n \in Nat
      /\ executing' = [HeadStorage EXCEPT !.block_hash = h]
  BY DEF InitializeBlock, Inv, Typed
<1>2. HeadStorage \in Storage /\ InOrder(HeadStorage)
  BY HeadInOrder DEF Inv
<1>3. DOMAIN h = {b \in 0..n : b = 0 \/ b >= n - BlockHashCount} /\ \A b \in DOMAIN h : h[b] = HashAt(b)
  <2>1. BlockHashCount \in Nat
    BY BlockHashCountAssumption
  <2>2. CASE n = 0
    <3>1. DOMAIN HeadStorage.block_hash = {}
      BY <2>2 DEF HeadStorage, Genesis, Inv, Typed
    <3>2. DOMAIN h = {0} /\ h[0] = HashAt(0)
      BY <2>2, <3>1
    <3> HIDE DEF h
    <3> QED BY <3>2, <2>1, <2>2
  <2>3. CASE n # 0
    <3>1. n \in 1..n /\ chain # <<>>
      BY <2>3, <1>1
    <3>2. Table(HeadStorage.block_hash, n - BlockHashCount, n - 1)
      BY <3>1 DEF HeadStorage, Inv, KeepsHashes
    <3> DEFINE kept == DOMAIN HeadStorage.block_hash
    <3>3. /\ kept = {b \in 0..(n - 1) : b = 0 \/ b >= n - BlockHashCount}
          /\ \A b \in kept : HeadStorage.block_hash[b] = HashAt(b)
      BY <3>2 DEF Table
    <3>4. \A b \in DOMAIN h : h[b] = HashAt(b)
      BY <3>3
    <3>5. DOMAIN h = kept \cup {n}
      OBVIOUS
    <3> HIDE DEF h, kept, n
    <3> QED BY <3>3, <3>4, <3>5, <2>1, <2>3, <1>1
  <2> QED BY <2>2, <2>3
<1>4. h \in HashTables
  <2>1. \A b \in 0..n : HashAt(b) \in Hashes
    BY HashTells DEF Inv
  <2>2. DOMAIN h \in SUBSET Nat /\ h \in [DOMAIN h -> Hashes]
    <3>1. \A b \in DOMAIN h : b \in 0..n /\ h[b] \in Hashes
      <4> HIDE DEF h
      <4> QED BY <1>3, <2>1
    <3>2. h = [b \in DOMAIN h |-> h[b]]
      OBVIOUS
    <3> HIDE DEF h
    <3> QED BY <3>1, <3>2, <1>1
  <2> HIDE DEF h
  <2> QED BY <2>2 DEF HashTables
<1> HIDE DEF h
<1>5. /\ executing' \in Storage
      /\ executing'.block_hash = h
      /\ executing'.applied = HeadStorage.applied
      /\ executing'.nonce = HeadStorage.nonce
      /\ executing'.life = HeadStorage.life
  BY <1>1, <1>2, <1>4 DEF Storage
<1>6. Typed'
  BY <1>1, <1>5 DEF Inv, Typed, InitializeBlock
<1>7. Numbered' /\ Signed'
  BY <1>1 DEF Inv, Numbered, Signed
<1>8. KeepsHashes'
  <2>1. Number' = n + 1 /\ \A b : HashAt(b)' = HashAt(b)
    BY <1>1 DEF Number, HashAt
  <2>2. BlockHashCount \in Nat
    BY BlockHashCountAssumption
  <2>3. Number' - BlockHashCount - 1 = n - BlockHashCount /\ Number' - 1 = n
    BY <1>1, <2>1, <2>2
  <2>4. \A i \in 1..Len(chain) : Table(chain[i].storage.block_hash, i - BlockHashCount, i - 1)'
    BY <2>1, <1>1 DEF Inv, KeepsHashes, Table
  <2>5. Table(executing.block_hash, Number - BlockHashCount - 1, Number - 1)'
    BY <2>1, <2>3, <1>3, <1>5 DEF Table
  <2> QED BY <2>4, <2>5, <1>1 DEF KeepsHashes
<1>9. HistoryInOrder'
  <2>1. InOrder(executing')
    BY <1>2, <1>5, SameHistory
  <2> QED BY <1>1, <2>1 DEF Inv, HistoryInOrder
<1> QED BY <1>6, <1>7, <1>8, <1>9 DEF Inv

LEMMA ApplyExtrinsicStep ==
  ASSUME Inv, NEW x \in made, ApplyExtrinsic(x)
  PROVE  Inv'
<1>1. /\ chain' = chain /\ forks' = forks /\ made' = made /\ Building
      /\ executing' = Dispatched(x, executing)
  BY DEF ApplyExtrinsic
<1>2. executing \in Storage /\ InOrder(executing) /\ x \in Extrinsics /\ Number \in Nat
  BY <1>1, BuildingHasStorage DEF Inv, HistoryInOrder, Typed, Number
<1>3. Number < x.born + Period
  BY <1>1, EraFromInv DEF ApplyExtrinsic, SignatureMeansEra
<1>4. executing' \in Storage /\ InOrder(executing')
  BY <1>1, <1>2, <1>3, DispatchedInOrder DEF ApplyExtrinsic, Inv
<1>5. executing'.block_hash = executing.block_hash
  BY <1>1, <1>2 DEF Dispatched, Storage
<1>6. Typed' /\ Building'
  BY <1>1, <1>4, NoBlockIsNoStorage DEF Inv, Typed, Building
<1>7. Numbered' /\ Signed' /\ KeepsHashes'
  BY <1>1, <1>5, <1>6 DEF Inv, Numbered, Signed, KeepsHashes, Table, HashAt, Number
<1>8. HistoryInOrder'
  BY <1>1, <1>4 DEF Inv, HistoryInOrder
<1> QED BY <1>6, <1>7, <1>8 DEF Inv

LEMMA EndowStep ==
  ASSUME Inv, NEW a \in Accounts, Endow(a)
  PROVE  Inv'
<1>1. /\ chain' = chain /\ forks' = forks /\ made' = made /\ Building
      /\ executing' = [executing EXCEPT !.alive = executing.alive \cup {a}]
  BY DEF Endow
<1>2. executing \in Storage /\ InOrder(executing)
  BY <1>1, BuildingHasStorage DEF Inv, HistoryInOrder
<1>3. /\ executing' \in Storage
      /\ executing'.block_hash = executing.block_hash
      /\ executing'.applied = executing.applied
      /\ executing'.nonce = executing.nonce
      /\ executing'.life = executing.life
  BY <1>1, <1>2 DEF Storage
<1>4. InOrder(executing')
  BY <1>2, <1>3, SameHistory
<1>5. Typed' /\ Building'
  BY <1>1, <1>3, NoBlockIsNoStorage DEF Inv, Typed, Building
<1>6. Numbered' /\ Signed' /\ KeepsHashes'
  BY <1>1, <1>3, <1>5 DEF Inv, Numbered, Signed, KeepsHashes, Table, HashAt, Number
<1>7. HistoryInOrder'
  BY <1>1, <1>4 DEF Inv, HistoryInOrder
<1> QED BY <1>5, <1>6, <1>7 DEF Inv

\* A block lost under construction leaves the rest as it was.
LEMMA AbandonStep ==
  ASSUME Inv, Abandon
  PROVE  Inv'
<1>1. chain' = chain /\ forks' = forks /\ made' = made /\ executing' = NoBlock
  BY DEF Abandon
<1>2. Typed' /\ ~ Building'
  BY <1>1 DEF Inv, Typed, Building
<1>3. Numbered' /\ Signed' /\ KeepsHashes'
  BY <1>1, <1>2 DEF Inv, Numbered, Signed, KeepsHashes, Table, HashAt
<1>4. HistoryInOrder'
  BY <1>1, <1>2 DEF Inv, HistoryInOrder
<1> QED BY <1>2, <1>3, <1>4 DEF Inv

\* On a prefix of the chain everything is as it was.
LEMMA ReorgStep ==
  ASSUME Inv, NEW k \in 0..MaxBlock, Reorg(k)
  PROVE  Inv'
<1>1. /\ chain' = SubSeq(chain, 1, k) /\ forks' = forks + 1 /\ forks < MaxForks
      /\ executing' = executing /\ made' = made /\ ~ Building /\ k < Len(chain)
  BY DEF Reorg
<1>2. k \in Nat /\ chain \in Seq(Blocks) /\ Len(chain) \in Nat /\ Len(chain) <= MaxBlock
  BY LimitAssumption DEF Inv, Typed
<1>3. /\ chain' \in Seq(Blocks) /\ Len(chain') = k
      /\ \A i \in 1..k : chain'[i] = chain[i] /\ i \in 1..Len(chain)
  BY <1>1, <1>2
<1>4. Typed' /\ ~ Building'
  BY <1>1, <1>2, <1>3, LimitAssumption DEF Inv, Typed, Building
<1>5. Numbered' /\ Signed'
  BY <1>1, <1>3 DEF Inv, Numbered, Signed
<1>6. KeepsHashes'
  <2>1. ASSUME NEW i \in 1..k
        PROVE  Table(chain[i].storage.block_hash, i - BlockHashCount, i - 1)
    BY <1>3 DEF Inv, KeepsHashes
  <2>2. \A b \in 0..k : HashAt(b)' = HashAt(b)
    BY <1>3 DEF HashAt
  <2>3. ASSUME NEW i \in 1..k
        PROVE  Table(chain[i].storage.block_hash, i - BlockHashCount, i - 1)'
    <3> DEFINE h == chain[i].storage.block_hash
    <3>1. chain'[i] = chain[i]
      BY <1>3
    <3>2. DOMAIN h = {b \in 0..(i - 1) : b = 0 \/ b >= i - BlockHashCount}
          /\ \A b \in DOMAIN h : h[b] = HashAt(b)
      BY <2>1 DEF Table
    <3>3. \A b \in DOMAIN h : b \in 0..k
      BY <3>2, <1>2
    <3> QED BY <3>1, <3>2, <3>3, <2>2 DEF Table
  <2> QED BY <2>3, <1>3, <1>4 DEF KeepsHashes
<1>7. HistoryInOrder'
  <2>1. \A i \in 1..k : InOrder(chain[i].storage)
    BY <1>3 DEF Inv, HistoryInOrder
  <2> QED BY <2>1, <1>1, <1>3, <1>4
          DEF HistoryInOrder
<1> QED BY <1>4, <1>5, <1>6, <1>7 DEF Inv

LEMMA FinalizeBlockStep ==
  ASSUME Inv, FinalizeBlock
  PROVE  Inv'
<1> DEFINE n    == Len(chain)
           old  == executing.block_hash
           kept == DOMAIN old \ ({ToRemove(n + 1)} \ {0})
           h    == [b \in kept |-> old[b]]
           s    == [executing EXCEPT !.block_hash = h]
           new  == [hash |-> Hash(n + 1, forks), storage |-> s]
<1>1. /\ chain' = Append(chain, new) /\ executing' = NoBlock
      /\ forks' = forks /\ made' = made /\ Building /\ n \in Nat
  BY DEF FinalizeBlock, Inv, Typed, Number
<1>2. executing \in Storage /\ InOrder(executing)
  BY <1>1, BuildingHasStorage DEF Inv, HistoryInOrder
<1>3. /\ DOMAIN old = {b \in 0..n : b = 0 \/ b >= n - BlockHashCount}
      /\ \A b \in DOMAIN old : old[b] = HashAt(b)
  <2>1. BlockHashCount \in Nat
    BY BlockHashCountAssumption
  <2>2. \A m, k \in Nat : (m + 1) - k - 1 = m - k /\ (m + 1) - 1 = m
    BY SMT
  <2>3. (n + 1) - BlockHashCount - 1 = n - BlockHashCount /\ (n + 1) - 1 = n
    BY <1>1, <2>1, <2>2
  <2> QED BY <2>3, <1>1 DEF Inv, KeepsHashes, Table, Number
<1>4. kept = {b \in 0..n : b = 0 \/ b >= (n + 1) - BlockHashCount}
  <2>1. BlockHashCount \in Nat
    BY BlockHashCountAssumption
  <2>2. ToRemove(n + 1) = IF n > BlockHashCount THEN n - BlockHashCount ELSE 0
    BY <1>1, <2>1 DEF ToRemove, SaturatingSub
  <2>3. n \in Nat /\ DOMAIN old = {b \in 0..n : b = 0 \/ b >= n - BlockHashCount}
    BY <1>1, <1>3
  <2> HIDE DEF old, n
  <2>4. \A b \in 0..n : b \in kept <=> b = 0 \/ b >= (n + 1) - BlockHashCount
    BY ONLY <2>1, <2>2, <2>3 DEF kept
  <2>5. \A b \in kept : b \in 0..n
    BY ONLY <2>3 DEF kept
  <2> HIDE DEF kept
  <2> QED BY ONLY <2>4, <2>5
<1>5. /\ h \in HashTables /\ DOMAIN h = kept
      /\ \A b \in kept : h[b] = HashAt(b) /\ HashAt(b) \in Hashes
  <2>1. DOMAIN h = kept /\ \A b \in kept : h[b] = HashAt(b)
    BY <1>3
  <2>2. \A b \in kept : HashAt(b) \in Hashes
    BY <1>4, HashTells DEF Inv
  <2>3. h \in [kept -> Hashes]
    <3>1. \A b \in kept : old[b] \in Hashes
      BY <1>3, <2>2
    <3> QED BY <3>1
  <2>4. kept \in SUBSET Nat
    BY <1>1, <1>4
  <2> QED BY <2>1, <2>2, <2>3, <2>4 DEF HashTables
<1> HIDE DEF h, old, kept
<1>6. /\ s \in Storage /\ s.block_hash = h
      /\ s.applied = executing.applied /\ s.nonce = executing.nonce /\ s.life = executing.life
  BY <1>2, <1>5 DEF Storage
<1>7. InOrder(s)
  BY <1>2, <1>6, SameHistory
<1>8. forks \in Nat /\ forks \in 0..MaxForks
  BY LimitAssumption DEF Inv, Typed
<1>9. new \in Blocks /\ new.hash.number = n + 1 /\ new.hash.id = forks /\ new.storage = s
  BY <1>1, <1>6, <1>8 DEF Blocks, Hashes, Hash
<1> HIDE DEF new, s
<1>10. /\ chain' \in Seq(Blocks) /\ Len(chain') = n + 1 /\ chain'[n + 1] = new
       /\ \A i \in 1..n : chain'[i] = chain[i]
  BY <1>1, <1>9 DEF Inv, Typed
<1>11. Typed' /\ ~ Building'
  <2>1. n + 1 <= MaxBlock
    BY <1>1, LimitAssumption DEF Inv, Typed
  <2> QED BY <1>1, <1>10, <2>1 DEF Inv, Typed, Building
<1>12. Numbered' /\ Signed'
  BY <1>1, <1>8, <1>9, <1>10 DEF Inv, Numbered, Signed
<1>13. KeepsHashes'
  <2>1. \A b \in 0..n : HashAt(b)' = HashAt(b)
    BY <1>1, <1>10 DEF HashAt
  <2>2. ASSUME NEW i \in 1..n
        PROVE  Table(chain[i].storage.block_hash, i - BlockHashCount, i - 1)'
    <3> DEFINE g == chain[i].storage.block_hash
    <3>1. chain'[i] = chain[i]
      BY <1>10
    <3>2. /\ DOMAIN g = {b \in 0..(i - 1) : b = 0 \/ b >= i - BlockHashCount}
          /\ \A b \in DOMAIN g : g[b] = HashAt(b)
      BY DEF Inv, KeepsHashes, Table
    <3>3. \A b \in DOMAIN g : b \in 0..n
      BY <3>2, <1>1
    <3> QED BY <3>1, <3>2, <3>3, <2>1 DEF Table
  <2>3. ASSUME NEW i, i = n + 1
        PROVE  Table(chain[i].storage.block_hash, i - BlockHashCount, i - 1)'
    <3>1. chain'[n + 1].storage.block_hash = h
      BY <1>6, <1>9, <1>10
    <3>2. \A b \in kept : b \in 0..n
      BY <1>4
    <3>3. i - 1 = n
      BY <1>1, <2>3
    <3>4. DOMAIN h = {b \in 0..(i - 1) : b = 0 \/ b >= i - BlockHashCount}
      BY <1>4, <1>5, <2>3, <3>3
    <3>5. \A b \in DOMAIN h : h[b] = HashAt(b)'
      BY <1>5, <2>1, <3>2
    <3> QED BY <2>3, <3>1, <3>4, <3>5 DEF Table
  <2>4. \A i \in 1..Len(chain') : i \in 1..n \/ i = n + 1
    BY <1>1, <1>10
  <2> QED BY <2>2, <2>3, <2>4, <1>11 DEF KeepsHashes
<1>14. HistoryInOrder'
  <2>1. ASSUME NEW i \in 1..Len(chain') PROVE InOrder(chain'[i].storage)
    BY <1>1, <1>7, <1>9, <1>10 DEF Inv, HistoryInOrder
  <2> QED BY <2>1, <1>11 DEF HistoryInOrder
<1> QED BY <1>11, <1>12, <1>13, <1>14 DEF Inv

-----------------------------------------------------------------------------
(* The theorems. *)

LEMMA InvInit == Init => Inv
<1> SUFFICES ASSUME Init PROVE Inv
  OBVIOUS
<1>1. Len(chain) = 0 /\ ~ Building /\ chain \in Seq(Blocks)
  BY DEF Init, Building
<1> QED BY <1>1, LimitAssumption
        DEF Init, Inv, Typed, Numbered, KeepsHashes, Signed, HistoryInOrder

LEMMA InvStep == Inv /\ [Next]_vars => Inv'
<1> SUFFICES ASSUME Inv, [Next]_vars PROVE Inv'
  OBVIOUS
<1>1. ASSUME NEW a \in Accounts, NEW call \in Calls, CreateTransaction(a, call) PROVE Inv'
  BY <1>1, CreateTransactionStep
<1>2. ASSUME NEW a \in Accounts, NEW nonce \in 0..MaxNonce, CreateBenchmarkExtrinsic(a, nonce)
      PROVE Inv'
  BY <1>2, CreateBenchmarkExtrinsicStep
<1>3. ASSUME NEW a \in Accounts, Endow(a) PROVE Inv'
  BY <1>3, EndowStep
<1>4. CASE InitializeBlock BY <1>4, InitializeBlockStep
<1>5. CASE FinalizeBlock BY <1>5, FinalizeBlockStep
<1>6. CASE Abandon BY <1>6, AbandonStep
<1>7. ASSUME NEW x \in made, ApplyExtrinsic(x) PROVE Inv'
  BY <1>7, ApplyExtrinsicStep
<1>8. ASSUME NEW k \in 0..MaxBlock, Reorg(k) PROVE Inv'
  BY <1>8, ReorgStep
<1>9. CASE UNCHANGED vars
  BY <1>9 DEF vars, Inv, Typed, Numbered, KeepsHashes, Table, HashAt, Signed, HistoryInOrder,
              Building, Number
<1> QED BY <1>1, <1>2, <1>3, <1>4, <1>5, <1>6, <1>7, <1>8, <1>9 DEF Next

THEOREM InvHolds == Spec => []Inv
BY InvInit, InvStep, PTL DEF Spec

\* A signature verifies in a block exactly if the block lies in the era of the
\* extrinsic, on a branch through its birth block: for every BlockHashCount, the
\* period of create_transaction is short enough for the hashes that are kept.
THEOREM EraIsMeant == Spec => []SignatureMeansEra
BY InvHolds, EraFromInv, PTL

LEMMA StorageInOrder ==
  ASSUME Inv, NEW s \in Storages
  PROVE  s \in Storage /\ InOrder(s)
<1>1. ASSUME NEW i \in 1..Len(chain) PROVE chain[i].storage \in Storage /\ InOrder(chain[i].storage)
  <2>1. chain[i] \in Blocks
    BY DEF Inv, Typed
  <2> QED BY <2>1 DEF Inv, HistoryInOrder, Blocks
<1>2. Building => executing \in Storage /\ InOrder(executing)
  BY BuildingHasStorage DEF Inv, HistoryInOrder
<1> QED BY <1>1, <1>2 DEF Storages

\* Extrinsics of an account are applied in the order of their nonces and without a
\* gap, on every branch and in every block under construction.
THEOREM NoncesInOrder == Spec => []NonceOrder
<1>1. Inv => NonceOrder
  <2> SUFFICES ASSUME Inv, NEW s \in Storages, NEW j \in 1..Len(s.applied)
               PROVE  LET e       == s.applied[j]
                          earlier == {s.applied[i] : i \in 1..(j - 1)}
                      IN  /\ \A f \in earlier : SameAccountAndLife(e, f) => f.xt.nonce < e.xt.nonce
                          /\ e.xt.nonce = 0 \/ \E f \in earlier :
                               SameAccountAndLife(e, f) /\ f.xt.nonce = e.xt.nonce - 1
    BY DEF NonceOrder
  <2>1. EntryInOrder(s.applied, j)
    BY StorageInOrder DEF InOrder
  <2> QED BY <2>1 DEF EntryInOrder, SameAccountAndLife
<1> QED BY <1>1, InvHolds, PTL

\* An extrinsic is applied once, unless its account was reaped and endowed meanwhile,
\* and then no later than its era ends.
THEOREM ReplaysAreConfined == Spec => []ReplayIsConfined
<1>1. Inv => ReplayIsConfined
  <2> SUFFICES ASSUME Inv, NEW s \in Storages, NEW j \in 1..Len(s.applied),
                      NEW i \in 1..(j - 1), s.applied[i].xt = s.applied[j].xt
               PROVE  /\ s.applied[i].life < s.applied[j].life
                      /\ s.applied[j].number < s.applied[j].xt.born + Period
    BY DEF ReplayIsConfined
  <2> DEFINE h == s.applied
  <2>1. h \in Seq(Entries) /\ EntryInOrder(h, j)
    BY StorageInOrder DEF InOrder, Storage
  <2>2. /\ h[i] \in Entries /\ h[j] \in Entries
    BY <2>1
  <2>3. h[i].life \in Nat /\ h[j].life \in Nat /\ h[j].xt.nonce \in Nat
    <3>1. \A e \in Entries : e.life \in Nat /\ e.xt \in Extrinsics
      BY DEF Entries
    <3>2. \A x \in Extrinsics : x.nonce \in Nat
      BY DEF Extrinsics
    <3> HIDE DEF h
    <3> QED BY <2>2, <3>1, <3>2
  <2>4. h[i].life <= h[j].life /\ h[i].life # h[j].life
    BY <2>1, <2>3 DEF EntryInOrder
  <2> QED BY <2>1, <2>3, <2>4 DEF EntryInOrder
<1> QED BY <1>1, InvHolds, PTL

\* Every variable has its type, and the hashes of the last BlockHashCount blocks and
\* of the genesis are in storage, those of this branch and no other.
THEOREM TypeCorrect == Spec => []TypeOK
<1>1. Inv => TypeOK
  <2> SUFFICES ASSUME Inv PROVE TypeOK
    OBVIOUS
  <2>1. Len(chain) <= MaxBlock /\ forks \in 0..MaxForks /\ made \subseteq Extrinsics
    BY DEF Inv, Typed
  <2>2. \A i \in 1..Len(chain) : DOMAIN chain[i].storage.block_hash
                                  = {b \in 0..(i - 1) : b = 0 \/ b >= i - BlockHashCount}
    BY DEF Inv, KeepsHashes, Table
  <2>3. \A s \in Storages : /\ s.alive \subseteq Accounts
                             /\ \A a \in Accounts : s.nonce[a] \in Nat /\ s.life[a] \in Nat
    BY StorageInOrder DEF Storage
  <2> QED BY <2>1, <2>2, <2>3 DEF TypeOK
<1> QED BY <1>1, InvHolds, PTL
=============================================================================
