-------------------------- MODULE DeploymentProofs ---------------------------
(***************************************************************************)
(* Proofs about a deployment: the rank mapping, for every number of ranks, *)
(* and what its command lines lead to, for every set of configurations     *)
(* that servers may be started with.                                       *)
(***************************************************************************)
EXTENDS Deployment, TLAPS, FiniteSetTheorems, SequenceTheorems

(***************************************************************************)
(* The rank mapping.                                                       *)
(***************************************************************************)
(* What integer division by a positive number returns. *)
LEMMA DivBounds ==
    ASSUME NEW x \in Nat, NEW d \in Nat \ {0}
    PROVE  /\ x \div d \in Nat
           /\ d * (x \div d) <= x
           /\ x < d * (x \div d) + d
  BY Z3

(* ... and that nothing else has these bounds. *)
LEMMA DivUnique ==
    ASSUME NEW x \in Nat, NEW d \in Nat \ {0}, NEW q \in Nat,
           d * q <= x, x < d * q + d
    PROVE  x \div d = q
  BY Z3

(* A block starts at the first Attention rank a with a F >= i A. *)
LEMMA BlockStartBounds ==
    ASSUME NEW AA \in Nat \ {0}, NEW FF \in Nat \ {0}, NEW i \in Nat
    PROVE  /\ BlockStart(i, AA, FF) \in Nat
           /\ \A a \in Nat : BlockStart(i, AA, FF) <= a <=> i * AA <= a * FF
  <1> DEFINE s == BlockStart(i, AA, FF)
  <1>1. i * AA \in Nat /\ i * AA + FF - 1 \in Nat
    <2>1. i * AA \in Nat
      BY Z3
    <2> QED BY <2>1
  <1>2. /\ s \in Nat
        /\ FF * s <= i * AA + FF - 1
        /\ i * AA + FF - 1 < FF * s + FF
    BY <1>1, DivBounds DEF BlockStart
  <1>3. ASSUME NEW a \in Nat PROVE s <= a <=> i * AA <= a * FF
    <2> HIDE DEF s
    <2>1. FF * s \in Nat /\ a * FF \in Nat
      BY <1>2, Z3
    <2>2. ASSUME s <= a PROVE i * AA <= a * FF
      <3>1. FF * s <= a * FF
        BY <1>2, <2>2, Z3
      <3> QED BY <1>1, <1>2, <2>1, <3>1
    <2>3. ASSUME a < s PROVE a * FF < i * AA
      <3>1. FF * s >= a * FF + FF
        BY <1>2, <2>3, Z3
      <3> QED BY <1>1, <1>2, <2>1, <3>1
    <2> QED BY <1>1, <1>2, <2>1, <2>2, <2>3
  <1> QED BY <1>2, <1>3

(* The bounds of a block's start as products. *)
LEMMA BlockStartProducts ==
    ASSUME NEW AA \in Nat \ {0}, NEW FF \in Nat \ {0}, NEW i \in Nat
    PROVE  /\ BlockStart(i, AA, FF) \in Nat
           /\ i * AA \in Nat
           /\ FF * BlockStart(i, AA, FF) <= i * AA + FF - 1
           /\ i * AA <= FF * BlockStart(i, AA, FF)
  <1>1. i * AA \in Nat
    BY Z3
  <1>2. i * AA + FF - 1 \in Nat
    BY <1>1
  <1>3. /\ BlockStart(i, AA, FF) \in Nat
        /\ FF * BlockStart(i, AA, FF) <= i * AA + FF - 1
        /\ i * AA + FF - 1 < FF * BlockStart(i, AA, FF) + FF
    BY <1>2, DivBounds DEF BlockStart
  <1>4. FF * BlockStart(i, AA, FF) \in Nat
    BY <1>3, Z3
  <1> QED BY <1>1, <1>3, <1>4

(* topology.py: the block lookup and the subgroup index are inverse to one
   another, for every deployment. *)
THEOREM BlockInverse ==
    ASSUME NEW AA \in Nat \ {0}, NEW FF \in Nat \ {0},
           NEW a \in Nat, NEW i \in Nat
    PROVE  a \in SubgroupBlock(i, AA, FF)
             <=> i = SubgroupIndex("attention", a, AA, FF)
  <1>1. a * FF \in Nat /\ i * AA \in Nat
    BY Z3
  <1>2. (i + 1) * AA = AA * i + AA /\ i * AA = AA * i
    BY Z3
  <1>3. /\ BlockStart(i, AA, FF) \in Nat
        /\ BlockStart(i, AA, FF) <= a <=> i * AA <= a * FF
    BY BlockStartBounds
  <1>4. /\ BlockStart(i + 1, AA, FF) \in Nat
        /\ BlockStart(i + 1, AA, FF) <= a <=> (i + 1) * AA <= a * FF
    BY BlockStartBounds
  <1>5. a \in SubgroupBlock(i, AA, FF)
          <=> AA * i <= a * FF /\ a * FF < AA * i + AA
    <2>1. a \in SubgroupBlock(i, AA, FF)
            <=> BlockStart(i, AA, FF) <= a /\ ~(BlockStart(i + 1, AA, FF) <= a)
      BY <1>3, <1>4 DEF SubgroupBlock
    <2> QED BY <1>1, <1>2, <1>3, <1>4, <2>1
  <1>6. SubgroupIndex("attention", a, AA, FF) = (a * FF) \div AA
    BY DEF SubgroupIndex
  <1>7. ASSUME i = (a * FF) \div AA
        PROVE  AA * i <= a * FF /\ a * FF < AA * i + AA
    BY <1>1, <1>7, DivBounds
  <1>8. ASSUME AA * i <= a * FF, a * FF < AA * i + AA
        PROVE  i = (a * FF) \div AA
    BY <1>1, <1>8, DivUnique
  <1> QED BY <1>5, <1>6, <1>7, <1>8

(* topology.py: the blocks differ in size by at most one and are all of the
   same size when F divides A. *)
THEOREM BlockSizes ==
    ASSUME NEW AA \in Nat \ {0}, NEW FF \in Nat \ {0}, NEW i \in Nat
    PROVE  LET size == BlockStart(i + 1, AA, FF) - BlockStart(i, AA, FF)
           IN  size = AA \div FF \/ (size = AA \div FF + 1 /\ AA % FF /= 0)
  <1> DEFINE s == BlockStart(i, AA, FF)
             t == BlockStart(i + 1, AA, FF)
             q == AA \div FF
  <1>1. s \in Nat /\ i * AA \in Nat /\ FF * s <= i * AA + FF - 1 /\ i * AA <= FF * s
    BY BlockStartProducts
  <1>2. /\ t \in Nat /\ (i + 1) * AA \in Nat
        /\ FF * t <= (i + 1) * AA + FF - 1 /\ (i + 1) * AA <= FF * t
    BY BlockStartProducts
  <1>3. q \in Nat /\ FF * q <= AA /\ AA < FF * q + FF
    BY DivBounds
  <1>4. (i + 1) * AA = i * AA + AA
    BY Z3
  <1>5. AA % FF = 0 => AA = FF * q
    BY Z3
  <1> HIDE DEF s, t, q
  <1>6. FF * s \in Nat /\ FF * t \in Nat /\ FF * q \in Nat
    BY <1>1, <1>2, <1>3, Z3
  <1>7. FF * (s + q) = FF * s + FF * q
    BY <1>1, <1>3, Z3
  <1>8. t <= s + q + 1
    <2>1. ASSUME t >= s + q + 2 PROVE FALSE
      <3>1. FF * t >= FF * (s + q) + FF + FF
        BY <1>1, <1>2, <1>3, <2>1, Z3
      <3> QED BY <1>1, <1>2, <1>3, <1>4, <1>6, <1>7, <3>1
    <2> QED BY <2>1, <1>1, <1>2, <1>3
  <1>9. t >= s + q
    <2>1. ASSUME t + 1 <= s + q PROVE FALSE
      <3>1. FF * t + FF <= FF * (s + q)
        BY <1>1, <1>2, <1>3, <2>1, Z3
      <3> QED BY <1>1, <1>2, <1>3, <1>4, <1>6, <1>7, <3>1
    <2> QED BY <2>1, <1>1, <1>2, <1>3
  <1>10. AA % FF = 0 => t <= s + q
    <2>1. ASSUME AA = FF * q, t >= s + q + 1 PROVE FALSE
      <3>1. FF * t >= FF * (s + q) + FF
        BY <1>1, <1>2, <1>3, <2>1, Z3
      <3> QED BY <1>1, <1>2, <1>3, <1>4, <1>6, <1>7, <2>1, <3>1
    <2> QED BY <2>1, <1>1, <1>2, <1>3, <1>5
  <1>11. t - s = q \/ (t - s = q + 1 /\ AA % FF /= 0)
    BY <1>1, <1>2, <1>3, <1>8, <1>9, <1>10
  <1> QED BY <1>11 DEF s, t, q

(* The remainder of a number smaller than the divisor. *)
LEMMA ModSmall ==
    ASSUME NEW x \in Nat, NEW d \in Nat \ {0}, x < d
    PROVE  x % d = x
  BY Z3

(* topology.py, with A >= F: Attention rank b sends the control payloads to
   FFN rank b if there is one, and to no other. *)
LEMMA DestinationsOwn ==
    ASSUME NEW AA \in Nat \ {0}, NEW FF \in Nat \ {0}, FF <= AA, NEW b \in Nat
    PROVE  MetadataDestinations("attention", b, AA, FF) = IF b < FF THEN {b} ELSE {}
  <1>1. MinSize(AA, FF) = FF
    BY DEF MinSize, Min2
  <1>2. WorldRank("attention", b, FF) = FF + b
    BY DEF WorldRank
  <1>3. IsMetadataSender(FF + b, AA, FF) <=> b < FF
    BY <1>1 DEF IsMetadataSender
  <1>4. CASE b < FF
    <2>1. \A d \in 0 .. FF - 1 : d >= b /\ (d - b) % FF = 0 <=> d = b
      <3> SUFFICES ASSUME NEW d \in 0 .. FF - 1
                   PROVE  d >= b /\ (d - b) % FF = 0 <=> d = b
        OBVIOUS
      <3>1. d >= b => (d - b) \in Nat /\ d - b < FF
        BY <1>4
      <3>2. d >= b => (d - b) % FF = d - b
        BY <3>1, ModSmall
      <3> QED BY <3>1, <3>2
    <2>2. MetadataDestinations("attention", b, AA, FF)
            = {d \in 0 .. FF - 1 : d >= b /\ (d - b) % FF = 0}
      BY <1>1, <1>2, <1>3, <1>4 DEF MetadataDestinations
    <2>3. b \in 0 .. FF - 1
      BY <1>4
    <2> QED BY <2>1, <2>2, <2>3, <1>4
  <1>5. CASE ~(b < FF)
    BY <1>2, <1>3, <1>5 DEF MetadataDestinations
  <1> QED BY <1>4, <1>5

(* The deployment's sizes: all that the mapping depends on. *)
Sizes == A \in Nat \ {0} /\ F \in Nat \ {0} /\ F <= A

(* RankMapping: every deployment has an Attention rank for each FFN rank. *)
LEMMA SizesInvariant == Spec => []Sizes
  <1>1. Init => Sizes
    BY MaxRanksAssumption DEF Init, Sizes, ValidTopology
  <1>2. Sizes /\ [Next]_vars => Sizes'
    BY DEF Sizes, Next, NewStep, vars
  <1> QED BY <1>1, <1>2, PTL DEF Spec

(* With such sizes the blocks partition the Attention ranks. *)
LEMMA SizesPartition == Sizes => BlocksPartition
  BY BlockInverse DEF Sizes, BlocksPartition, AttentionRanks, FFNRanks

(* In every deployment each Attention rank is in the block of its own
   subgroup and of no other. *)
THEOREM PartitionHolds == Spec => []BlocksPartition
  BY SizesPartition, SizesInvariant, PTL

(* In every deployment the blocks differ by at most one rank. *)
THEOREM BalanceHolds == Spec => []BlocksBalanced
  <1>1. ASSUME Sizes PROVE BlocksBalanced
    <2> SUFFICES ASSUME NEW i \in FFNRanks
                 PROVE  LET size == BlockStart(i + 1, A, F) - BlockStart(i, A, F)
                        IN  size = A \div F \/ (size = A \div F + 1 /\ A % F /= 0)
      BY DEF BlocksBalanced
    <2>1. i \in Nat /\ A \in Nat \ {0} /\ F \in Nat \ {0}
      BY <1>1 DEF FFNRanks, Sizes
    <2> QED BY <2>1, BlockSizes
  <1> QED BY <1>1, SizesInvariant, PTL

(* With such sizes every FFN rank hears from one Attention rank, its own
   sender. *)
LEMMA SizesSender == ASSUME Sizes PROVE OneMetadataSender
  <1> SUFFICES ASSUME NEW j \in FFNRanks
               PROVE  \E a \in AttentionRanks :
                        /\ j \in MetadataDestinations("attention", a, A, F)
                        /\ MetadataSource(j, A, F) = P2PRank("attention", a, A, F)
                        /\ ParticipatesInMetadataGroup(WorldRank("attention", a, F), A, F)
                        /\ \A b \in AttentionRanks :
                              j \in MetadataDestinations("attention", b, A, F) => b = a
    BY DEF OneMetadataSender
  <1>1. j \in Nat /\ j < F /\ j \in AttentionRanks
    BY DEF FFNRanks, AttentionRanks, Sizes
  <1>2. \A b \in AttentionRanks :
           MetadataDestinations("attention", b, A, F) = IF b < F THEN {b} ELSE {}
    BY DestinationsOwn DEF AttentionRanks, Sizes
  <1>3. MinSize(A, F) = F
    BY DEF MinSize, Min2, Sizes
  <1>4. MetadataSource(j, A, F) = P2PRank("attention", j, A, F)
    <2>1. j % F = j
      BY <1>1, ModSmall DEF Sizes
    <2> QED BY <1>1, <1>3, <2>1 DEF MetadataSource, P2PRank
  <1>5. ParticipatesInMetadataGroup(WorldRank("attention", j, F), A, F)
    BY <1>1, <1>3
    DEF ParticipatesInMetadataGroup, IsMetadataSender, WorldRank, Sizes
  <1> QED BY <1>1, <1>2, <1>4, <1>5

(* ffn_metadata.py and p2p.py read the count of an Attention rank in the same
   way. *)
LEMMA SameCount ==
    ASSUME NEW c, IsFiniteSet(DOMAIN c), NEW AA, NEW r
    PROVE  (IF r \in DOMAIN Expanded(c, AA) THEN Max2(1, Expanded(c, AA)[r]) ELSE Max2(1, 1))
             = NumTokens(c, r, AA, 1)
  <1>1. CASE Len0(c) = 0
    <2>1. DOMAIN c = {}
      BY <1>1, FS_EmptySet DEF Len0
    <2>2. Expanded(c, AA) = c
      BY <1>1 DEF Expanded
    <2> QED BY <1>1, <2>1, <2>2 DEF NumTokens
  <1>2. CASE Len0(c) /= 0
    <2>1. Len0(c) > 0
      BY <1>2, FS_CardinalityType DEF Len0
    <2> QED BY <2>1, Zenon DEF NumTokens
  <1> QED BY <1>1, <1>2

(* The sum that aggregate_ffn_token_counts takes of a block is the sum of the
   rows that its ranks send: the summands agree, and so do their folds. *)
LEMMA AggregateIsSum ==
    ASSUME IsFiniteSet(DOMAIN counts), NEW S
    PROVE  MapThenSumSet(LAMBDA r : IF r \in DOMAIN Expanded(counts, A)
                                    THEN Max2(1, Expanded(counts, A)[r])
                                    ELSE Max2(1, 1), S)
             = MapThenSumSet(LAMBDA r : NumTokens(counts, r, A, 1), S)
  <1> DEFINE P(r) == IF r \in DOMAIN Expanded(counts, A) THEN Max2(1, Expanded(counts, A)[r])
                     ELSE Max2(1, 1)
             Q(r) == NumTokens(counts, r, A, 1)
             it(f) == [s \in SUBSET S |-> IF s = {} THEN 0
                         ELSE P(CHOOSE x \in s : TRUE) + f[s \ {CHOOSE x \in s : TRUE}]]
             jt(f) == [s \in SUBSET S |-> IF s = {} THEN 0
                         ELSE Q(CHOOSE x \in s : TRUE) + f[s \ {CHOOSE x \in s : TRUE}]]
  <1>1. ASSUME NEW r PROVE P(r) = Q(r)
    BY SameCount
  <1>2. MapThenSumSet(LAMBDA r : IF r \in DOMAIN Expanded(counts, A)
                                 THEN Max2(1, Expanded(counts, A)[r])
                                 ELSE Max2(1, 1), S) = (CHOOSE f : f = it(f))[S]
    BY Zenon DEF MapThenSumSet, MapThenFoldSet
  <1>3. MapThenSumSet(LAMBDA r : NumTokens(counts, r, A, 1), S) = (CHOOSE f : f = jt(f))[S]
    BY Zenon DEF MapThenSumSet, MapThenFoldSet
  <1> HIDE DEF P, Q
  <1>4. ASSUME NEW f PROVE it(f) = jt(f)
    BY <1>1
  <1> HIDE DEF it, jt
  <1>5. (CHOOSE f : f = it(f)) = (CHOOSE f : f = jt(f))
    BY <1>4, Zenon
  <1> QED BY <1>2, <1>3, <1>5

(* subgroup_ranks holds, after the FFN rank, the ranks of its block. *)
LEMMA PeersAreBlock ==
    ASSUME Sizes, NEW i \in FFNRanks
    PROVE  Peers(i) = SubgroupBlock(i, A, F)
  <1> DEFINE s == BlockStart(i, A, F)
             t == BlockStart(i + 1, A, F)
  <1>1. i \in Nat /\ A \in Nat \ {0} /\ F \in Nat \ {0}
    BY DEF FFNRanks, Sizes
  <1>2. s \in Nat /\ t \in Nat
    BY <1>1, BlockStartBounds
  <1>3. s <= t
    <2>1. A \div F \in Nat
      BY <1>1, DivBounds
    <2>2. t - s = A \div F \/ (t - s = A \div F + 1 /\ A % F /= 0)
      BY <1>1, BlockSizes, Zenon
    <2> HIDE DEF s, t
    <2> QED BY <1>2, <2>1, <2>2
  <1> HIDE DEF s, t
  <1>4. Cardinality(s .. t - 1) = t - s
    <2>1. Cardinality(s .. t - 1) = IF s > t - 1 THEN 0 ELSE (t - 1) - s + 1
      BY <1>2, FS_Interval
    <2> QED BY <1>2, <1>3, <2>1
  <1>5. DOMAIN SubgroupRanks(i, A, F) = 0 .. t - s
    BY <1>4 DEF SubgroupRanks, SubgroupBlock, s, t
  <1>6. \A k \in 1 .. t - s : SubgroupRanks(i, A, F)[k] - F = s + k - 1
    <2>1. \A k \in 0 .. t - s : SubgroupRanks(i, A, F)[k] = IF k = 0 THEN i ELSE F + s + k - 1
      BY <1>4 DEF SubgroupRanks, SubgroupBlock, s, t
    <2> QED BY <1>1, <1>2, <2>1
  <1>7. Peers(i) = {s + k - 1 : k \in 1 .. t - s}
    <2>1. (0 .. t - s) \ {0} = 1 .. t - s
      BY <1>2
    <2> QED BY <1>5, <1>6, <2>1, Zenon DEF Peers
  <1>8. {s + k - 1 : k \in 1 .. t - s} = s .. t - 1
    <2>1. \A a \in s .. t - 1 : a - s + 1 \in 1 .. t - s /\ a = s + (a - s + 1) - 1
      BY <1>2
    <2>2. s .. t - 1 \subseteq {s + k - 1 : k \in 1 .. t - s}
      BY <2>1, Zenon
    <2>3. {s + k - 1 : k \in 1 .. t - s} \subseteq s .. t - 1
      BY <1>2
    <2> QED BY <2>2, <2>3
  <1> QED BY <1>7, <1>8 DEF SubgroupBlock, s, t

(* With such sizes the two counts of an FFN rank's rows are one sum. *)
LEMMA SizesAggregate ==
    ASSUME Sizes, IsFiniteSet(DOMAIN counts)
    PROVE  AggregateMatchesWire
  <1> SUFFICES ASSUME NEW i \in FFNRanks
               PROVE  AggregateCounts(counts, A, F, 1)[i]
                        = MapThenSumSet(LAMBDA r : NumTokens(counts, r, A, 1), Peers(i))
    BY DEF AggregateMatchesWire
  <1>1. ~(A < F) /\ i \in 0 .. F - 1
    BY DEF Sizes, FFNRanks
  <1>2. AggregateCounts(counts, A, F, 1)[i]
          = MapThenSumSet(LAMBDA r : IF r \in DOMAIN Expanded(counts, A)
                                     THEN Max2(1, Expanded(counts, A)[r])
                                     ELSE Max2(1, 1), SubgroupBlock(i, A, F))
    BY <1>1, Zenon DEF AggregateCounts
  <1>3. Peers(i) = SubgroupBlock(i, A, F)
    BY PeersAreBlock
  <1>4. MapThenSumSet(LAMBDA r : IF r \in DOMAIN Expanded(counts, A)
                                 THEN Max2(1, Expanded(counts, A)[r])
                                 ELSE Max2(1, 1), SubgroupBlock(i, A, F))
          = MapThenSumSet(LAMBDA r : NumTokens(counts, r, A, 1), SubgroupBlock(i, A, F))
    BY AggregateIsSum, Zenon
  <1> QED BY <1>2, <1>3, <1>4, Zenon

(* In every deployment each FFN rank has exactly one sender of control
   payloads, the one it receives from. *)
THEOREM SenderUnique == Spec => []OneMetadataSender
  BY SizesSender, SizesInvariant, PTL

(* Both facts together: what the run of the deployment checks. *)
THEOREM SubgroupsHold == Spec => []SubgroupsFit
  BY PartitionHolds, SenderUnique, PTL DEF SubgroupsFit

(***************************************************************************)
(* Launching the servers.                                                  *)
(***************************************************************************)
(* d differs from c at most in its microbatches and its backend. *)
Alike(d, c) ==
    /\ IsServer(d)
    /\ d.afd = c.afd /\ d.x = c.x /\ d.platform = c.platform /\ d.worker = c.worker
    /\ d.dp = c.dp /\ d.tp = c.tp /\ d.ep = c.ep /\ d.model = c.model
    /\ d.flashcomm = c.flashcomm

(* d differs from c at most in its backend. *)
Like(d, c) == Alike(d, c) /\ d.dbo = c.dbo /\ d.ubatch = c.ubatch

(* Another backend changes nothing else. *)
LEMMA OtherBackend ==
  ASSUME NEW c, IsServer(c), NEW b
  PROVE  Like([c EXCEPT !.backend = b], c) /\ [c EXCEPT !.backend = b].backend = b
  BY DEF Like, Alike, IsServer

(* Likeness is reflexive and transitive. *)
LEMMA LikeOrder ==
  ASSUME NEW c, NEW d, NEW e, IsServer(c)
  PROVE  Like(c, c) /\ (Like(d, c) /\ Like(e, d) => Like(e, c))
  BY DEF Like, Alike

(* Sequence parallelism and shared experts depend on nothing that may differ
   but the backend. *)
LEMMA SameDerived ==
  ASSUME NEW c, NEW d, Alike(d, c), d.backend = c.backend
  PROVE  SpMoe(d) = SpMoe(c) /\ SharesExperts(d) = SharesExperts(c)
<1>1. SpMoe(d) = SpMoe(c)
  BY DEF Alike, SpMoe
<1>2. QED
  BY <1>1 DEF Alike, SharesExperts, IsAttention

(* What _restore_afd_dbo_config leaves is the configuration before the
   platform's pass, except for a backend that was settled without
   microbatches; and vLLM accepts it if it accepted the one before. *)
LEMMA RestoredLike ==
  ASSUME NEW c, IsServer(c), NEW p, Like(p, c)
  PROVE  /\ Alike(AscendPass(p), c) /\ AscendPass(p).backend = p.backend
         /\ Like(Restored(AscendPass(p), c), c)
         /\ Restored(AscendPass(p), c).backend
              = IF ~c.dbo /\ c.ubatch = 0 THEN p.backend ELSE c.backend
         /\ VllmAccepts(c) => VllmAccepts(Restored(AscendPass(p), c))
<1> DEFINE a == AscendPass(p)
<1>1. Alike(a, c) /\ a.dbo = FALSE /\ a.ubatch = 0 /\ a.backend = p.backend
  BY DEF AscendPass, Like, Alike, IsServer
<1> HIDE DEF a
<1>2. CASE ~c.dbo /\ c.ubatch = 0
  <2>1. Restored(a, c) = a
    BY <1>2 DEF Restored
  <2>2. c.dbo = FALSE
    BY <1>2 DEF IsServer
  <2>3. ~UseUbatching(a)
    BY <1>1 DEF UseUbatching
  <2>4. QED
    BY <1>1, <1>2, <2>1, <2>2, <2>3 DEF Like, VllmAccepts, a
<1>3. CASE ~(~c.dbo /\ c.ubatch = 0)
  <2> DEFINE r == [a EXCEPT !.dbo = c.dbo, !.ubatch = c.ubatch, !.backend = c.backend]
  <2>1. Restored(a, c) = r
    BY <1>3, Zenon DEF Restored
  <2>2. Alike(r, c) /\ r.dbo = c.dbo /\ r.ubatch = c.ubatch /\ r.backend = c.backend
    BY <1>1 DEF Alike, IsServer
  <2> HIDE DEF r
  <2>3. VllmAccepts(c) => VllmAccepts(r)
    BY <2>2 DEF VllmAccepts, UseUbatching
  <2>4. QED
    BY <1>1, <1>3, <2>1, <2>2, <2>3 DEF Like, a
<1>4. QED
  BY <1>2, <1>3

(* The backend with which Ascend builds its configuration. *)
SettledBackend(c, first, b) == IF first /\ ~c.flashcomm THEN Alltoallv ELSE b

(* init_ascend_config changes the backend at most, and derives what its
   backend says. *)
LEMMA BuiltLike ==
  ASSUME NEW c, IsServer(c), NEW first
  PROVE  /\ Like(InitAscendConfig(c, first).c, c)
         /\ InitAscendConfig(c, first).c.backend = SettledBackend(c, first, c.backend)
         /\ InitAscendConfig(c, first).shares = SharesExperts(InitAscendConfig(c, first).c)
<1>1. Like(c, c)
  BY LikeOrder
<1>2. Like(Settled(c), c) /\ Settled(c).backend = IF c.flashcomm THEN c.backend ELSE Alltoallv
  BY OtherBackend DEF Settled
<1>3. CASE first
  <2>1. InitAscendConfig(c, first) = [c |-> Settled(c), shares |-> SharesExperts(Settled(c))]
    BY <1>3 DEF InitAscendConfig
  <2>2. SettledBackend(c, first, c.backend) = IF c.flashcomm THEN c.backend ELSE Alltoallv
    BY <1>3 DEF SettledBackend
  <2>3. /\ InitAscendConfig(c, first).c = Settled(c)
        /\ InitAscendConfig(c, first).shares = SharesExperts(Settled(c))
    BY <2>1
  <2>4. QED
    BY <1>2, <2>2, <2>3
<1>4. CASE ~first
  <2>1. InitAscendConfig(c, first) = [c |-> c, shares |-> SharesExperts(c)]
    BY <1>4 DEF InitAscendConfig
  <2>2. SettledBackend(c, first, c.backend) = c.backend
    BY <1>4 DEF SettledBackend
  <2>3. InitAscendConfig(c, first).c = c /\ InitAscendConfig(c, first).shares = SharesExperts(c)
    BY <2>1
  <2>4. QED
    BY <1>1, <2>2, <2>3
<1>5. QED
  BY <1>3, <1>4

(* The platform's pass as patched: b is the backend Ascend settles. *)
LEMMA PassLike ==
  ASSUME NEW c, IsServer(c), NEW first, NEW actual, NEW b,
         b = SettledBackend(c, first, actual)
  PROVE  /\ Like(PlatformPass(c, first, actual).c, c)
         /\ PlatformPass(c, first, actual).actual = b
         /\ PlatformPass(c, first, actual).c.backend
              = IF ~c.dbo /\ c.ubatch = 0 THEN b ELSE c.backend
         /\ \A d : Alike(d, c) /\ d.backend = b =>
              PlatformPass(c, first, actual).derived
                = [sp |-> SpMoe(d), shares |-> SharesExperts(d)]
         /\ VllmAccepts(c) => VllmAccepts(PlatformPass(c, first, actual).c)
<1> DEFINE shown == [c EXCEPT !.backend = actual]
           built == InitAscendConfig(shown, first)
           pass == PlatformPass(c, first, actual)
<1>1. Like(shown, c) /\ shown.backend = actual
  BY OtherBackend
<1>2. pass = [c |-> Restored(AscendPass(built.c), c), actual |-> AscendPass(built.c).backend,
              derived |-> [sp |-> SpMoe(AscendPass(built.c)), shares |-> built.shares]]
  BY DEF PlatformPass
<1> HIDE DEF shown, pass
<1>3. /\ Like(built.c, shown) /\ built.shares = SharesExperts(built.c)
      /\ built.c.backend = SettledBackend(shown, first, shown.backend)
  BY <1>1, BuiltLike DEF Like, Alike
<1> HIDE DEF built
<1>4. Like(built.c, c) /\ built.c.backend = b
  BY <1>1, <1>3, LikeOrder DEF SettledBackend, Like, Alike
<1>5. /\ Alike(AscendPass(built.c), c) /\ AscendPass(built.c).backend = b
      /\ Like(pass.c, c) /\ (VllmAccepts(c) => VllmAccepts(pass.c))
      /\ pass.c.backend = IF ~c.dbo /\ c.ubatch = 0 THEN b ELSE c.backend
      /\ pass.actual = b
  BY <1>2, <1>4, RestoredLike
<1>6. ASSUME NEW d, Alike(d, c), d.backend = b
      PROVE  pass.derived = [sp |-> SpMoe(d), shares |-> SharesExperts(d)]
  <2>1. Alike(AscendPass(built.c), d) /\ AscendPass(built.c).backend = d.backend
    BY <1>5, <1>6 DEF Alike
  <2>2. Alike(built.c, d) /\ built.c.backend = d.backend
    BY <1>4, <1>6 DEF Alike, Like
  <2>3. SpMoe(AscendPass(built.c)) = SpMoe(d) /\ SharesExperts(built.c) = SharesExperts(d)
    BY <2>1, <2>2, SameDerived
  <2>4. QED
    BY <1>2, <1>3, <2>3, Zenon
<1>7. QED
  BY <1>5, <1>6 DEF pass

(* __post_init__ with AFD's patches accepts every backend, and leaves the
   section and the microbatches alone, whatever it shows vLLM and Ascend. *)
LEMMA PostInitAccepts ==
  ASSUME NEW c, IsServer(c), NEW first
  PROVE  PostInit(c, first).ok /\ Like(PostInit(c, first).c, c)
<1> DEFINE relax == Relaxes(c, c.backend)
           temp == [c EXCEPT !.backend = IF relax THEN TempBackend ELSE @]
           pass == PlatformPass(temp, first, c.backend)
<1>1. Like(temp, c) /\ temp.backend = IF relax THEN TempBackend ELSE c.backend
  BY OtherBackend
<1>2. VllmAccepts(temp)
  BY <1>1 DEF VllmAccepts, Relaxes, Like, UseUbatching, TempBackend, MicrobatchBackends
<1>3. IsServer(temp)
  BY <1>1 DEF Like, Alike
<1> HIDE DEF temp
<1>4. Like(pass.c, temp) /\ VllmAccepts(pass.c)
  BY <1>2, <1>3, PassLike
<1> HIDE DEF pass
<1>5. Like(c, c) /\ Like(pass.c, c) /\ IsServer(pass.c)
  BY <1>1, <1>4, LikeOrder DEF Like, Alike
<1>6. Like([pass.c EXCEPT !.backend = IF relax THEN pass.actual ELSE @], pass.c)
  BY <1>5, OtherBackend
<1>7. Like([pass.c EXCEPT !.backend = IF relax THEN pass.actual ELSE @], c)
  BY <1>5, <1>6, LikeOrder
<1> HIDE DEF relax
<1>8. CASE c.platform /= "npu"
  BY <1>2, <1>5, <1>8 DEF PostInit, temp, relax
<1>9. CASE c.platform = "npu"
  BY <1>4, <1>7, <1>9 DEF PostInit, temp, relax, pass
<1>10. QED
  BY <1>8, <1>9

(* On a GPU it changes nothing; on Ascend, where no backend is put back over
   the settled one, what was derived is what the configuration says. *)
LEMMA PostInitSettles ==
  ASSUME NEW c, IsServer(c), NEW first, ~KeepsUnsettledBackend(c)
  PROVE  /\ c.platform /= "npu" => PostInit(c, first).c = c
         /\ c.platform = "npu" =>
              /\ PostInit(c, first).c.backend \in {c.backend, Alltoallv}
              /\ PostInit(c, first).derived
                   = [sp |-> SpMoe(PostInit(c, first).c),
                      shares |-> SharesExperts(PostInit(c, first).c)]
<1>1. c.platform /= "npu" => PostInit(c, first).c = c
  BY DEF PostInit
<1>2. ASSUME c.platform = "npu"
      PROVE  /\ PostInit(c, first).c.backend \in {c.backend, Alltoallv}
             /\ PostInit(c, first).derived
                  = [sp |-> SpMoe(PostInit(c, first).c),
                     shares |-> SharesExperts(PostInit(c, first).c)]
  <2> DEFINE relax == Relaxes(c, c.backend)
             temp == [c EXCEPT !.backend = IF relax THEN TempBackend ELSE @]
             pass == PlatformPass(temp, first, c.backend)
             b == SettledBackend(temp, first, c.backend)
             result == PostInit(c, first)
  <2>1. Like(temp, c) /\ temp.backend = IF relax THEN TempBackend ELSE c.backend
    BY OtherBackend
  <2>2. /\ result.c = [pass.c EXCEPT !.backend = IF relax THEN pass.actual ELSE @]
        /\ result.derived = pass.derived
    BY <1>2 DEF PostInit
  <2>3. Like(result.c, c)
    BY PostInitAccepts
  <2> HIDE DEF temp, result
  <2>4. /\ Like(pass.c, temp) /\ pass.actual = b
        /\ pass.c.backend = IF ~temp.dbo /\ temp.ubatch = 0 THEN b ELSE temp.backend
        /\ \A d : Alike(d, temp) /\ d.backend = b =>
              pass.derived = [sp |-> SpMoe(d), shares |-> SharesExperts(d)]
    BY <2>1, PassLike DEF Like, Alike
  <2> HIDE DEF pass
  <2>5. result.c.backend = IF relax THEN b ELSE pass.c.backend
    BY <2>2, <2>4 DEF Like, Alike, IsServer
  <2>6. b \in {c.backend, Alltoallv}
    BY <2>1 DEF SettledBackend
  <2>7. Alike(result.c, temp)
    BY <2>1, <2>3 DEF Like, Alike
  <2>8. CASE result.c.backend = b
    <3>1. pass.derived = [sp |-> SpMoe(result.c), shares |-> SharesExperts(result.c)]
      BY <2>4, <2>7, <2>8
    <3> HIDE DEF b
    <3>2. result.c.backend \in {c.backend, Alltoallv}
      BY <2>6, <2>8
    <3>3. result.derived = [sp |-> SpMoe(result.c), shares |-> SharesExperts(result.c)]
      BY <2>2, <3>1, Zenon
    <3>4. QED
      BY <3>2, <3>3 DEF result
  <2>9. CASE result.c.backend /= b
    <3>1. ~relax /\ ~(~c.dbo /\ c.ubatch = 0) /\ result.c.backend = c.backend
      BY <2>1, <2>4, <2>5, <2>9 DEF Like
    <3>2. c.dbo \/ c.ubatch > 0
      BY <3>1 DEF IsServer
    <3>3. ~c.flashcomm
      BY <2>1, <2>9, <3>1 DEF SettledBackend, Like, Alike
    <3>4. c.tp = 1
      BY <1>2, <3>1, <3>2, <3>3 DEF KeepsUnsettledBackend, relax, Relaxes, IsServer
    <3> DEFINE d == [c EXCEPT !.backend = b]
    <3>5. Like(d, c) /\ d.backend = b
      BY OtherBackend
    <3> HIDE DEF d
    <3>6. Alike(d, temp)
      BY <2>1, <3>5 DEF Like, Alike
    <3>7. ~SpMoe(d) /\ ~SpMoe(result.c)
      BY <2>3, <3>4, <3>5 DEF Like, Alike, SpMoe
    <3>8. ~SharesExperts(d) /\ ~SharesExperts(result.c)
      BY <3>7 DEF SharesExperts
    <3>9. SpMoe(d) = SpMoe(result.c) /\ SharesExperts(d) = SharesExperts(result.c)
      BY <3>7, <3>8 DEF SpMoe, SharesExperts
    <3>10. pass.derived = [sp |-> SpMoe(d), shares |-> SharesExperts(d)]
      BY <2>4, <3>5, <3>6
    <3>11. result.derived = [sp |-> SpMoe(result.c), shares |-> SharesExperts(result.c)]
      BY <2>2, <3>9, <3>10, Zenon
    <3>12. QED
      BY <3>1, <3>11 DEF result
  <2>10. QED
    BY <2>8, <2>9 DEF result
<1>3. QED
  BY <1>1, <1>2

(***************************************************************************)
(* The inductive invariant of a deployment.                                *)
(***************************************************************************)
(* Each server has a configuration of its own, and an entry point of AFD's *)
ServersInv ==
    /\ DOMAIN config = Roles /\ DOMAIN stage = Roles /\ DOMAIN refusal = Roles
    /\ DOMAIN target = Roles
    /\ \A s \in Roles : IsServer(config[s]) /\ target[s] /= "ascend"

(* What init_device has checked of the configuration it goes on with. *)
ReadyConfig(c, role) ==
    /\ ValidSection(c.afd) /\ c.afd.role = role
    /\ RoleRanks(c) = c.dp * c.tp
    /\ \/ c.platform = "cuda" /\ c.worker[1] = "gpu" /\ c.afd.connector \in GpuConnectors
       \/ c.platform = "npu" /\ c.worker[1] = "npu" /\ c.afd.connector \in NpuConnectors
    /\ c.afd.connector \in {"deepep_m2n", "cam_async"} => c.afd.gate
    /\ c.afd.connector = "cam_async" => IsAsync(c) /\ (IsAttention(c) => c.tp = c.x.ranks_per_dp)
    /\ UseUbatching(c) => NumUbatches(c) = 2
ReadyInv == \A s \in Roles : stage[s] = "ready" => ReadyConfig(config[s], s)

(* A world that has formed is of two ready servers that agree on it. *)
JoinedInv ==
    world = "joined" =>
        /\ \A s \in Roles : stage[s] = "ready"
        /\ SameWorld(config["attention"], config["ffn"])

(* The mapping has sizes that fit, and counts of finitely many ranks. *)
MappingInv == Sizes /\ dp \in Int /\ IsFiniteSet(DOMAIN counts)

DeploymentInv == ServersInv /\ ReadyInv /\ JoinedInv /\ LaunchNotUndone /\ MappingInv

(* Every initial state satisfies it. *)
LEMMA InitDeployment == DeploymentInit => DeploymentInv
<1> SUFFICES ASSUME DeploymentInit PROVE DeploymentInv
  OBVIOUS
<1>1. ServersInv /\ ReadyInv /\ JoinedInv /\ LaunchNotUndone
  BY DeploymentsAssumption
  DEF DeploymentInit, LaunchInit, ServersInv, ReadyInv, JoinedInv, LaunchNotUndone
<1>2. MappingInv
  <2>1. DOMAIN counts = {0}
    BY DEF DeploymentInit
  <2>2. IsFiniteSet({0})
    BY FS_Singleton
  <2>3. QED
    BY <2>1, <2>2 DEF DeploymentInit, MappingInv, Sizes
<1>3. QED
  BY <1>1, <1>2 DEF DeploymentInv

(* What create_engine_config and init_device place is still a server's. *)
LEMMA PlacedServer ==
  ASSUME NEW c, IsServer(c), NEW b, NEW w
  PROVE  /\ IsServer([c EXCEPT !.backend = b]) /\ IsServer([c EXCEPT !.worker = w])
         /\ Like(FixBackend(c), c)
<1>1. IsServer([c EXCEPT !.backend = b]) /\ IsServer([c EXCEPT !.worker = w])
  BY DEF IsServer
<1>2. Like(c, c)
  BY LikeOrder
<1>3. Like([c EXCEPT !.backend = Alltoallv], c)
  BY OtherBackend
<1>4. QED
  BY <1>1, <1>2, <1>3 DEF FixBackend

(* configure_async_cam_dbo leaves the rest alone, and whether there are
   microbatches. *)
LEMMA AsyncDboAlike ==
  ASSUME NEW c, IsServer(c)
  PROVE  /\ Alike(AsyncDboConfigured(c), c)
         /\ UseUbatching(AsyncDboConfigured(c)) = UseUbatching(c)
         /\ AsyncDboConfigured(c).backend = c.backend
<1>1. CASE AsyncDbo(c)
  <2> DEFINE d == [c EXCEPT !.dbo = TRUE]
  <2>1. Alike(d, c) /\ d.dbo = TRUE /\ d.backend = c.backend
    BY DEF Alike, IsServer
  <2> HIDE DEF d
  <2>2. UseUbatching(d) = UseUbatching(c)
    BY <1>1, <2>1 DEF AsyncDbo, UseUbatching
  <2>3. AsyncDboConfigured(c) = d
    BY <1>1 DEF AsyncDboConfigured, d
  <2>4. QED
    BY <2>1, <2>2, <2>3
<1>2. CASE ~AsyncDbo(c)
  BY <1>2 DEF AsyncDboConfigured, Alike
<1>3. QED
  BY <1>1, <1>2

(* While create_engine_config runs, and when it raises, the server has the
   configuration it had. *)
LEMMA CallKeeps ==
  ASSUME DeploymentInv, NEW s \in Roles, BorrowBackend(s) \/ BuildRaises(s)
  PROVE  ServersInv' /\ ReadyInv' /\ LaunchNotUndone'
<1>1. /\ UNCHANGED <<config, target>>
      /\ \E x \in {"refused", "building"} : stage' = [stage EXCEPT ![s] = x]
      /\ \/ UNCHANGED refusal
         \/ \E why \in {"section", "backend"} : refusal' = [refusal EXCEPT ![s] = why]
  BY DEF BorrowBackend, BuildRaises, Refuse
<1>2. QED
  BY <1>1 DEF DeploymentInv, ServersInv, ReadyInv, LaunchNotUndone

(* create_engine_config never leaves Ascend's own entry point. *)
LEMMA CreateKeeps ==
  ASSUME DeploymentInv, NEW s \in Roles, CreateEngineConfig(s)
  PROVE  ServersInv' /\ ReadyInv' /\ LaunchNotUndone'
<1> DEFINE c == config[s]
           bypass == locals[s].bypass
           built == PostInit(IF bypass THEN [c EXCEPT !.backend = args[s]] ELSE c, TRUE)
           actual == IF bypass THEN [built.c EXCEPT !.backend = locals[s].original] ELSE built.c
           placed == IF c.worker[1] = "auto" THEN [actual EXCEPT !.worker = WorkerFor(c, c.native)]
                     ELSE actual
           left == IF IsNpu(s) THEN FixBackend(placed) ELSE placed
<1>1. IsServer(c) /\ EngineTarget(c) /= "ascend"
  BY DEF DeploymentInv, ServersInv, EngineTarget
<1>2. IsServer(left)
  <2> HIDE DEF c
  <2>1. IsServer(IF bypass THEN [c EXCEPT !.backend = args[s]] ELSE c)
    BY <1>1, PlacedServer
  <2>2. IsServer(built.c)
    BY <2>1, PostInitAccepts DEF Like, Alike
  <2> HIDE DEF built
  <2>3. IsServer(actual)
    BY <2>2, PlacedServer
  <2> HIDE DEF actual
  <2>4. IsServer(placed)
    BY <2>3, PlacedServer
  <2> HIDE DEF placed
  <2>5. QED
    BY <2>4, PlacedServer DEF Like, Alike
<1> HIDE DEF left
<1>3. \/ /\ stage' = [stage EXCEPT ![s] = "refused"]
         /\ refusal' = [refusal EXCEPT ![s] = "worker"]
         /\ UNCHANGED <<config, target>>
      \/ /\ config' = [config EXCEPT ![s] = left]
         /\ target' = [target EXCEPT ![s] = EngineTarget(c)]
         /\ stage' = [stage EXCEPT ![s] = "parent"] /\ UNCHANGED refusal
  BY Zenon DEF CreateEngineConfig, Refuse, left
<1> HIDE DEF c
<1>4. QED
  BY <1>1, <1>2, <1>3
  DEF DeploymentInv, ServersInv, ReadyInv, LaunchNotUndone, Roles

(* The engine process is AFD's, whose factory knows the section. *)
LEMMA StartKeeps ==
  ASSUME DeploymentInv, NEW s \in Roles, StartChild(s)
  PROVE  ServersInv' /\ ReadyInv' /\ LaunchNotUndone'
  BY DEF StartChild, Refuse, DeploymentInv, ServersInv, ReadyInv, LaunchNotUndone

(* A second __post_init__ accepts what the first one left. *)
LEMMA RevalidateKeeps ==
  ASSUME DeploymentInv, NEW s \in Roles, Revalidate(s)
  PROVE  ServersInv' /\ ReadyInv' /\ LaunchNotUndone'
<1> DEFINE again == PostInit(config[s], ~cached[s])
<1>1. again.ok /\ IsServer(again.c)
  BY PostInitAccepts DEF DeploymentInv, ServersInv, Like, Alike
<1>2. /\ config' = [config EXCEPT ![s] = again.c]
      /\ stage' = [stage EXCEPT ![s] = "validated"] /\ UNCHANGED <<refusal, target>>
  BY <1>1 DEF Revalidate
<1> HIDE DEF again
<1>3. QED
  BY <1>1, <1>2 DEF DeploymentInv, ServersInv, ReadyInv, LaunchNotUndone

(* A GPU worker goes on with the configuration it has checked. *)
LEMMA GpuReady ==
  ASSUME NEW c, IsServer(c), NEW role \in Roles,
         CompatibleStack(c, role), GpuModelRunnerV2(c, role)
  PROVE  ReadyConfig(c, role)
<1>1. c.platform = "cuda" /\ c.afd.connector \in GpuConnectors /\ c.afd.role = role
  BY Zenon DEF GpuModelRunnerV2
<1>2. c.afd.connector /= "cam_async"
  BY <1>1 DEF GpuConnectors
<1>3. c.worker[1] = "gpu"
  BY <1>1, <1>2 DEF CompatibleStack
<1>4. ValidSection(c.afd) /\ RoleRanks(c) = c.dp * c.tp
  BY Zenon DEF CompatibleStack, Parses, GpuModelRunnerV2, ParallelSupported
<1>5. /\ c.afd.connector = "deepep_m2n" => c.afd.gate
      /\ UseUbatching(c) => NumUbatches(c) = 2
  BY Zenon DEF GpuModelRunnerV2
<1>6. QED
  BY <1>1, <1>2, <1>3, <1>4, <1>5 DEF ReadyConfig

(* An Ascend worker goes on with the configuration f although it has checked
   others: c of its stack, d of its features. *)
LEMMA NpuReady ==
  ASSUME NEW c, NEW d, NEW f, IsServer(c), Alike(d, c), Alike(f, c), NEW role \in Roles,
         CompatibleStack(c, role), NpuFeatures(d), NpuModelRunnerV2(f, role)
  PROVE  ReadyConfig(f, role)
<1>1. f.platform = "npu" /\ f.afd.connector \in NpuConnectors /\ f.afd.role = role
  BY Zenon DEF NpuModelRunnerV2
<1>2. f.afd.connector \notin {"deepep_m2n"}
  BY <1>1 DEF NpuConnectors
<1>3. f.worker[1] = "npu"
  BY <1>1 DEF CompatibleStack, Alike
<1>4. ValidSection(f.afd) /\ RoleRanks(f) = f.dp * f.tp
  BY Zenon DEF NpuModelRunnerV2, Parses, ParallelSupported
<1>5. /\ f.afd.connector = "cam_async" => f.afd.async /\ f.afd.gate
      /\ UseUbatching(f) => NumUbatches(f) = 2
  BY Zenon DEF NpuModelRunnerV2
<1>6. ASSUME f.afd.connector = "cam_async", IsAttention(f) PROVE f.tp = f.x.ranks_per_dp
  <2>1. d.afd.connector = "cam_async" /\ IsAttention(d)
    BY <1>6 DEF Alike, IsAttention
  <2>2. d.tp = d.x.ranks_per_dp
    BY <2>1, Zenon DEF NpuFeatures, AsyncFeatures, CamWorldTopology
  <2>3. QED
    BY <2>2 DEF Alike
<1>7. QED
  BY <1>1, <1>2, <1>3, <1>4, <1>5, <1>6 DEF ReadyConfig, IsAsync

(* init_device of the four workers checks the configuration it goes on with,
   which differs at most in its backend and its microbatches. *)
LEMMA DeviceReady ==
  ASSUME NEW c, IsServer(c)
  PROVE  /\ \A device \in {GpuAttentionDevice(c), GpuFfnDevice(c)} : device.c = c
         /\ GpuAttentionDevice(c).ok => ReadyConfig(c, "attention")
         /\ GpuFfnDevice(c).ok => ReadyConfig(c, "ffn")
         /\ Alike(NpuAttentionDevice(c).c, c) /\ Alike(NpuFfnDevice(c).c, c)
         /\ NpuAttentionDevice(c).ok => ReadyConfig(NpuAttentionDevice(c).c, "attention")
         /\ NpuFfnDevice(c).ok => ReadyConfig(NpuFfnDevice(c).c, "ffn")
<1>1. "attention" \in Roles /\ "ffn" \in Roles
  BY DEF Roles
<1>2. /\ \A device \in {GpuAttentionDevice(c), GpuFfnDevice(c)} : device.c = c
      /\ GpuAttentionDevice(c).ok => ReadyConfig(c, "attention")
      /\ GpuFfnDevice(c).ok => ReadyConfig(c, "ffn")
  <2>1. GpuAttentionDevice(c).c = c /\ GpuFfnDevice(c).c = c
    BY DEF GpuAttentionDevice, GpuFfnDevice
  <2>2. /\ GpuAttentionDevice(c).ok =>
             CompatibleStack(c, "attention") /\ GpuModelRunnerV2(c, "attention")
        /\ GpuFfnDevice(c).ok => CompatibleStack(c, "ffn") /\ GpuModelRunnerV2(c, "ffn")
    BY DEF GpuAttentionDevice, GpuFfnDevice
  <2>3. QED
    BY <1>1, <2>1, <2>2, GpuReady
<1> DEFINE d == AsyncDboConfigured(c)
<1>3. Alike(d, c) /\ Alike(FixBackend(d), c)
  <2>1. Alike(d, c)
    BY AsyncDboAlike
  <2> HIDE DEF d
  <2>2. Like(FixBackend(d), d)
    BY <2>1, PlacedServer DEF Alike
  <2>3. QED
    BY <2>1, <2>2 DEF Like, Alike
<1>4. Alike(c, c) /\ Alike(FixBackend(c), c)
  BY PlacedServer, LikeOrder DEF Like
<1>5. /\ NpuAttentionDevice(c).c = FixBackend(d)
      /\ NpuAttentionDevice(c).ok => CompatibleStack(c, "attention") /\ NpuFeatures(d)
                                     /\ NpuModelRunnerV2(FixBackend(d), "attention")
  BY DEF NpuAttentionDevice
<1>6. /\ NpuFfnDevice(c).c = FixBackend(c)
      /\ NpuFfnDevice(c).ok => CompatibleStack(c, "ffn") /\ NpuFeatures(c)
                               /\ NpuModelRunnerV2(FixBackend(c), "ffn")
  BY DEF NpuFfnDevice
<1> HIDE DEF d
<1>7. NpuAttentionDevice(c).ok => ReadyConfig(NpuAttentionDevice(c).c, "attention")
  BY <1>1, <1>3, <1>5, NpuReady
<1>8. NpuFfnDevice(c).ok => ReadyConfig(NpuFfnDevice(c).c, "ffn")
  BY <1>1, <1>4, <1>6, NpuReady
<1>9. QED
  BY <1>2, <1>3, <1>4, <1>5, <1>6, <1>7, <1>8

(* init_device leaves a server's configuration that it has checked. *)
LEMMA DeviceKeeps ==
  ASSUME DeploymentInv, NEW s \in Roles, InitDevice(s)
  PROVE  ServersInv' /\ ReadyInv' /\ LaunchNotUndone'
<1> DEFINE c == config[s]
           device == IF IsNpu(s)
                     THEN IF s = "attention" THEN NpuAttentionDevice(c) ELSE NpuFfnDevice(c)
                     ELSE IF s = "attention" THEN GpuAttentionDevice(c) ELSE GpuFfnDevice(c)
<1>1. IsServer(c)
  BY DEF DeploymentInv, ServersInv
<1>2. IsServer(device.c) /\ (device.ok => ReadyConfig(device.c, s))
  BY <1>1, DeviceReady DEF Alike, Roles
<1> HIDE DEF device
<1>3. \/ /\ device.ok
         /\ config' = [config EXCEPT ![s] = device.c]
         /\ stage' = [stage EXCEPT ![s] = "ready"] /\ UNCHANGED <<refusal, target>>
      \/ /\ stage' = [stage EXCEPT ![s] = "refused"]
         /\ refusal' = [refusal EXCEPT ![s] = "worker"]
         /\ UNCHANGED <<config, target>>
  BY Zenon DEF InitDevice, Refuse, device
<1> HIDE DEF c
<1>4. QED
  BY <1>1, <1>2, <1>3 DEF DeploymentInv, ServersInv, ReadyInv, LaunchNotUndone

(* What the section's validator says of the sizes. *)
LEMMA SectionSizes ==
  ASSUME NEW a, ValidSection(a)
  PROVE  a.A > 0 /\ a.F > 0 /\ (a.connector = "p2p" => a.A >= a.F)
  BY Zenon DEF ValidSection

(* A P2P world forms with sizes that both servers have checked. *)
LEMMA WorldKeeps ==
  ASSUME DeploymentInv, FormWorld
  PROVE  DeploymentInv'
<1>1. ServersInv' /\ ReadyInv' /\ JoinedInv' /\ LaunchNotUndone'
  BY DEF FormWorld, JoinWorld, DeploymentInv, ServersInv, ReadyInv, JoinedInv, LaunchNotUndone
<1>2. MappingInv'
  <2> DEFINE c == config["attention"]
  <2>1. c.afd.A \in Int /\ c.afd.F \in Int /\ c.dp \in Nat
    BY DEF DeploymentInv, ServersInv, IsServer, Roles
  <2>2. ValidSection(c.afd)
    BY DEF FormWorld, JoinWorld, DeploymentInv, ReadyInv, ReadyConfig, Roles
  <2>3. \/ UNCHANGED vars
        \/ /\ c.afd.connector = "p2p" /\ A' = c.afd.A /\ F' = c.afd.F /\ dp' = c.dp
           /\ DOMAIN counts' = 0 .. c.dp - 1
    BY DEF FormWorld
  <2>4. c.afd.A > 0 /\ c.afd.F > 0 /\ (c.afd.connector = "p2p" => c.afd.A >= c.afd.F)
    BY <2>2, SectionSizes
  <2> HIDE DEF c
  <2>5. IsFiniteSet(0 .. c.dp - 1)
    <3>1. c.dp - 1 \in Int
      BY <2>1
    <3>2. QED
      BY <3>1, FS_Interval
  <2>6. QED
    BY <2>1, <2>3, <2>4, <2>5 DEF DeploymentInv, MappingInv, Sizes, vars
<1>3. QED
  BY <1>1, <1>2 DEF DeploymentInv

(* The servers launch no further once they are ready. *)
LEMMA ReadyDone ==
  ASSUME NEW s \in Roles,
         \/ BorrowBackend(s) \/ BuildRaises(s) \/ CreateEngineConfig(s)
         \/ StartChild(s) \/ Revalidate(s) \/ InitDevice(s)
  PROVE  stage[s] /= "ready" /\ world' = world
  BY DEF BorrowBackend, BuildRaises, CreateEngineConfig, StartChild, Revalidate, InitDevice

(* The counts of a step are of finitely many ranks. *)
LEMMA CountsKeep ==
  ASSUME MappingInv, NewStep
  PROVE  MappingInv'
<1>1. DOMAIN counts' = 0 .. dp - 1
  BY DEF NewStep
<1>2. IsFiniteSet(0 .. dp - 1)
  BY FS_Interval DEF MappingInv
<1>3. QED
  BY <1>1, <1>2 DEF MappingInv, Sizes, NewStep

(* Every step keeps the invariant. *)
LEMMA NextDeployment == DeploymentInv /\ [DeploymentNext]_deploymentVars => DeploymentInv'
<1> SUFFICES ASSUME DeploymentInv, [DeploymentNext]_deploymentVars PROVE DeploymentInv'
  OBVIOUS
<1>1. CASE LaunchStep
  <2>1. MappingInv'
    BY <1>1 DEF LaunchStep, vars, DeploymentInv, MappingInv, Sizes
  <2>2. PICK s \in Roles :
         \/ BorrowBackend(s) \/ BuildRaises(s) \/ CreateEngineConfig(s)
         \/ StartChild(s) \/ Revalidate(s) \/ InitDevice(s)
    BY <1>1 DEF LaunchStep
  <2>3. JoinedInv'
    BY <2>2, ReadyDone DEF DeploymentInv, JoinedInv
  <2>4. QED
    BY <2>1, <2>2, <2>3, CallKeeps, CreateKeeps, StartKeeps, RevalidateKeeps, DeviceKeeps
    DEF DeploymentInv
<1>2. CASE FormWorld
  BY <1>2, WorldKeeps
<1>3. ASSUME UNCHANGED launchVars PROVE ServersInv' /\ ReadyInv' /\ JoinedInv' /\ LaunchNotUndone'
  BY <1>3 DEF launchVars, DeploymentInv, ServersInv, ReadyInv, JoinedInv, LaunchNotUndone
<1>4. CASE AgreeCounts
  BY <1>3, <1>4, CountsKeep DEF AgreeCounts, DeploymentInv
<1>5. CASE UNCHANGED launchVars /\ UNCHANGED vars
  BY <1>3, <1>5 DEF DeploymentInv, MappingInv, Sizes, vars
<1>6. CASE Serve \/ Request \/ Disturb \/ UNCHANGED deploymentVars
  BY <1>5, <1>6 DEF Serve, Request, Disturb, deploymentVars
<1>7. QED
  BY <1>1, <1>2, <1>4, <1>6 DEF DeploymentNext

(* The inductive invariant of a deployment, for every set of configurations. *)
THEOREM SpecDeployment == DeploymentSpec => []DeploymentInv
<1>1. DeploymentInit => DeploymentInv
  BY InitDeployment
<1>2. DeploymentInv /\ [DeploymentNext]_deploymentVars => DeploymentInv'
  BY NextDeployment
<1>3. QED
  BY <1>1, <1>2, PTL DEF DeploymentSpec

(* Whatever configuration a server is started with, its engine process does
   not refuse what its first process accepted (ascend_config.py:253,
   config_validation.py:120). *)
THEOREM NothingUndone == DeploymentSpec => []LaunchNotUndone
<1>1. DeploymentInv => LaunchNotUndone
  BY DEF DeploymentInv
<1>2. QED
  BY <1>1, SpecDeployment, PTL

(* Whatever configurations two servers are started with, the world they form
   is partitioned into subgroups with one sender each (topology.py). *)
THEOREM WorldFits == DeploymentSpec => []SubgroupsFit
<1>1. ASSUME Sizes PROVE SubgroupsFit
  BY <1>1, SizesPartition, SizesSender DEF SubgroupsFit
<1>2. QED
  BY <1>1, SpecDeployment, PTL DEF DeploymentInv, MappingInv

(* Whatever the sizes and the counts of a step, the count that an FFN rank
   gives its model is the number of rows its peers send it (ffn_metadata.py,
   p2p.py:796-828). *)
THEOREM AggregateHolds == DeploymentSpec => []AggregateMatchesWire
<1>1. MappingInv => AggregateMatchesWire
  BY SizesAggregate DEF MappingInv
<1>2. QED
  BY <1>1, SpecDeployment, PTL DEF DeploymentInv

(* Rank d tp + t is the TP rank t of the DP rank d, and every rank is one. *)
LEMMA RanksOfRole ==
  ASSUME NEW c, IsServer(c)
  PROVE  {RoleRank(c, d, t) : d \in 0 .. c.dp - 1, t \in 0 .. c.tp - 1}
           = 0 .. c.dp * c.tp - 1
<1> DEFINE m == c.dp
           n == c.tp
<1>1. m \in Nat \ {0} /\ n \in Nat \ {0}
  BY DEF IsServer
<1>2. {RoleRank(c, d, t) : d \in 0 .. c.dp - 1, t \in 0 .. c.tp - 1}
        = {d * n + t : d \in 0 .. m - 1, t \in 0 .. n - 1}
  BY DEF RoleRank
<1> HIDE DEF m, n
<1>3. ASSUME NEW d \in 0 .. m - 1, NEW t \in 0 .. n - 1
      PROVE  d * n + t \in 0 .. m * n - 1
  <2>1. d * n \in Nat /\ m * n \in Nat /\ d * n + n <= m * n
    BY <1>1, Z3
  <2>2. QED
    BY <1>1, <2>1
<1>4. ASSUME NEW r \in 0 .. m * n - 1
      PROVE  \E d \in 0 .. m - 1, t \in 0 .. n - 1 : r = d * n + t
  <2> DEFINE q == r \div n
  <2>1. m * n \in Nat
    BY <1>1, Z3
  <2>2. q \in Nat /\ n * q <= r /\ r < n * q + n /\ r \in Nat
    BY <1>1, <2>1, DivBounds
  <2> HIDE DEF q
  <2>3. q * n = n * q /\ n * q \in Nat
    BY <1>1, <2>2, Z3
  <2>4. q < m
    <3>1. ASSUME q >= m PROVE n * q >= m * n
      BY <1>1, <2>2, <3>1, Z3
    <3>2. QED
      BY <1>1, <2>1, <2>2, <2>3, <3>1
  <2>5. r - n * q \in 0 .. n - 1 /\ q \in 0 .. m - 1 /\ r = q * n + (r - n * q)
    BY <1>1, <2>1, <2>2, <2>3, <2>4
  <2>6. QED
    BY <2>5
<1> DEFINE Numbers == {d * n + t : d \in 0 .. m - 1, t \in 0 .. n - 1}
           Wanted == 0 .. m * n - 1
           OfRole == {RoleRank(c, d, t) : d \in 0 .. c.dp - 1, t \in 0 .. c.tp - 1}
<1>5. Numbers \subseteq Wanted
  BY <1>3
<1>6. Wanted \subseteq Numbers
  BY <1>4
<1>7. Wanted = 0 .. c.dp * c.tp - 1
  BY DEF m, n
<1>8. OfRole = Numbers
  BY <1>2
<1> HIDE DEF Numbers, Wanted, OfRole
<1>9. Numbers = Wanted
  BY <1>5, <1>6
<1>10. OfRole = 0 .. c.dp * c.tp - 1
  BY <1>7, <1>8, <1>9, Zenon
<1>11. QED
  BY <1>10 DEF OfRole

(* Whatever configurations two servers are started with, a world that forms is
   one that both can work in: each was checked alone, and the checks and the
   rendezvous together leave no room for a rank that nobody is, for roles that
   run different operators or routing, or for settings that the connector
   cannot carry (distributed/topology.py:58, connectors/npu/async_cam.py:983,
   connectors/gpu/deepep_m2n). *)
THEOREM WorldIsComplete == DeploymentSpec => []JoinedWorldFits
<1>1. ASSUME DeploymentInv, world = "joined" PROVE JoinedWorldFits
  <2> DEFINE att == config["attention"]
             ffn == config["ffn"]
  <2>1. /\ IsServer(att) /\ ReadyConfig(att, "attention")
        /\ IsServer(ffn) /\ ReadyConfig(ffn, "ffn") /\ SameWorld(att, ffn)
    BY <1>1 DEF DeploymentInv, ServersInv, ReadyInv, JoinedInv, Roles
  <2>2. \A s \in Roles : UseUbatching(config[s]) => NumUbatches(config[s]) = 2
    BY <2>1 DEF ReadyConfig, Roles
  <2> HIDE DEF att, ffn
  <2>3. \A c \in {att, ffn} :
           {RoleRank(c, d, t) : d \in 0 .. c.dp - 1, t \in 0 .. c.tp - 1} = 0 .. RoleRanks(c) - 1
    <3>1. RoleRanks(att) = att.dp * att.tp /\ RoleRanks(ffn) = ffn.dp * ffn.tp
      BY <2>1 DEF ReadyConfig
    <3>2. QED
      BY <2>1, <3>1, RanksOfRole
  <2>4. att.afd.role = "attention" /\ ffn.afd.role = "ffn"
    BY <2>1 DEF ReadyConfig
  <2>5. att.afd.connector = ffn.afd.connector /\ att.afd.F = ffn.afd.F
    BY <2>1 DEF SameWorld
  <2>6. att.platform = ffn.platform /\ att.worker[1] = ffn.worker[1]
    BY <2>1, <2>5 DEF ReadyConfig, GpuConnectors, NpuConnectors
  <2>7. att.afd.connector = "p2p" => ValidTopology(att.afd.A, ffn.afd.F)
    <3>1. /\ att.afd.F > 0 /\ att.afd.F \in Int
          /\ att.afd.connector = "p2p" => att.afd.A >= att.afd.F
      BY <2>1, SectionSizes DEF ReadyConfig, IsServer
    <3>2. QED
      BY <2>5, <3>1 DEF ValidTopology
  <2>8. att.afd.connector \in {"deepep_m2n", "cam_async"} => att.afd.gate = ffn.afd.gate
    BY <2>1, <2>5 DEF ReadyConfig, IsServer
  <2>9. att.afd.connector = "cam_async" =>
          att.afd.A = att.dp * att.x.ranks_per_dp /\ IsAsync(att) /\ IsAsync(ffn)
    BY <2>1, <2>4, <2>5 DEF ReadyConfig, RoleRanks, IsAttention
  <2>10. QED
    BY <2>2, <2>3, <2>4, <2>6, <2>7, <2>8, <2>9 DEF JoinedWorldFits, att, ffn
<1>2. DeploymentInv => JoinedWorldFits
  BY <1>1 DEF JoinedWorldFits
<1>3. QED
  BY <1>2, SpecDeployment, PTL

(***************************************************************************)
(* The waves of engines that step together.                                *)
(***************************************************************************)
(* The messages there can be while the engines are in wave w. *)
RequestsUpTo(w) == Requests \X (0 .. w)
StartsUpTo(w) == (0 .. w) \X (Engines \cup {NoEngine})
ReportsUpTo(w) == ({"start"} \X (0 .. w)) \cup ({"complete"} \X (0 .. w - 1))

(* No message and no process is ahead of the wave the engines are in, and what
   they have reported as complete is behind it. *)
WavesOrdered ==
    /\ wave \in [Engines -> Nat] /\ \A e, f \in Engines : wave[e] = wave[f]
    /\ DOMAIN coord = {"wave", "running", "first"}
    /\ coord.wave \in Nat /\ coord.first \in Seq(Engines \X Nat)
    /\ DOMAIN client = {"wave", "running"}
    /\ client.wave \in Nat /\ client.wave <= coord.wave
    /\ DOMAIN fromClient = Engines /\ DOMAIN fromCoord = Engines /\ DOMAIN toCoord = Engines
    /\ \A e \in Engines :
         /\ coord.wave <= wave[e]
         /\ fromClient[e] \in Seq(RequestsUpTo(wave[e]))
         /\ fromCoord[e] \in Seq(StartsUpTo(wave[e]))
         /\ toCoord[e] \in Seq(ReportsUpTo(wave[e]))

(* Before the world has formed the engines are as they began. *)
WaveInv ==
    /\ world /= "joined" => EnginesInit
    /\ EngineClass = "dp" => WavesOrdered

(* Engines begin in one wave, with no messages. *)
LEMMA InitOrdered == EnginesInit => WavesOrdered
<1> SUFFICES ASSUME EnginesInit PROVE WavesOrdered
  OBVIOUS
<1>1. \A S : <<>> \in Seq(S)
  BY EmptySeq
<1>2. QED
  BY <1>1 DEF EnginesInit, WavesOrdered

(* A request carries the wave the client knows, to its engine and, for the
   first one, to the coordinator (add_request_async). *)
LEMMA AddOrdered ==
  ASSUME WavesOrdered, NEW r \in Requests, NEW e \in Engines, AddRequest(r, e)
  PROVE  WavesOrdered'
<1>1. /\ UNCHANGED <<wave, fromCoord, toCoord>>
      /\ fromClient' = [fromClient EXCEPT ![e] = Append(@, <<r, client.wave>>)]
      /\ \/ /\ coord' = [coord EXCEPT !.first = Append(@, <<e, client.wave>>)]
            /\ client' = [client EXCEPT !.running = TRUE]
         \/ UNCHANGED <<coord, client>>
  BY DEF AddRequest
<1>2. Append(coord.first, <<e, client.wave>>) \in Seq(Engines \X Nat)
  BY AppendProperties DEF WavesOrdered
<1>3. Append(fromClient[e], <<r, client.wave>>) \in Seq(RequestsUpTo(wave[e]))
  <2>1. <<r, client.wave>> \in RequestsUpTo(wave[e])
    <3>1. /\ client.wave \in Nat /\ client.wave <= coord.wave
          /\ coord.wave \in Nat /\ coord.wave <= wave[e] /\ wave[e] \in Nat
      BY DEF WavesOrdered
    <3>2. client.wave \in 0 .. wave[e]
      BY <3>1
    <3>3. QED
      BY <3>2 DEF RequestsUpTo
  <2>2. QED
    BY <2>1, AppendProperties DEF WavesOrdered
<1>4. \A f \in Engines : fromClient'[f] \in Seq(RequestsUpTo(wave[f]))
  BY <1>1, <1>3 DEF WavesOrdered
<1>5. /\ DOMAIN coord' = {"wave", "running", "first"} /\ coord'.wave = coord.wave
      /\ coord'.first \in Seq(Engines \X Nat)
      /\ DOMAIN client' = {"wave", "running"} /\ client'.wave = client.wave
      /\ DOMAIN fromClient' = Engines
  BY <1>1, <1>2 DEF WavesOrdered
<1>6. QED
  BY <1>1, <1>4, <1>5 DEF WavesOrdered, RequestsUpTo, StartsUpTo, ReportsUpTo

(* START_DP_WAVE of a wave that is not ahead of the engines. *)
LEMMA StartOrdered ==
  ASSUME WavesOrdered, NEW w \in Nat, \A e \in Engines : w <= wave[e],
         NEW x \in Engines \cup {NoEngine}, StartWave(w, x)
  PROVE  /\ DOMAIN fromCoord' = Engines
         /\ \A e \in Engines : fromCoord'[e] \in Seq(StartsUpTo(wave[e]))
<1>1. ASSUME NEW e \in Engines
      PROVE  Append(fromCoord[e], <<w, x>>) \in Seq(StartsUpTo(wave[e]))
  <2>1. <<w, x>> \in StartsUpTo(wave[e])
    BY DEF StartsUpTo, WavesOrdered
  <2>2. QED
    BY <2>1, AppendProperties DEF WavesOrdered
<1>2. QED
  BY <1>1 DEF StartWave

(* The coordinator starts a wave when a request reaches paused engines. *)
LEMMA FirstOrdered ==
  ASSUME WavesOrdered, CoordFirst
  PROVE  WavesOrdered'
<1> DEFINE m == Head(coord.first)
<1>1. m[1] \in Engines /\ Tail(coord.first) \in Seq(Engines \X Nat)
  BY HeadTailProperties DEF WavesOrdered, CoordFirst
<1>2. /\ coord' = [coord EXCEPT !.first = Tail(@)]
      /\ UNCHANGED <<wave, fromClient, toCoord, client>>
      /\ \/ \E x \in {NoEngine, m[1]} : StartWave(coord.wave, x)
         \/ UNCHANGED fromCoord
  BY DEF CoordFirst
<1>3. /\ DOMAIN fromCoord' = Engines
      /\ \A e \in Engines : fromCoord'[e] \in Seq(StartsUpTo(wave[e]))
  <2>1. CASE UNCHANGED fromCoord
    BY <2>1 DEF WavesOrdered
  <2>2. CASE \E x \in {NoEngine, m[1]} : StartWave(coord.wave, x)
    <3>1. PICK x \in {NoEngine, m[1]} : StartWave(coord.wave, x)
      BY <2>2
    <3>2. x \in Engines \cup {NoEngine}
      BY <1>1, <3>1
    <3>3. coord.wave \in Nat /\ \A e \in Engines : coord.wave <= wave[e]
      BY DEF WavesOrdered
    <3>4. QED
      BY <3>1, <3>2, <3>3, StartOrdered
  <2>3. QED
    BY <1>2, <2>1, <2>2
<1>4. /\ DOMAIN coord' = {"wave", "running", "first"} /\ coord'.wave = coord.wave
      /\ coord'.first = Tail(coord.first)
  BY <1>2 DEF WavesOrdered
<1>5. QED
  BY <1>1, <1>2, <1>3, <1>4 DEF WavesOrdered, RequestsUpTo, StartsUpTo, ReportsUpTo

(* What an engine reports moves the coordinator to a wave that the engines
   have reached: to the one after a complete wave, or to the one that starts. *)
LEMMA UpdateOrdered ==
  ASSUME WavesOrdered, NEW e \in Engines, CoordUpdate(e)
  PROVE  WavesOrdered'
<1> DEFINE m == Head(toCoord[e])
           starts == m[1] = "start" /\ (m[2] > coord.wave \/ (m[2] = coord.wave /\ ~coord.running))
           completes == m[1] = "complete" /\ m[2] >= coord.wave
<1>1. m \in ReportsUpTo(wave[e]) /\ Tail(toCoord[e]) \in Seq(ReportsUpTo(wave[e]))
  BY HeadTailProperties DEF WavesOrdered, CoordUpdate
<1>2. /\ toCoord' = [toCoord EXCEPT ![e] = Tail(@)]
      /\ UNCHANGED <<wave, fromClient, client>>
      /\ \/ /\ completes
            /\ coord' = [coord EXCEPT !.wave = m[2] + 1, !.running = FALSE]
            /\ UNCHANGED fromCoord
         \/ /\ starts /\ coord' = [coord EXCEPT !.wave = m[2], !.running = TRUE]
            /\ StartWave(m[2], e)
         \/ UNCHANGED <<coord, fromCoord>>
  <2>1. ~(starts /\ completes)
    OBVIOUS
  <2> HIDE DEF m
  <2>2. QED
    BY <2>1 DEF CoordUpdate, m
<1>3. m[2] \in Nat /\ m[2] <= wave[e] /\ (m[1] = "complete" => m[2] + 1 <= wave[e])
  <2>1. wave[e] \in Nat
    BY DEF WavesOrdered
  <2> HIDE DEF m
  <2>2. QED
    BY <1>1, <2>1 DEF ReportsUpTo
<1> HIDE DEF m
<1>4. \A f \in Engines : m[2] <= wave[f] /\ (m[1] = "complete" => m[2] + 1 <= wave[f])
  BY <1>3 DEF WavesOrdered
<1>5. /\ DOMAIN coord' = {"wave", "running", "first"}
      /\ coord'.first = coord.first /\ coord'.wave \in Nat /\ coord.wave <= coord'.wave
      /\ \A f \in Engines : coord'.wave <= wave[f]
  <2>1. DOMAIN coord = {"wave", "running", "first"} /\ coord.wave \in Nat
    BY DEF WavesOrdered
  <2>2. CASE completes /\ coord' = [coord EXCEPT !.wave = m[2] + 1, !.running = FALSE]
    BY <1>3, <1>4, <2>1, <2>2
  <2>3. CASE starts /\ coord' = [coord EXCEPT !.wave = m[2], !.running = TRUE]
    BY <1>3, <1>4, <2>1, <2>3
  <2>4. CASE UNCHANGED coord
    BY <2>4 DEF WavesOrdered
  <2>5. QED
    BY <1>2, <2>2, <2>3, <2>4
<1>6. /\ DOMAIN fromCoord' = Engines
      /\ \A f \in Engines : fromCoord'[f] \in Seq(StartsUpTo(wave[f]))
  <2>1. CASE UNCHANGED fromCoord
    BY <2>1 DEF WavesOrdered
  <2>2. CASE StartWave(m[2], e)
    BY <1>3, <1>4, <2>2, StartOrdered
  <2>3. QED
    BY <1>2, <2>1, <2>2
<1>7. /\ DOMAIN toCoord' = Engines
      /\ \A f \in Engines : toCoord'[f] \in Seq(ReportsUpTo(wave[f]))
  BY <1>1, <1>2 DEF WavesOrdered
<1>8. client'.wave <= coord'.wave
  BY <1>2, <1>5 DEF WavesOrdered
<1>9. QED
  BY <1>2, <1>5, <1>6, <1>7, <1>8 DEF WavesOrdered, RequestsUpTo, StartsUpTo, ReportsUpTo

(* Neither a request nor a START_DP_WAVE takes an engine to another wave: none
   of a later wave is on its way (engine_core.py:497-519). *)
LEMMA ReceiveOrdered ==
  ASSUME WavesOrdered, NEW e \in Engines, ReceiveRequest(e) \/ ReceiveStart(e)
  PROVE  WavesOrdered'
<1>1. CASE ReceiveRequest(e)
  <2> DEFINE m == Head(fromClient[e])
  <2>1. m \in RequestsUpTo(wave[e]) /\ Tail(fromClient[e]) \in Seq(RequestsUpTo(wave[e]))
    BY <1>1, HeadTailProperties DEF WavesOrdered, ReceiveRequest
  <2>2. wave[e] \in Nat
    BY DEF WavesOrdered
  <2>3. /\ UNCHANGED <<fromCoord, coord, client>>
        /\ fromClient' = [fromClient EXCEPT ![e] = Tail(@)]
        /\ wave' = [wave EXCEPT ![e] = IF EngineClass = "dp" /\ m[2] > @ THEN m[2] ELSE @]
        /\ \/ toCoord' = [toCoord EXCEPT ![e] = Append(@, <<"start", wave[e]>>)]
           \/ UNCHANGED toCoord
    BY <1>1 DEF ReceiveRequest
  <2> HIDE DEF m
  <2>4. ~(m[2] > wave[e])
    BY <2>1, <2>2 DEF RequestsUpTo
  <2>5. wave' = wave
    BY <2>3, <2>4 DEF WavesOrdered
  <2>6. Append(toCoord[e], <<"start", wave[e]>>) \in Seq(ReportsUpTo(wave[e]))
    <3>1. <<"start", wave[e]>> \in ReportsUpTo(wave[e])
      BY <2>2 DEF ReportsUpTo
    <3>2. QED
      BY <3>1, AppendProperties DEF WavesOrdered
  <2>7. /\ DOMAIN fromClient' = Engines /\ DOMAIN toCoord' = Engines
        /\ \A f \in Engines : /\ fromClient'[f] \in Seq(RequestsUpTo(wave[f]))
                             /\ toCoord'[f] \in Seq(ReportsUpTo(wave[f]))
    BY <2>1, <2>3, <2>6 DEF WavesOrdered
  <2>8. QED
    BY <2>3, <2>5, <2>7 DEF WavesOrdered, RequestsUpTo, StartsUpTo, ReportsUpTo
<1>2. CASE ReceiveStart(e)
  <2> DEFINE m == Head(fromCoord[e])
             acts == m[2] /= e /\ m[1] >= wave[e]
  <2>1. m \in StartsUpTo(wave[e]) /\ Tail(fromCoord[e]) \in Seq(StartsUpTo(wave[e]))
    BY <1>2, HeadTailProperties DEF WavesOrdered, ReceiveStart
  <2>2. wave[e] \in Nat
    BY DEF WavesOrdered
  <2>3. /\ UNCHANGED <<fromClient, toCoord, coord, client>>
        /\ fromCoord' = [fromCoord EXCEPT ![e] = Tail(@)]
        /\ wave' = [wave EXCEPT ![e] = IF acts THEN m[1] ELSE @]
    BY <1>2 DEF ReceiveStart
  <2> HIDE DEF m
  <2>4. acts => m[1] = wave[e]
    BY <2>1, <2>2 DEF StartsUpTo
  <2>5. wave' = wave
    BY <2>3, <2>4 DEF WavesOrdered
  <2>6. /\ DOMAIN fromCoord' = Engines
        /\ \A f \in Engines : fromCoord'[f] \in Seq(StartsUpTo(wave[f]))
    BY <2>1, <2>3 DEF WavesOrdered
  <2>7. QED
    BY <2>3, <2>5, <2>6 DEF WavesOrdered, RequestsUpTo, StartsUpTo, ReportsUpTo
<1>3. QED
  BY <1>1, <1>2

(* The reduction ends the wave for all engines at once, or for none. *)
LEMMA ReduceOrdered ==
  ASSUME WavesOrdered, Reduce
  PROVE  WavesOrdered'
<1> DEFINE unfinished == \E e \in Engines : Held(e) /= {}
<1>1. /\ wave' = [e \in Engines |-> IF unfinished THEN wave[e] ELSE wave[e] + 1]
      /\ toCoord' = [e \in Engines |-> toCoord[e] \o Report(e, unfinished)]
      /\ UNCHANGED <<fromClient, fromCoord, coord, client>>
  BY DEF Reduce
<1> HIDE DEF unfinished
<1>2. ASSUME NEW e \in Engines
      PROVE  /\ wave[e] \in Nat /\ wave'[e] \in Nat /\ wave[e] <= wave'[e]
             /\ fromClient[e] \in Seq(RequestsUpTo(wave'[e]))
             /\ fromCoord[e] \in Seq(StartsUpTo(wave'[e]))
             /\ toCoord[e] \o Report(e, unfinished) \in Seq(ReportsUpTo(wave'[e]))
  <2>1. wave[e] \in Nat /\ wave'[e] \in Nat /\ wave[e] <= wave'[e]
    BY <1>1 DEF WavesOrdered
  <2>2. /\ RequestsUpTo(wave[e]) \subseteq RequestsUpTo(wave'[e])
        /\ StartsUpTo(wave[e]) \subseteq StartsUpTo(wave'[e])
    BY <2>1 DEF RequestsUpTo, StartsUpTo
  <2>3. ReportsUpTo(wave[e]) \subseteq ReportsUpTo(wave'[e])
    BY <2>1 DEF ReportsUpTo
  <2>4. toCoord[e] \in Seq(ReportsUpTo(wave'[e]))
    BY <2>3, SeqMonotonic DEF WavesOrdered
  <2>5. Report(e, unfinished) \in Seq(ReportsUpTo(wave'[e]))
    <3>1. \A S : <<>> \in Seq(S)
      BY EmptySeq
    <3>2. <<"start", wave[e]>> \in ReportsUpTo(wave'[e])
      BY <2>1 DEF ReportsUpTo
    <3>3. ~unfinished => <<"complete", wave[e]>> \in ReportsUpTo(wave'[e])
      BY <1>1, <2>1 DEF ReportsUpTo
    <3>4. \A S : \A x \in S : <<x>> \in Seq(S)
      OBVIOUS
    <3>5. \/ Report(e, unfinished) = <<>>
          \/ ~unfinished /\ Report(e, unfinished) = << <<"complete", wave[e]>> >>
          \/ Report(e, unfinished) = << <<"start", wave[e]>> >>
      BY DEF Report
    <3>6. QED
      BY <3>1, <3>2, <3>3, <3>4, <3>5
  <2>6. toCoord[e] \o Report(e, unfinished) \in Seq(ReportsUpTo(wave'[e]))
    BY <2>4, <2>5, ConcatProperties
  <2>7. QED
    BY <2>1, <2>2, <2>6, SeqMonotonic DEF WavesOrdered
<1>3. /\ wave' \in [Engines -> Nat] /\ \A e, f \in Engines : wave'[e] = wave'[f]
      /\ \A e \in Engines : coord.wave <= wave'[e]
  BY <1>1, <1>2 DEF WavesOrdered
<1>4. /\ DOMAIN toCoord' = Engines
      /\ \A e \in Engines : toCoord'[e] \in Seq(ReportsUpTo(wave'[e]))
  BY <1>1, <1>2
<1>5. QED
  BY <1>1, <1>2, <1>3, <1>4 DEF WavesOrdered, RequestsUpTo, StartsUpTo, ReportsUpTo

(* The other steps concern neither the waves nor the messages. *)
LEMMA EnginesOrdered ==
  ASSUME WavesOrdered, EnginesProgress
  PROVE  WavesOrdered'
<1>1. ASSUME UNCHANGED <<wave, fromClient, fromCoord, toCoord, coord, client>> PROVE WavesOrdered'
  BY <1>1 DEF WavesOrdered, RequestsUpTo, StartsUpTo, ReportsUpTo
<1>2. CASE \E e \in Engines : ReceiveRequest(e) \/ ReceiveStart(e)
  BY <1>2, ReceiveOrdered
<1>3. CASE \E e \in Engines : CoordUpdate(e)
  BY <1>3, UpdateOrdered
<1>4. CASE Reduce \/ CoordFirst
  BY <1>4, ReduceOrdered, FirstOrdered
<1>5. CASE Publish
  <2>1. /\ UNCHANGED <<wave, fromClient, fromCoord, toCoord, coord>>
        /\ DOMAIN client' = {"wave", "running"} /\ client'.wave = coord.wave
    BY <1>5 DEF Publish
  <2>2. client'.wave \in Nat /\ client'.wave <= coord'.wave
    BY <2>1 DEF WavesOrdered
  <2>3. QED
    BY <2>1, <2>2 DEF WavesOrdered, RequestsUpTo, StartsUpTo, ReportsUpTo
<1>6. CASE \E e \in Engines : Construct(e) \/ EnterLoop(e) \/ HandleShutdown(e)
                             \/ BeginStep(e) \/ Woken(e) \/ Step(e)
  <2>1. UNCHANGED <<wave, fromClient, fromCoord, toCoord, coord, client>>
    BY <1>6 DEF Construct, EnterLoop, HandleShutdown, BeginStep, Woken, Step, Forward
  <2>2. QED
    BY <1>1, <2>1
<1>7. QED
  BY <1>2, <1>3, <1>4, <1>5, <1>6 DEF EnginesProgress, EngineStep

(* Every step of a deployment keeps the waves in order. *)
LEMMA NextWave ==
  DeploymentInv /\ WaveInv /\ [DeploymentNext]_deploymentVars => WaveInv'
<1> SUFFICES ASSUME DeploymentInv, WaveInv, [DeploymentNext]_deploymentVars PROVE WaveInv'
  OBVIOUS
<1>1. CASE LaunchStep
  <2>1. PICK s \in Roles :
         \/ BorrowBackend(s) \/ BuildRaises(s) \/ CreateEngineConfig(s)
         \/ StartChild(s) \/ Revalidate(s) \/ InitDevice(s)
    BY <1>1 DEF LaunchStep
  <2>2. world /= "joined" /\ world' = world
    BY <2>1, ReadyDone DEF DeploymentInv, JoinedInv
  <2>3. EnginesInit'
    BY <1>1, <2>2 DEF LaunchStep, WaveInv, EnginesInit, engineVars
  <2>4. EnginesInit' => WavesOrdered'
    BY InitOrdered, PTL
  <2>5. QED
    BY <2>3, <2>4 DEF WaveInv
<1>2. CASE FormWorld
  <2>1. world = "none" /\ UNCHANGED engineVars
    BY <1>2 DEF FormWorld, JoinWorld
  <2>2. EnginesInit'
    BY <2>1 DEF WaveInv, EnginesInit, engineVars
  <2>3. EnginesInit' => WavesOrdered'
    BY InitOrdered, PTL
  <2>4. QED
    BY <2>2, <2>3 DEF WaveInv
<1>3. ASSUME UNCHANGED launchVars PROVE EngineClass' = EngineClass /\ world' = world
  BY <1>3 DEF launchVars, EngineClass, Served, IsAttention, IsAsync
<1>4. CASE AgreeCounts \/ UNCHANGED deploymentVars
  <2>1. UNCHANGED launchVars /\ UNCHANGED engineVars
    BY <1>4 DEF AgreeCounts, deploymentVars
  <2>2. WavesOrdered => WavesOrdered'
    BY <2>1 DEF engineVars, WavesOrdered, RequestsUpTo, StartsUpTo, ReportsUpTo
  <2>3. EnginesInit => EnginesInit'
    BY <2>1 DEF engineVars, EnginesInit
  <2>4. QED
    BY <1>3, <2>1, <2>2, <2>3 DEF WaveInv
<1>5. ASSUME Runs, UNCHANGED launchVars, WavesOrdered => WavesOrdered' PROVE WaveInv'
  BY <1>3, <1>5 DEF Runs, WaveInv
<1>6. CASE Serve
  BY <1>5, <1>6, EnginesOrdered DEF Serve
<1>7. CASE Request
  BY <1>5, <1>7, AddOrdered DEF Request
<1>8. CASE Disturb
  <2>1. WavesOrdered => WavesOrdered'
    BY <1>8 DEF Disturb, ConstructFails, Signal, WavesOrdered, RequestsUpTo, StartsUpTo, ReportsUpTo
  <2>2. QED
    BY <1>5, <1>8, <2>1 DEF Disturb
<1>9. QED
  BY <1>1, <1>2, <1>4, <1>6, <1>7, <1>8 DEF DeploymentNext

(* Whatever the engines, the requests and the order in which their messages
   arrive, engines that step together are always in one wave, and no process
   is ahead of them (engine_core.py:497-519). *)
THEOREM WavesHold == DeploymentSpec => []WavesAgree
<1>1. DeploymentInit => WaveInv
  BY InitOrdered DEF DeploymentInit, WaveInv
<1>2. DeploymentInv /\ WaveInv /\ [DeploymentNext]_deploymentVars => WaveInv'
  BY NextWave
<1>3. WaveInv => WavesAgree
  BY DEF WaveInv, WavesOrdered, WavesAgree
<1>4. QED
  BY <1>1, <1>2, <1>3, SpecDeployment, PTL DEF DeploymentSpec

(***************************************************************************)
(* What the operator asked for.                                            *)
(***************************************************************************)
(* The deployments with AFD workers, where no backend is put back over the one
   Ascend settled. *)
Settles(c) == c.platform \in {"cuda", "npu"} /\ ~KeepsUnsettledBackend(c)

(* What Ascend should have derived of a configuration. *)
DerivedOf(c) == [sp |-> SpMoe(c), shares |-> SharesExperts(c)]

(* e has the microbatches of c, and settles if c does. *)
Carries(e, c) ==
    /\ IsServer(e) /\ e.platform = c.platform
    /\ UseUbatching(e) = UseUbatching(c) /\ NumUbatches(e) = NumUbatches(c)
    /\ ~KeepsUnsettledBackend(c) => ~KeepsUnsettledBackend(e)

(* A configuration carries itself, and carrying is transitive. *)
LEMMA CarriesOrder ==
  ASSUME NEW c, NEW d, NEW e, IsServer(c)
  PROVE  Carries(c, c) /\ (Carries(d, c) /\ Carries(e, d) => Carries(e, c))
  BY DEF Carries

(* A backend that stays, or becomes Ascend's, carries the rest. *)
LEMMA LikeCarries ==
  ASSUME NEW c, NEW e, Like(e, c), e.backend \in {c.backend, Alltoallv}
  PROVE  Carries(e, c)
<1>1. UseUbatching(e) = UseUbatching(c) /\ NumUbatches(e) = NumUbatches(c)
  BY DEF Like, UseUbatching, NumUbatches
<1>2. e.backend \in MicrobatchBackends => c.backend \in MicrobatchBackends
  BY DEF MicrobatchBackends, Alltoallv
<1>3. QED
  BY <1>1, <1>2 DEF Like, Alike, Carries, KeepsUnsettledBackend

(* The choice of a worker carries everything. *)
LEMMA WorkerCarries ==
  ASSUME NEW c, IsServer(c), NEW w
  PROVE  /\ Carries([c EXCEPT !.worker = w], c)
         /\ [c EXCEPT !.worker = w].backend = c.backend
         /\ DerivedOf([c EXCEPT !.worker = w]) = DerivedOf(c)
<1> DEFINE e == [c EXCEPT !.worker = w]
<1>1. /\ IsServer(e) /\ e.platform = c.platform /\ e.afd = c.afd /\ e.ep = c.ep
      /\ e.tp = c.tp /\ e.dp = c.dp /\ e.backend = c.backend /\ e.model = c.model
      /\ e.flashcomm = c.flashcomm /\ e.dbo = c.dbo /\ e.ubatch = c.ubatch
  BY DEF IsServer
<1> HIDE DEF e
<1>2. UseUbatching(e) = UseUbatching(c) /\ NumUbatches(e) = NumUbatches(c)
  BY <1>1 DEF UseUbatching, NumUbatches
<1>3. Carries(e, c)
  BY <1>1, <1>2 DEF Carries, KeepsUnsettledBackend
<1>4. SpMoe(e) = SpMoe(c)
  BY <1>1 DEF SpMoe
<1>5. SharesExperts(e) = SharesExperts(c)
  BY <1>1, <1>4 DEF SharesExperts, IsAttention
<1>6. DerivedOf(e) = DerivedOf(c)
  BY <1>4, <1>5, Zenon DEF DerivedOf
<1>7. QED
  BY <1>1, <1>3, <1>6 DEF e

(* fix_all2all_backend_for_afd changes a backend only where no sequence
   parallelism was derived from it. *)
LEMMA FixCarries ==
  ASSUME NEW c, IsServer(c)
  PROVE  Carries(FixBackend(c), c) /\ DerivedOf(FixBackend(c)) = DerivedOf(c)
<1>1. CASE SpMoe(c)
  BY <1>1, CarriesOrder DEF FixBackend
<1>2. CASE ~SpMoe(c)
  <2> DEFINE e == [c EXCEPT !.backend = Alltoallv]
  <2>1. FixBackend(c) = e
    BY <1>2 DEF FixBackend
  <2>2. Like(e, c) /\ e.backend = Alltoallv
    BY OtherBackend
  <2> HIDE DEF e
  <2>3. ~SpMoe(e)
    BY <2>2 DEF SpMoe, SpBackends, Alltoallv
  <2>4. SpMoe(e) = SpMoe(c)
    BY <1>2, <2>3 DEF SpMoe
  <2>5. SharesExperts(e) = SharesExperts(c)
    BY <1>2, <2>3 DEF SharesExperts
  <2>6. DerivedOf(e) = DerivedOf(c)
    BY <2>4, <2>5, Zenon DEF DerivedOf
  <2>7. QED
    BY <2>1, <2>2, <2>6, LikeCarries
<1>3. QED
  BY <1>1, <1>2

(* __post_init__ carries a configuration that settles; on Ascend what is
   derived is what the configuration says. *)
LEMMA PostInitCarries ==
  ASSUME NEW c, IsServer(c), NEW first, ~KeepsUnsettledBackend(c)
  PROVE  /\ Carries(PostInit(c, first).c, c)
         /\ c.platform /= "npu" => PostInit(c, first).c = c
         /\ c.platform = "npu" => PostInit(c, first).derived = DerivedOf(PostInit(c, first).c)
<1>1. CASE c.platform /= "npu"
  BY <1>1, PostInitSettles, CarriesOrder
<1>2. CASE c.platform = "npu"
  BY <1>2, PostInitSettles, PostInitAccepts, LikeCarries DEF DerivedOf
<1>3. QED
  BY <1>1, <1>2

(* What EngineArgs hold while create_engine_config runs, and otherwise. *)
ArgsSurvive(s) ==
    IF stage[s] = "building" /\ locals[s].bypass
    THEN ~IsNpu(s) /\ args[s] = TempBackend /\ locals[s].original = deployment[s].backend
    ELSE args[s] = deployment[s].backend

(* How a server stands to what was asked for. *)
ServerSurvives(s) ==
    /\ IsServer(deployment[s]) /\ deployment[s].platform \in {"cuda", "npu"}
    /\ config[s].platform = deployment[s].platform
    /\ stage[s] /= "ready" => ~KeepsUnsettledBackend(config[s])
    /\ ArgsSurvive(s)
    /\ UseUbatching(config[s]) = UseUbatching(deployment[s])
    /\ \/ NumUbatches(config[s]) = NumUbatches(deployment[s])
       \/ stage[s] = "ready" /\ AsyncDbo(config[s]) /\ NumUbatches(config[s]) = 2
    /\ IF IsGpu(s) THEN config[s].backend = deployment[s].backend
       ELSE Launched(s) => derived[s] = DerivedOf(config[s])

SurvivesInv ==
    /\ DOMAIN args = Roles /\ DOMAIN locals = Roles /\ DOMAIN derived = Roles
    /\ \A s \in Roles : ServerSurvives(s)

(* Initially a server's configuration is what was asked for. *)
LEMMA InitSurvives ==
  ASSUME \A d \in Deployments, s \in Roles : Settles(d[s]), DeploymentInit
  PROVE  SurvivesInv
<1>1. /\ deployment \in Deployments /\ config = deployment
      /\ args = [s \in Roles |-> deployment[s].backend]
      /\ DOMAIN locals = Roles
      /\ stage = [s \in Roles |-> "args"] /\ derived = [s \in Roles |-> NothingDerived]
  BY DEF DeploymentInit, LaunchInit
<1>2. ASSUME NEW s \in Roles PROVE ServerSurvives(s)
  BY <1>1, <1>2, DeploymentsAssumption DEF Settles, ServerSurvives, ArgsSurvive, Launched, IsGpu
<1>3. QED
  BY <1>1, <1>2 DEF SurvivesInv

(* A step of one server leaves the other one as it stands. *)
LEMMA OtherSurvives ==
  ASSUME SurvivesInv, NEW s \in Roles, UNCHANGED deployment,
         \A r \in Roles \ {s} :
            /\ config'[r] = config[r] /\ stage'[r] = stage[r] /\ derived'[r] = derived[r]
            /\ args'[r] = args[r] /\ locals'[r] = locals[r],
         DOMAIN args' = Roles, DOMAIN locals' = Roles, DOMAIN derived' = Roles,
         ServerSurvives(s)'
  PROVE  SurvivesInv'
<1>1. ASSUME NEW r \in Roles, r /= s PROVE ServerSurvives(r)'
  <2>1. /\ config'[r] = config[r] /\ stage'[r] = stage[r] /\ derived'[r] = derived[r]
        /\ args'[r] = args[r] /\ locals'[r] = locals[r]
    BY <1>1
  <2>2. ServerSurvives(r)
    BY DEF SurvivesInv
  <2>3. deployment' = deployment
    OBVIOUS
  <2>4. /\ NumUbatches(config'[r]) = NumUbatches(config[r])
        /\ UseUbatching(config'[r]) = UseUbatching(config[r])
        /\ AsyncDbo(config'[r]) <=> AsyncDbo(config[r])
        /\ KeepsUnsettledBackend(config'[r]) <=> KeepsUnsettledBackend(config[r])
        /\ DerivedOf(config'[r]) = DerivedOf(config[r])
    BY <2>1, Zenon
  <2>5. ArgsSurvive(r)'
    BY <2>1, <2>2, <2>3, Zenon DEF ServerSurvives, ArgsSurvive, IsNpu
  <2>6. QED
    BY <2>1, <2>2, <2>3, <2>4, <2>5, Zenon DEF ServerSurvives, IsGpu, Launched
<1>2. QED
  BY <1>1 DEF SurvivesInv

(* Outside create_engine_config a step of a server leaves EngineArgs alone. *)
LEMMA ArgsKept ==
  ASSUME NEW s \in Roles, ServerSurvives(s), stage[s] /= "building", stage'[s] /= "building",
         UNCHANGED <<deployment, args>>
  PROVE  ArgsSurvive(s)'
  BY DEF ServerSurvives, ArgsSurvive

(* create_engine_config lends the backend of a GPU server, and when vLLM
   raises it puts it back. *)
LEMMA CallSurvives ==
  ASSUME DeploymentInv, SurvivesInv, NEW s \in Roles, BorrowBackend(s) \/ BuildRaises(s)
  PROVE  SurvivesInv'
<1>1. /\ ServerSurvives(s) /\ UNCHANGED <<deployment, config, derived>>
      /\ DOMAIN args = Roles /\ DOMAIN locals = Roles /\ DOMAIN stage = Roles
  BY DEF BorrowBackend, BuildRaises, DeploymentInv, ServersInv, SurvivesInv
<1>2. /\ stage'[s] \in {"refused", "building"} /\ stage[s] \in {"args", "building"}
      /\ DOMAIN args' = Roles /\ DOMAIN locals' = Roles
      /\ \A r \in Roles \ {s} :
           stage'[r] = stage[r] /\ args'[r] = args[r] /\ locals'[r] = locals[r]
  BY <1>1 DEF BorrowBackend, BuildRaises, Refuse, PutBack
<1>3. ArgsSurvive(s)'
  <2>1. CASE BorrowBackend(s)
    <3>1. args[s] = deployment[s].backend /\ stage[s] = "args"
      BY <1>1, <2>1 DEF ServerSurvives, ArgsSurvive, BorrowBackend
    <3>2. CASE stage'[s] = "refused" /\ args' = args
      BY <1>1, <3>1, <3>2 DEF ArgsSurvive
    <3> DEFINE bypass == ~IsNpu(s) /\ Relaxes(config[s], args[s])
    <3>3. CASE /\ locals' = [locals EXCEPT ![s] = Locals(bypass, args[s])]
               /\ args' = [args EXCEPT ![s] = IF bypass THEN TempBackend ELSE @]
               /\ stage' = [stage EXCEPT ![s] = "building"]
      <4>1. /\ locals'[s].bypass = bypass /\ locals'[s].original = args[s]
            /\ args'[s] = IF bypass THEN TempBackend ELSE args[s]
            /\ stage'[s] = "building"
        BY <1>1, <3>3 DEF Locals
      <4>2. bypass => ~IsNpu(s)
        OBVIOUS
      <4> HIDE DEF bypass
      <4>3. QED
        BY <1>1, <3>1, <4>1, <4>2 DEF ArgsSurvive, IsNpu
    <3>4. QED
      BY <1>1, <2>1, <3>2, <3>3 DEF BorrowBackend, Refuse
  <2>2. CASE BuildRaises(s)
    <3>1. /\ stage[s] = "building" /\ stage'[s] = "refused"
          /\ args'[s] = IF locals[s].bypass THEN locals[s].original ELSE args[s]
      BY <1>1, <2>2 DEF BuildRaises, Refuse, PutBack
    <3>2. QED
      BY <1>1, <3>1 DEF ServerSurvives, ArgsSurvive
  <2>3. QED
    BY <2>1, <2>2
<1>4. ServerSurvives(s)'
  BY <1>1, <1>2, <1>3 DEF ServerSurvives, Launched, IsGpu
<1>5. QED
  BY <1>1, <1>2, <1>4, OtherSurvives DEF SurvivesInv

(* create_engine_config: a GPU server ends with its own backend, an Ascend
   server with what Ascend settled and derived. *)
LEMMA CreateSurvives ==
  ASSUME DeploymentInv, SurvivesInv, NEW s \in Roles, CreateEngineConfig(s)
  PROVE  SurvivesInv'
<1> DEFINE c == config[s]
           bypass == locals[s].bypass
           shown == IF bypass THEN [c EXCEPT !.backend = args[s]] ELSE c
           built == PostInit(shown, TRUE)
           actual == IF bypass THEN [built.c EXCEPT !.backend = locals[s].original] ELSE built.c
           placed == IF c.worker[1] = "auto" THEN [actual EXCEPT !.worker = WorkerFor(c, c.native)]
                     ELSE actual
           left == IF IsNpu(s) THEN FixBackend(placed) ELSE placed
<1>1. /\ UNCHANGED <<deployment, locals>> /\ PutBack(s)
      /\ \/ /\ stage' = [stage EXCEPT ![s] = "refused"] /\ UNCHANGED <<config, derived>>
         \/ /\ config' = [config EXCEPT ![s] = left]
            /\ derived' = [derived EXCEPT ![s] = built.derived]
            /\ stage' = [stage EXCEPT ![s] = "parent"]
  BY Zenon DEF CreateEngineConfig, Refuse, left, placed, actual, built, shown, bypass, c
<1>2. /\ IsServer(c) /\ ServerSurvives(s) /\ stage[s] = "building" /\ ServersInv
      /\ ~KeepsUnsettledBackend(c)
      /\ bypass => ~IsNpu(s) /\ locals[s].original = deployment[s].backend
      /\ ~bypass => args[s] = deployment[s].backend
  BY DEF DeploymentInv, ServersInv, SurvivesInv, ServerSurvives, ArgsSurvive, CreateEngineConfig
<1>3. ASSUME IsNpu(s) PROVE Carries(left, c) /\ built.derived = DerivedOf(left)
  <2>1. shown = c /\ actual = built.c /\ c.platform = "npu"
    BY <1>2, <1>3 DEF IsNpu, ServerSurvives
  <2>2. Carries(built.c, c) /\ built.derived = DerivedOf(built.c)
    <3>1. built = PostInit(c, TRUE)
      BY <2>1
    <3> HIDE DEF built, c
    <3>2. QED
      BY <1>2, <2>1, <3>1, PostInitCarries
  <2> HIDE DEF built, c
  <2>3. Carries(placed, built.c) /\ DerivedOf(placed) = DerivedOf(built.c)
    BY <2>1, <2>2, WorkerCarries, CarriesOrder DEF Carries
  <2> HIDE DEF placed
  <2>4. Carries(left, placed) /\ DerivedOf(left) = DerivedOf(placed)
    BY <1>3, <2>3, FixCarries DEF Carries
  <2> HIDE DEF left
  <2>5. QED
    BY <1>2, <2>2, <2>3, <2>4, CarriesOrder
<1>4. ASSUME ~IsNpu(s) PROVE Carries(left, c) /\ left.backend = c.backend
  <2>1. c.platform /= "npu" /\ (bypass => c.backend = locals[s].original)
    BY <1>2, <1>4 DEF IsNpu, IsGpu, ServerSurvives
  <2> HIDE DEF c
  <2>2. Like(shown, c)
    BY <1>2, OtherBackend, LikeOrder
  <2>3. shown.platform /= "npu"
    BY <2>1, <2>2 DEF Like, Alike
  <2>4. built.c = shown
    BY <2>3 DEF PostInit
  <2> HIDE DEF built
  <2>5. Like(actual, c) /\ actual.backend = c.backend
    <3>1. CASE bypass
      <4>1. actual = [shown EXCEPT !.backend = locals[s].original]
        BY <2>4, <3>1
      <4>2. IsServer(shown)
        BY <2>2 DEF Like, Alike
      <4> HIDE DEF shown
      <4>3. Like([shown EXCEPT !.backend = locals[s].original], shown)
            /\ [shown EXCEPT !.backend = locals[s].original].backend
                 = locals[s].original
        BY <4>2, OtherBackend
      <4>4. QED
        BY <1>2, <2>1, <2>2, <3>1, <4>1, <4>3, LikeOrder
    <3>2. CASE ~bypass
      BY <1>2, <2>4, <3>2, LikeOrder
    <3>3. QED
      BY <3>1, <3>2
  <2> HIDE DEF actual
  <2>6. Carries(actual, c)
    BY <2>5, LikeCarries
  <2>7. Carries(placed, actual) /\ placed.backend = actual.backend
    BY <2>6, WorkerCarries, CarriesOrder DEF Carries
  <2>8. left = placed
    BY <1>4
  <2> HIDE DEF left, placed
  <2>9. QED
    BY <1>2, <2>5, <2>6, <2>7, <2>8, CarriesOrder
<1> HIDE DEF left, built
<1>5. DOMAIN args' = Roles /\ args'[s] = deployment[s].backend
  BY <1>1, <1>2 DEF PutBack, SurvivesInv
<1>6. ServerSurvives(s)'
  <2>1. CASE stage' = [stage EXCEPT ![s] = "refused"] /\ UNCHANGED <<config, derived>>
    <3>1. stage'[s] = "refused" /\ config' = config /\ deployment' = deployment
      BY <1>1, <2>1, <1>2 DEF ServersInv
    <3>2. QED
      BY <1>2, <1>5, <3>1 DEF ServerSurvives, ArgsSurvive, Launched, IsGpu
  <2>2. CASE /\ config' = [config EXCEPT ![s] = left]
             /\ derived' = [derived EXCEPT ![s] = built.derived]
             /\ stage' = [stage EXCEPT ![s] = "parent"]
    <3>1. /\ config'[s] = left /\ derived'[s] = built.derived /\ stage'[s] = "parent"
          /\ deployment' = deployment
      BY <1>1, <1>2, <2>2 DEF ServersInv, SurvivesInv
    <3>2. Carries(left, c)
      BY <1>3, <1>4
    <3>3. IsGpu(s) => left.backend = c.backend
      BY <1>4 DEF IsGpu, IsNpu
    <3>4. ~IsGpu(s) => built.derived = DerivedOf(left)
      BY <1>2, <1>3 DEF IsGpu, IsNpu, ServerSurvives
    <3>5. QED
      BY <1>2, <1>5, <3>1, <3>2, <3>3, <3>4 DEF ServerSurvives, ArgsSurvive, Carries, IsGpu
  <2>3. QED
    BY <1>1, <2>1, <2>2
<1>7. QED
  <2>1. /\ DOMAIN derived' = Roles /\ DOMAIN locals' = Roles
        /\ \A r \in Roles \ {s} :
             /\ config'[r] = config[r] /\ stage'[r] = stage[r] /\ derived'[r] = derived[r]
             /\ args'[r] = args[r] /\ locals'[r] = locals[r]
    BY <1>1, <1>2 DEF ServersInv, SurvivesInv, PutBack
  <2>2. QED
    BY <1>1, <1>5, <1>6, <2>1, OtherSurvives

(* Each further __post_init__ in the engine process carries on. *)
LEMMA RevalidateSurvives ==
  ASSUME DeploymentInv, SurvivesInv, NEW s \in Roles, Revalidate(s)
  PROVE  SurvivesInv'
<1> DEFINE c == config[s]
           again == PostInit(c, ~cached[s])
<1>1. /\ IsServer(c) /\ ServerSurvives(s) /\ ServersInv
      /\ stage[s] \notin {"ready", "building"}
  BY DEF DeploymentInv, ServersInv, SurvivesInv, Revalidate
<1>2. ~KeepsUnsettledBackend(c) /\ Launched(s)
  BY <1>1 DEF ServerSurvives, Revalidate, Launched
<1>3. again.ok
  BY <1>1, PostInitAccepts
<1>4. /\ UNCHANGED <<deployment, args, locals>>
      /\ config' = [config EXCEPT ![s] = again.c]
      /\ derived' = [derived EXCEPT ![s] = again.derived]
      /\ stage' = [stage EXCEPT ![s] = "validated"]
  BY <1>3 DEF Revalidate
<1>5. /\ Carries(again.c, c) /\ (c.platform /= "npu" => again.c = c)
      /\ c.platform = "npu" => again.derived = DerivedOf(again.c)
  BY <1>1, <1>2, PostInitCarries
<1> HIDE DEF again
<1>6. /\ config'[s] = again.c /\ derived'[s] = again.derived /\ stage'[s] = "validated"
      /\ DOMAIN derived' = Roles
      /\ \A r \in Roles \ {s} :
           config'[r] = config[r] /\ stage'[r] = stage[r] /\ derived'[r] = derived[r]
  BY <1>1, <1>4 DEF ServersInv, SurvivesInv
<1>7. ServerSurvives(s)'
  <2>1. IsGpu(s) => again.c.backend = c.backend
    BY <1>1, <1>5 DEF IsGpu, ServerSurvives
  <2>2. ~IsGpu(s) => again.derived = DerivedOf(again.c)
    BY <1>1, <1>5 DEF IsGpu, ServerSurvives
  <2>3. deployment' = deployment /\ ArgsSurvive(s)'
    BY <1>1, <1>4, <1>6, ArgsKept
  <2> HIDE DEF c
  <2>4. QED
    BY <1>1, <1>2, <1>5, <1>6, <2>1, <2>2, <2>3 DEF ServerSurvives, Carries, IsGpu, c
<1>8. QED
  BY <1>4, <1>6, <1>7, OtherSurvives DEF SurvivesInv

(* configure_async_cam_dbo and fix_all2all_backend_for_afd change what
   init_device goes on with in one way: microbatches of Async CAM are two. *)
LEMMA DeviceCarries ==
  ASSUME NEW c, IsServer(c)
  PROVE  LET e == FixBackend(AsyncDboConfigured(c))
         IN  /\ IsServer(e) /\ e.platform = c.platform
             /\ UseUbatching(e) = UseUbatching(c)
             /\ \/ NumUbatches(e) = NumUbatches(c)
                \/ AsyncDbo(e) /\ NumUbatches(e) = 2
             /\ DerivedOf(e) = DerivedOf(c)
<1> DEFINE d == AsyncDboConfigured(c)
           e == FixBackend(d)
<1>1. Alike(d, c) /\ UseUbatching(d) = UseUbatching(c) /\ d.backend = c.backend
  BY AsyncDboAlike
<1>2. DerivedOf(d) = DerivedOf(c)
  <2> HIDE DEF d
  <2>1. SpMoe(d) = SpMoe(c) /\ SharesExperts(d) = SharesExperts(c)
    BY <1>1, SameDerived
  <2>2. QED
    BY <2>1, Zenon DEF DerivedOf
<1>3. \/ d = c
      \/ AsyncDbo(c) /\ NumUbatches(d) = 2
  <2>1. CASE AsyncDbo(c)
    <3>1. d.dbo = TRUE
      BY <2>1 DEF AsyncDboConfigured, IsServer
    <3> HIDE DEF d
    <3>2. QED
      BY <2>1, <3>1 DEF NumUbatches
  <2>2. CASE ~AsyncDbo(c)
    BY <2>2 DEF AsyncDboConfigured
  <2>3. QED
    BY <2>1, <2>2
<1> HIDE DEF d
<1>4. Carries(e, d) /\ DerivedOf(e) = DerivedOf(d) /\ Like(e, d)
  BY <1>1, FixCarries, PlacedServer DEF Alike
<1> HIDE DEF e
<1>5. AsyncDbo(c) => AsyncDbo(e)
  BY <1>1, <1>4 DEF AsyncDbo, Alike, Like, Carries, IsAttention
<1>6. /\ IsServer(e) /\ e.platform = c.platform /\ UseUbatching(e) = UseUbatching(c)
      /\ NumUbatches(e) = NumUbatches(d) /\ DerivedOf(e) = DerivedOf(c)
  BY <1>1, <1>2, <1>4 DEF Carries, Alike
<1>7. NumUbatches(e) = NumUbatches(c) \/ (AsyncDbo(e) /\ NumUbatches(e) = 2)
  BY <1>3, <1>5, <1>6
<1>8. QED
  BY <1>6, <1>7 DEF e, d

(* The worker goes on with what was asked for. *)
LEMMA DeviceSurvives ==
  ASSUME DeploymentInv, SurvivesInv, NEW s \in Roles, InitDevice(s)
  PROVE  SurvivesInv'
<1> DEFINE c == config[s]
           device == IF IsNpu(s)
                     THEN IF s = "attention" THEN NpuAttentionDevice(c) ELSE NpuFfnDevice(c)
                     ELSE IF s = "attention" THEN GpuAttentionDevice(c) ELSE GpuFfnDevice(c)
<1>1. /\ IsServer(c) /\ ServerSurvives(s) /\ ServersInv /\ stage[s] = "validated" /\ Launched(s)
      /\ NumUbatches(c) = NumUbatches(deployment[s])
  BY DEF DeploymentInv, ServersInv, SurvivesInv, ServerSurvives, InitDevice, Launched
<1>2. /\ UNCHANGED <<deployment, args, locals, derived>>
      /\ \/ /\ stage' = [stage EXCEPT ![s] = "refused"] /\ UNCHANGED config
         \/ /\ config' = [config EXCEPT ![s] = device.c]
            /\ stage' = [stage EXCEPT ![s] = "ready"]
  BY Zenon DEF InitDevice, Refuse, device, c
<1>3. /\ IsServer(device.c) /\ device.c.platform = c.platform
      /\ UseUbatching(device.c) = UseUbatching(c)
      /\ \/ NumUbatches(device.c) = NumUbatches(c)
         \/ AsyncDbo(device.c) /\ NumUbatches(device.c) = 2
      /\ IF IsNpu(s) THEN DerivedOf(device.c) = DerivedOf(c) ELSE device.c = c
  <2> HIDE DEF c
  <2>1. CASE ~IsNpu(s)
    <3>1. device.c = c
      BY <2>1 DEF GpuAttentionDevice, GpuFfnDevice
    <3> HIDE DEF device
    <3>2. QED
      BY <1>1, <2>1, <3>1
  <2>2. CASE IsNpu(s) /\ s = "attention"
    <3>1. device.c = FixBackend(AsyncDboConfigured(c))
      BY <2>2 DEF NpuAttentionDevice
    <3> HIDE DEF device
    <3>2. QED
      BY <1>1, <2>2, <3>1, DeviceCarries
  <2>3. CASE IsNpu(s) /\ s /= "attention"
    <3>1. device.c = FixBackend(c)
      BY <2>3 DEF NpuFfnDevice
    <3> HIDE DEF device
    <3>2. QED
      BY <1>1, <2>3, <3>1, FixCarries DEF Carries
  <2>4. QED
    BY <2>1, <2>2, <2>3
<1> HIDE DEF device
<1>4. /\ DOMAIN derived' = Roles
      /\ \A r \in Roles \ {s} :
           config'[r] = config[r] /\ stage'[r] = stage[r] /\ derived'[r] = derived[r]
  BY <1>1, <1>2 DEF ServersInv, SurvivesInv
<1>5. ServerSurvives(s)'
  <2>1. deployment' = deployment /\ args' = args /\ derived' = derived
    BY <1>2
  <2>2. CASE stage' = [stage EXCEPT ![s] = "refused"] /\ UNCHANGED config
    <3>1. stage'[s] = "refused" /\ config' = config
      BY <1>1, <2>2 DEF ServersInv
    <3>2. ArgsSurvive(s)'
      BY <1>1, <2>1, <3>1, ArgsKept
    <3>3. QED
      BY <1>1, <2>1, <3>1, <3>2 DEF ServerSurvives, Launched, IsGpu
  <2>3. CASE /\ config' = [config EXCEPT ![s] = device.c]
             /\ stage' = [stage EXCEPT ![s] = "ready"]
    <3>1. config'[s] = device.c /\ stage'[s] = "ready"
      BY <1>1, <2>3 DEF ServersInv
    <3>2. IF IsGpu(s) THEN device.c.backend = deployment[s].backend
          ELSE derived[s] = DerivedOf(device.c)
      BY <1>1, <1>3 DEF ServerSurvives, IsGpu, IsNpu
    <3>3. IsGpu(s)' = IsGpu(s)
      BY <2>1 DEF IsGpu
    <3>4. ArgsSurvive(s)'
      BY <1>1, <2>1, <3>1, ArgsKept
    <3> HIDE DEF c
    <3>5. QED
      BY <1>1, <1>3, <2>1, <3>1, <3>2, <3>3, <3>4 DEF ServerSurvives, c
  <2>4. QED
    BY <1>2, <2>2, <2>3
<1>6. QED
  BY <1>2, <1>4, <1>5, OtherSurvives DEF SurvivesInv

(* Every step of a deployment carries on what was asked for. *)
LEMMA NextSurvives ==
  DeploymentInv /\ SurvivesInv /\ [DeploymentNext]_deploymentVars => SurvivesInv'
<1> SUFFICES ASSUME DeploymentInv, SurvivesInv, [DeploymentNext]_deploymentVars
             PROVE  SurvivesInv'
  OBVIOUS
<1>1. CASE LaunchStep
  <2>1. PICK s \in Roles :
         \/ BorrowBackend(s) \/ BuildRaises(s) \/ CreateEngineConfig(s)
         \/ StartChild(s) \/ Revalidate(s) \/ InitDevice(s)
    BY <1>1 DEF LaunchStep
  <2>2. CASE StartChild(s)
    <3>1. /\ stage[s] = "parent" /\ UNCHANGED <<deployment, config, args, locals, derived>>
          /\ \E x \in {"refused", "child"} : stage' = [stage EXCEPT ![s] = x]
      BY <2>2 DEF StartChild, Refuse
    <3>2. /\ stage'[s] \in {"refused", "child"}
          /\ \A r \in Roles \ {s} : stage'[r] = stage[r]
      BY <3>1 DEF DeploymentInv, ServersInv
    <3>3. ServerSurvives(s)'
      <4>1. ServerSurvives(s)
        BY DEF SurvivesInv
      <4>2. ArgsSurvive(s)'
        BY <3>1, <3>2, <4>1, ArgsKept
      <4>3. QED
        BY <3>1, <3>2, <4>1, <4>2 DEF ServerSurvives, Launched, IsGpu
    <3>4. QED
      BY <3>1, <3>2, <3>3, OtherSurvives DEF SurvivesInv
  <2>3. QED
    BY <2>1, <2>2, CallSurvives, CreateSurvives, RevalidateSurvives, DeviceSurvives
<1>2. ASSUME UNCHANGED <<deployment, config, args, locals, stage, derived>> PROVE SurvivesInv'
  BY <1>2 DEF SurvivesInv, ServerSurvives, ArgsSurvive, Launched, IsGpu, IsNpu
<1>3. CASE FormWorld \/ AgreeCounts \/ Serve \/ Request \/ Disturb \/ UNCHANGED deploymentVars
  BY <1>2, <1>3
  DEF FormWorld, JoinWorld, AgreeCounts, Serve, Request, Disturb, deploymentVars, launchVars
<1>4. QED
  BY <1>1, <1>3 DEF DeploymentNext

(* Of every deployment with AFD workers in which Ascend's backend is not put
   back, each server gets what the operator asked for: its backend and its
   microbatches, and on Ascend the sequence parallelism that belongs to them
   (config_validation.py:77-87, ascend_platform.py:113). *)
THEOREM SettingsSurvive ==
  ASSUME \A d \in Deployments, s \in Roles : Settles(d[s])
  PROVE  DeploymentSpec => []ConfigSurvives
<1>1. DeploymentInit => SurvivesInv
  BY InitSurvives
<1>2. DeploymentInv /\ SurvivesInv /\ [DeploymentNext]_deploymentVars => SurvivesInv'
  BY NextSurvives
<1>3. SurvivesInv => ConfigSurvives
  BY DEF SurvivesInv, ServerSurvives, ArgsSurvive, ConfigSurvives, DerivedOf
<1>4. QED
  BY <1>1, <1>2, <1>3, SpecDeployment, PTL DEF DeploymentSpec
=============================================================================
