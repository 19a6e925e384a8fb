--------------------------- MODULE P2PStepProofs ---------------------------
(***************************************************************************)
(* Proofs about the steps of the synchronous P2P connector, for every      *)
(* number of ranks, layers and steps, every token count, with and without  *)
(* graphs: both sides of a subgroup are at the same transfer of the same   *)
(* step, an Attention rank gets back what was computed from its own rows,  *)
(* and captured buffers stay.                                              *)
(*                                                                         *)
(* The transfers of a step are numbered in the order in which they are     *)
(* made.  The invariant says, for every pair of ranks, which numbers are   *)
(* on its two wires: those sent and not yet received, in this order.  The  *)
(* rest of it says what a rank knows of the step it is in: its plan, the   *)
(* control payload it took, its rows, the payloads it received and has     *)
(* not answered, and the key of the graph that it replays.                 *)
(***************************************************************************)
EXTENDS P2PStep, TLAPS, FiniteSetTheorems, SequenceTheorems

(***************************************************************************)
(* The rank mapping, as in DeploymentProofs.                               *)
(***************************************************************************)
(* What integer division by a positive number returns. *)
LEMMA DivBounds ==
    ASSUME NEW x \in Nat, NEW d \in Nat \ {0}
    PROVE  /\ x \div d \in Nat
           /\ d * (x \div d) <= x
           /\ x < d * (x \div d) + d
  BY Z3

(* ... and that nothing else has these bounds. *)
LEMMA DivUnique ==
    ASSUME NEW x \in Nat, NEW d \in Nat \ {0}, NEW q \in Nat,
           d * q <= x, x < d * q + d
    PROVE  x \div d = q
  BY Z3

(* A block starts at the first Attention rank a with a F >= i A. *)
LEMMA BlockStartBounds ==
    ASSUME NEW AA \in Nat \ {0}, NEW FF \in Nat \ {0}, NEW i \in Nat
    PROVE  /\ BlockStart(i, AA, FF) \in Nat
           /\ \A a \in Nat : BlockStart(i, AA, FF) <= a <=> i * AA <= a * FF
  <1> DEFINE s == BlockStart(i, AA, FF)
  <1>1. i * AA \in Nat /\ i * AA + FF - 1 \in Nat
    <2>1. i * AA \in Nat
      BY Z3
    <2> QED BY <2>1
  <1>2. /\ s \in Nat
        /\ FF * s <= i * AA + FF - 1
        /\ i * AA + FF - 1 < FF * s + FF
    BY <1>1, DivBounds DEF BlockStart
  <1>3. ASSUME NEW a \in Nat PROVE s <= a <=> i * AA <= a * FF
    <2> HIDE DEF s
    <2>1. FF * s \in Nat /\ a * FF \in Nat
      BY <1>2, Z3
    <2>2. ASSUME s <= a PROVE i * AA <= a * FF
      <3>1. FF * s <= a * FF
        BY <1>2, <2>2, Z3
      <3> QED BY <1>1, <1>2, <2>1, <3>1
    <2>3. ASSUME a < s PROVE a * FF < i * AA
      <3>1. FF * s >= a * FF + FF
        BY <1>2, <2>3, Z3
      <3> QED BY <1>1, <1>2, <2>1, <3>1
    <2> QED BY <1>1, <1>2, <2>1, <2>2, <2>3
  <1> QED BY <1>2, <1>3

(* The bounds of a block's start as products. *)
LEMMA BlockStartProducts ==
    ASSUME NEW AA \in Nat \ {0}, NEW FF \in Nat \ {0}, NEW i \in Nat
    PROVE  /\ BlockStart(i, AA, FF) \in Nat
           /\ i * AA \in Nat
           /\ FF * BlockStart(i, AA, FF) <= i * AA + FF - 1
           /\ i * AA <= FF * BlockStart(i, AA, FF)
  <1>1. i * AA \in Nat
    BY Z3
  <1>2. i * AA + FF - 1 \in Nat
    BY <1>1
  <1>3. /\ BlockStart(i, AA, FF) \in Nat
        /\ FF * BlockStart(i, AA, FF) <= i * AA + FF - 1
        /\ i * AA + FF - 1 < FF * BlockStart(i, AA, FF) + FF
    BY <1>2, DivBounds DEF BlockStart
  <1>4. FF * BlockStart(i, AA, FF) \in Nat
    BY <1>3, Z3
  <1> QED BY <1>1, <1>3, <1>4

(* topology.py: the block lookup and the subgroup index are inverse to one
   another, for every deployment. *)
LEMMA BlockInverse ==
    ASSUME NEW AA \in Nat \ {0}, NEW FF \in Nat \ {0},
           NEW a \in Nat, NEW i \in Nat
    PROVE  a \in SubgroupBlock(i, AA, FF)
             <=> i = SubgroupIndex("attention", a, AA, FF)
  <1>1. a * FF \in Nat /\ i * AA \in Nat
    BY Z3
  <1>2. (i + 1) * AA = AA * i + AA /\ i * AA = AA * i
    BY Z3
  <1>3. /\ BlockStart(i, AA, FF) \in Nat
        /\ BlockStart(i, AA, FF) <= a <=> i * AA <= a * FF
    BY BlockStartBounds
  <1>4. /\ BlockStart(i + 1, AA, FF) \in Nat
        /\ BlockStart(i + 1, AA, FF) <= a <=> (i + 1) * AA <= a * FF
    BY BlockStartBounds
  <1>5. a \in SubgroupBlock(i, AA, FF)
          <=> AA * i <= a * FF /\ a * FF < AA * i + AA
    <2>1. a \in SubgroupBlock(i, AA, FF)
            <=> BlockStart(i, AA, FF) <= a /\ ~(BlockStart(i + 1, AA, FF) <= a)
      BY <1>3, <1>4 DEF SubgroupBlock
    <2> QED BY <1>1, <1>2, <1>3, <1>4, <2>1
  <1>6. SubgroupIndex("attention", a, AA, FF) = (a * FF) \div AA
    BY DEF SubgroupIndex
  <1>7. ASSUME i = (a * FF) \div AA
        PROVE  AA * i <= a * FF /\ a * FF < AA * i + AA
    BY <1>1, <1>7, DivBounds
  <1>8. ASSUME AA * i <= a * FF, a * FF < AA * i + AA
        PROVE  i = (a * FF) \div AA
    BY <1>1, <1>8, DivUnique
  <1> QED BY <1>5, <1>6, <1>7, <1>8

(* topology.py: the blocks differ in size by at most one and are all of the
   same size when F divides A. *)
LEMMA BlockSizes ==
    ASSUME NEW AA \in Nat \ {0}, NEW FF \in Nat \ {0}, NEW i \in Nat
    PROVE  LET size == BlockStart(i + 1, AA, FF) - BlockStart(i, AA, FF)
           IN  size = AA \div FF \/ (size = AA \div FF + 1 /\ AA % FF /= 0)
  <1> DEFINE s == BlockStart(i, AA, FF)
             t == BlockStart(i + 1, AA, FF)
             q == AA \div FF
  <1>1. s \in Nat /\ i * AA \in Nat /\ FF * s <= i * AA + FF - 1 /\ i * AA <= FF * s
    BY BlockStartProducts
  <1>2. /\ t \in Nat /\ (i + 1) * AA \in Nat
        /\ FF * t <= (i + 1) * AA + FF - 1 /\ (i + 1) * AA <= FF * t
    BY BlockStartProducts
  <1>3. q \in Nat /\ FF * q <= AA /\ AA < FF * q + FF
    BY DivBounds
  <1>4. (i + 1) * AA = i * AA + AA
    BY Z3
  <1>5. AA % FF = 0 => AA = FF * q
    BY Z3
  <1> HIDE DEF s, t, q
  <1>6. FF * s \in Nat /\ FF * t \in Nat /\ FF * q \in Nat
    BY <1>1, <1>2, <1>3, Z3
  <1>7. FF * (s + q) = FF * s + FF * q
    BY <1>1, <1>3, Z3
  <1>8. t <= s + q + 1
    <2>1. ASSUME t >= s + q + 2 PROVE FALSE
      <3>1. FF * t >= FF * (s + q) + FF + FF
        BY <1>1, <1>2, <1>3, <2>1, Z3
      <3> QED BY <1>1, <1>2, <1>3, <1>4, <1>6, <1>7, <3>1
    <2> QED BY <2>1, <1>1, <1>2, <1>3
  <1>9. t >= s + q
    <2>1. ASSUME t + 1 <= s + q PROVE FALSE
      <3>1. FF * t + FF <= FF * (s + q)
        BY <1>1, <1>2, <1>3, <2>1, Z3
      <3> QED BY <1>1, <1>2, <1>3, <1>4, <1>6, <1>7, <3>1
    <2> QED BY <2>1, <1>1, <1>2, <1>3
  <1>10. AA % FF = 0 => t <= s + q
    <2>1. ASSUME AA = FF * q, t >= s + q + 1 PROVE FALSE
      <3>1. FF * t >= FF * (s + q) + FF
        BY <1>1, <1>2, <1>3, <2>1, Z3
      <3> QED BY <1>1, <1>2, <1>3, <1>4, <1>6, <1>7, <2>1, <3>1
    <2> QED BY <2>1, <1>1, <1>2, <1>3, <1>5
  <1>11. t - s = q \/ (t - s = q + 1 /\ AA % FF /= 0)
    BY <1>1, <1>2, <1>3, <1>8, <1>9, <1>10
  <1> QED BY <1>11 DEF s, t, q

(* The remainder of a number smaller than the divisor. *)
LEMMA ModSmall ==
    ASSUME NEW x \in Nat, NEW d \in Nat \ {0}, x < d
    PROVE  x % d = x
  BY Z3

(* topology.py, with A >= F: Attention rank b sends the control payloads to
   FFN rank b if there is one, and to no other. *)
LEMMA DestinationsOwn ==
    ASSUME NEW AA \in Nat \ {0}, NEW FF \in Nat \ {0}, FF <= AA, NEW b \in Nat
    PROVE  MetadataDestinations("attention", b, AA, FF) = IF b < FF THEN {b} ELSE {}
  <1>1. MinSize(AA, FF) = FF
    BY DEF MinSize, Min2
  <1>2. WorldRank("attention", b, FF) = FF + b
    BY DEF WorldRank
  <1>3. IsMetadataSender(FF + b, AA, FF) <=> b < FF
    BY <1>1 DEF IsMetadataSender
  <1>4. CASE b < FF
    <2>1. \A d \in 0 .. FF - 1 : d >= b /\ (d - b) % FF = 0 <=> d = b
      <3> SUFFICES ASSUME NEW d \in 0 .. FF - 1
                   PROVE  d >= b /\ (d - b) % FF = 0 <=> d = b
        OBVIOUS
      <3>1. d >= b => (d - b) \in Nat /\ d - b < FF
        BY <1>4
      <3>2. d >= b => (d - b) % FF = d - b
        BY <3>1, ModSmall
      <3> QED BY <3>1, <3>2
    <2>2. MetadataDestinations("attention", b, AA, FF)
            = {d \in 0 .. FF - 1 : d >= b /\ (d - b) % FF = 0}
      BY <1>1, <1>2, <1>3, <1>4 DEF MetadataDestinations
    <2>3. b \in 0 .. FF - 1
      BY <1>4
    <2> QED BY <2>1, <2>2, <2>3, <1>4
  <1>5. CASE ~(b < FF)
    BY <1>2, <1>3, <1>5 DEF MetadataDestinations
  <1> QED BY <1>4, <1>5

(* The FFN rank of an Attention rank, and its place among the peers. *)
Src(a) == a - BlockStart(Owner(a), A, F) + 1

(* The peers of an FFN rank are numbered from 1, in the order of the block. *)
LEMMA SrcsOf ==
    ASSUME NEW j \in Ffn
    PROVE  LET s == BlockStart(j, A, F)
               n == Cardinality(SubgroupBlock(j, A, F))
           IN  /\ s \in Nat /\ n \in Nat /\ BlockStart(j + 1, A, F) \in Nat
               /\ n = BlockStart(j + 1, A, F) - s
               /\ s + n <= A
               /\ Srcs(j) = 1 .. n
               /\ \A k \in 1 .. n : Peer(j, k) = s + k - 1
  <1> DEFINE s == BlockStart(j, A, F)
             t == BlockStart(j + 1, A, F)
             n == Cardinality(SubgroupBlock(j, A, F))
  <1>1. j \in Nat /\ j < F /\ A \in Nat \ {0} /\ F \in Nat \ {0}
    BY SizesAssumption DEF Ffn
  <1>2. s \in Nat /\ t \in Nat
    BY <1>1, BlockStartBounds
  <1>3. s <= t
    <2>1. A \div F \in Nat
      BY <1>1, DivBounds
    <2>2. t - s = A \div F \/ (t - s = A \div F + 1 /\ A % F /= 0)
      BY <1>1, BlockSizes, Zenon
    <2> HIDE DEF s, t
    <2> QED BY <1>2, <2>1, <2>2
  <1>4. t <= A
    <2>1. t <= A <=> (j + 1) * A <= A * F
      <3>1. j + 1 \in Nat /\ A \in Nat
        BY <1>1
      <3> QED BY <1>1, <3>1, BlockStartBounds
    <2>2. (j + 1) * A <= A * F
      BY <1>1, Z3
    <2> QED BY <2>1, <2>2
  <1> HIDE DEF s, t
  <1>5. n = t - s
    <2>1. Cardinality(s .. t - 1) = IF s > t - 1 THEN 0 ELSE (t - 1) - s + 1
      BY <1>2, FS_Interval
    <2>2. SubgroupBlock(j, A, F) = s .. t - 1
      BY DEF SubgroupBlock, s, t
    <2> QED BY <1>2, <1>3, <2>1, <2>2
  <1> HIDE DEF n
  <1>6. SubgroupRanks(j, A, F) = [k \in 0 .. n |-> IF k = 0 THEN j ELSE F + s + k - 1]
    BY DEF SubgroupRanks, s, n
  <1>7. Srcs(j) = 1 .. n
    BY <1>2, <1>3, <1>5, <1>6 DEF Srcs
  <1>8. ASSUME NEW k \in 1 .. n PROVE Peer(j, k) = s + k - 1
    BY <1>1, <1>2, <1>3, <1>5, <1>6 DEF Peer
  <1> QED BY <1>2, <1>3, <1>4, <1>5, <1>7, <1>8 DEF s, t, n

(* p2p.py and topology.py: an Attention rank is one of the peers of the FFN
   rank of its subgroup ... *)
LEMMA OwnerOf ==
    ASSUME NEW a \in Att
    PROVE  Owner(a) \in Ffn /\ Src(a) \in Srcs(Owner(a)) /\ Peer(Owner(a), Src(a)) = a
  <1> DEFINE j == Owner(a)
  <1>1. a \in Nat /\ a < A /\ A \in Nat \ {0} /\ F \in Nat \ {0}
    BY SizesAssumption DEF Att
  <1>2. j \in Nat /\ j < F
    <2>1. j = (a * F) \div A
      BY DEF Owner, SubgroupIndex
    <2>2. a * F \in Nat /\ a * F < A * F
      BY <1>1, Z3
    <2>3. (a * F) \div A \in Nat /\ (a * F) \div A < F
      BY <1>1, <2>2, Z3
    <2> QED BY <2>1, <2>3
  <1>3. j \in Ffn
    BY <1>1, <1>2 DEF Ffn
  <1>4. a \in SubgroupBlock(j, A, F)
    BY <1>1, <1>2, BlockInverse DEF Owner
  <1> HIDE DEF j
  <1>5. a >= BlockStart(j, A, F) /\ a <= BlockStart(j + 1, A, F) - 1
    BY <1>1, <1>4, <1>3, SrcsOf DEF SubgroupBlock
  <1>6. Src(a) \in 1 .. Cardinality(SubgroupBlock(j, A, F))
    <2>1. Src(a) = a - BlockStart(j, A, F) + 1
      BY DEF Src, j
    <2>2. /\ BlockStart(j, A, F) \in Nat /\ BlockStart(j + 1, A, F) \in Nat
          /\ Cardinality(SubgroupBlock(j, A, F))
               = BlockStart(j + 1, A, F) - BlockStart(j, A, F)
      BY <1>3, SrcsOf
    <2> QED BY <1>1, <1>5, <2>1, <2>2
  <1>7. Peer(j, Src(a)) = BlockStart(j, A, F) + Src(a) - 1
    BY <1>3, <1>6, SrcsOf
  <1>8. Peer(j, Src(a)) = a
    BY <1>1, <1>3, <1>7, SrcsOf DEF Src, j
  <1> QED BY <1>3, <1>6, <1>8, SrcsOf DEF j

(* ... and of no other. *)
LEMMA PeerOwner ==
    ASSUME NEW j \in Ffn, NEW k \in Srcs(j)
    PROVE  Peer(j, k) \in Att /\ Owner(Peer(j, k)) = j /\ Src(Peer(j, k)) = k
  <1> DEFINE a == Peer(j, k)
             s == BlockStart(j, A, F)
             n == Cardinality(SubgroupBlock(j, A, F))
  <1>1. j \in Nat /\ A \in Nat \ {0} /\ F \in Nat \ {0}
    BY SizesAssumption DEF Ffn
  <1>2. s \in Nat /\ n \in Nat /\ k \in 1 .. n /\ a = s + k - 1 /\ s + n <= A
        /\ BlockStart(j + 1, A, F) = s + n
    BY SrcsOf
  <1> HIDE DEF a, s, n
  <1>3. a \in Nat /\ a \in Att
    BY <1>1, <1>2 DEF Att
  <1>4. a \in SubgroupBlock(j, A, F)
    BY <1>1, <1>2 DEF SubgroupBlock, s
  <1>5. Owner(a) = j
    BY <1>1, <1>3, <1>4, BlockInverse DEF Owner
  <1>6. Src(a) = k
    BY <1>2, <1>5 DEF Src, s
  <1> QED BY <1>3, <1>5, <1>6 DEF a

(* A sequence, of any elements. *)
IsSequence(s) == \E n \in Nat : s = [i \in 1 .. n |-> s[i]]

(***************************************************************************)
(* Transfers of a step in the order in which they are made: slots are the  *)
(* pairs of a layer and a stage, stages within layers, and messages the    *)
(* tensors of the slots.                                                   *)
(***************************************************************************)
Parts == Len(WireParts)
StageCount(n) == plans[n].stages

Slot(S, l, s) == IF S = 1 THEN l - 1 ELSE 2 * (l - 1) + s
Slots(S) == IF S = 1 THEN L ELSE 2 * L
(* messages of the slots before x and of p tensors of slot x *)
MsgNo(x, p) == IF SendsIds THEN 2 * x + p ELSE x + p

(* steps of which Attention captures a graph, and in which nothing moves *)
IsCap(n) == \E i \in 1 .. Len(CaptureDescs) : n = 2 * i
Caps(m, n) == \A i \in m + 1 .. n : IsCap(i)

----------------------------------------------------------------------------
(***************************************************************************)
(* The plans.                                                              *)
(***************************************************************************)
Counts == [0 .. DP - 1 -> Nat \ {0}]

PlanOK(p) ==
    /\ p.stages \in {1, 2}
    /\ p.rows \in [0 .. p.stages - 1 -> Counts]
    /\ p.stages = 2 => \A s \in {0, 1} : \A d, e \in 0 .. DP - 1 : p.rows[s][d] = p.rows[s][e]

PlansInv ==
    /\ IsSequence(plans)
    /\ Len(plans) >= 2 * Len(CaptureDescs)
    /\ \A n \in 1 .. Len(plans) :
         /\ PlanOK(plans[n])
         /\ plans[n].kind = "capture" <=> IsCap(n)
         /\ n <= 2 * Len(CaptureDescs) => plans[n] = CaptureEvents[n] /\ plans[n].kind /= "replay"
         /\ plans[n].kind = "replay" =>
              \E i \in 1 .. Len(CaptureDescs) : plans[n].rows = CaptureEvents[2 * i].rows

----------------------------------------------------------------------------
(***************************************************************************)
(* An Attention rank in a step of S stages.                                *)
(***************************************************************************)
Place == [layer : 1 .. L, at : {"send", "recv", "done"}, part : 1 .. Parts]

(* where the microbatch threads are that take turns: t has the turn *)
HandedOver(t, turn, o) ==
    IF t.at = "send"
    THEN IF turn = 0
         THEN IF t.layer = 1 THEN o = [layer |-> 1, at |-> "send", part |-> 1]
              ELSE o.at = "recv" /\ o.layer = t.layer - 1
         ELSE o.at = "recv" /\ o.layer = t.layer
    ELSE IF turn = 0 THEN o.at = "recv" /\ o.layer = t.layer
         ELSE IF t.layer < L THEN o.at = "recv" /\ o.layer = t.layer + 1
              ELSE o.at = "done"

ThreadsOK(r, S) ==
    /\ r.turn \in 0 .. S - 1
    /\ r.th \in [0 .. S - 1 -> Place]
    /\ r.th[r.turn].at \in {"send", "recv"}
    /\ S = 2 => HandedOver(r.th[r.turn], r.turn, r.th[1 - r.turn])

SlotAt(r, S) == Slot(S, r.th[r.turn].layer, r.turn)
(* messages sent and outputs received so far *)
SentBy(r, S) ==
    IF r.th[r.turn].at = "send" THEN MsgNo(SlotAt(r, S), r.th[r.turn].part - 1)
    ELSE MsgNo(Min2(SlotAt(r, S) + S, Slots(S)), 0)
RcvdBy(r, S) ==
    IF r.th[r.turn].at = "send" THEN Max2(0, SlotAt(r, S) - S + 1) ELSE SlotAt(r, S)

AttOK(a) ==
    /\ att[a].step \in 0 .. Len(plans)
    /\ att[a].pc \in {"idle", "run"}
    /\ att[a].pc = "idle" => att[a] = Idle(att[a].step)
    /\ att[a].pc = "run" =>
         /\ att[a].step > 0 /\ ~IsCap(att[a].step)
         /\ att[a] = [pc |-> "run", step |-> att[a].step, turn |-> att[a].turn,
                      th |-> att[a].th]
         /\ ThreadsOK(att[a], StageCount(att[a].step))
AttInv == DOMAIN att = Att /\ \A a \in Att : AttOK(a)

----------------------------------------------------------------------------
(***************************************************************************)
(* An FFN rank.                                                            *)
(***************************************************************************)
(* Attention rank j sends the payloads of FFN rank j. *)
Taken(j) == att[j].step - Len(ctl[j])

CtlOK(j) ==
    /\ IsSequence(ctl[j]) /\ Len(ctl[j]) <= att[j].step
    /\ \A i \in 1 .. Len(ctl[j]) :
         ctl[j][i] = Payload(plans[Taken(j) + i], j, Taken(j) + i)
CtlInv == DOMAIN ctl = Ffn /\ \A j \in Ffn : CtlOK(j)

Message(a, n, l, s, p) ==
    [step |-> n, layer |-> l, stage |-> s, part |-> WireParts[p],
     rows |-> OwnRows(plans[n], s, a)]

FfnOK(j) ==
    /\ ffn[j].pc \in {"wait", "closed", "recv", "compute", "send"}
    /\ Active(j) =>
         LET f == ffn[j]  n == Taken(j) IN
         /\ n > 0 /\ ~IsCap(n)
         /\ f = [pc |-> f.pc, pay |-> Payload(plans[n], j, n), mode |-> f.mode,
                 rows |-> PeerRows(plans[n].rows, j), layer |-> f.layer,
                 stage |-> f.stage, got |-> f.got]
         /\ f.mode = "replay" <=> plans[n].kind = "replay"
         /\ f.layer \in 1 .. L /\ f.stage \in 0 .. StageCount(n) - 1
         /\ DOMAIN f.got = Srcs(j)
         /\ \A k \in Srcs(j) :
              /\ IsSequence(f.got[k]) /\ Len(f.got[k]) <= Parts
              /\ f.pc /= "recv" => Len(f.got[k]) = Parts
              /\ \A i \in 1 .. Len(f.got[k]) :
                   f.got[k][i] = Message(Peer(j, k), n, f.layer, f.stage, i)
FfnInv == DOMAIN ffn = Ffn /\ \A j \in Ffn : FfnOK(j)

GraphOK(j) ==
    /\ \A g \in DOMAIN graphs[j] : graphs[j][g] = PeerRows(g, j)
    /\ \A i \in 1 .. Len(CaptureDescs) :
         2 * i <= Taken(j) => CaptureEvents[2 * i].rows \in DOMAIN graphs[j]
GraphInv == DOMAIN graphs = Ffn /\ \A j \in Ffn : GraphOK(j)

----------------------------------------------------------------------------
(***************************************************************************)
(* An Attention rank a and its FFN rank.                                   *)
(***************************************************************************)
(* outputs that FFN rank j has sent for step n, messages it has taken from k *)
Outputs(j, n) ==
    IF Active(j) /\ Taken(j) = n THEN Slot(StageCount(n), ffn[j].layer, ffn[j].stage)
    ELSE IF Taken(j) < n THEN 0 ELSE Slots(StageCount(n))
Received(j, k, n) ==
    MsgNo(Outputs(j, n), IF Active(j) /\ Taken(j) = n THEN Len(ffn[j].got[k]) ELSE 0)

(* how far apart they may be *)
PlaceInv(a) ==
    LET j == Owner(a)  n == att[a].step  t == Taken(Owner(a)) IN
    IF Active(j)
    THEN \/ att[a].pc = "run" /\ n = t
         \/ /\ n < t /\ Caps(n, t - 1)
            /\ ffn[j].layer = 1 /\ ffn[j].stage = 0 /\ ffn[j].got[Src(a)] = <<>>
    ELSE IF att[a].pc = "run"
         THEN IF n <= t THEN Caps(n, t) ELSE Caps(t, n - 1)
         ELSE Caps(n, t) /\ Caps(t, n)

(* messages on the wire w to the FFN rank, after the first rc of the step *)
UpWire(w, rc, a, n) ==
    \A i \in 1 .. Len(w) :
        \E l \in 1 .. L, s \in 0 .. StageCount(n) - 1, p \in 1 .. Parts :
            MsgNo(Slot(StageCount(n), l, s), p) = rc + i /\ w[i] = Message(a, n, l, s, p)
UpInv(a) ==
    LET j == Owner(a)  n == att[a].step IN
    /\ IsSequence(a2e[a])
    /\ IF att[a].pc = "run"
       THEN /\ SentBy(att[a], StageCount(n)) = Received(j, Src(a), n) + Len(a2e[a])
            /\ UpWire(a2e[a], Received(j, Src(a), n), a, n)
       ELSE Len(a2e[a]) = 0

(* outputs on the wire w back, after the first rc of the step *)
Output(a, n, l, s) ==
    [step |-> n, layer |-> l, stage |-> s,
     rows |-> [r \in 1 .. OwnRows(plans[n], s, a) |-> a]]
DownWire(w, rc, a, n) ==
    \A i \in 1 .. Len(w) :
        \E l \in 1 .. L, s \in 0 .. StageCount(n) - 1 :
            Slot(StageCount(n), l, s) = rc + i - 1 /\ w[i] = Output(a, n, l, s)
DownInv(a) ==
    LET j == Owner(a)  n == att[a].step IN
    /\ IsSequence(e2a[a])
    /\ IF att[a].pc = "run"
       THEN /\ Outputs(j, n) = RcvdBy(att[a], StageCount(n)) + Len(e2a[a])
            /\ DownWire(e2a[a], RcvdBy(att[a], StageCount(n)), a, n)
       ELSE Len(e2a[a]) = 0

PairOK(a) == PlaceInv(a) /\ UpInv(a) /\ DownInv(a)
PairInv == DOMAIN a2e = Att /\ DOMAIN e2a = Att /\ \A a \in Att : PairOK(a)

IInv == PlansInv /\ AttInv /\ CtlInv /\ FfnInv /\ GraphInv /\ PairInv
----------------------------------------------------------------------------
(***************************************************************************)
(* Lemmas about plans, payloads and rows.                                  *)
(***************************************************************************)
(* Attention rank a belongs to DP rank a \div (A \div DP). *)
LEMMA DPRank ==
    ASSUME NEW a \in Att
    PROVE  A \div DP \in Nat \ {0} /\ a \div (A \div DP) \in 0 .. DP - 1
  <1> DEFINE q == A \div DP
  <1>1. a \in Nat /\ a < A /\ A \in Nat \ {0} /\ DP \in Nat \ {0} /\ A % DP = 0
    BY SizesAssumption DEF Att
  <1>2. q \in Nat /\ A = DP * q
    BY <1>1, Z3
  <1> HIDE DEF q
  <1>3. q > 0
    BY <1>1, <1>2, Z3
  <1>4. a \div q \in Nat /\ a \div q < DP
    BY <1>1, <1>2, <1>3, Z3
  <1> QED BY <1>1, <1>2, <1>3, <1>4 DEF q

(* The rows of a stage on an Attention rank. *)
LEMMA OwnRowsType ==
    ASSUME NEW p, PlanOK(p), NEW s \in 0 .. p.stages - 1, NEW a \in Att
    PROVE  OwnRows(p, s, a) \in Nat \ {0}
  <1>1. p.rows[s] \in Counts
    BY DEF PlanOK
  <1> QED BY <1>1, DPRank DEF OwnRows, Counts

(* p2p.py: an FFN rank makes room for the rows that its peer has. *)
LEMMA RowsAnnounced ==
    ASSUME NEW c \in Counts, NEW a \in Att
    PROVE  NumTokens(c, a, A, 1) = c[a \div (A \div DP)]
  <1> DEFINE q == A \div DP
  <1>1. a \in Nat /\ a < A /\ A \in Nat \ {0} /\ DP \in Nat \ {0} /\ DP <= A /\ A % DP = 0
    BY SizesAssumption DEF Att
  <1>2. q \in Nat \ {0} /\ a \div q \in 0 .. DP - 1
    BY DPRank
  <1>3. Len0(c) = DP
    <2>1. DOMAIN c = 0 .. DP - 1
      BY DEF Counts
    <2>2. Cardinality(0 .. DP - 1) = IF 0 > DP - 1 THEN 0 ELSE (DP - 1) - 0 + 1
      <3>1. 0 \in Int /\ DP - 1 \in Int
        BY <1>1
      <3> QED BY <3>1, FS_Interval
    <2> QED BY <1>1, <2>1, <2>2 DEF Len0
  <1>4. c[a \div q] \in Nat \ {0}
    BY <1>2 DEF Counts
  <1>5. a \in DOMAIN Expanded(c, A) /\ Expanded(c, A)[a] = c[a \div q]
    <2>1. CASE DP < A
      <3>1. Expanded(c, A) = [r \in 0 .. A - 1 |-> c[r \div q]]
        BY <1>1, <1>3, <2>1 DEF Expanded
      <3>2. a \in 0 .. A - 1
        BY <1>1
      <3> HIDE DEF q
      <3> QED BY <3>1, <3>2
    <2>2. CASE DP = A
      <3>1. Expanded(c, A) = c
        BY <1>1, <1>3, <2>2 DEF Expanded
      <3>2. q = 1
        BY <1>1, <2>2, Z3
      <3> HIDE DEF q
      <3>3. a \div q = a
        BY <1>1, <3>2, Z3
      <3>4. a \in DOMAIN c
        BY <1>1, <2>2 DEF Counts
      <3> QED BY <3>1, <3>3, <3>4
    <2> QED BY <1>1, <2>1, <2>2
  <1> HIDE DEF q
  <1>6. NumTokens(c, a, A, 1) = Max2(1, c[a \div q])
    BY <1>1, <1>3, <1>5 DEF NumTokens
  <1> QED BY <1>4, <1>6 DEF Max2, q

(* update_state_from_dp_metadata: the announced rows are those of the peers. *)
LEMMA PeerRowsOf ==
    ASSUME NEW p, PlanOK(p), NEW j \in Ffn
    PROVE  /\ DOMAIN PeerRows(p.rows, j) = (0 .. p.stages - 1) \X Srcs(j)
           /\ \A s \in 0 .. p.stages - 1, k \in Srcs(j) :
                PeerRows(p.rows, j)[<<s, k>>] = OwnRows(p, s, Peer(j, k))
  <1>1. DOMAIN p.rows = 0 .. p.stages - 1
    BY DEF PlanOK
  <1>2. PeerRows(p.rows, j) = [x \in (0 .. p.stages - 1) \X Srcs(j) |->
                                 NumTokens(p.rows[x[1]], Peer(j, x[2]), A, 1)]
    BY <1>1 DEF PeerRows
  <1>3. ASSUME NEW s \in 0 .. p.stages - 1, NEW k \in Srcs(j)
        PROVE  PeerRows(p.rows, j)[<<s, k>>] = OwnRows(p, s, Peer(j, k))
    <2>1. <<s, k>> \in (0 .. p.stages - 1) \X Srcs(j)
      OBVIOUS
    <2>2. PeerRows(p.rows, j)[<<s, k>>] = NumTokens(p.rows[s], Peer(j, k), A, 1)
      BY <1>2, <2>1
    <2>3. p.rows[s] \in Counts
      BY DEF PlanOK
    <2>4. Peer(j, k) \in Att
      BY PeerOwner
    <2> QED BY <2>2, <2>3, <2>4, RowsAnnounced DEF OwnRows
  <1> QED BY <1>2, <1>3

(* send_dp_metadata announces the agreed counts, whoever sends them. *)
LEMMA PayloadOf ==
    ASSUME NEW p, PlanOK(p), NEW a \in Att, NEW n
    PROVE  /\ Payload(p, a, n).counts = p.rows
           /\ Payload(p, a, n).kind = p.kind /\ Payload(p, a, n).step = n
  <1>1. Payload(p, a, n).counts
          = [s \in 0 .. p.stages - 1 |->
               IF p.stages > 1 THEN Uniform(OwnRows(p, s, a)) ELSE p.rows[s]]
    BY DEF Payload
  <1>2. p.rows = [s \in 0 .. p.stages - 1 |-> p.rows[s]]
    BY DEF PlanOK
  <1>3. ASSUME p.stages = 2, NEW s \in 0 .. p.stages - 1
        PROVE  Uniform(OwnRows(p, s, a)) = p.rows[s]
    <2>1. p.rows[s] \in Counts
      BY DEF PlanOK
    <2>2. \A d \in 0 .. DP - 1 : p.rows[s][d] = OwnRows(p, s, a)
      <3>1. s \in {0, 1}
        BY <1>3
      <3> QED BY <1>3, <3>1, DPRank DEF PlanOK, OwnRows
    <2>3. p.rows[s] = [d \in 0 .. DP - 1 |-> p.rows[s][d]]
      BY <2>1 DEF Counts
    <2> QED BY <2>2, <2>3 DEF Uniform
  <1>4. p.stages = 1 \/ p.stages = 2
    BY DEF PlanOK
  <1>5. Payload(p, a, n).counts = p.rows
    <2>1. CASE p.stages = 1
      BY <1>1, <1>2, <2>1
    <2>2. CASE p.stages = 2
      <3>1. Payload(p, a, n).counts = [s \in 0 .. p.stages - 1 |-> Uniform(OwnRows(p, s, a))]
        BY <1>1, <2>2
      <3> QED BY <1>2, <1>3, <2>2, <3>1
    <2> QED BY <1>4, <2>1, <2>2
  <1>6. Payload(p, a, n).kind = p.kind /\ Payload(p, a, n).step = n
    BY DEF Payload
  <1> QED BY <1>5, <1>6

(* Padded plans have rows for every microbatch, the same on every DP rank. *)
LEMMA PaddedOK ==
    ASSUME NEW kind, NEW S \in {1, 2}, NEW n \in Nat, n >= S
    PROVE  /\ PlanOK(PaddedPlan(kind, n, S))
           /\ PaddedPlan(kind, n, S).kind = kind
           /\ PaddedPlan(kind, n, S).rows = [s \in 0 .. S - 1 |-> Uniform(Slices(n, S)[s])]
  <1> DEFINE p == PaddedPlan(kind, n, S)
  <1>1. p.stages = S /\ p.kind = kind /\ p.rows = [s \in 0 .. S - 1 |-> Uniform(Slices(n, S)[s])]
    BY DEF PaddedPlan, Plan
  <1>2. \A s \in 0 .. S - 1 : Slices(n, S)[s] \in Nat \ {0}
    <2> SUFFICES ASSUME NEW s \in 0 .. S - 1 PROVE Slices(n, S)[s] \in Nat \ {0}
      OBVIOUS
    <2>1. CASE S = 1
      BY <2>1 DEF Slices
    <2>2. CASE S = 2
      <3>1. n \div 2 \in Nat /\ n \div 2 > 0 /\ n - n \div 2 > 0
        BY <2>2
      <3>2. Slices(n, S)[s] = IF s = 0 THEN n \div 2 ELSE n - n \div 2
        BY <2>2 DEF Slices
      <3> QED BY <3>1, <3>2
    <2> QED BY <2>1, <2>2
  <1> HIDE DEF p
  <1>3. \A s \in 0 .. S - 1 : p.rows[s] = Uniform(Slices(n, S)[s]) /\ p.rows[s] \in Counts
    BY <1>1, <1>2 DEF Uniform, Counts
  <1>4. p.rows \in [0 .. S - 1 -> Counts]
    BY <1>1, <1>3
  <1>5. S = 2 => \A s \in {0, 1} : \A d, e \in 0 .. DP - 1 : p.rows[s][d] = p.rows[s][e]
    <2> SUFFICES ASSUME S = 2, NEW s \in {0, 1}, NEW d \in 0 .. DP - 1, NEW e \in 0 .. DP - 1
                 PROVE  p.rows[s][d] = p.rows[s][e]
      OBVIOUS
    <2>1. p.rows[s] = Uniform(Slices(n, S)[s])
      BY <1>3
    <2> QED BY <2>1 DEF Uniform
  <1> QED BY <1>1, <1>4, <1>5 DEF PlanOK, p

(* _AFDCaptureEventTracker: even events capture, odd ones warm up. *)
LEMMA EventOf ==
    ASSUME NEW n \in 1 .. 2 * Len(CaptureDescs)
    PROVE  /\ PlanOK(CaptureEvents[n])
           /\ CaptureEvents[n].kind \in {"warmup", "capture"}
           /\ CaptureEvents[n].kind = "capture" <=> IsCap(n)
  <1> DEFINE N == Len(CaptureDescs)
             i == (n + 1) \div 2
             d == CaptureDescs[i]
  <1>1. N \in Nat /\ i \in 1 .. N /\ DOMAIN CaptureDescs = 1 .. N
    <2>1. N \in Nat /\ DOMAIN CaptureDescs = 1 .. N
      BY CountsAssumption
    <2> HIDE DEF N
    <2> QED BY <2>1
  <1>2. d.size \in Nat /\ d.stages \in {1, 2} /\ d.size >= d.stages
    <2>1. d \in [size : Nat, stages : {1, 2}]
      BY <1>1, CountsAssumption, ElementOfSeq
    <2>2. d.size >= d.stages
      BY <1>1, CountsAssumption
    <2> QED BY <2>1, <2>2
  <1>3. CaptureEvents[n]
          = PaddedPlan(IF n % 2 = 1 THEN "warmup" ELSE "capture", d.size, d.stages)
    BY DEF CaptureEvents
  <1> HIDE DEF d
  <1>4. /\ PlanOK(CaptureEvents[n])
        /\ CaptureEvents[n].kind = IF n % 2 = 1 THEN "warmup" ELSE "capture"
    <2> DEFINE kind == IF n % 2 = 1 THEN "warmup" ELSE "capture"
               m == d.size
               S == d.stages
    <2>1. CaptureEvents[n] = PaddedPlan(kind, m, S)
      BY <1>3
    <2>2. m \in Nat /\ S \in {1, 2} /\ m >= S
      BY <1>2
    <2> HIDE DEF kind, m, S
    <2>3. PlanOK(CaptureEvents[n]) /\ CaptureEvents[n].kind = kind
      <3>1. PlanOK(PaddedPlan(kind, m, S)) /\ PaddedPlan(kind, m, S).kind = kind
        BY <2>2, PaddedOK
      <3> QED BY <2>1, <3>1
    <2> QED BY <2>3 DEF kind
  <1>5. n % 2 /= 1 <=> IsCap(n)
    <2> HIDE DEF N
    <2>1. ASSUME n % 2 /= 1 PROVE \E m \in 1 .. N : n = 2 * m
      <3>1. i \in 1 .. N /\ n = 2 * i
        BY <1>1, <2>1
      <3> HIDE DEF i
      <3> QED BY <3>1
    <2>2. ASSUME NEW m \in 1 .. N, n = 2 * m PROVE n % 2 /= 1
      BY <1>1, <2>2
    <2> QED BY <2>1, <2>2 DEF IsCap, N
  <1> QED BY <1>4, <1>5

(* A replay is of a captured descriptor, and no serving step captures. *)
LEMMA ServingOf ==
    ASSUME NEW p \in ServingPlans
    PROVE  /\ PlanOK(p) /\ p.kind /= "capture"
           /\ p.kind = "replay" =>
                \E i \in 1 .. Len(CaptureDescs) : p.rows = CaptureEvents[2 * i].rows
  <1>1. ASSUME NEW i \in DOMAIN CaptureDescs,
               p = PaddedPlan("replay", CaptureDescs[i].size, CaptureDescs[i].stages)
        PROVE  /\ PlanOK(p) /\ p.kind = "replay" /\ i \in 1 .. Len(CaptureDescs)
               /\ p.rows = CaptureEvents[2 * i].rows
    <2> DEFINE d == CaptureDescs[i]
               N == Len(CaptureDescs)
    <2>1. N \in Nat /\ i \in 1 .. N
      BY <1>1, CountsAssumption, ElementOfSeq
    <2>2. d.size \in Nat /\ d.stages \in {1, 2} /\ d.size >= d.stages
      <3>1. d \in [size : Nat, stages : {1, 2}]
        BY <2>1, CountsAssumption, ElementOfSeq
      <3>2. d.size >= d.stages
        BY <2>1, CountsAssumption
      <3> QED BY <3>1, <3>2
    <2>3. CaptureEvents[2 * i] = PaddedPlan("capture", d.size, d.stages)
      <3>1. 2 * i \in 1 .. 2 * N /\ (2 * i + 1) \div 2 = i /\ (2 * i) % 2 /= 1
        <4> HIDE DEF N
        <4> QED BY <2>1
      <3> QED BY <3>1 DEF CaptureEvents
    <2> DEFINE m == d.size
               S == d.stages
    <2>4. m \in Nat /\ S \in {1, 2} /\ m >= S
      BY <2>2
    <2>5. p = PaddedPlan("replay", m, S) /\ CaptureEvents[2 * i] = PaddedPlan("capture", m, S)
      BY <1>1, <2>3
    <2> HIDE DEF d, m, S
    <2>6. /\ PlanOK(PaddedPlan("replay", m, S))
          /\ PaddedPlan("replay", m, S).kind = "replay"
          /\ PaddedPlan("replay", m, S).rows = PaddedPlan("capture", m, S).rows
      <3>1. PlanOK(PaddedPlan("replay", m, S)) /\ PaddedPlan("replay", m, S).kind = "replay"
        BY <2>4, PaddedOK
      <3>2. PaddedPlan("replay", m, S).rows = PaddedPlan("capture", m, S).rows
        BY DEF PaddedPlan, Plan
      <3> QED BY <3>1, <3>2
    <2> QED BY <2>1, <2>5, <2>6
  <1>2. ASSUME NEW c \in [0 .. DP - 1 -> EagerCounts], p = Plan("eager", 1, [s \in {0} |-> c])
        PROVE  PlanOK(p) /\ p.kind = "eager"
    <2>1. p.stages = 1 /\ p.kind = "eager" /\ p.rows = [s \in {0} |-> c]
      BY <1>2 DEF Plan
    <2>2. c \in Counts
      BY CountsAssumption DEF Counts
    <2>3. 0 .. p.stages - 1 = {0}
      BY <2>1
    <2> QED BY <2>1, <2>2, <2>3 DEF PlanOK
  <1>3. ASSUME NEW n \in DboCounts, p = PaddedPlan("eager", n, 2)
        PROVE  PlanOK(p) /\ p.kind = "eager"
    <2>1. n \in Nat /\ n >= 2
      BY CountsAssumption
    <2> QED BY <1>3, <2>1, PaddedOK
  <1> QED BY <1>1, <1>2, <1>3 DEF ServingPlans

(* What PlansInv says of one step. *)
LEMMA PlanAt ==
    ASSUME PlansInv, NEW n \in 1 .. Len(plans)
    PROVE  /\ PlanOK(plans[n]) /\ StageCount(n) \in {1, 2}
           /\ StageCount(n) = plans[n].stages
           /\ plans[n].kind = "capture" <=> IsCap(n)
  BY DEF PlansInv, PlanOK, StageCount

(* The plans of a new world are those of its captures: a warm-up and a
   capture of each descriptor. *)
LEMMA InitPlans == Init => PlansInv
  <1> SUFFICES ASSUME plans = CaptureEvents PROVE PlansInv
    BY DEF Init
  <1> DEFINE N == 2 * Len(CaptureDescs)
  <1>1. N \in Nat
    BY CountsAssumption
  <1>2. DOMAIN plans = 1 .. N
    BY DEF CaptureEvents
  <1>3. Len(plans) = N
    <2> HIDE DEF N
    <2> QED BY <1>1, <1>2
  <1>4. IsSequence(plans)
    <2>1. plans = [n \in 1 .. N |-> plans[n]]
      BY DEF CaptureEvents
    <2> HIDE DEF N
    <2> QED BY <1>1, <2>1 DEF IsSequence
  <1>5. ASSUME NEW n \in 1 .. N
        PROVE  /\ PlanOK(plans[n]) /\ plans[n].kind /= "replay"
               /\ plans[n].kind = "capture" <=> IsCap(n)
    BY EventOf
  <1> QED BY <1>1, <1>3, <1>4, <1>5 DEF PlansInv

----------------------------------------------------------------------------
(***************************************************************************)
(* Lemmas about slots, messages and the microbatch threads.                *)
(***************************************************************************)
LEMMA PartsOf == Parts = (IF SendsIds THEN 2 ELSE 1) /\ RecvParts = WireParts
  BY DEF Parts, WireParts, RecvParts

(* Messages are numbered one after the other, slot by slot. *)
LEMMA MessagesCount ==
    ASSUME NEW x \in Nat, NEW p \in Nat
    PROVE  /\ MsgNo(x, p) \in Nat /\ MsgNo(x, 0) + p = MsgNo(x, p)
           /\ MsgNo(x, Parts) = MsgNo(x + 1, 0) /\ MsgNo(0, 0) = 0
           /\ \A y \in Nat : x <= y => MsgNo(x, 0) <= MsgNo(y, 0)
  BY PartsOf DEF MsgNo

(* Two messages of a step have different numbers. *)
LEMMA MessagesDiffer ==
    ASSUME NEW x \in Nat, NEW y \in Nat, NEW p \in 1 .. Parts, NEW q \in 1 .. Parts,
           MsgNo(x, p) = MsgNo(y, q)
    PROVE  x = y /\ p = q
  BY PartsOf DEF MsgNo

(* Slots are numbered one after the other, stages within layers. *)
LEMMA SlotsCount ==
    ASSUME NEW S \in {1, 2}, NEW l \in 1 .. L, NEW s \in 0 .. S - 1
    PROVE  /\ Slot(S, l, s) \in Nat /\ Slots(S) \in Nat /\ Slot(S, l, s) < Slots(S)
           /\ Slot(S, 1, 0) = 0
           /\ s + 1 <= S - 1 => Slot(S, l, s + 1) = Slot(S, l, s) + 1
           /\ s + 1 > S - 1 => IF l < L THEN Slot(S, l + 1, 0) = Slot(S, l, s) + 1
                               ELSE Slots(S) = Slot(S, l, s) + 1
  BY SizesAssumption DEF Slot, Slots

(* Two slots of a step have different numbers. *)
LEMMA SlotsDiffer ==
    ASSUME NEW S \in {1, 2}, NEW l \in 1 .. L, NEW s \in 0 .. S - 1,
           NEW m \in 1 .. L, NEW q \in 0 .. S - 1, Slot(S, l, s) = Slot(S, m, q)
    PROVE  l = m /\ s = q
  BY SizesAssumption DEF Slot

(* The thread that has the turn is in a layer. *)
LEMMA ThreadAt ==
    ASSUME NEW S \in {1, 2}, NEW r, ThreadsOK(r, S)
    PROVE  /\ r.turn \in 0 .. S - 1 /\ r.th[r.turn] \in Place
           /\ r.th[r.turn].layer \in 1 .. L /\ r.th[r.turn].part \in 1 .. Parts
           /\ r.th[r.turn].at \in {"send", "recv"}
           /\ SlotAt(r, S) = Slot(S, r.th[r.turn].layer, r.turn)
           /\ SlotAt(r, S) \in Nat /\ SlotAt(r, S) < Slots(S) /\ Slots(S) \in Nat
           /\ RcvdBy(r, S) \in Nat /\ SentBy(r, S) \in Nat
           /\ SentBy(r, S) <= MsgNo(Slots(S), 0)
  <1> DEFINE t == r.th[r.turn]
             x == SlotAt(r, S)
  <1>1. r.turn \in 0 .. S - 1 /\ t \in Place /\ t.at \in {"send", "recv"}
    BY DEF ThreadsOK
  <1>2. t.layer \in 1 .. L /\ t.part \in 1 .. Parts
    BY <1>1 DEF Place
  <1>3. x = Slot(S, t.layer, r.turn) /\ x \in Nat /\ x < Slots(S) /\ Slots(S) \in Nat
    BY <1>1, <1>2, SlotsCount DEF SlotAt
  <1>4. RcvdBy(r, S) = IF t.at = "send" THEN Max2(0, x - S + 1) ELSE x
    BY DEF RcvdBy
  <1>5. SentBy(r, S) = IF t.at = "send" THEN MsgNo(x, t.part - 1)
                       ELSE MsgNo(Min2(x + S, Slots(S)), 0)
    BY DEF SentBy
  <1> HIDE DEF t, x
  <1>6. RcvdBy(r, S) \in Nat
    BY <1>3, <1>4 DEF Max2
  <1>7. SentBy(r, S) \in Nat /\ SentBy(r, S) <= MsgNo(Slots(S), 0)
    BY <1>2, <1>3, <1>5, PartsOf DEF MsgNo, Min2
  <1> QED BY <1>1, <1>2, <1>3, <1>6, <1>7 DEF t, x

(* send_attn_output, not the last tensor. *)
LEMMA ThreadSends ==
    ASSUME NEW S \in {1, 2}, NEW r, ThreadsOK(r, S), NEW q,
           r.th[r.turn].at = "send", r.th[r.turn].part /= Parts,
           q.turn = r.turn,
           q.th = [r.th EXCEPT ![r.turn] =
                     [r.th[r.turn] EXCEPT !.part = r.th[r.turn].part + 1]]
    PROVE  /\ ThreadsOK(q, S) /\ SentBy(q, S) = SentBy(r, S) + 1
           /\ RcvdBy(q, S) = RcvdBy(r, S)
  <1> DEFINE t == r.th[r.turn]
             u == q.th[q.turn]
  <1>1. /\ r.turn \in 0 .. S - 1 /\ t \in Place /\ t.layer \in 1 .. L
        /\ t.part \in 1 .. Parts /\ SlotAt(r, S) = Slot(S, t.layer, r.turn)
        /\ SlotAt(r, S) \in Nat /\ r.th \in [0 .. S - 1 -> Place]
    BY ThreadAt DEF ThreadsOK
  <1>2. u = [t EXCEPT !.part = t.part + 1]
    BY <1>1
  <1>3. u.layer = t.layer /\ u.at = "send" /\ u.part = t.part + 1 /\ u \in Place
    <2>1. t.part + 1 \in 1 .. Parts
      BY <1>1, PartsOf
    <2> QED BY <1>1, <1>2, <2>1 DEF Place
  <1>4. q.th \in [0 .. S - 1 -> Place]
    BY <1>1, <1>2, <1>3
  <1>5. S = 2 => q.th[1 - r.turn] = r.th[1 - r.turn]
    BY <1>1
  <1>6. S = 2 => HandedOver(t, r.turn, r.th[1 - r.turn])
    BY DEF ThreadsOK
  <1>7. S = 2 => HandedOver(u, q.turn, q.th[1 - q.turn])
    BY <1>3, <1>5, <1>6 DEF HandedOver
  <1>8. ThreadsOK(q, S)
    BY <1>1, <1>3, <1>4, <1>7 DEF ThreadsOK
  <1>9. SlotAt(q, S) = SlotAt(r, S)
    BY <1>1, <1>3 DEF SlotAt
  <1> HIDE DEF t, u
  <1>10. SentBy(q, S) = MsgNo(SlotAt(r, S), u.part - 1) /\ SentBy(r, S) = MsgNo(SlotAt(r, S), t.part - 1)
    BY <1>3, <1>9 DEF SentBy, t, u
  <1>11. SentBy(q, S) = SentBy(r, S) + 1
    BY <1>1, <1>3, <1>10, PartsOf DEF MsgNo
  <1>12. RcvdBy(q, S) = RcvdBy(r, S)
    BY <1>3, <1>9 DEF RcvdBy, t, u
  <1> QED BY <1>8, <1>11, <1>12

(* ... the last tensor: the other microbatch goes on. *)
LEMMA ThreadYields ==
    ASSUME NEW S \in {1, 2}, NEW r, ThreadsOK(r, S), NEW q,
           r.th[r.turn].at = "send", r.th[r.turn].part = Parts,
           q.turn = (IF S = 1 THEN r.turn ELSE 1 - r.turn),
           q.th = [r.th EXCEPT ![r.turn] = [r.th[r.turn] EXCEPT !.at = "recv"]]
    PROVE  /\ ThreadsOK(q, S) /\ SentBy(q, S) = SentBy(r, S) + 1
           /\ RcvdBy(q, S) = RcvdBy(r, S)
  <1> DEFINE t == r.th[r.turn]
             u == q.th[r.turn]
  <1>1. /\ r.turn \in 0 .. S - 1 /\ t \in Place /\ t.layer \in 1 .. L
        /\ t.part \in 1 .. Parts /\ SlotAt(r, S) = Slot(S, t.layer, r.turn)
        /\ SlotAt(r, S) \in Nat /\ r.th \in [0 .. S - 1 -> Place]
        /\ SlotAt(r, S) < Slots(S) /\ Slots(S) \in Nat
    BY ThreadAt DEF ThreadsOK
  <1>2. u = [t EXCEPT !.at = "recv"]
    BY <1>1
  <1>3. u.layer = t.layer /\ u.at = "recv" /\ u \in Place
    BY <1>1, <1>2 DEF Place
  <1>4. q.th \in [0 .. S - 1 -> Place]
    BY <1>1, <1>2, <1>3
  <1>5. SentBy(r, S) = MsgNo(SlotAt(r, S), Parts - 1)
        /\ RcvdBy(r, S) = Max2(0, SlotAt(r, S) - S + 1)
    BY DEF SentBy, RcvdBy
  <1>6. MsgNo(SlotAt(r, S), Parts - 1) + 1 = MsgNo(SlotAt(r, S) + 1, 0)
    BY <1>1, PartsOf DEF MsgNo
  <1>7. CASE S = 1
    <2>1. q.turn = 0 /\ r.turn = 0 /\ q.th[q.turn] = u
      BY <1>1, <1>7
    <2>2. ThreadsOK(q, S)
      BY <1>3, <1>4, <1>7, <2>1 DEF ThreadsOK
    <2>3. SlotAt(q, S) = SlotAt(r, S)
      BY <1>1, <1>3, <2>1 DEF SlotAt
    <2>4. SentBy(q, S) = MsgNo(Min2(SlotAt(r, S) + 1, Slots(S)), 0)
          /\ RcvdBy(q, S) = SlotAt(r, S)
      BY <1>3, <1>7, <2>1, <2>3 DEF SentBy, RcvdBy
    <2>5. Min2(SlotAt(r, S) + 1, Slots(S)) = SlotAt(r, S) + 1
          /\ Max2(0, SlotAt(r, S) - S + 1) = SlotAt(r, S)
      BY <1>1, <1>7 DEF Min2, Max2
    <2> QED BY <1>5, <1>6, <2>2, <2>4, <2>5
  <1>8. CASE S = 2
    <2> DEFINE o == r.th[1 - r.turn]
    <2>1. q.turn = 1 - r.turn /\ q.turn \in 0 .. 1 /\ q.th[q.turn] = o /\ o \in Place
          /\ q.th[1 - q.turn] = u /\ r.turn \in {0, 1}
      BY <1>1, <1>8
    <2>2. HandedOver(t, r.turn, o)
      BY <1>8 DEF ThreadsOK
    <2>3. /\ o.layer \in 1 .. L /\ o.part \in 1 .. Parts
          /\ r.turn = 0 /\ t.layer = 1 => o.layer = 1 /\ o.at = "send" /\ o.part = 1
          /\ r.turn = 0 /\ t.layer /= 1 => o.layer = t.layer - 1 /\ o.at = "recv"
          /\ r.turn = 1 => o.layer = t.layer /\ o.at = "recv"
      BY <2>1, <2>2 DEF HandedOver, Place
    <2>4. SlotAt(r, S) = 2 * (t.layer - 1) + r.turn /\ SlotAt(q, S) = 2 * (o.layer - 1) + q.turn
          /\ Slots(S) = 2 * L
      BY <1>1, <1>8, <2>1 DEF SlotAt, Slot, Slots
    <2>5. /\ SentBy(q, S) = IF o.at = "send" THEN MsgNo(SlotAt(q, S), o.part - 1)
                            ELSE MsgNo(Min2(SlotAt(q, S) + 2, Slots(S)), 0)
          /\ RcvdBy(q, S) = IF o.at = "send" THEN Max2(0, SlotAt(q, S) - 2 + 1)
                            ELSE SlotAt(q, S)
      BY <1>8, <2>1 DEF SentBy, RcvdBy
    <2> HIDE DEF t, u, o
    <2>6. /\ o.at \in {"send", "recv"} /\ L \in Nat
          /\ HandedOver(o, q.turn, u)
      <3>1. L \in Nat /\ L > 0
        BY SizesAssumption
      <3>2. CASE r.turn = 0 /\ t.layer = 1
        BY <1>1, <1>3, <2>1, <2>3, <3>1, <3>2 DEF HandedOver
      <3>3. CASE r.turn = 0 /\ t.layer /= 1
        BY <1>1, <1>3, <2>1, <2>3, <3>1, <3>3 DEF HandedOver
      <3>4. CASE r.turn = 1
        BY <1>1, <1>3, <2>1, <2>3, <3>1, <3>4 DEF HandedOver
      <3> QED BY <2>1, <3>1, <3>2, <3>3, <3>4
    <2>7. ThreadsOK(q, S)
      BY <1>4, <1>8, <2>1, <2>6 DEF ThreadsOK
    <2>8. /\ o.at = "send" => SlotAt(q, S) = SlotAt(r, S) + 1 /\ o.part = 1
                              /\ SlotAt(r, S) = 0
          /\ o.at = "recv" => Min2(SlotAt(q, S) + 2, Slots(S)) = SlotAt(r, S) + 1
                              /\ SlotAt(r, S) >= 1 /\ SlotAt(q, S) = SlotAt(r, S) - 1
      <3> DEFINE x == SlotAt(r, S)
                 y == SlotAt(q, S)
      <3>1. /\ x = 2 * (t.layer - 1) + r.turn /\ y = 2 * (o.layer - 1) + (1 - r.turn)
            /\ t.layer \in 1 .. L /\ r.turn \in {0, 1} /\ L \in Nat
        BY <1>1, <2>1, <2>4, <2>6
      <3>2. o.at = "send" => r.turn = 0 /\ t.layer = 1 /\ o.layer = 1 /\ o.part = 1
        BY <2>3, <3>1
      <3>3. o.at = "recv" => \/ r.turn = 0 /\ t.layer > 1 /\ o.layer = t.layer - 1
                             \/ r.turn = 1 /\ o.layer = t.layer
        BY <2>3, <3>1
      <3>6. x \in Nat /\ y \in Int /\ Slots(S) = 2 * L
        <4>1. x \in Nat /\ Slots(S) = 2 * L
          BY <1>1, <2>4
        <4>2. o.layer \in Int
          BY <2>3
        <4>3. y \in Int
          BY <3>1, <4>2
        <4> QED BY <4>1, <4>3
      <3> HIDE DEF x, y
      <3>4. o.at = "send" => y = x + 1 /\ o.part = 1 /\ x = 0
        BY <3>1, <3>2
      <3>5. o.at = "recv" => x >= 1 /\ y = x - 1 /\ x + 1 <= 2 * L
        BY <3>1, <3>3
      <3>7. o.at = "recv" => Min2(y + 2, Slots(S)) = x + 1
        BY <3>1, <3>5, <3>6 DEF Min2
      <3> QED BY <3>4, <3>5, <3>7 DEF x, y
    <2>9. SentBy(q, S) = MsgNo(SlotAt(r, S) + 1, 0)
      BY <2>5, <2>6, <2>8
    <2>10. RcvdBy(q, S) = Max2(0, SlotAt(r, S) - S + 1)
      BY <1>1, <1>8, <2>5, <2>6, <2>8 DEF Max2
    <2> QED BY <1>5, <1>6, <2>7, <2>9, <2>10
  <1> QED BY <1>7, <1>8

(* recv_ffn_output: the microbatch goes on with the next layer. *)
LEMMA ThreadReceives ==
    ASSUME NEW S \in {1, 2}, NEW r, ThreadsOK(r, S), NEW q,
           r.th[r.turn].at = "recv", r.th[r.turn].layer < L,
           q.turn = r.turn,
           q.th = [r.th EXCEPT ![r.turn] =
                     [layer |-> r.th[r.turn].layer + 1, at |-> "send", part |-> 1]]
    PROVE  /\ ThreadsOK(q, S) /\ SentBy(q, S) = SentBy(r, S)
           /\ RcvdBy(q, S) = RcvdBy(r, S) + 1
  <1> DEFINE t == r.th[r.turn]
             u == q.th[r.turn]
             x == SlotAt(r, S)
             y == SlotAt(q, S)
  <1>1. /\ r.turn \in 0 .. S - 1 /\ t \in Place /\ t.layer \in 1 .. L
        /\ x = Slot(S, t.layer, r.turn) /\ x \in Nat /\ r.th \in [0 .. S - 1 -> Place]
        /\ x < Slots(S) /\ Slots(S) \in Nat
    BY ThreadAt DEF ThreadsOK
  <1>2. u = [layer |-> t.layer + 1, at |-> "send", part |-> 1]
    BY <1>1
  <1>3. u.layer = t.layer + 1 /\ u.at = "send" /\ u.part = 1 /\ u \in Place
    <2>1. t.layer + 1 \in 1 .. L /\ 1 \in 1 .. Parts
      BY SMTT(30), <1>1, SizesAssumption, PartsOf
    <2> QED BY <1>2, <2>1 DEF Place
  <1>4. q.th \in [0 .. S - 1 -> Place] /\ q.th[q.turn] = u
    BY <1>1, <1>2, <1>3
  <1>5. S = 2 => /\ q.th[1 - q.turn] = r.th[1 - r.turn]
                 /\ HandedOver(t, r.turn, r.th[1 - r.turn])
    BY <1>1 DEF ThreadsOK
  <1>6. S = 2 => HandedOver(u, q.turn, q.th[1 - q.turn])
    BY <1>1, <1>3, <1>5 DEF HandedOver
  <1>7. ThreadsOK(q, S)
    BY <1>1, <1>3, <1>4, <1>6 DEF ThreadsOK
  <1>8. y = Slot(S, t.layer + 1, r.turn)
    BY <1>3, <1>4 DEF SlotAt
  <1>9. /\ SentBy(q, S) = MsgNo(y, 1 - 1) /\ SentBy(r, S) = MsgNo(Min2(x + S, Slots(S)), 0)
        /\ RcvdBy(q, S) = Max2(0, y - S + 1) /\ RcvdBy(r, S) = x
    BY <1>3, <1>4 DEF SentBy, RcvdBy
  <1> HIDE DEF t, u, x, y
  <1>10. y = x + S /\ y < Slots(S)
    <2>1. L \in Nat /\ t.layer + 1 \in 1 .. L /\ t.layer \in 1 .. L
      BY SMTT(30), <1>1, SizesAssumption DEF t
    <2>2. PICK l : l = t.layer
      OBVIOUS
    <2>3. PICK v : v = r.turn
      OBVIOUS
    <2>4. l \in 1 .. L /\ l + 1 <= L /\ v \in 0 .. S - 1 /\ L \in Nat
      BY <1>1, <2>1, <2>2, <2>3
    <2>5. x = Slot(S, l, v) /\ y = Slot(S, l + 1, v)
      BY <1>1, <1>8, <2>2, <2>3
    <2>6. CASE S = 1
      BY <2>4, <2>5, <2>6 DEF Slot, Slots
    <2>7. CASE S = 2
      BY <2>4, <2>5, <2>7 DEF Slot, Slots
    <2> QED BY <2>6, <2>7
  <1>11. Min2(x + S, Slots(S)) = y /\ Max2(0, y - S + 1) = x + 1
    BY <1>1, <1>10 DEF Min2, Max2
  <1> QED BY <1>7, <1>9, <1>11 DEF x

(* ... the last layer: the other microbatch receives its last output ... *)
LEMMA ThreadEnds ==
    ASSUME NEW r, ThreadsOK(r, 2), NEW q,
           r.th[r.turn].at = "recv", r.th[r.turn].layer = L, r.turn = 0, q.turn = 1,
           q.th = [r.th EXCEPT ![r.turn] = [r.th[r.turn] EXCEPT !.at = "done"]]
    PROVE  /\ ThreadsOK(q, 2) /\ SentBy(q, 2) = SentBy(r, 2)
           /\ RcvdBy(q, 2) = RcvdBy(r, 2) + 1
  <1> DEFINE t == r.th[0]
             o == r.th[1]
             u == q.th[0]
  <1>1. /\ t \in Place /\ t.layer \in 1 .. L /\ r.th \in [0 .. 1 -> Place]
        /\ o \in Place /\ HandedOver(t, 0, o)
    BY ThreadAt DEF ThreadsOK
  <1>2. /\ u = [t EXCEPT !.at = "done"] /\ q.th[1] = o
    BY <1>1
  <1>3. u.at = "done" /\ u \in Place
    BY <1>1, <1>2 DEF Place
  <1>4. q.th \in [0 .. 1 -> Place]
    BY <1>1, <1>2, <1>3
  <1>5. o.at = "recv" /\ o.layer = L
    BY <1>1 DEF HandedOver
  <1>6. L \in Nat /\ L > 0
    BY SizesAssumption
  <1> HIDE DEF t, o, u
  <1>7. HandedOver(o, 1, u)
    BY <1>3, <1>5, <1>6 DEF HandedOver
  <1>8. ThreadsOK(q, 2)
    BY <1>2, <1>3, <1>4, <1>5, <1>7 DEF ThreadsOK, o, u
  <1>9. SlotAt(r, 2) = 2 * (L - 1) /\ SlotAt(q, 2) = 2 * (L - 1) + 1 /\ Slots(2) = 2 * L
    BY <1>2, <1>5, <1>6 DEF SlotAt, Slot, Slots, t
  <1>10. /\ SentBy(q, 2) = MsgNo(Min2(SlotAt(q, 2) + 2, Slots(2)), 0)
         /\ SentBy(r, 2) = MsgNo(Min2(SlotAt(r, 2) + 2, Slots(2)), 0)
         /\ RcvdBy(q, 2) = SlotAt(q, 2) /\ RcvdBy(r, 2) = SlotAt(r, 2)
    BY <1>2, <1>5 DEF SentBy, RcvdBy
  <1>11. Min2(SlotAt(q, 2) + 2, Slots(2)) = Slots(2) /\ Min2(SlotAt(r, 2) + 2, Slots(2)) = Slots(2)
    BY <1>6, <1>9 DEF Min2
  <1> QED BY <1>6, <1>8, <1>9, <1>10, <1>11

(* ... or was the first to do so: everything has been sent and received. *)
LEMMA ThreadsEnd ==
    ASSUME NEW S \in {1, 2}, NEW r, ThreadsOK(r, S),
           r.th[r.turn].at = "recv", r.th[r.turn].layer = L, S = 1 \/ r.turn = 1
    PROVE  /\ SentBy(r, S) = MsgNo(Slots(S), 0) /\ RcvdBy(r, S) + 1 = Slots(S)
           /\ S = 2 => r.th[0].at = "done"
  <1>1. r.turn = S - 1 /\ SlotAt(r, S) = Slot(S, L, r.turn) /\ r.turn \in 0 .. S - 1
    BY ThreadAt DEF SlotAt
  <1>2. L \in Nat /\ L > 0
    BY SizesAssumption
  <1>3. SlotAt(r, S) + 1 = Slots(S) /\ SlotAt(r, S) \in Nat /\ Slots(S) \in Nat
    BY <1>1, <1>2 DEF Slot, Slots
  <1>4. SentBy(r, S) = MsgNo(Min2(SlotAt(r, S) + S, Slots(S)), 0) /\ RcvdBy(r, S) = SlotAt(r, S)
    BY DEF SentBy, RcvdBy
  <1>5. Min2(SlotAt(r, S) + S, Slots(S)) = Slots(S)
    BY <1>3 DEF Min2
  <1>6. S = 2 => r.th[0].at = "done"
    BY <1>1, <1>2 DEF ThreadsOK, HandedOver
  <1> QED BY <1>3, <1>4, <1>5, <1>6

(* A step begins with the first microbatch; nothing has been sent. *)
LEMMA ThreadsBegin ==
    ASSUME NEW S \in {1, 2}, NEW q, q.turn = 0,
           q.th = [s \in 0 .. S - 1 |-> [layer |-> 1, at |-> "send", part |-> 1]]
    PROVE  ThreadsOK(q, S) /\ SentBy(q, S) = 0 /\ RcvdBy(q, S) = 0
  <1> DEFINE t == [layer |-> 1, at |-> "send", part |-> 1]
  <1>1. L \in Nat /\ L > 0
    BY SizesAssumption
  <1>2. t \in Place /\ t.layer = 1 /\ t.at = "send" /\ t.part = 1
    BY <1>1, PartsOf DEF Place
  <1>3. q.th[0] = t /\ (S = 2 => q.th[1] = t)
    OBVIOUS
  <1>4. HandedOver(t, 0, t)
    BY DEF HandedOver
  <1> HIDE DEF t
  <1>5. ThreadsOK(q, S)
    BY <1>2, <1>3, <1>4 DEF ThreadsOK, t
  <1>6. SlotAt(q, S) = 0
    BY <1>2, <1>3 DEF SlotAt, Slot
  <1>7. SentBy(q, S) = MsgNo(0, 0) /\ RcvdBy(q, S) = Max2(0, 0 - S + 1)
    BY <1>2, <1>3, <1>6 DEF SentBy, RcvdBy
  <1> QED BY <1>5, <1>7 DEF MsgNo, Max2

----------------------------------------------------------------------------
(***************************************************************************)
(* Lemmas about sequences of any elements.                                 *)
(***************************************************************************)
LEMMA SequenceOf ==
    ASSUME NEW s, IsSequence(s), NEW e
    PROVE  \E T : s \in Seq(T) /\ e \in T
  <1> PICK n \in Nat : s = [i \in 1 .. n |-> s[i]]
    BY DEF IsSequence
  <1> DEFINE T == {s[i] : i \in 1 .. n} \cup {e}
  <1>1. s \in [1 .. n -> T]
    OBVIOUS
  <1>2. s \in Seq(T)
    <2> HIDE DEF T
    <2> QED BY <1>1
  <1> QED BY <1>2

(* A sequence of any elements has a length, and is empty if that is 0. *)
LEMMA SequenceLen ==
    ASSUME NEW s, IsSequence(s)
    PROVE  Len(s) \in Nat /\ DOMAIN s = 1 .. Len(s) /\ (s = <<>> <=> Len(s) = 0)
  <1> PICK T : s \in Seq(T)
    BY SequenceOf
  <1> QED BY LenProperties, EmptySeq

(* The empty sequence, and its length. *)
LEMMA EmptySequence == IsSequence(<<>>) /\ Len(<<>>) = 0
  <1>1. <<>> = [i \in 1 .. 0 |-> <<>>[i]]
    OBVIOUS
  <1> QED BY <1>1 DEF IsSequence

(* A sequence over a set is one of any elements. *)
LEMMA IsSequenceOf == ASSUME NEW T, NEW s \in Seq(T) PROVE IsSequence(s)
  <1> PICK n \in Nat : s \in [1 .. n -> T]
    OBVIOUS
  <1>1. s = [i \in 1 .. n |-> s[i]]
    OBVIOUS
  <1> QED BY <1>1 DEF IsSequence

(* What Append does to a sequence of any elements. *)
LEMMA SequenceAppend ==
    ASSUME NEW s, IsSequence(s), NEW e
    PROVE  /\ IsSequence(Append(s, e)) /\ Len(Append(s, e)) = Len(s) + 1
           /\ \A i \in 1 .. Len(s) : Append(s, e)[i] = s[i]
           /\ Append(s, e)[Len(s) + 1] = e
  <1> PICK T : s \in Seq(T) /\ e \in T
    BY SequenceOf
  <1>1. /\ Append(s, e) \in Seq(T) /\ Len(Append(s, e)) = Len(s) + 1
        /\ Append(s, e)[Len(s) + 1] = e
    BY AppendProperties
  <1>2. \A i \in 1 .. Len(s) : Append(s, e)[i] = s[i]
    BY AppendProperties
  <1>3. IsSequence(Append(s, e))
    BY <1>1, IsSequenceOf
  <1> QED BY <1>1, <1>2, <1>3

(* What Head and Tail return of a non-empty one. *)
LEMMA SequenceTail ==
    ASSUME NEW s, IsSequence(s), s /= <<>>
    PROVE  /\ Len(s) > 0 /\ Head(s) = s[1]
           /\ IsSequence(Tail(s)) /\ Len(Tail(s)) = Len(s) - 1
           /\ \A i \in 1 .. Len(s) - 1 : Tail(s)[i] = s[i + 1]
  <1> PICK T : s \in Seq(T)
    BY SequenceOf
  <1>1. /\ Tail(s) \in Seq(T) /\ Len(Tail(s)) = Len(s) - 1
        /\ \A i \in 1 .. Len(Tail(s)) : Tail(s)[i] = s[i + 1]
    BY HeadTailProperties
  <1>2. Len(s) \in Nat /\ Len(s) > 0 /\ Head(s) = s[1]
    BY SequenceLen
  <1> QED BY <1>1, <1>2, IsSequenceOf


----------------------------------------------------------------------------
(***************************************************************************)
(* Lemmas about the wires.                                                 *)
(***************************************************************************)
(* Nothing is wrong on an empty wire. *)
LEMMA WireEmpty ==
    ASSUME NEW w, Len(w) = 0, NEW rc, NEW a, NEW n
    PROVE  UpWire(w, rc, a, n) /\ DownWire(w, rc, a, n)
  <1>1. 1 .. Len(w) = {}
    OBVIOUS
  <1> QED BY <1>1 DEF UpWire, DownWire

(* What is on a wire does not change with the state. *)
LEMMA WireFrame ==
    ASSUME NEW w, NEW rc, NEW a, NEW n, plans' = plans
    PROVE  /\ StageCount(n)' = StageCount(n)
           /\ UpWire(w, rc, a, n) => UpWire(w, rc, a, n)'
           /\ DownWire(w, rc, a, n) => DownWire(w, rc, a, n)'
  <1>1. StageCount(n)' = StageCount(n)
    BY DEF StageCount
  <1>2. UpWire(w, rc, a, n) => UpWire(w, rc, a, n)'
    <2>1. \A l, s, p : Message(a, n, l, s, p)' = Message(a, n, l, s, p)
      BY DEF Message, OwnRows
    <2> QED BY <1>1, <2>1 DEF UpWire
  <1>3. DownWire(w, rc, a, n) => DownWire(w, rc, a, n)'
    <2>1. \A l, s : Output(a, n, l, s)' = Output(a, n, l, s)
      BY DEF Output, OwnRows
    <2> QED BY <1>1, <2>1 DEF DownWire
  <1> QED BY <1>1, <1>2, <1>3

(* The first message is taken from a wire ... *)
LEMMA UpTail ==
    ASSUME NEW w, IsSequence(w), w /= <<>>, NEW rc \in Nat, NEW a, NEW n, UpWire(w, rc, a, n)
    PROVE  UpWire(Tail(w), rc + 1, a, n)
  <1>1. PICK S : S = StageCount(n)
    OBVIOUS
  <1>2. PICK m : m = Len(w)
    OBVIOUS
  <1>3. /\ m \in Nat /\ m > 0 /\ Len(Tail(w)) = m - 1
        /\ \A i \in 1 .. m - 1 : Tail(w)[i] = w[i + 1]
    BY <1>2, SequenceLen, SequenceTail
  <1>4. ASSUME NEW i \in 1 .. m - 1
        PROVE  \E l \in 1 .. L, s \in 0 .. S - 1, p \in 1 .. Parts :
                 MsgNo(Slot(S, l, s), p) = rc + 1 + i /\ Tail(w)[i] = Message(a, n, l, s, p)
    <2>1. i + 1 \in 1 .. m /\ rc + (i + 1) = rc + 1 + i
      BY <1>3
    <2>2. PICK l \in 1 .. L, s \in 0 .. S - 1, p \in 1 .. Parts :
            MsgNo(Slot(S, l, s), p) = rc + (i + 1) /\ w[i + 1] = Message(a, n, l, s, p)
      BY <1>1, <1>2, <2>1 DEF UpWire
    <2>3. MsgNo(Slot(S, l, s), p) = rc + 1 + i /\ Tail(w)[i] = Message(a, n, l, s, p)
      BY <1>3, <2>1, <2>2
    <2> QED BY <2>3
  <1> QED BY <1>1, <1>3, <1>4 DEF UpWire

(* ... and the next one sent over it. *)
LEMMA UpAppend ==
    ASSUME NEW w, IsSequence(w), NEW rc \in Nat, NEW a, NEW n, UpWire(w, rc, a, n),
           NEW l \in 1 .. L, NEW s \in 0 .. StageCount(n) - 1, NEW p \in 1 .. Parts,
           MsgNo(Slot(StageCount(n), l, s), p) = rc + Len(w) + 1
    PROVE  UpWire(Append(w, Message(a, n, l, s, p)), rc, a, n)
  <1>1. PICK S : S = StageCount(n)
    OBVIOUS
  <1>2. PICK m : m = Len(w)
    OBVIOUS
  <1>3. PICK e : e = Message(a, n, l, s, p)
    OBVIOUS
  <1>4. PICK v : v = Append(w, e)
    OBVIOUS
  <1>5. /\ m \in Nat /\ Len(v) = m + 1 /\ v[m + 1] = e
        /\ \A i \in 1 .. m : v[i] = w[i]
    BY <1>2, <1>4, SequenceLen, SequenceAppend
  <1>6. ASSUME NEW i \in 1 .. m + 1
        PROVE  \E ll \in 1 .. L, ss \in 0 .. S - 1, pp \in 1 .. Parts :
                 MsgNo(Slot(S, ll, ss), pp) = rc + i /\ v[i] = Message(a, n, ll, ss, pp)
    <2>1. CASE i \in 1 .. m
      <3>1. PICK ll \in 1 .. L, ss \in 0 .. S - 1, pp \in 1 .. Parts :
              MsgNo(Slot(S, ll, ss), pp) = rc + i /\ w[i] = Message(a, n, ll, ss, pp)
        BY <1>1, <1>2, <2>1 DEF UpWire
      <3>2. v[i] = Message(a, n, ll, ss, pp)
        BY <1>5, <2>1, <3>1
      <3> QED BY <3>1, <3>2
    <2>2. CASE i = m + 1
      <3>1. MsgNo(Slot(S, l, s), p) = rc + i
        BY <1>1, <1>2, <1>5, <2>2
      <3>2. v[i] = Message(a, n, l, s, p)
        BY <1>3, <1>5, <2>2
      <3> QED BY <1>1, <3>1, <3>2
    <2>3. i \in 1 .. m \/ i = m + 1
      BY <1>5
    <2> QED BY <2>1, <2>2, <2>3
  <1>7. UpWire(v, rc, a, n)
    BY <1>1, <1>5, <1>6 DEF UpWire
  <1> QED BY <1>3, <1>4, <1>7

(* The same for the wire back. *)
LEMMA DownTail ==
    ASSUME NEW w, IsSequence(w), w /= <<>>, NEW rc \in Nat, NEW a, NEW n, DownWire(w, rc, a, n)
    PROVE  DownWire(Tail(w), rc + 1, a, n)
  <1>1. PICK S : S = StageCount(n)
    OBVIOUS
  <1>2. PICK m : m = Len(w)
    OBVIOUS
  <1>3. /\ m \in Nat /\ m > 0 /\ Len(Tail(w)) = m - 1
        /\ \A i \in 1 .. m - 1 : Tail(w)[i] = w[i + 1]
    BY <1>2, SequenceLen, SequenceTail
  <1>4. ASSUME NEW i \in 1 .. m - 1
        PROVE  \E l \in 1 .. L, s \in 0 .. S - 1 :
                 Slot(S, l, s) = rc + 1 + i - 1 /\ Tail(w)[i] = Output(a, n, l, s)
    <2>1. i + 1 \in 1 .. m /\ rc + (i + 1) - 1 = rc + 1 + i - 1
      BY <1>3
    <2>2. PICK l \in 1 .. L, s \in 0 .. S - 1 :
            Slot(S, l, s) = rc + (i + 1) - 1 /\ w[i + 1] = Output(a, n, l, s)
      BY <1>1, <1>2, <2>1 DEF DownWire
    <2>3. Slot(S, l, s) = rc + 1 + i - 1 /\ Tail(w)[i] = Output(a, n, l, s)
      BY <1>3, <2>1, <2>2
    <2> QED BY <2>3
  <1> QED BY <1>1, <1>3, <1>4 DEF DownWire

(* The next output of the step appended to the wire to Attention. *)
LEMMA DownAppend ==
    ASSUME NEW w, IsSequence(w), NEW rc \in Nat, NEW a, NEW n, DownWire(w, rc, a, n),
           NEW l \in 1 .. L, NEW s \in 0 .. StageCount(n) - 1,
           Slot(StageCount(n), l, s) = rc + Len(w)
    PROVE  DownWire(Append(w, Output(a, n, l, s)), rc, a, n)
  <1>1. PICK S : S = StageCount(n)
    OBVIOUS
  <1>2. PICK m : m = Len(w)
    OBVIOUS
  <1>3. PICK e : e = Output(a, n, l, s)
    OBVIOUS
  <1>4. PICK v : v = Append(w, e)
    OBVIOUS
  <1>5. /\ m \in Nat /\ Len(v) = m + 1 /\ v[m + 1] = e
        /\ \A i \in 1 .. m : v[i] = w[i]
    BY <1>2, <1>4, SequenceLen, SequenceAppend
  <1>6. ASSUME NEW i \in 1 .. m + 1
        PROVE  \E ll \in 1 .. L, ss \in 0 .. S - 1 :
                 Slot(S, ll, ss) = rc + i - 1 /\ v[i] = Output(a, n, ll, ss)
    <2>1. CASE i \in 1 .. m
      <3>1. PICK ll \in 1 .. L, ss \in 0 .. S - 1 :
              Slot(S, ll, ss) = rc + i - 1 /\ w[i] = Output(a, n, ll, ss)
        BY <1>1, <1>2, <2>1 DEF DownWire
      <3>2. v[i] = Output(a, n, ll, ss)
        BY <1>5, <2>1, <3>1
      <3> QED BY <3>1, <3>2
    <2>2. CASE i = m + 1
      <3>1. Slot(S, l, s) = rc + i - 1
        BY <1>1, <1>2, <1>5, <2>2
      <3>2. v[i] = Output(a, n, l, s)
        BY <1>3, <1>5, <2>2
      <3> QED BY <1>1, <3>1, <3>2
    <2>3. i \in 1 .. m \/ i = m + 1
      BY <1>5
    <2> QED BY <2>1, <2>2, <2>3
  <1>7. DownWire(v, rc, a, n)
    BY <1>1, <1>5, <1>6 DEF DownWire
  <1> QED BY <1>3, <1>4, <1>7
----------------------------------------------------------------------------
(***************************************************************************)
(* What a step leaves alone.                                               *)
(***************************************************************************)
LEMMA PlansFrame ==
    ASSUME PlansInv, plans' = plans
    PROVE  PlansInv'
  BY DEF PlansInv

(* An Attention rank that does not move keeps its part of the invariant. *)
LEMMA AttFrame ==
    ASSUME NEW a \in Att, AttOK(a), plans' = plans, att'[a] = att[a]
    PROVE  AttOK(a)'
  BY DEF AttOK, StageCount

(* A control channel that does not move keeps its part. *)
LEMMA CtlFrame ==
    ASSUME NEW j \in Ffn, CtlOK(j), plans' = plans, att'[j].step = att[j].step, ctl'[j] = ctl[j]
    PROVE  CtlOK(j)' /\ Taken(j)' = Taken(j)
  BY DEF CtlOK, Taken

(* An FFN rank that does not move keeps its part. *)
LEMMA FfnFrame ==
    ASSUME NEW j \in Ffn, FfnOK(j), plans' = plans, ffn'[j] = ffn[j], Taken(j)' = Taken(j)
    PROVE  FfnOK(j)'
  BY DEF FfnOK, Active, StageCount, Message

(* An FFN rank that captures nothing keeps what is said of its graphs. *)
LEMMA GraphFrame ==
    ASSUME NEW j \in Ffn, GraphOK(j), graphs'[j] = graphs[j], Taken(j)' = Taken(j)
    PROVE  GraphOK(j)'
  BY DEF GraphOK

(* The two wires of a pair of a running rank after a step. *)
LEMMA UpFrom ==
    ASSUME NEW a \in Att, plans' = plans, att'[a].pc = "run", NEW n, n = att'[a].step,
           NEW rc, rc = Received(Owner(a), Src(a), n)', NEW w, w = a2e'[a], IsSequence(w),
           SentBy(att'[a], StageCount(n)) = rc + Len(w), UpWire(w, rc, a, n)
    PROVE  UpInv(a)'
  <1>1. StageCount(n)' = StageCount(n) /\ UpWire(w, rc, a, n)'
    BY WireFrame
  <1> QED BY <1>1 DEF UpInv

(* The wire to Attention after a step, from its length and what it carries. *)
LEMMA DownFrom ==
    ASSUME NEW a \in Att, plans' = plans, att'[a].pc = "run", NEW n, n = att'[a].step,
           NEW rc, rc = RcvdBy(att'[a], StageCount(n)), NEW w, w = e2a'[a], IsSequence(w),
           Outputs(Owner(a), n)' = rc + Len(w), DownWire(w, rc, a, n)
    PROVE  DownInv(a)'
  <1>1. StageCount(n)' = StageCount(n) /\ DownWire(w, rc, a, n)'
    BY WireFrame
  <1> QED BY <1>1 DEF DownInv

(* A pair whose wires and counts stay as they are. *)
LEMMA PairSame ==
    ASSUME NEW a \in Att, PairOK(a), plans' = plans, att'[a] = att[a],
           a2e'[a] = a2e[a], e2a'[a] = e2a[a], PlaceInv(a)', NEW n, n = att[a].step,
           att[a].pc = "run" =>
             /\ Outputs(Owner(a), n)' = Outputs(Owner(a), n)
             /\ Received(Owner(a), Src(a), n)' = Received(Owner(a), Src(a), n)
    PROVE  PairOK(a)'
  <1>1. UpInv(a) /\ DownInv(a)
    BY DEF PairOK
  <1>2. CASE att[a].pc = "run"
    <2>1. att'[a].pc = "run" /\ n = att'[a].step
      BY <1>2
    <2>2. UpInv(a)'
      <3>1. PICK w : w = a2e[a]
        OBVIOUS
      <3>2. PICK rc : rc = Received(Owner(a), Src(a), n)
        OBVIOUS
      <3>3. /\ IsSequence(w) /\ SentBy(att[a], StageCount(n)) = rc + Len(w)
            /\ UpWire(w, rc, a, n)
        BY <1>1, <1>2, <3>1, <3>2 DEF UpInv
      <3>4. w = a2e'[a] /\ rc = Received(Owner(a), Src(a), n)'
            /\ SentBy(att'[a], StageCount(n)) = rc + Len(w)
        BY <1>2, <3>1, <3>2, <3>3
      <3> QED BY <2>1, <3>3, <3>4, UpFrom
    <2>3. DownInv(a)'
      <3>1. PICK w : w = e2a[a]
        OBVIOUS
      <3>2. PICK rc : rc = RcvdBy(att[a], StageCount(n))
        OBVIOUS
      <3>3. /\ IsSequence(w) /\ Outputs(Owner(a), n) = rc + Len(w)
            /\ DownWire(w, rc, a, n)
        BY <1>1, <1>2, <3>1, <3>2 DEF DownInv
      <3>4. w = e2a'[a] /\ rc = RcvdBy(att'[a], StageCount(n))
            /\ Outputs(Owner(a), n)' = rc + Len(w)
        BY <1>2, <3>1, <3>2, <3>3
      <3> QED BY <2>1, <3>3, <3>4, DownFrom
    <2> QED BY <2>2, <2>3 DEF PairOK
  <1>3. CASE att[a].pc /= "run"
    <2>1. UpInv(a)' /\ DownInv(a)'
      BY <1>1, <1>3 DEF UpInv, DownInv
    <2> QED BY <2>1 DEF PairOK
  <1> QED BY <1>2, <1>3

(* A pair of ranks of which neither moves keeps its part of the invariant. *)
LEMMA PairFrame ==
    ASSUME NEW a \in Att, PairOK(a), plans' = plans, att'[a] = att[a],
           a2e'[a] = a2e[a], e2a'[a] = e2a[a], ffn'[Owner(a)] = ffn[Owner(a)],
           Taken(Owner(a))' = Taken(Owner(a))
    PROVE  PairOK(a)'
  <1>1. PlaceInv(a)'
    BY DEF PairOK, PlaceInv, Active
  <1>2. PICK n : n = att[a].step
    OBVIOUS
  <1>3. Outputs(Owner(a), n)' = Outputs(Owner(a), n)
    BY DEF Outputs, Active, StageCount
  <1>4. Received(Owner(a), Src(a), n)' = Received(Owner(a), Src(a), n)
    BY <1>3 DEF Received, Active
  <1> QED BY <1>1, <1>2, <1>3, <1>4, PairSame

----------------------------------------------------------------------------
(***************************************************************************)
(* The steps of an Attention rank.                                         *)
(***************************************************************************)
(* The types of the counters that the steps move. *)
LEMMA StepTypes ==
    ASSUME IInv
    PROVE  /\ Len(plans) \in Nat
           /\ \A a \in Att : att[a].step \in Nat /\ att[a].step <= Len(plans)
           /\ \A j \in Ffn : /\ j \in Att /\ Taken(j) \in Nat /\ Taken(j) <= Len(plans)
                             /\ Len(ctl[j]) \in Nat /\ Taken(j) + Len(ctl[j]) = att[j].step
  <1>1. Len(plans) \in Nat
    BY SequenceLen DEF IInv, PlansInv
  <1>2. ASSUME NEW a \in Att PROVE att[a].step \in Nat /\ att[a].step <= Len(plans)
    <2>1. att[a].step \in 0 .. Len(plans)
      BY DEF IInv, AttInv, AttOK
    <2> QED BY <1>1, <2>1
  <1>3. ASSUME NEW j \in Ffn
        PROVE  /\ j \in Att /\ Taken(j) \in Nat /\ Taken(j) <= Len(plans)
               /\ Len(ctl[j]) \in Nat /\ Taken(j) + Len(ctl[j]) = att[j].step
    <2>1. j \in Att
      BY SizesAssumption DEF Ffn, Att, ValidTopology
    <2>2. CtlOK(j)
      BY DEF IInv, CtlInv
    <2>3. Len(ctl[j]) \in Nat /\ Len(ctl[j]) <= att[j].step
      BY <2>2, SequenceLen DEF CtlOK
    <2>4. att[j].step \in Nat /\ att[j].step <= Len(plans)
      BY <1>2, <2>1
    <2> QED BY <1>1, <2>1, <2>3, <2>4 DEF Taken
  <1> QED BY <1>1, <1>2, <1>3

(* topology.py: the control payload of a rank goes to the FFN rank of the
   same number. *)
LEMMA ControlGoesTo ==
    ASSUME NEW a \in Att, NEW j \in Ffn
    PROVE  j \in MetadataDestinations("attention", a, A, F) <=> j = a
  <1>1. A \in Nat \ {0} /\ F \in Nat \ {0} /\ F <= A /\ a \in Nat
    BY SizesAssumption DEF ValidTopology, Att
  <1>2. MetadataDestinations("attention", a, A, F) = IF a < F THEN {a} ELSE {}
    BY <1>1, DestinationsOwn
  <1>3. j < F
    BY SizesAssumption DEF Ffn
  <1> QED BY <1>2, <1>3

(* No capture is left out between two steps. *)
LEMMA CapsSplit ==
    ASSUME NEW m \in Nat, NEW n \in Nat
    PROVE  /\ m >= n => Caps(m, n)
           /\ IsCap(m + 1) => (Caps(m, n) <=> Caps(m + 1, n))
           /\ IsCap(n + 1) => (Caps(m, n) <=> Caps(m, n + 1))
           /\ m < n /\ ~IsCap(m + 1) => ~Caps(m, n)
           /\ Caps(m, n + 1) => Caps(m, n)
           /\ Caps(m, n) => Caps(m + 1, n)
  BY DEF Caps

(* send_dp_metadata of a rank, for its pair: nothing of the step has moved,
   and a capture is over at once. *)
LEMMA SendControlPair ==
    ASSUME IInv, NEW a \in Att, att[a].pc = "idle", att[a].step + 1 <= Len(plans),
           plans' = plans, ffn'[Owner(a)] = ffn[Owner(a)],
           Taken(Owner(a))' = Taken(Owner(a)),
           a2e'[a] = a2e[a], e2a'[a] = e2a[a], att'[a].step = att[a].step + 1,
           IF IsCap(att[a].step + 1) THEN att'[a].pc = "idle"
           ELSE /\ att'[a].pc = "run"
                /\ SentBy(att'[a], StageCount(att[a].step + 1)) = 0
                /\ RcvdBy(att'[a], StageCount(att[a].step + 1)) = 0
    PROVE  PairOK(a)'
  <1> DEFINE j == Owner(a)
  <1>1. PICK m : m = att[a].step
    OBVIOUS
  <1>2. PICK t : t = Taken(j)
    OBVIOUS
  <1>3. j \in Ffn
    BY OwnerOf
  <1>4. m \in Nat /\ t \in Nat /\ att'[a].step = m + 1 /\ t = Taken(j)'
    BY <1>1, <1>2, <1>3, StepTypes
  <1>5. PlaceInv(a) /\ UpInv(a) /\ DownInv(a) /\ FfnOK(j)
    BY <1>3 DEF IInv, PairInv, PairOK, FfnInv
  <1>6. Active(j)' <=> Active(j)
    BY DEF Active
  <1>7. /\ IsSequence(a2e[a]) /\ Len(a2e[a]) = 0
        /\ IsSequence(e2a[a]) /\ Len(e2a[a]) = 0
    BY <1>5 DEF UpInv, DownInv
  <1>8. ASSUME Active(j)
        PROVE  /\ m < t /\ Caps(m, t - 1) /\ ~IsCap(t) /\ ffn[j].layer = 1
               /\ ffn[j].stage = 0 /\ ffn[j].got[Src(a)] = <<>>
    BY <1>1, <1>2, <1>5, <1>8 DEF PlaceInv, FfnOK
  <1>9. ASSUME ~Active(j) PROVE Caps(m, t) /\ Caps(t, m)
    BY <1>1, <1>2, <1>5, <1>9 DEF PlaceInv
  <1>10. CASE IsCap(m + 1)
    <2>1. att'[a].pc = "idle"
      BY <1>1, <1>10
    <2>2. UpInv(a)' /\ DownInv(a)'
      BY <1>7, <2>1 DEF UpInv, DownInv
    <2>3. CASE Active(j)
      <3>1. m + 1 < t /\ Caps(m + 1, t - 1)
        BY <1>4, <1>8, <1>10, <2>3 DEF Caps
      <3> QED BY <1>4, <1>6, <1>8, <2>2, <2>3, <3>1 DEF PairOK, PlaceInv
    <2>4. CASE ~Active(j)
      <3>1. Caps(m + 1, t) /\ Caps(t, m + 1)
        BY <1>4, <1>9, <1>10, <2>4 DEF Caps
      <3> QED BY <1>4, <1>6, <2>1, <2>2, <2>4, <3>1 DEF PairOK, PlaceInv
    <2> QED BY <2>3, <2>4
  <1>11. CASE ~IsCap(m + 1)
    <2>1. PICK S : S = StageCount(m + 1)
      OBVIOUS
    <2>2. /\ att'[a].pc = "run" /\ SentBy(att'[a], S) = 0 /\ RcvdBy(att'[a], S) = 0
          /\ S = StageCount(m + 1)' /\ S \in {1, 2}
      <3>1. S \in {1, 2}
        BY <1>1, <1>4, <2>1, PlanAt, StepTypes DEF IInv
      <3> QED BY <1>1, <1>11, <2>1, <3>1 DEF StageCount
    <2>3. ASSUME Active(j) PROVE t = m + 1
      BY <1>4, <1>8, <1>11, <2>3 DEF Caps
    <2>4. ASSUME ~Active(j) PROVE t < m + 1 /\ Caps(t, m)
      BY <1>4, <1>9, <1>11, <2>4 DEF Caps
    <2>5. PlaceInv(a)'
      BY <1>4, <1>6, <2>2, <2>3, <2>4 DEF PlaceInv
    <2>6. Slot(S, 1, 0) = 0 /\ MsgNo(0, 0) = 0
      BY <2>2 DEF Slot, MsgNo
    <2>7. Outputs(j, m + 1)' = 0
      <3>1. CASE Active(j)
        BY <1>4, <1>6, <1>8, <2>2, <2>3, <2>6, <3>1 DEF Outputs
      <3>2. CASE ~Active(j)
        BY <1>4, <1>6, <2>4, <3>2 DEF Outputs
      <3> QED BY <3>1, <3>2
    <2>8. Received(j, Src(a), m + 1)' = 0
      <3>1. CASE Active(j)
        <4>1. Len(ffn'[j].got[Src(a)]) = 0
          BY <1>8, <3>1, EmptySequence
        <4> QED BY <1>4, <1>6, <2>3, <2>6, <2>7, <3>1, <4>1 DEF Received
      <3>2. CASE ~Active(j)
        BY <1>6, <2>6, <2>7, <3>2 DEF Received
      <3> QED BY <3>1, <3>2
    <2>9. UpInv(a)'
      <3>1. PICK w : w = a2e'[a]
        OBVIOUS
      <3>2. IsSequence(w) /\ Len(w) = 0 /\ 0 + Len(w) = 0
        BY <1>7, <3>1
      <3>3. UpWire(w, 0, a, m + 1)
        BY <3>2, WireEmpty
      <3>4. PICK n : n = m + 1
        OBVIOUS
      <3>5. SentBy(att'[a], StageCount(n)) = 0 + Len(w) /\ UpWire(w, 0, a, n)
            /\ 0 = Received(Owner(a), Src(a), n)' /\ n = att'[a].step
        BY <1>4, <2>1, <2>2, <2>8, <3>2, <3>3, <3>4
      <3> QED BY <2>2, <3>1, <3>2, <3>5, UpFrom
    <2>10. DownInv(a)'
      <3>1. PICK w : w = e2a'[a]
        OBVIOUS
      <3>2. IsSequence(w) /\ Len(w) = 0 /\ 0 + Len(w) = 0
        BY <1>7, <3>1
      <3>3. DownWire(w, 0, a, m + 1)
        BY <3>2, WireEmpty
      <3>4. PICK n : n = m + 1
        OBVIOUS
      <3>5. Outputs(Owner(a), n)' = 0 + Len(w) /\ DownWire(w, 0, a, n)
            /\ 0 = RcvdBy(att'[a], StageCount(n)) /\ n = att'[a].step
        BY <1>4, <2>1, <2>2, <2>7, <3>2, <3>3, <3>4
      <3> QED BY <2>2, <3>1, <3>2, <3>5, DownFrom
    <2> QED BY <2>5, <2>9, <2>10 DEF PairOK
  <1> QED BY <1>10, <1>11

(* SendControl: the payload is on the way to the FFN rank that expects it. *)
LEMMA SendControlStep ==
    ASSUME IInv, NEW a \in Att, SendControl(a)
    PROVE  IInv'
  <1>1. PICK n : n = att[a].step + 1
    OBVIOUS
  <1>2. PICK S : S = StageCount(n)
    OBVIOUS
  <1>3. /\ n \in 1 .. Len(plans) /\ S \in {1, 2} /\ S = plans[n].stages
        /\ plans[n].kind = "capture" <=> IsCap(n)
    <2>1. n \in 1 .. Len(plans)
      BY <1>1, StepTypes DEF SendControl
    <2> QED BY <1>2, <2>1, PlanAt DEF IInv
  <1> DEFINE r == IF plans[n].kind = "capture" THEN Idle(n)
                  ELSE [pc |-> "run", step |-> n, turn |-> 0,
                        th |-> [s \in 0 .. plans[n].stages - 1 |->
                                  [layer |-> 1, at |-> "send", part |-> 1]]]
  <1>4. /\ plans' = plans /\ ffn' = ffn /\ graphs' = graphs /\ a2e' = a2e /\ e2a' = e2a
        /\ att[a].pc = "idle" /\ att' = [att EXCEPT ![a] = r]
        /\ ctl' = [j \in Ffn |-> IF j \in MetadataDestinations("attention", a, A, F)
                                 THEN Append(ctl[j], Payload(plans[n], a, n)) ELSE ctl[j]]
    BY <1>1 DEF SendControl, ffnVars
  <1>5. DOMAIN att = Att /\ DOMAIN ctl = Ffn
    BY DEF IInv, AttInv, CtlInv
  <1>6. att'[a] = r /\ DOMAIN att' = Att /\ \A b \in Att : b /= a => att'[b] = att[b]
    BY <1>4, <1>5
  <1>7. r.step = n
    BY DEF Idle
  <1>8. IF IsCap(n) THEN r = Idle(n)
        ELSE /\ r = [pc |-> "run", step |-> n, turn |-> r.turn, th |-> r.th]
             /\ ThreadsOK(r, S) /\ SentBy(r, S) = 0 /\ RcvdBy(r, S) = 0
    <2>1. CASE IsCap(n)
      BY <1>3, <2>1
    <2>2. CASE ~IsCap(n)
      <3>1. r = [pc |-> "run", step |-> n, turn |-> 0,
                 th |-> [s \in 0 .. S - 1 |-> [layer |-> 1, at |-> "send", part |-> 1]]]
        BY <1>3, <2>2
      <3> HIDE DEF r
      <3>2. /\ r.turn = 0
            /\ r.th = [s \in 0 .. S - 1 |-> [layer |-> 1, at |-> "send", part |-> 1]]
            /\ r = [pc |-> "run", step |-> n, turn |-> r.turn, th |-> r.th]
        BY <3>1
      <3>3. ThreadsOK(r, S) /\ SentBy(r, S) = 0 /\ RcvdBy(r, S) = 0
        BY <1>3, <3>2, ThreadsBegin
      <3> QED BY <2>2, <3>2, <3>3
    <2> QED BY <2>1, <2>2
  <1> HIDE DEF r
  <1>9. PlansInv'
    BY <1>4, PlansFrame DEF IInv
  <1>10. ASSUME NEW b \in Att PROVE AttOK(b)'
    <2>1. AttOK(b)
      BY DEF IInv, AttInv
    <2>2. CASE b /= a
      BY <1>4, <1>6, <2>1, <2>2, AttFrame
    <2>3. CASE b = a
      <3>1. att'[a].step = n /\ StageCount(n)' = S
        BY <1>2, <1>4, <1>6, <1>7 DEF StageCount
      <3>2. n \in 0 .. Len(plans)'
        BY <1>3, <1>4
      <3>3. CASE IsCap(n)
        BY <1>6, <1>8, <2>3, <3>1, <3>2, <3>3 DEF AttOK, Idle
      <3>4. CASE ~IsCap(n)
        <4>1. /\ r = [pc |-> "run", step |-> n, turn |-> r.turn, th |-> r.th]
              /\ ThreadsOK(r, S)
          BY <1>8, <3>4
        <4>2. r.pc = "run"
          BY <4>1
        <4>3. n > 0
          BY <1>3
        <4> QED BY <1>6, <2>3, <3>1, <3>2, <3>4, <4>1, <4>2, <4>3 DEF AttOK
      <3> QED BY <3>3, <3>4
    <2> QED BY <2>2, <2>3
  <1>11. ASSUME NEW j \in Ffn PROVE CtlOK(j)' /\ Taken(j)' = Taken(j)
    <2>1. CtlOK(j) /\ j \in Att
      BY StepTypes DEF IInv, CtlInv
    <2>2. CASE j /= a
      <3>1. ctl'[j] = ctl[j]
        BY <1>4, <2>2, ControlGoesTo
      <3>2. att'[j].step = att[j].step
        BY <1>6, <2>1, <2>2
      <3> QED BY <1>4, <2>1, <3>1, <3>2, CtlFrame
    <2>3. CASE j = a
      <3>1. PICK e : e = Payload(plans[n], j, n)
        OBVIOUS
      <3>2. ctl'[j] = Append(ctl[j], e)
        BY <1>4, <2>3, <3>1, ControlGoesTo
      <3>3. PICK k : k = Len(ctl[j])
        OBVIOUS
      <3>4. PICK t : t = Taken(j)
        OBVIOUS
      <3>5. k \in Nat /\ t \in Nat /\ t + k = n - 1 /\ att[j].step = n - 1 /\ n \in Nat
        BY <1>1, <2>3, <3>3, <3>4, StepTypes
      <3>6. /\ IsSequence(ctl'[j]) /\ Len(ctl'[j]) = k + 1
            /\ \A i \in 1 .. k : ctl'[j][i] = ctl[j][i]
            /\ ctl'[j][k + 1] = e
        BY <2>1, <3>2, <3>3, SequenceAppend DEF CtlOK
      <3>7. att'[j].step = n
        BY <1>6, <1>7, <2>3
      <3>8. Taken(j)' = t
        BY <3>5, <3>6, <3>7 DEF Taken
      <3>9. ASSUME NEW i \in 1 .. k + 1
            PROVE  ctl'[j][i] = Payload(plans[t + i], j, t + i)
        <4>1. CASE i = k + 1
          <5>1. t + i = n
            BY <3>5, <4>1
          <5> QED BY <3>1, <3>6, <4>1, <5>1
        <4>2. CASE i \in 1 .. k
          BY <2>1, <3>3, <3>4, <3>6, <4>2 DEF CtlOK
        <4> QED BY <3>5, <4>1, <4>2
      <3>10. k + 1 <= n
        BY <3>5
      <3> QED BY <1>4, <3>4, <3>6, <3>7, <3>8, <3>9, <3>10 DEF CtlOK
    <2> QED BY <2>2, <2>3
  <1>12. ASSUME NEW j \in Ffn PROVE FfnOK(j)' /\ GraphOK(j)'
    BY <1>4, <1>11, FfnFrame, GraphFrame DEF IInv, FfnInv, GraphInv
  <1>13. ASSUME NEW b \in Att PROVE PairOK(b)'
    <2>1. PairOK(b) /\ Owner(b) \in Ffn
      BY OwnerOf DEF IInv, PairInv
    <2>2. Taken(Owner(b))' = Taken(Owner(b))
      BY <1>11, <2>1
    <2>3. CASE b /= a
      BY <1>4, <1>6, <2>1, <2>2, <2>3, PairFrame
    <2>4. CASE b = a
      <3>1. att'[a].step = att[a].step + 1 /\ att[a].step + 1 <= Len(plans)
        BY <1>1, <1>3, <1>6, <1>7
      <3>2. IF IsCap(att[a].step + 1) THEN att'[a].pc = "idle"
            ELSE /\ att'[a].pc = "run"
                 /\ SentBy(att'[a], StageCount(att[a].step + 1)) = 0
                 /\ RcvdBy(att'[a], StageCount(att[a].step + 1)) = 0
        <4>1. CASE IsCap(n)
          BY <1>1, <1>6, <1>8, <4>1 DEF Idle
        <4>2. CASE ~IsCap(n)
          <5>1. r.pc = "run"
            BY <1>8, <4>2
          <5> QED BY <1>1, <1>2, <1>6, <1>8, <4>2, <5>1
        <4> QED BY <4>1, <4>2
      <3> QED BY <1>4, <2>2, <2>4, <3>1, <3>2, SendControlPair
    <2> QED BY <2>3, <2>4
  <1>14. DOMAIN ctl' = Ffn /\ DOMAIN ffn' = Ffn /\ DOMAIN graphs' = Ffn
         /\ DOMAIN a2e' = Att /\ DOMAIN e2a' = Att
    BY <1>4 DEF IInv, FfnInv, GraphInv, PairInv
  <1> QED BY <1>6, <1>9, <1>10, <1>11, <1>12, <1>13, <1>14
       DEF IInv, AttInv, CtlInv, FfnInv, GraphInv, PairInv

(* dbo_yield: the other thread goes on unless it is done. *)
LEMMA OtherThread ==
    ASSUME NEW a \in Att, NEW S \in {1, 2}, NEW th, DOMAIN th = 0 .. S - 1,
           att[a].turn \in 0 .. S - 1
    PROVE  Other(a, th) = IF S = 2 /\ th[1 - att[a].turn].at /= "done"
                          THEN 1 - att[a].turn ELSE att[a].turn
  <1> DEFINE v == att[a].turn
             o == {s \in DOMAIN th : s /= v /\ th[s].at /= "done"}
  <1>1. Other(a, th) = IF o = {} THEN v ELSE CHOOSE s \in o : TRUE
    BY DEF Other
  <1>2. S = 1 => o = {}
    OBVIOUS
  <1>3. S = 2 => o = IF th[1 - v].at /= "done" THEN {1 - v} ELSE {}
    <2>1. S = 2 => v \in {0, 1} /\ DOMAIN th = {0, 1}
      OBVIOUS
    <2>2. S = 2 => \A s \in DOMAIN th : s /= v <=> s = 1 - v
      BY <2>1
    <2>3. S = 2 => 1 - v \in DOMAIN th
      BY <2>1
    <2> QED BY <2>2, <2>3
  <1> HIDE DEF o, v
  <1>4. (CHOOSE s \in {1 - v} : TRUE) = 1 - v
    OBVIOUS
  <1> QED BY <1>1, <1>2, <1>3, <1>4 DEF v

(* What the invariant says of a rank within a step. *)
LEMMA RunAt ==
    ASSUME IInv, NEW a \in Att, att[a].pc = "run",
           NEW n, n = att[a].step, NEW S, S = StageCount(n)
    PROVE  /\ n \in 1 .. Len(plans) /\ ~IsCap(n) /\ PlanOK(plans[n])
           /\ S \in {1, 2} /\ S = plans[n].stages /\ ThreadsOK(att[a], S)
           /\ att[a] = [pc |-> "run", step |-> n, turn |-> att[a].turn, th |-> att[a].th]
           /\ DOMAIN att = Att /\ DOMAIN a2e = Att /\ DOMAIN e2a = Att
           /\ Owner(a) \in Ffn /\ Src(a) \in Srcs(Owner(a))
           /\ PlaceInv(a) /\ UpInv(a) /\ DownInv(a) /\ FfnOK(Owner(a))
  <1>1. AttOK(a) /\ DOMAIN att = Att /\ DOMAIN a2e = Att /\ DOMAIN e2a = Att
    BY DEF IInv, AttInv, PairInv
  <1>2. Owner(a) \in Ffn /\ Src(a) \in Srcs(Owner(a))
    BY OwnerOf
  <1>3. PlaceInv(a) /\ UpInv(a) /\ DownInv(a) /\ FfnOK(Owner(a))
    BY <1>2 DEF IInv, PairInv, PairOK, FfnInv
  <1>4. n \in 1 .. Len(plans)
    BY <1>1, StepTypes DEF AttOK
  <1>5. PlanOK(plans[n]) /\ S \in {1, 2} /\ S = plans[n].stages
    BY <1>4, PlanAt DEF IInv
  <1>6. /\ ~IsCap(n) /\ ThreadsOK(att[a], S)
        /\ att[a] = [pc |-> "run", step |-> n, turn |-> att[a].turn, th |-> att[a].th]
    BY <1>1 DEF AttOK
  <1> QED BY <1>1, <1>2, <1>3, <1>4, <1>5, <1>6

(* The numbers of outputs and of messages that an FFN rank has handled. *)
LEMMA CountTypes ==
    ASSUME IInv, NEW j \in Ffn, NEW k \in Srcs(j), NEW n \in 1 .. Len(plans)
    PROVE  /\ Outputs(j, n) \in Nat /\ Outputs(j, n) <= Slots(StageCount(n))
           /\ Slots(StageCount(n)) \in Nat
           /\ Active(j) /\ Taken(j) = n =>
                /\ Outputs(j, n) < Slots(StageCount(n))
                /\ Len(ffn[j].got[k]) \in Nat /\ Len(ffn[j].got[k]) <= Parts
           /\ Received(j, k, n) \in Nat
           /\ Received(j, k, n)
                = MsgNo(Outputs(j, n), 0)
                  + (IF Active(j) /\ Taken(j) = n THEN Len(ffn[j].got[k]) ELSE 0)
  <1>1. PICK S : S = StageCount(n)
    OBVIOUS
  <1>2. S \in {1, 2} /\ FfnOK(j) /\ L \in Nat /\ L > 0
    BY <1>1, PlanAt, SizesAssumption DEF IInv, FfnInv
  <1>3. Slots(S) \in Nat
    BY <1>2 DEF Slots
  <1>4. ASSUME Active(j), Taken(j) = n
        PROVE  /\ Outputs(j, n) \in Nat /\ Outputs(j, n) < Slots(S)
               /\ Len(ffn[j].got[k]) \in Nat /\ Len(ffn[j].got[k]) <= Parts
    <2>1. /\ ffn[j].layer \in 1 .. L /\ ffn[j].stage \in 0 .. S - 1
          /\ IsSequence(ffn[j].got[k]) /\ Len(ffn[j].got[k]) <= Parts
      BY <1>1, <1>2, <1>4 DEF FfnOK
    <2>2. Outputs(j, n) = Slot(S, ffn[j].layer, ffn[j].stage)
      BY <1>1, <1>4 DEF Outputs
    <2>3. Slot(S, ffn[j].layer, ffn[j].stage) \in Nat
          /\ Slot(S, ffn[j].layer, ffn[j].stage) < Slots(S)
      BY <1>2, <2>1, SlotsCount
    <2>4. Len(ffn[j].got[k]) \in Nat
      BY <2>1, SequenceLen
    <2> QED BY <2>1, <2>2, <2>3, <2>4
  <1>5. ASSUME ~(Active(j) /\ Taken(j) = n)
        PROVE  Outputs(j, n) = 0 \/ Outputs(j, n) = Slots(S)
    BY <1>1, <1>5 DEF Outputs
  <1>6. Outputs(j, n) \in Nat /\ Outputs(j, n) <= Slots(S)
    BY <1>3, <1>4, <1>5
  <1> DEFINE g == IF Active(j) /\ Taken(j) = n THEN Len(ffn[j].got[k]) ELSE 0
  <1>7. g \in Nat
    BY <1>4
  <1>8. Received(j, k, n) = MsgNo(Outputs(j, n), g)
    BY DEF Received
  <1> HIDE DEF g
  <1>9. Received(j, k, n) \in Nat /\ Received(j, k, n) = MsgNo(Outputs(j, n), 0) + g
    BY <1>6, <1>7, <1>8, MessagesCount
  <1> QED BY <1>1, <1>3, <1>4, <1>6, <1>9 DEF g

(* A rank moves within its step: only its own pair is concerned. *)
LEMMA AttStep ==
    ASSUME IInv, NEW a \in Att, NEW r, r.step = att[a].step, att' = [att EXCEPT ![a] = r],
           AttOK(a)', PairOK(a)',
           plans' = plans, ctl' = ctl, ffn' = ffn, graphs' = graphs,
           DOMAIN a2e' = Att, DOMAIN e2a' = Att,
           \A b \in Att : b /= a => a2e'[b] = a2e[b] /\ e2a'[b] = e2a[b]
    PROVE  IInv'
  <1>1. DOMAIN att = Att
    BY DEF IInv, AttInv
  <1>2. /\ DOMAIN att' = Att /\ att'[a] = r
        /\ \A b \in Att : b /= a => att'[b] = att[b]
    BY <1>1
  <1>3. \A b \in Att : att'[b].step = att[b].step
    BY <1>2
  <1>4. PlansInv'
    BY PlansFrame DEF IInv
  <1>5. ASSUME NEW b \in Att PROVE AttOK(b)'
    <2>1. AttOK(b)
      BY DEF IInv, AttInv
    <2>2. CASE b /= a
      BY <1>2, <2>1, <2>2, AttFrame
    <2> QED BY <2>2
  <1>6. ASSUME NEW j \in Ffn PROVE CtlOK(j)' /\ Taken(j)' = Taken(j)
    <2>1. CtlOK(j) /\ att'[j].step = att[j].step
      BY <1>3, StepTypes DEF IInv, CtlInv
    <2> QED BY <2>1, CtlFrame
  <1>7. ASSUME NEW j \in Ffn PROVE FfnOK(j)' /\ GraphOK(j)'
    BY <1>6, FfnFrame, GraphFrame DEF IInv, FfnInv, GraphInv
  <1>8. ASSUME NEW b \in Att PROVE PairOK(b)'
    <2>1. CASE b /= a
      <3>1. PairOK(b) /\ Owner(b) \in Ffn
        BY OwnerOf DEF IInv, PairInv
      <3> QED BY <1>2, <1>6, <2>1, <3>1, PairFrame
    <2> QED BY <2>1
  <1>9. DOMAIN ctl' = Ffn /\ DOMAIN ffn' = Ffn /\ DOMAIN graphs' = Ffn
    BY DEF IInv, CtlInv, FfnInv, GraphInv
  <1> QED BY <1>2, <1>4, <1>5, <1>6, <1>7, <1>8, <1>9
       DEF IInv, AttInv, CtlInv, FfnInv, GraphInv, PairInv

(* The outputs and messages of the pair stay as they are when only Attention
   moves. *)
LEMMA CountsSame ==
    ASSUME NEW j \in Ffn, NEW k, NEW n, plans' = plans, ffn' = ffn, Taken(j)' = Taken(j)
    PROVE  /\ Outputs(j, n)' = Outputs(j, n) /\ Received(j, k, n)' = Received(j, k, n)
           /\ (Active(j)' <=> Active(j))
  <1>1. Active(j)' <=> Active(j)
    BY DEF Active
  <1>2. Outputs(j, n)' = Outputs(j, n)
    BY <1>1 DEF Outputs, StageCount
  <1>3. Received(j, k, n)' = Received(j, k, n)
    BY <1>1, <1>2 DEF Received
  <1> QED BY <1>1, <1>2, <1>3

(* send_attn_output, for the pair: one more message on the wire. *)
LEMMA SendPartPair ==
    ASSUME IInv, NEW a \in Att, att[a].pc = "run",
           NEW n, n = att[a].step, NEW S, S = StageCount(n),
           plans' = plans, ffn' = ffn, Taken(Owner(a))' = Taken(Owner(a)),
           att'[a].pc = "run", att'[a].step = n,
           SentBy(att'[a], S) = SentBy(att[a], S) + 1,
           RcvdBy(att'[a], S) = RcvdBy(att[a], S),
           NEW l \in 1 .. L, NEW s \in 0 .. S - 1, NEW p \in 1 .. Parts,
           SentBy(att[a], S) = MsgNo(Slot(S, l, s), p - 1),
           a2e'[a] = Append(a2e[a], Message(a, n, l, s, p)), e2a'[a] = e2a[a]
    PROVE  PairOK(a)'
  <1> DEFINE j == Owner(a)
             k == Src(a)
  <1>1. /\ n \in 1 .. Len(plans) /\ S \in {1, 2} /\ j \in Ffn /\ k \in Srcs(j)
        /\ PlaceInv(a) /\ UpInv(a) /\ DownInv(a) /\ ThreadsOK(att[a], S)
    BY RunAt
  <1>2. /\ Outputs(j, n)' = Outputs(j, n) /\ Received(j, k, n)' = Received(j, k, n)
        /\ (Active(j)' <=> Active(j)) /\ S = StageCount(n)'
    BY <1>1, CountsSame DEF StageCount
  <1>3. PlaceInv(a)'
    BY <1>1, <1>2 DEF PlaceInv
  <1>4. PICK rc : rc = Received(j, k, n)
    OBVIOUS
  <1>5. PICK e : e = Message(a, n, l, s, p)
    OBVIOUS
  <1>6. PICK w : w = Len(a2e[a])
    OBVIOUS
  <1>7. MsgNo(Slot(S, l, s), p) = MsgNo(Slot(S, l, s), p - 1) + 1
    <2>1. \A x \in Nat, q \in 1 .. Parts : MsgNo(x, q) = MsgNo(x, q - 1) + 1
      BY PartsOf DEF MsgNo
    <2>2. Slot(S, l, s) \in Nat
      BY <1>1, SlotsCount
    <2> QED BY <2>1, <2>2
  <1>8. /\ IsSequence(a2e[a]) /\ w \in Nat /\ rc \in Nat
        /\ SentBy(att[a], S) = rc + w
    <2>1. IsSequence(a2e[a]) /\ SentBy(att[a], S) = rc + w
      BY <1>1, <1>4, <1>6 DEF UpInv
    <2>2. rc \in Nat
      BY <1>1, <1>4, CountTypes
    <2> QED BY <1>6, <2>1, <2>2, SequenceLen
  <1>9. PICK u : u = a2e[a]
    OBVIOUS
  <1>10. PICK v : v = Append(u, e)
    OBVIOUS
  <1>11. IsSequence(v) /\ Len(v) = w + 1 /\ v = a2e'[a] /\ IsSequence(u)
    BY <1>5, <1>6, <1>8, <1>9, <1>10, SequenceAppend
  <1>12. UpInv(a)'
    <2>1. UpWire(u, rc, a, n)
      BY <1>1, <1>4, <1>9 DEF UpInv
    <2>2. MsgNo(Slot(StageCount(n), l, s), p) = rc + Len(u) + 1
      BY <1>6, <1>7, <1>8, <1>9
    <2>3. UpWire(v, rc, a, n)
      BY <1>5, <1>8, <1>10, <1>11, <2>1, <2>2, UpAppend
    <2>4. SentBy(att'[a], StageCount(n)) = rc + Len(v)
      BY <1>8, <1>11
    <2>5. rc = Received(Owner(a), Src(a), n)'
      BY <1>2, <1>4
    <2> QED BY <1>11, <2>3, <2>4, <2>5, UpFrom
  <1>13. DownInv(a)'
    <2>1. PICK z : z = e2a[a]
      OBVIOUS
    <2>2. PICK rd : rd = RcvdBy(att[a], StageCount(n))
      OBVIOUS
    <2>3. IsSequence(z) /\ Outputs(Owner(a), n) = rd + Len(z) /\ DownWire(z, rd, a, n)
      BY <1>1, <2>1, <2>2 DEF DownInv
    <2>4. Outputs(Owner(a), n)' = rd + Len(z) /\ rd = RcvdBy(att'[a], StageCount(n))
          /\ z = e2a'[a]
      BY <1>2, <2>1, <2>2, <2>3
    <2> QED BY <2>3, <2>4, DownFrom
  <1> QED BY <1>3, <1>12, <1>13 DEF PairOK

(* A rank's place with other threads and another turn. *)
LEMMA RunRecord ==
    ASSUME NEW n, NEW v, NEW z, NEW y, NEW w,
           NEW f, f = [pc |-> "run", step |-> n, turn |-> v, th |-> z],
           NEW g, g = [f EXCEPT !.th = y, !.turn = w]
    PROVE  g = [pc |-> "run", step |-> n, turn |-> w, th |-> y]
  <1>1. PICK h : h = [f EXCEPT !.th = y]
    OBVIOUS
  <1>2. h = [pc |-> "run", step |-> n, turn |-> v, th |-> y]
    BY <1>1
  <1>3. g = [h EXCEPT !.turn = w]
    BY <1>1
  <1> QED BY <1>2, <1>3

(* SendPart: a tensor of the microbatch that has the turn. *)
LEMMA SendPartStep ==
    ASSUME IInv, NEW a \in Att, SendPart(a)
    PROVE  IInv'
  <1>1. PICK n : n = att[a].step
    OBVIOUS
  <1>2. PICK S : S = StageCount(n)
    OBVIOUS
  <1>3. PICK v : v = att[a].turn
    OBVIOUS
  <1>4. PICK t : t = att[a].th[v]
    OBVIOUS
  <1>5. /\ att[a].pc = "run" /\ t.at = "send"
        /\ plans' = plans /\ ctl' = ctl /\ ffn' = ffn /\ graphs' = graphs /\ e2a' = e2a
        /\ a2e' = [a2e EXCEPT ![a] = Append(@,
             [step |-> n, layer |-> t.layer, stage |-> v, part |-> WireParts[t.part],
              rows |-> OwnRows(plans[n], v, a)])]
    BY <1>1, <1>3, <1>4 DEF SendPart, Thread, PlanOf, ffnVars
  <1>6. /\ n \in 1 .. Len(plans) /\ ~IsCap(n) /\ S \in {1, 2} /\ ThreadsOK(att[a], S)
        /\ att[a] = [pc |-> "run", step |-> n, turn |-> v, th |-> att[a].th]
        /\ DOMAIN att = Att /\ DOMAIN a2e = Att /\ DOMAIN e2a = Att
        /\ Owner(a) \in Ffn
    BY <1>1, <1>2, <1>3, <1>5, RunAt
  <1>7. /\ v \in 0 .. S - 1 /\ t.layer \in 1 .. L /\ t.part \in 1 .. Parts /\ t \in Place
        /\ att[a].th \in [0 .. S - 1 -> Place]
    BY <1>3, <1>4, <1>6, ThreadAt DEF ThreadsOK
  <1> DEFINE last == t.part = Len(WireParts)
             th == [att[a].th EXCEPT ![v] = IF last THEN [t EXCEPT !.at = "recv"]
                                            ELSE [t EXCEPT !.part = @ + 1]]
             r == [att[a] EXCEPT !.th = th, !.turn = IF last THEN Other(a, th) ELSE @]
  <1>8. att' = [att EXCEPT ![a] = r]
    BY <1>1, <1>3, <1>4, <1>6 DEF SendPart, Thread
  <1>9. /\ r = [pc |-> "run", step |-> n, turn |-> r.turn, th |-> r.th]
        /\ r.th = th /\ r.turn = (IF last THEN Other(a, th) ELSE v)
        /\ r.pc = "run" /\ r.step = n
    <2>1. PICK z : z = att[a].th
      OBVIOUS
    <2>2. att[a] = [pc |-> "run", step |-> n, turn |-> v, th |-> z]
      BY <1>6, <2>1
    <2>3. PICK y : y = th
      OBVIOUS
    <2>4. PICK w : w = IF last THEN Other(a, th) ELSE v
      OBVIOUS
    <2>5. r = [att[a] EXCEPT !.th = y, !.turn = w]
      BY <1>3, <2>3, <2>4
    <2> HIDE DEF th, last, r
    <2>6. r = [pc |-> "run", step |-> n, turn |-> w, th |-> y]
      <3>1. PICK f : f = att[a]
        OBVIOUS
      <3>2. f = [pc |-> "run", step |-> n, turn |-> v, th |-> z]
        BY <2>2, <3>1
      <3>3. r = [f EXCEPT !.th = y, !.turn = w]
        BY <2>5, <3>1
      <3> QED BY <3>2, <3>3, RunRecord, Zenon
    <2> QED BY <2>3, <2>4, <2>6
  <1>10. /\ ThreadsOK(r, S) /\ SentBy(r, S) = SentBy(att[a], S) + 1
         /\ RcvdBy(r, S) = RcvdBy(att[a], S)
    <2>1. CASE t.part /= Parts
      <3>1. /\ r.turn = v
            /\ r.th = [att[a].th EXCEPT ![v] = [t EXCEPT !.part = t.part + 1]]
        BY <1>9, <2>1 DEF Parts
      <3> HIDE DEF r
      <3>2. /\ att[a].th[att[a].turn].at = "send" /\ att[a].th[att[a].turn].part /= Parts
            /\ r.turn = att[a].turn
            /\ r.th = [att[a].th EXCEPT ![att[a].turn] =
                        [att[a].th[att[a].turn] EXCEPT
                           !.part = att[a].th[att[a].turn].part + 1]]
        BY <1>3, <1>4, <1>5, <2>1, <3>1
      <3> QED BY <1>6, <3>2, ThreadSends
    <2>2. CASE t.part = Parts
      <3>1. r.th = [att[a].th EXCEPT ![v] = [t EXCEPT !.at = "recv"]] /\ r.th = th
            /\ r.turn = Other(a, th)
        BY <1>9, <2>2 DEF Parts
      <3>2. DOMAIN th = 0 .. S - 1 /\ (S = 2 => th[1 - v] = att[a].th[1 - v])
        BY <1>7
      <3> HIDE DEF r, th
      <3>3. Other(a, th) = IF S = 2 /\ th[1 - v].at /= "done" THEN 1 - v ELSE v
        BY <1>3, <1>6, <1>7, <3>2, OtherThread
      <3>4. S = 2 => th[1 - v].at /= "done"
        <4>1. S = 2 => HandedOver(t, v, att[a].th[1 - v])
          BY <1>3, <1>4, <1>6 DEF ThreadsOK
        <4>2. S = 2 => att[a].th[1 - v].at \in {"send", "recv"}
          BY <1>5, <4>1 DEF HandedOver
        <4> QED BY <3>2, <4>2
      <3>5. r.turn = IF S = 1 THEN v ELSE 1 - v
        BY <1>6, <3>1, <3>3, <3>4
      <3>6. /\ att[a].th[att[a].turn].at = "send" /\ att[a].th[att[a].turn].part = Parts
            /\ r.turn = (IF S = 1 THEN att[a].turn ELSE 1 - att[a].turn)
            /\ r.th = [att[a].th EXCEPT ![att[a].turn] =
                        [att[a].th[att[a].turn] EXCEPT !.at = "recv"]]
        BY <1>3, <1>4, <1>5, <2>2, <3>1, <3>5
      <3> QED BY <1>6, <3>6, ThreadYields
    <2> QED BY <2>1, <2>2
  <1>11. att'[a] = r
    BY <1>6, <1>8
  <1> HIDE DEF r
  <1>12. AttOK(a)'
    <2>1. att'[a].step = n /\ StageCount(n)' = S /\ att'[a].pc = "run"
      BY <1>2, <1>5, <1>9, <1>11 DEF StageCount
    <2>2. n \in 0 .. Len(plans)' /\ n > 0
      BY <1>5, <1>6
    <2> QED BY <1>6, <1>9, <1>10, <1>11, <2>1, <2>2 DEF AttOK
  <1>13. Taken(Owner(a))' = Taken(Owner(a))
    <2>1. Owner(a) \in Att
      BY <1>6, StepTypes
    <2>2. att'[Owner(a)].step = att[Owner(a)].step
      BY <1>1, <1>6, <1>8, <1>9, <2>1
    <2> QED BY <1>5, <2>2 DEF Taken
  <1>14. PairOK(a)'
    <2>1. a2e'[a] = Append(a2e[a], Message(a, n, t.layer, v, t.part))
      BY <1>5, <1>6 DEF Message
    <2>2. SentBy(att[a], S) = MsgNo(Slot(S, t.layer, v), t.part - 1)
      BY <1>3, <1>4, <1>5 DEF SentBy, SlotAt
    <2>3. PICK l \in 1 .. L : l = t.layer
      BY <1>7
    <2>4. PICK p \in 1 .. Parts : p = t.part
      BY <1>7
    <2>5. a2e'[a] = Append(a2e[a], Message(a, n, l, v, p))
          /\ SentBy(att[a], S) = MsgNo(Slot(S, l, v), p - 1)
      BY <2>1, <2>2, <2>3, <2>4
    <2>6. /\ att'[a].pc = "run" /\ att'[a].step = n
          /\ SentBy(att'[a], S) = SentBy(att[a], S) + 1
          /\ RcvdBy(att'[a], S) = RcvdBy(att[a], S)
      BY <1>9, <1>10, <1>11
    <2> QED BY <1>1, <1>2, <1>5, <1>7, <1>13, <2>5, <2>6, SendPartPair
  <1>15. /\ DOMAIN a2e' = Att /\ DOMAIN e2a' = Att
         /\ \A b \in Att : b /= a => a2e'[b] = a2e[b] /\ e2a'[b] = e2a[b]
    BY <1>5, <1>6
  <1> QED BY <1>1, <1>5, <1>8, <1>9, <1>12, <1>14, <1>15, AttStep

(* recv_ffn_output, for the pair: one output less on the wire. *)
LEMMA RecvOutputPair ==
    ASSUME IInv, NEW a \in Att, att[a].pc = "run",
           NEW n, n = att[a].step, NEW S, S = StageCount(n),
           plans' = plans, ffn' = ffn, Taken(Owner(a))' = Taken(Owner(a)),
           att'[a].pc = "run", att'[a].step = n,
           SentBy(att'[a], S) = SentBy(att[a], S),
           RcvdBy(att'[a], S) = RcvdBy(att[a], S) + 1,
           a2e'[a] = a2e[a], e2a[a] /= <<>>, e2a'[a] = Tail(e2a[a])
    PROVE  PairOK(a)'
  <1> DEFINE j == Owner(a)
             k == Src(a)
  <1>1. /\ n \in 1 .. Len(plans) /\ S \in {1, 2} /\ j \in Ffn /\ k \in Srcs(j)
        /\ PlaceInv(a) /\ UpInv(a) /\ DownInv(a) /\ ThreadsOK(att[a], S)
    BY RunAt
  <1>2. /\ Outputs(j, n)' = Outputs(j, n) /\ Received(j, k, n)' = Received(j, k, n)
        /\ (Active(j)' <=> Active(j)) /\ S = StageCount(n)'
    BY <1>1, CountsSame DEF StageCount
  <1>3. PlaceInv(a)'
    BY <1>1, <1>2 DEF PlaceInv
  <1>4. UpInv(a)'
    <2>1. PICK z : z = a2e[a]
      OBVIOUS
    <2>2. PICK rd : rd = Received(Owner(a), Src(a), n)
      OBVIOUS
    <2>3. /\ IsSequence(z) /\ SentBy(att[a], StageCount(n)) = rd + Len(z)
          /\ UpWire(z, rd, a, n)
      BY <1>1, <2>1, <2>2 DEF UpInv
    <2>4. SentBy(att'[a], StageCount(n)) = rd + Len(z) /\ z = a2e'[a]
          /\ rd = Received(Owner(a), Src(a), n)'
      BY <1>2, <2>1, <2>2, <2>3
    <2> QED BY <2>3, <2>4, UpFrom
  <1>5. PICK rc : rc = RcvdBy(att[a], S)
    OBVIOUS
  <1>6. PICK u : u = e2a[a]
    OBVIOUS
  <1>7. PICK w : w = Len(u)
    OBVIOUS
  <1>8. rc \in Nat /\ IsSequence(u) /\ w \in Nat /\ Outputs(j, n) = rc + w
        /\ DownWire(u, rc, a, n)
    <2>1. IsSequence(u) /\ Outputs(j, n) = rc + w /\ DownWire(u, rc, a, n)
      BY <1>1, <1>5, <1>6, <1>7 DEF DownInv
    <2>2. rc \in Nat
      BY <1>1, <1>5, ThreadAt
    <2> QED BY <1>7, <2>1, <2>2, SequenceLen
  <1>9. PICK v : v = Tail(u)
    OBVIOUS
  <1>10. DownInv(a)'
    <2>1. PICK y : y = Len(v)
      OBVIOUS
    <2>2. PICK z : z = rc + 1
      OBVIOUS
    <2>3. u /= <<>> /\ v = e2a'[a]
      BY <1>6, <1>9
    <2>4. w > 0 /\ IsSequence(v) /\ y = w - 1
      BY <1>7, <1>8, <1>9, <2>1, <2>3, SequenceTail
    <2>5. Outputs(Owner(a), n)' = z + y
      <3>1. rc + w = z + y
        BY <1>8, <2>2, <2>4
      <3> QED BY <1>2, <1>8, <3>1
    <2>6. DownWire(v, z, a, n)
      BY <1>8, <1>9, <2>2, <2>3, DownTail
    <2>7. z = RcvdBy(att'[a], StageCount(n))
      BY <1>5, <2>2
    <2> QED BY <2>1, <2>3, <2>4, <2>5, <2>6, <2>7, DownFrom
  <1> QED BY <1>3, <1>4, <1>10 DEF PairOK

(* ... the last output of a step: nothing of the step is left. *)
LEMMA RecvLastPair ==
    ASSUME IInv, NEW a \in Att, att[a].pc = "run",
           NEW n, n = att[a].step, NEW S, S = StageCount(n),
           plans' = plans, ffn' = ffn, Taken(Owner(a))' = Taken(Owner(a)),
           att'[a].pc = "idle", att'[a].step = n,
           SentBy(att[a], S) = MsgNo(Slots(S), 0), RcvdBy(att[a], S) + 1 = Slots(S),
           a2e'[a] = a2e[a], e2a[a] /= <<>>, e2a'[a] = Tail(e2a[a])
    PROVE  PairOK(a)'
  <1> DEFINE j == Owner(a)
             k == Src(a)
  <1>1. /\ n \in 1 .. Len(plans) /\ S \in {1, 2} /\ j \in Ffn /\ k \in Srcs(j)
        /\ PlaceInv(a) /\ UpInv(a) /\ DownInv(a) /\ ThreadsOK(att[a], S)
    BY RunAt
  <1>2. /\ Outputs(j, n)' = Outputs(j, n) /\ Received(j, k, n)' = Received(j, k, n)
        /\ (Active(j)' <=> Active(j))
    BY <1>1, CountsSame
  <1>3. PICK rc : rc = RcvdBy(att[a], S)
    OBVIOUS
  <1>4. PICK w : w = Len(e2a[a])
    OBVIOUS
  <1>5. PICK o : o = Outputs(j, n)
    OBVIOUS
  <1>6. PICK x : x = Slots(S)
    OBVIOUS
  <1>7. rc \in Nat /\ IsSequence(e2a[a]) /\ w \in Nat /\ o = rc + w /\ o <= x /\ rc + 1 = x
    <2>1. IsSequence(e2a[a]) /\ o = rc + w
      BY <1>1, <1>3, <1>4, <1>5 DEF DownInv
    <2>2. rc \in Nat
      BY <1>1, <1>3, ThreadAt
    <2>3. o <= x
      BY <1>1, <1>5, <1>6, CountTypes
    <2> QED BY <1>3, <1>4, <1>6, <2>1, <2>2, <2>3, SequenceLen
  <1>8. /\ w > 0 /\ IsSequence(e2a'[a]) /\ Len(e2a'[a]) = w - 1
    BY <1>4, <1>7, SequenceTail
  <1>9. w = 1 /\ o = x /\ x > 0
    BY <1>7, <1>8
  <1>10. ~(Active(j) /\ Taken(j) = n)
    <2>1. Active(j) /\ Taken(j) = n => o < x
      BY <1>1, <1>5, <1>6, CountTypes
    <2> QED BY <1>7, <1>9, <2>1
  <1>11. Len(a2e[a]) = 0 /\ IsSequence(a2e[a])
    <2>1. IsSequence(a2e[a]) /\ MsgNo(x, 0) = Received(j, k, n) + Len(a2e[a])
      BY <1>1, <1>6 DEF UpInv
    <2>2. Received(j, k, n) = MsgNo(x, 0) + 0 /\ Received(j, k, n) \in Nat
      BY <1>1, <1>5, <1>9, <1>10, CountTypes
    <2>3. Len(a2e[a]) \in Nat
      BY <2>1, SequenceLen
    <2> QED BY <2>1, <2>2, <2>3
  <1>12. UpInv(a)' /\ DownInv(a)'
    BY <1>8, <1>9, <1>11 DEF UpInv, DownInv
  <1>13. PlaceInv(a)'
    <2>1. CASE Active(j)
      BY <1>1, <1>2, <1>10, <2>1 DEF PlaceInv
    <2>2. CASE ~Active(j)
      <3>1. PICK t : t = Taken(j)
        OBVIOUS
      <3>2. ~(t < n)
        BY <1>5, <1>9, <2>2, <3>1 DEF Outputs
      <3>3. n \in Nat /\ t \in Nat
        BY <1>1, <3>1, StepTypes
      <3>4. n <= t
        BY <3>2, <3>3
      <3>5. Caps(n, t) /\ Caps(t, n)
        BY <1>1, <2>2, <3>1, <3>3, <3>4 DEF PlaceInv, Caps
      <3> QED BY <1>2, <2>2, <3>1, <3>5 DEF PlaceInv
    <2> QED BY <2>1, <2>2
  <1> QED BY <1>12, <1>13 DEF PairOK

(* RecvOutput: the microbatch that has the turn goes on, or its step ends. *)
LEMMA RecvOutputStep ==
    ASSUME IInv, NEW a \in Att, RecvOutput(a)
    PROVE  IInv'
  <1>1. PICK n : n = att[a].step
    OBVIOUS
  <1>2. PICK S : S = StageCount(n)
    OBVIOUS
  <1>3. PICK v : v = att[a].turn
    OBVIOUS
  <1>4. PICK t : t = att[a].th[v]
    OBVIOUS
  <1> DEFINE th == [att[a].th EXCEPT ![v] =
                      IF t.layer < L THEN [layer |-> t.layer + 1, at |-> "send", part |-> 1]
                      ELSE [t EXCEPT !.at = "done"]]
             ended == \A s \in DOMAIN th : th[s].at = "done"
             r == IF ended THEN Idle(n)
                  ELSE [att[a] EXCEPT !.th = th,
                                      !.turn = IF t.layer = L THEN Other(a, th) ELSE v]
  <1>5. /\ att[a].pc = "run" /\ t.at = "recv" /\ e2a[a] /= <<>>
        /\ plans' = plans /\ ctl' = ctl /\ ffn' = ffn /\ graphs' = graphs /\ a2e' = a2e
        /\ e2a' = [e2a EXCEPT ![a] = Tail(e2a[a])]
    BY <1>3, <1>4 DEF RecvOutput, Thread, ffnVars
  <1>6. /\ n \in 1 .. Len(plans) /\ ~IsCap(n) /\ S \in {1, 2} /\ ThreadsOK(att[a], S)
        /\ att[a] = [pc |-> "run", step |-> n, turn |-> v, th |-> att[a].th]
        /\ DOMAIN att = Att /\ DOMAIN a2e = Att /\ DOMAIN e2a = Att
        /\ Owner(a) \in Ffn
    BY <1>1, <1>2, <1>3, <1>5, RunAt
  <1>7. /\ v \in 0 .. S - 1 /\ t.layer \in 1 .. L /\ t \in Place /\ L \in Nat
        /\ att[a].th \in [0 .. S - 1 -> Place]
    BY <1>3, <1>4, <1>6, ThreadAt, SizesAssumption DEF ThreadsOK
  <1>8. att' = [att EXCEPT ![a] = r]
    <2>1. Thread(a) = t
      BY <1>3, <1>4 DEF Thread
    <2> DEFINE th0 == [att[a].th EXCEPT ![att[a].turn] =
                         IF Thread(a).layer < L
                         THEN [layer |-> Thread(a).layer + 1, at |-> "send", part |-> 1]
                         ELSE [Thread(a) EXCEPT !.at = "done"]]
    <2>2. th0 = th
      BY <1>3, <2>1
    <2>3. att' = [att EXCEPT ![a] =
                    IF \A s \in DOMAIN th0 : th0[s].at = "done" THEN Idle(att[a].step)
                    ELSE [att[a] EXCEPT !.th = th0,
                            !.turn = IF Thread(a).layer = L THEN Other(a, th0)
                                     ELSE att[a].turn]]
      BY DEF RecvOutput
    <2>4. PICK e : e = [att[a] EXCEPT !.th = th,
                            !.turn = IF t.layer = L THEN Other(a, th) ELSE v]
      OBVIOUS
    <2>5. e = [att[a] EXCEPT !.th = th0,
                 !.turn = IF Thread(a).layer = L THEN Other(a, th0) ELSE att[a].turn]
      <3> HIDE DEF th, th0
      <3> QED BY <1>3, <2>1, <2>2, <2>4
    <2>6. r = IF ended THEN Idle(n) ELSE e
      BY <2>4
    <2>7. att' = [att EXCEPT ![a] =
                    IF \A s \in DOMAIN th0 : th0[s].at = "done" THEN Idle(att[a].step) ELSE e]
      <3> HIDE DEF th, th0
      <3> QED BY <2>3, <2>5
    <2>8. (\A s \in DOMAIN th0 : th0[s].at = "done") <=> ended
      <3> HIDE DEF th, th0
      <3> QED BY <2>2
    <2> HIDE DEF th, th0, ended, r
    <2> QED BY <1>1, <2>6, <2>7, <2>8
  <1>9. r.step = n
    <2>1. PICK z : z = att[a].th
      OBVIOUS
    <2>2. att[a] = [pc |-> "run", step |-> n, turn |-> v, th |-> z]
      BY <1>6, <2>1
    <2> HIDE DEF th, ended
    <2> QED BY <2>2 DEF Idle
  <1>10. /\ DOMAIN th = 0 .. S - 1
         /\ th[v] = (IF t.layer < L
                     THEN [layer |-> t.layer + 1, at |-> "send", part |-> 1]
                     ELSE [t EXCEPT !.at = "done"])
         /\ S = 2 => th[1 - v] = att[a].th[1 - v]
    <2>1. DOMAIN th = 0 .. S - 1
      BY <1>7
    <2>2. v \in DOMAIN att[a].th
      BY <1>7
    <2>3. S = 2 => 1 - v \in DOMAIN att[a].th /\ 1 - v /= v
      BY <1>7
    <2> QED BY <2>1, <2>2, <2>3
  <1>11. att'[a] = r
    BY <1>6, <1>8
  <1>12. Taken(Owner(a))' = Taken(Owner(a))
    <2>1. Owner(a) \in Att
      BY <1>6, StepTypes
    <2> HIDE DEF r
    <2>2. att'[Owner(a)].step = att[Owner(a)].step
      BY <1>1, <1>6, <1>8, <1>9, <2>1
    <2> QED BY <1>5, <2>2 DEF Taken
  <1>13. e2a'[a] = Tail(e2a[a]) /\ a2e'[a] = a2e[a]
    BY <1>5, <1>6
  <1> HIDE DEF th
  <1>14. ASSUME ~ended,
                ThreadsOK(r, S), SentBy(r, S) = SentBy(att[a], S),
                RcvdBy(r, S) = RcvdBy(att[a], S) + 1
         PROVE  AttOK(a)' /\ PairOK(a)'
    <2>1. /\ r = [pc |-> "run", step |-> n, turn |-> r.turn, th |-> r.th]
          /\ r.pc = "run"
      <3>1. PICK w : w = IF t.layer = L THEN Other(a, th) ELSE v
        OBVIOUS
      <3>2. PICK f : f = att[a]
        OBVIOUS
      <3>3. PICK z : z = att[a].th
        OBVIOUS
      <3>4. f = [pc |-> "run", step |-> n, turn |-> v, th |-> z]
        BY <1>6, <3>2, <3>3
      <3>5. r = [f EXCEPT !.th = th, !.turn = w]
        BY <1>14, <3>1, <3>2
      <3> HIDE DEF r
      <3>6. r = [pc |-> "run", step |-> n, turn |-> w, th |-> th]
        BY <3>4, <3>5, RunRecord, Zenon
      <3> QED BY <3>6
    <2> HIDE DEF r, ended
    <2>2. AttOK(a)'
      <3>1. att'[a].step = n /\ StageCount(n)' = S /\ att'[a].pc = "run"
        BY <1>2, <1>5, <1>9, <1>11, <2>1 DEF StageCount
      <3>2. n \in 0 .. Len(plans)' /\ n > 0
        BY <1>5, <1>6
      <3> QED BY <1>6, <1>11, <1>14, <2>1, <3>1, <3>2 DEF AttOK
    <2>3. PairOK(a)'
      <3>1. /\ att'[a].pc = "run" /\ att'[a].step = n
            /\ SentBy(att'[a], S) = SentBy(att[a], S)
            /\ RcvdBy(att'[a], S) = RcvdBy(att[a], S) + 1
        BY <1>9, <1>11, <1>14, <2>1
      <3> QED BY <1>1, <1>2, <1>5, <1>12, <1>13, <3>1, RecvOutputPair
    <2> QED BY <2>2, <2>3
  <1>15. ASSUME t.layer < L
         PROVE  AttOK(a)' /\ PairOK(a)'
    <2>1. v \in DOMAIN th /\ th[v] = [layer |-> t.layer + 1, at |-> "send", part |-> 1]
      BY <1>7, <1>10, <1>15
    <2>2. ~ended
      BY <2>1
    <2>3. r.turn = v /\ r.th = th
      <3>1. t.layer /= L
        BY <1>7, <1>15
      <3>2. r = [att[a] EXCEPT !.th = th, !.turn = v]
        BY <2>2, <3>1
      <3>3. PICK f : f = att[a]
        OBVIOUS
      <3>4. PICK z : z = att[a].th
        OBVIOUS
      <3>5. f = [pc |-> "run", step |-> n, turn |-> v, th |-> z]
        BY <1>6, <3>3, <3>4
      <3>6. r = [f EXCEPT !.th = th, !.turn = v]
        BY <3>2, <3>3
      <3> HIDE DEF r
      <3>7. r = [pc |-> "run", step |-> n, turn |-> v, th |-> th]
        BY <3>5, <3>6, RunRecord, Zenon
      <3> QED BY <3>7
    <2> HIDE DEF r, ended
    <2>4. /\ att[a].th[att[a].turn].at = "recv" /\ att[a].th[att[a].turn].layer < L
          /\ r.turn = att[a].turn
          /\ r.th = [att[a].th EXCEPT ![att[a].turn] =
                       [layer |-> att[a].th[att[a].turn].layer + 1, at |-> "send", part |-> 1]]
      BY <1>3, <1>4, <1>5, <1>15, <2>3 DEF th
    <2>5. /\ ThreadsOK(r, S) /\ SentBy(r, S) = SentBy(att[a], S)
          /\ RcvdBy(r, S) = RcvdBy(att[a], S) + 1
      <3>1. PICK f : f = att[a]
        OBVIOUS
      <3>2. PICK g : g = r
        OBVIOUS
      <3>3. /\ f.th[f.turn].at = "recv" /\ f.th[f.turn].layer < L /\ g.turn = f.turn
            /\ g.th = [f.th EXCEPT ![f.turn] =
                         [layer |-> f.th[f.turn].layer + 1, at |-> "send", part |-> 1]]
            /\ ThreadsOK(f, S) /\ S \in {1, 2}
        BY <1>6, <2>4, <3>1, <3>2
      <3>4. /\ ThreadsOK(g, S) /\ SentBy(g, S) = SentBy(f, S)
            /\ RcvdBy(g, S) = RcvdBy(f, S) + 1
        BY <3>3, ThreadReceives
      <3> QED BY <3>1, <3>2, <3>4, Zenon
    <2> QED BY <1>14, <2>2, <2>5
  <1>16. ASSUME t.layer = L /\ S = 2 /\ v = 0
         PROVE  AttOK(a)' /\ PairOK(a)'
    <2>1. th[1].at = "recv" /\ 1 \in DOMAIN th
      <3>1. HandedOver(t, 0, att[a].th[1])
        BY <1>3, <1>4, <1>6, <1>16 DEF ThreadsOK
      <3>2. att[a].th[1].at = "recv"
        BY <1>5, <3>1 DEF HandedOver
      <3> QED BY <1>10, <1>16, <3>2
    <2>2. ~ended
      BY <2>1
    <2>3. Other(a, th) = 1
      <3>1. S \in {1, 2} /\ DOMAIN th = 0 .. S - 1 /\ att[a].turn \in 0 .. S - 1
        BY <1>3, <1>6, <1>7, <1>10
      <3>2. Other(a, th) = IF S = 2 /\ th[1 - att[a].turn].at /= "done"
                           THEN 1 - att[a].turn ELSE att[a].turn
        BY <3>1, OtherThread
      <3>3. att[a].turn = 0 /\ th[1].at /= "done"
        BY <1>3, <1>16, <2>1
      <3> QED BY <1>16, <3>2, <3>3
    <2>4. r.turn = 1 /\ r.th = th
      <3>2. r = [att[a] EXCEPT !.th = th, !.turn = 1]
        BY <1>16, <2>2, <2>3
      <3>3. PICK f : f = att[a]
        OBVIOUS
      <3>4. PICK z : z = att[a].th
        OBVIOUS
      <3>5. f = [pc |-> "run", step |-> n, turn |-> v, th |-> z]
        BY <1>6, <3>3, <3>4
      <3>6. r = [f EXCEPT !.th = th, !.turn = 1]
        BY <3>2, <3>3
      <3> HIDE DEF r
      <3>7. r = [pc |-> "run", step |-> n, turn |-> 1, th |-> th]
        BY <3>5, <3>6, RunRecord, Zenon
      <3> QED BY <3>7
    <2> HIDE DEF r, ended
    <2>5. /\ att[a].th[att[a].turn].at = "recv" /\ att[a].th[att[a].turn].layer = L
          /\ att[a].turn = 0 /\ r.turn = 1
          /\ r.th = [att[a].th EXCEPT ![att[a].turn] =
                       [att[a].th[att[a].turn] EXCEPT !.at = "done"]]
      <3>1. ~(t.layer < L)
        BY <1>7, <1>16
      <3> QED BY <1>3, <1>4, <1>5, <1>16, <2>4, <3>1 DEF th
    <2>6. /\ ThreadsOK(r, 2) /\ SentBy(r, 2) = SentBy(att[a], 2)
          /\ RcvdBy(r, 2) = RcvdBy(att[a], 2) + 1
      <3>1. PICK f : f = att[a]
        OBVIOUS
      <3>2. PICK g : g = r
        OBVIOUS
      <3>3. /\ f.th[f.turn].at = "recv" /\ f.th[f.turn].layer = L
            /\ f.turn = 0 /\ g.turn = 1
            /\ g.th = [f.th EXCEPT ![f.turn] = [f.th[f.turn] EXCEPT !.at = "done"]]
            /\ ThreadsOK(f, 2)
        BY <1>6, <1>16, <2>5, <3>1, <3>2
      <3>4. /\ ThreadsOK(g, 2) /\ SentBy(g, 2) = SentBy(f, 2)
            /\ RcvdBy(g, 2) = RcvdBy(f, 2) + 1
        BY <3>3, ThreadEnds
      <3> QED BY <3>1, <3>2, <3>4, Zenon
    <2> QED BY <1>14, <1>16, <2>2, <2>6
  <1>17. ASSUME t.layer = L /\ (S = 1 \/ v = 1)
         PROVE  AttOK(a)' /\ PairOK(a)'
    <2>1. /\ SentBy(att[a], S) = MsgNo(Slots(S), 0) /\ RcvdBy(att[a], S) + 1 = Slots(S)
          /\ S = 2 => att[a].th[0].at = "done"
      BY <1>3, <1>4, <1>5, <1>6, <1>17, ThreadsEnd
    <2>2. ended
      <3>1. th[v].at = "done"
        <4>1. ~(t.layer < L)
          BY <1>7, <1>17
        <4> QED BY <1>7, <1>10, <4>1 DEF Place
      <3>2. S = 2 => th[0].at = "done"
        BY <1>10, <1>17, <2>1
      <3>3. \A s \in DOMAIN th : s = v \/ (S = 2 /\ s = 0)
        BY <1>6, <1>7, <1>10, <1>17
      <3> QED BY <3>1, <3>2, <3>3
    <2>3. r = Idle(n)
      BY <2>2
    <2> HIDE DEF r, ended
    <2>4. att'[a] = Idle(n) /\ att'[a].pc = "idle" /\ att'[a].step = n
      BY <1>11, <2>3 DEF Idle
    <2>5. AttOK(a)'
      <3>1. n \in 0 .. Len(plans)'
        BY <1>5, <1>6
      <3> QED BY <2>4, <3>1 DEF AttOK
    <2>6. PairOK(a)'
      <3>1. SentBy(att[a], S) = MsgNo(Slots(S), 0) /\ RcvdBy(att[a], S) + 1 = Slots(S)
        BY <2>1
      <3>2. att'[a].pc = "idle" /\ att'[a].step = n
        BY <2>4
      <3> QED BY <1>1, <1>2, <1>5, <1>12, <1>13, <3>1, <3>2, RecvLastPair
    <2> QED BY <2>5, <2>6
  <1>18. AttOK(a)' /\ PairOK(a)'
    <2>1. t.layer < L \/ t.layer = L
      BY <1>7
    <2>2. S \in {1, 2} /\ v \in 0 .. S - 1
      BY <1>6, <1>7
    <2>3. (S = 2 /\ v = 0) \/ S = 1 \/ v = 1
      BY <2>2
    <2> QED BY <1>15, <1>16, <1>17, <2>1, <2>3
  <1>19. /\ DOMAIN a2e' = Att /\ DOMAIN e2a' = Att
         /\ \A b \in Att : b /= a => a2e'[b] = a2e[b] /\ e2a'[b] = e2a[b]
    BY <1>5, <1>6
  <1> HIDE DEF r
  <1> QED BY <1>1, <1>5, <1>8, <1>9, <1>18, <1>19, AttStep

----------------------------------------------------------------------------
(***************************************************************************)
(* The steps of an FFN rank.                                               *)
(***************************************************************************)
(* An FFN rank moves within its payload: only its own pairs are concerned. *)
LEMMA FfnStep ==
    ASSUME IInv, NEW j \in Ffn, plans' = plans, att' = att, ctl' = ctl, graphs' = graphs,
           DOMAIN ffn' = Ffn, \A i \in Ffn : i /= j => ffn'[i] = ffn[i], FfnOK(j)',
           DOMAIN a2e' = Att, DOMAIN e2a' = Att,
           \A a \in Att : Owner(a) /= j => a2e'[a] = a2e[a] /\ e2a'[a] = e2a[a],
           \A k \in Srcs(j) : PairOK(Peer(j, k))'
    PROVE  IInv'
  <1>1. PlansInv'
    BY PlansFrame DEF IInv
  <1>2. DOMAIN att' = Att /\ \A a \in Att : AttOK(a)'
    BY AttFrame DEF IInv, AttInv
  <1>3. ASSUME NEW i \in Ffn PROVE CtlOK(i)' /\ Taken(i)' = Taken(i)
    BY CtlFrame DEF IInv, CtlInv
  <1>4. ASSUME NEW i \in Ffn PROVE FfnOK(i)'
    <2>1. CASE i /= j
      BY <1>3, <2>1, FfnFrame DEF IInv, FfnInv
    <2> QED BY <2>1
  <1>5. ASSUME NEW i \in Ffn PROVE GraphOK(i)'
    BY <1>3, GraphFrame DEF IInv, GraphInv
  <1>6. ASSUME NEW a \in Att PROVE PairOK(a)'
    <2>1. Owner(a) \in Ffn /\ Src(a) \in Srcs(Owner(a)) /\ Peer(Owner(a), Src(a)) = a
      BY OwnerOf
    <2>2. CASE Owner(a) = j
      BY <2>1, <2>2
    <2>3. CASE Owner(a) /= j
      <3>1. PairOK(a) /\ ffn'[Owner(a)] = ffn[Owner(a)]
        BY <2>1, <2>3 DEF IInv, PairInv
      <3>2. Taken(Owner(a))' = Taken(Owner(a))
        BY <1>3, <2>1
      <3> QED BY <2>3, <3>1, <3>2, PairFrame
    <2> QED BY <2>2, <2>3
  <1>7. DOMAIN ctl' = Ffn /\ DOMAIN graphs' = Ffn
    BY DEF IInv, CtlInv, GraphInv
  <1> QED BY <1>1, <1>2, <1>3, <1>4, <1>5, <1>6, <1>7
       DEF IInv, AttInv, CtlInv, FfnInv, GraphInv, PairInv

(* Close: a rank that is not in a payload stays out of one. *)
LEMMA CloseStep ==
    ASSUME IInv, NEW j \in Ffn, Close(j)
    PROVE  IInv'
  <1>1. /\ plans' = plans /\ att' = att /\ ctl' = ctl /\ graphs' = graphs
        /\ a2e' = a2e /\ e2a' = e2a /\ ffn[j].pc = "wait"
        /\ ffn' = [ffn EXCEPT ![j] = [pc |-> "closed"]]
    BY DEF Close
  <1>2. DOMAIN ffn = Ffn /\ DOMAIN a2e = Att /\ DOMAIN e2a = Att
    BY DEF IInv, FfnInv, PairInv
  <1>3. DOMAIN ffn' = Ffn /\ ffn'[j].pc = "closed" /\ \A i \in Ffn : i /= j => ffn'[i] = ffn[i]
    BY <1>1, <1>2
  <1>4. ~Active(j) /\ ~Active(j)'
    BY <1>1, <1>3 DEF Active
  <1>5. FfnOK(j)'
    BY <1>3, <1>4 DEF FfnOK
  <1>6. Taken(j)' = Taken(j)
    BY <1>1 DEF Taken
  <1>7. ASSUME NEW k \in Srcs(j) PROVE PairOK(Peer(j, k))'
    <2>1. PICK a : a = Peer(j, k)
      OBVIOUS
    <2>2. a \in Att /\ Owner(a) = j /\ Src(a) = k /\ PairOK(a)
      BY <2>1, PeerOwner DEF IInv, PairInv
    <2>3. PlaceInv(a)'
      BY <1>1, <1>4, <1>6, <2>2 DEF PairOK, PlaceInv
    <2>4. PICK n : n = att[a].step
      OBVIOUS
    <2>5. Outputs(j, n)' = Outputs(j, n)
      BY <1>1, <1>4, <1>6 DEF Outputs, StageCount
    <2>6. Received(j, k, n)' = Received(j, k, n)
      BY <1>4, <2>5 DEF Received
    <2>7. PairOK(a)'
      BY <1>1, <2>2, <2>3, <2>4, <2>5, <2>6, PairSame
    <2> QED BY <2>1, <2>7
  <1> QED BY <1>1, <1>2, <1>3, <1>5, <1>7, FfnStep

(* A place of an FFN rank, with other values. *)
LEMMA PayRecord ==
    ASSUME NEW a1, NEW a2, NEW a3, NEW a4, NEW a5, NEW a6, NEW a7, NEW y, NEW z,
           NEW f, f = [pc |-> a1, pay |-> a2, mode |-> a3, rows |-> a4, layer |-> a5,
                       stage |-> a6, got |-> a7],
           NEW g, g = [f EXCEPT !.got = y, !.pc = z]
    PROVE  g = [pc |-> z, pay |-> a2, mode |-> a3, rows |-> a4, layer |-> a5,
                stage |-> a6, got |-> y]
  <1>1. PICK h : h = [f EXCEPT !.got = y]
    OBVIOUS
  <1>2. h = [pc |-> a1, pay |-> a2, mode |-> a3, rows |-> a4, layer |-> a5,
             stage |-> a6, got |-> y]
    BY <1>1
  <1>3. g = [h EXCEPT !.pc = z]
    BY <1>1
  <1> QED BY <1>2, <1>3

(* What the invariant says of an FFN rank within a payload. *)
LEMMA ActiveAt ==
    ASSUME IInv, NEW j \in Ffn, Active(j), NEW n, n = Taken(j), NEW S, S = StageCount(n)
    PROVE  /\ n \in 1 .. Len(plans) /\ ~IsCap(n) /\ PlanOK(plans[n])
           /\ S \in {1, 2} /\ S = plans[n].stages
           /\ ffn[j].layer \in 1 .. L /\ ffn[j].stage \in 0 .. S - 1
           /\ DOMAIN ffn[j].got = Srcs(j)
           /\ Outputs(j, n) = Slot(S, ffn[j].layer, ffn[j].stage)
           /\ Slot(S, ffn[j].layer, ffn[j].stage) \in Nat
           /\ \A k \in Srcs(j) :
                Received(j, k, n) = MsgNo(Slot(S, ffn[j].layer, ffn[j].stage), Len(ffn[j].got[k]))
           /\ FfnOK(j)
  <1>1. FfnOK(j)
    BY DEF IInv, FfnInv
  <1>2. /\ n > 0 /\ ~IsCap(n) /\ ffn[j].layer \in 1 .. L /\ ffn[j].stage \in 0 .. S - 1
        /\ DOMAIN ffn[j].got = Srcs(j)
    BY <1>1 DEF FfnOK
  <1>3. n \in Nat /\ n <= Len(plans) /\ Len(plans) \in Nat
    BY StepTypes
  <1>4. n \in 1 .. Len(plans)
    BY <1>2, <1>3
  <1>5. PlanOK(plans[n]) /\ S \in {1, 2} /\ S = plans[n].stages
    BY <1>4, PlanAt DEF IInv
  <1>6. Outputs(j, n) = Slot(S, ffn[j].layer, ffn[j].stage)
    BY DEF Outputs
  <1>7. \A k \in Srcs(j) :
          Received(j, k, n) = MsgNo(Slot(S, ffn[j].layer, ffn[j].stage), Len(ffn[j].got[k]))
    BY <1>6 DEF Received
  <1>8. Slot(S, ffn[j].layer, ffn[j].stage) \in Nat
    BY <1>2, <1>5, SlotsCount
  <1> QED BY <1>1, <1>2, <1>4, <1>5, <1>6, <1>7, <1>8

(* recv_attn_output takes from the wire what it asks for: the peer is in the
   same step, and its next tensor is that of the same layer and stage. *)
LEMMA RecvFrom ==
    ASSUME IInv, NEW j \in Ffn, NEW k \in Srcs(j), ffn[j].pc = "recv",
           Len(ffn[j].got[k]) < Parts, a2e[Peer(j, k)] /= <<>>,
           NEW a, a = Peer(j, k), NEW n, n = Taken(j), NEW g, g = Len(ffn[j].got[k])
    PROVE  /\ att[a].pc = "run" /\ att[a].step = n /\ g \in Nat /\ g < Parts
           /\ Head(a2e[a]) = Message(a, n, ffn[j].layer, ffn[j].stage, g + 1)
  <1>1. PICK S : S = StageCount(n)
    OBVIOUS
  <1>2. Active(j)
    BY DEF Active
  <1>3. /\ n \in 1 .. Len(plans) /\ S \in {1, 2}
        /\ ffn[j].layer \in 1 .. L /\ ffn[j].stage \in 0 .. S - 1
        /\ \A i \in Srcs(j) :
             Received(j, i, n) = MsgNo(Slot(S, ffn[j].layer, ffn[j].stage), Len(ffn[j].got[i]))
        /\ Slot(S, ffn[j].layer, ffn[j].stage) \in Nat /\ FfnOK(j)
    BY <1>1, <1>2, ActiveAt
  <1>4. /\ a \in Att /\ Owner(a) = j /\ Src(a) = k
        /\ PlaceInv(a) /\ UpInv(a) /\ AttOK(a)
    BY PeerOwner DEF IInv, PairInv, PairOK, AttInv
  <1>5. /\ IsSequence(a2e[a]) /\ Len(a2e[a]) \in Nat /\ Len(a2e[a]) > 0
        /\ Head(a2e[a]) = a2e[a][1]
    <2>1. IsSequence(a2e[a])
      BY <1>4 DEF UpInv
    <2> QED BY <2>1, SequenceLen, SequenceTail
  <1>6. att[a].pc = "run"
    BY <1>4, <1>5 DEF UpInv
  <1>7. g \in Nat /\ g < Parts
    <2>1. IsSequence(ffn[j].got[k])
      BY <1>2, <1>3 DEF FfnOK
    <2> QED BY <2>1, SequenceLen
  <1>8. att[a].step = n
    <2>1. SUFFICES ASSUME att[a].step /= n PROVE FALSE
      OBVIOUS
    <2>2. PICK m : m = att[a].step
      OBVIOUS
    <2>3. PICK z : z = StageCount(m)
      OBVIOUS
    <2>4. m < n
      BY <1>2, <1>4, <2>1, <2>2 DEF PlaceInv
    <2>5. m \in 1 .. Len(plans) /\ z \in {1, 2} /\ ThreadsOK(att[a], z)
      BY <1>4, <1>6, <2>2, <2>3, RunAt
    <2>6. ~(n = m) /\ ~(n < m)
      BY <1>3, <2>4, <2>5
    <2>7. Outputs(j, m) = Slots(z)
      BY <2>3, <2>6 DEF Outputs
    <2>8. Received(j, k, m) = MsgNo(Slots(z), 0)
      BY <2>6, <2>7 DEF Received
    <2>9. SentBy(att[a], z) = MsgNo(Slots(z), 0) + Len(a2e[a])
      BY <1>4, <1>6, <2>2, <2>3, <2>8 DEF UpInv
    <2>10. /\ SentBy(att[a], z) <= MsgNo(Slots(z), 0) /\ Slots(z) \in Nat
      BY <2>5, ThreadAt
    <2>11. MsgNo(Slots(z), 0) \in Nat
      BY <2>10, MessagesCount
    <2> QED BY <1>5, <2>9, <2>10, <2>11
  <1>9. PICK x : x = Slot(S, ffn[j].layer, ffn[j].stage)
    OBVIOUS
  <1>10. x \in Nat /\ Received(j, k, n) = MsgNo(x, g)
    BY <1>3, <1>9
  <1>11. PICK l \in 1 .. L, s \in 0 .. S - 1, p \in 1 .. Parts :
           MsgNo(Slot(S, l, s), p) = MsgNo(x, g) + 1 /\ a2e[a][1] = Message(a, n, l, s, p)
    <2>1. 1 \in 1 .. Len(a2e[a])
      BY <1>5
    <2> QED BY <1>1, <1>4, <1>6, <1>8, <1>10, <2>1 DEF UpInv, UpWire
  <1>12. MsgNo(x, g) + 1 = MsgNo(x, g + 1) /\ g + 1 \in 1 .. Parts
    <2>1. \A y, q \in Nat : MsgNo(y, q) + 1 = MsgNo(y, q + 1)
      BY DEF MsgNo
    <2>2. Parts \in Nat
      BY PartsOf
    <2>3. g + 1 \in 1 .. Parts
      BY <1>7, <2>2
    <2>4. MsgNo(x, g) + 1 = MsgNo(x, g + 1)
      BY <1>7, <1>10, <2>1
    <2> QED BY <2>3, <2>4
  <1>13. Slot(S, l, s) \in Nat
    BY <1>3, SlotsCount
  <1>14. Slot(S, l, s) = x /\ p = g + 1
    BY <1>10, <1>11, <1>12, <1>13, MessagesDiffer
  <1>15. l = ffn[j].layer /\ s = ffn[j].stage
    <2>1. PICK ll : ll = ffn[j].layer
      OBVIOUS
    <2>2. PICK ss : ss = ffn[j].stage
      OBVIOUS
    <2>3. ll \in 1 .. L /\ ss \in 0 .. S - 1 /\ Slot(S, l, s) = Slot(S, ll, ss)
      BY <1>3, <1>9, <1>14, <2>1, <2>2
    <2> QED BY <1>3, <2>1, <2>2, <2>3, SlotsDiffer
  <1>16. Head(a2e[a]) = Message(a, n, ffn[j].layer, ffn[j].stage, g + 1)
    BY <1>5, <1>11, <1>14, <1>15
  <1> QED BY <1>6, <1>7, <1>8, <1>16

(* ... for the pair: one message less on the wire. *)
LEMMA RecvPartPair ==
    ASSUME IInv, NEW j \in Ffn, NEW k \in Srcs(j), Active(j), Active(j)',
           NEW a, a = Peer(j, k), NEW n, n = Taken(j), n = Taken(j)',
           att[a].pc = "run", att[a].step = n, plans' = plans, att' = att,
           ffn'[j].layer = ffn[j].layer, ffn'[j].stage = ffn[j].stage,
           NEW g \in Nat, g = Len(ffn[j].got[k]), Len(ffn'[j].got[k]) = g + 1,
           a2e[a] /= <<>>, a2e'[a] = Tail(a2e[a]), e2a'[a] = e2a[a]
    PROVE  PairOK(a)'
  <1>1. PICK S : S = StageCount(n)
    OBVIOUS
  <1>2. PICK x : x = Slot(S, ffn[j].layer, ffn[j].stage)
    OBVIOUS
  <1>3. /\ a \in Att /\ Owner(a) = j /\ Src(a) = k /\ UpInv(a) /\ DownInv(a)
    BY PeerOwner DEF IInv, PairInv, PairOK
  <1>4. S \in {1, 2} /\ x \in Nat /\ Outputs(j, n) = x /\ Received(j, k, n) = MsgNo(x, g)
    BY <1>1, <1>2, ActiveAt
  <1>5. S = StageCount(n)'
    BY <1>1 DEF StageCount
  <1>6. Outputs(j, n)' = x
    BY <1>2, <1>5 DEF Outputs
  <1>7. Received(j, k, n)' = MsgNo(x, g + 1)
    BY <1>6 DEF Received
  <1>8. PICK rc : rc = Received(j, k, n)
    OBVIOUS
  <1>9. rc \in Nat /\ Received(j, k, n)' = rc + 1
    <2>1. \A y, q \in Nat : MsgNo(y, q) + 1 = MsgNo(y, q + 1) /\ MsgNo(y, q) \in Nat
      BY DEF MsgNo
    <2> QED BY <1>4, <1>7, <1>8, <2>1
  <1>10. att'[a].pc = "run" /\ n = att'[a].step
    OBVIOUS
  <1>11. UpInv(a)'
    <2>1. PICK u : u = a2e[a]
      OBVIOUS
    <2>2. PICK v : v = Tail(u)
      OBVIOUS
    <2>3. PICK w : w = Len(u)
      OBVIOUS
    <2>4. IsSequence(u) /\ SentBy(att[a], StageCount(n)) = rc + w /\ UpWire(u, rc, a, n)
      BY <1>3, <1>8, <2>1, <2>3 DEF UpInv
    <2>5. u /= <<>> /\ v = a2e'[a]
      BY <2>1, <2>2
    <2>6. PICK y : y = Len(v)
      OBVIOUS
    <2>7. PICK z : z = rc + 1
      OBVIOUS
    <2>8. w \in Nat /\ w > 0 /\ IsSequence(v) /\ y = w - 1
      BY <2>2, <2>3, <2>4, <2>5, <2>6, SequenceLen, SequenceTail
    <2>9. SentBy(att'[a], StageCount(n)) = z + y
      <3>1. rc + w = z + y
        BY <1>9, <2>7, <2>8
      <3> QED BY <2>4, <3>1
    <2>10. UpWire(v, z, a, n)
      BY <1>9, <2>2, <2>4, <2>5, <2>7, UpTail
    <2>11. z = Received(Owner(a), Src(a), n)'
      BY <1>3, <1>9, <2>7
    <2> QED BY <1>3, <1>10, <2>5, <2>6, <2>8, <2>9, <2>10, <2>11, UpFrom
  <1>12. DownInv(a)'
    <2>1. PICK z : z = e2a[a]
      OBVIOUS
    <2>2. PICK rd : rd = RcvdBy(att[a], StageCount(n))
      OBVIOUS
    <2>3. IsSequence(z) /\ Outputs(Owner(a), n) = rd + Len(z) /\ DownWire(z, rd, a, n)
      BY <1>3, <2>1, <2>2 DEF DownInv
    <2>4. Outputs(Owner(a), n)' = rd + Len(z) /\ rd = RcvdBy(att'[a], StageCount(n))
          /\ z = e2a'[a]
      BY <1>3, <1>4, <1>6, <2>1, <2>2, <2>3
    <2> QED BY <1>3, <1>10, <2>3, <2>4, DownFrom
  <1>13. PlaceInv(a)'
    BY <1>3 DEF PlaceInv
  <1> QED BY <1>11, <1>12, <1>13 DEF PairOK

(* RecvPart: a tensor of the transfer that the FFN rank is at. *)
LEMMA RecvPartStep ==
    ASSUME IInv, NEW j \in Ffn, NEW k \in Srcs(j), RecvPart(j, k)
    PROVE  IInv'
  <1>1. PICK a : a = Peer(j, k)
    OBVIOUS
  <1>2. PICK n : n = Taken(j)
    OBVIOUS
  <1>3. PICK g : g = Len(ffn[j].got[k])
    OBVIOUS
  <1>4. PICK f : f = ffn[j]
    OBVIOUS
  <1> DEFINE got == [f.got EXCEPT ![k] = Append(@, Head(a2e[a]))]
             full == \A i \in Srcs(j) : Len(got[i]) = Len(RecvParts)
             h == [f EXCEPT !.got = got, !.pc = IF full THEN "compute" ELSE "recv"]
  <1>5. /\ f.pc = "recv" /\ g < Parts /\ a2e[a] /= <<>>
        /\ plans' = plans /\ att' = att /\ ctl' = ctl /\ e2a' = e2a /\ graphs' = graphs
        /\ a2e' = [a2e EXCEPT ![a] = Tail(@)]
    BY <1>1, <1>3, <1>4, PartsOf DEF RecvPart, Parts
  <1>6. ffn' = [ffn EXCEPT ![j] = h]
    BY <1>1, <1>4 DEF RecvPart
  <1>7. Active(j)
    BY <1>4, <1>5 DEF Active
  <1>8. PICK S : S = StageCount(n)
    OBVIOUS
  <1>9. /\ n \in 1 .. Len(plans) /\ S \in {1, 2} /\ f.layer \in 1 .. L
        /\ f.stage \in 0 .. S - 1 /\ DOMAIN f.got = Srcs(j) /\ FfnOK(j) /\ ~IsCap(n)
    BY <1>2, <1>4, <1>7, <1>8, ActiveAt
  <1>10. /\ a \in Att /\ Owner(a) = j /\ Src(a) = k
         /\ DOMAIN a2e = Att /\ DOMAIN e2a = Att /\ DOMAIN ffn = Ffn
    BY <1>1, PeerOwner DEF IInv, PairInv, FfnInv
  <1>11. /\ att[a].pc = "run" /\ att[a].step = n /\ g \in Nat
         /\ Head(a2e[a]) = Message(a, n, f.layer, f.stage, g + 1)
    BY <1>1, <1>2, <1>3, <1>4, <1>5, RecvFrom
  <1>12. f = [pc |-> "recv", pay |-> Payload(plans[n], j, n), mode |-> f.mode,
              rows |-> PeerRows(plans[n].rows, j), layer |-> f.layer,
              stage |-> f.stage, got |-> f.got]
    BY <1>2, <1>4, <1>5, <1>7, <1>9 DEF FfnOK
  <1>13. PICK e : e = Message(a, n, f.layer, f.stage, g + 1)
    OBVIOUS
  <1>14. /\ IsSequence(f.got[k]) /\ got[k] = Append(f.got[k], e)
         /\ DOMAIN got = Srcs(j) /\ \A i \in Srcs(j) : i /= k => got[i] = f.got[i]
    <2>1. IsSequence(f.got[k])
      BY <1>4, <1>7, <1>9 DEF FfnOK
    <2> QED BY <1>9, <1>11, <1>13, <2>1
  <1> HIDE DEF got
  <1>15. PICK gg : gg = got
    OBVIOUS
  <1>16. PICK q : q = IF full THEN "compute" ELSE "recv"
    OBVIOUS
  <1>17. /\ h.pc = q /\ h.layer = f.layer /\ h.stage = f.stage /\ h.got = gg /\ h.mode = f.mode
         /\ h = [pc |-> q, pay |-> Payload(plans[n], j, n), mode |-> f.mode,
                 rows |-> PeerRows(plans[n].rows, j), layer |-> f.layer,
                 stage |-> f.stage, got |-> gg]
    <2>1. h = [f EXCEPT !.got = gg, !.pc = q]
      BY <1>5, <1>15, <1>16
    <2> HIDE DEF h
    <2>2. h = [pc |-> q, pay |-> Payload(plans[n], j, n), mode |-> f.mode,
               rows |-> PeerRows(plans[n].rows, j), layer |-> f.layer,
               stage |-> f.stage, got |-> gg]
      <3>1. PICK b1 : b1 = Payload(plans[n], j, n)
        OBVIOUS
      <3>2. PICK b2 : b2 = f.mode
        OBVIOUS
      <3>3. PICK b3 : b3 = PeerRows(plans[n].rows, j)
        OBVIOUS
      <3>4. PICK b4 : b4 = f.layer
        OBVIOUS
      <3>5. PICK b5 : b5 = f.stage
        OBVIOUS
      <3>6. PICK b6 : b6 = f.got
        OBVIOUS
      <3>7. f = [pc |-> "recv", pay |-> b1, mode |-> b2, rows |-> b3, layer |-> b4,
                 stage |-> b5, got |-> b6]
        BY <1>12, <3>1, <3>2, <3>3, <3>4, <3>5, <3>6
      <3>8. h = [pc |-> q, pay |-> b1, mode |-> b2, rows |-> b3, layer |-> b4,
                 stage |-> b5, got |-> gg]
        BY <2>1, <3>7, PayRecord, Zenon
      <3> QED BY <3>1, <3>2, <3>3, <3>4, <3>5, <3>8
    <2> QED BY <2>2
  <1> HIDE DEF h
  <1>18. ffn'[j] = h /\ DOMAIN ffn' = Ffn /\ \A i \in Ffn : i /= j => ffn'[i] = ffn[i]
    BY <1>6, <1>10
  <1>19. Taken(j)' = n
    BY <1>2, <1>5 DEF Taken
  <1>20. q \in {"recv", "compute"} /\ Active(j)'
    BY <1>16, <1>17, <1>18 DEF Active
  <1>21. /\ IsSequence(gg[k]) /\ Len(gg[k]) = g + 1 /\ gg[k][g + 1] = e
         /\ \A i \in 1 .. g : gg[k][i] = f.got[k][i]
    <2>1. PICK z : z = f.got[k]
      OBVIOUS
    <2>2. IsSequence(z) /\ gg[k] = Append(z, e) /\ g = Len(z)
      BY <1>3, <1>4, <1>14, <1>15, <2>1
    <2>3. /\ IsSequence(Append(z, e)) /\ Len(Append(z, e)) = g + 1 /\ Append(z, e)[g + 1] = e
          /\ \A i \in 1 .. g : Append(z, e)[i] = z[i]
      BY <2>2, SequenceAppend
    <2> QED BY <2>1, <2>2, <2>3
  <1>22. FfnOK(j)'
    <2>1. q /= "recv" => \A i \in Srcs(j) : Len(gg[i]) = Parts
      BY <1>15, <1>16, PartsOf DEF Parts
    <2>2. ASSUME NEW i \in Srcs(j)
          PROVE  /\ IsSequence(gg[i]) /\ Len(gg[i]) <= Parts
                 /\ \A m \in 1 .. Len(gg[i]) :
                      gg[i][m] = Message(Peer(j, i), n, f.layer, f.stage, m)
      <3>1. CASE i = k
        <4>1. Len(gg[i]) <= Parts
          BY <1>5, <1>11, <1>21, <3>1, PartsOf
        <4>2. ASSUME NEW m \in 1 .. g + 1
              PROVE  gg[k][m] = Message(a, n, f.layer, f.stage, m)
          <5>1. CASE m = g + 1
            BY <1>13, <1>21, <5>1
          <5>2. CASE m \in 1 .. g
            <6>1. f.got[k][m] = Message(Peer(j, k), n, f.layer, f.stage, m)
              BY <1>2, <1>3, <1>4, <1>7, <1>9, <5>2 DEF FfnOK
            <6> QED BY <1>1, <1>21, <5>2, <6>1
          <5>3. m = g + 1 \/ m \in 1 .. g
            BY <1>11
          <5> QED BY <5>1, <5>2, <5>3
        <4> QED BY <1>1, <1>21, <3>1, <4>1, <4>2
      <3>2. CASE i /= k
        <4>1. gg[i] = f.got[i]
          BY <1>14, <1>15, <3>2
        <4> QED BY <1>2, <1>4, <1>7, <1>9, <4>1 DEF FfnOK
      <3> QED BY <3>1, <3>2
    <2>3. \A b, l, s, m : Message(b, n, l, s, m)' = Message(b, n, l, s, m)
      BY <1>5 DEF Message, OwnRows
    <2>4. f.mode = "replay" <=> plans[n].kind = "replay"
      BY <1>2, <1>4, <1>7, <1>9 DEF FfnOK
    <2>5. n > 0 /\ StageCount(n)' = S
      BY <1>5, <1>8, <1>9 DEF StageCount
    <2>6. DOMAIN gg = Srcs(j)
      BY <1>14, <1>15
    <2> QED BY <1>5, <1>9, <1>17, <1>18, <1>19, <1>20, <2>1, <2>2, <2>3, <2>4, <2>5, <2>6
         DEF FfnOK
  <1>23. ASSUME NEW i \in Srcs(j) PROVE PairOK(Peer(j, i))'
    <2>1. PICK b : b = Peer(j, i)
      OBVIOUS
    <2>2. b \in Att /\ Owner(b) = j /\ Src(b) = i /\ PairOK(b)
      BY <2>1, PeerOwner DEF IInv, PairInv
    <2>3. CASE i = k
      <3>1. a2e'[a] = Tail(a2e[a]) /\ e2a'[a] = e2a[a]
        BY <1>5, <1>10
      <3>2. /\ ffn'[j].layer = ffn[j].layer /\ ffn'[j].stage = ffn[j].stage
            /\ Len(ffn'[j].got[k]) = g + 1
        BY <1>4, <1>17, <1>18, <1>21
      <3>3. PairOK(a)'
        BY <1>1, <1>2, <1>3, <1>5, <1>7, <1>11, <1>19, <1>20, <3>1, <3>2, RecvPartPair
      <3> QED BY <1>1, <2>3, <3>3
    <2>4. CASE i /= k
      <3>1. b /= a
        BY <1>10, <2>2, <2>4
      <3>2. a2e'[b] = a2e[b] /\ e2a'[b] = e2a[b]
        BY <1>5, <1>10, <2>2, <3>1
      <3>3. /\ ffn'[j].layer = ffn[j].layer /\ ffn'[j].stage = ffn[j].stage
            /\ ffn'[j].got[i] = ffn[j].got[i]
        BY <1>4, <1>14, <1>15, <1>17, <1>18, <2>4
      <3>4. PlaceInv(b)'
        BY <1>2, <1>5, <1>7, <1>19, <1>20, <2>2, <3>3 DEF PairOK, PlaceInv
      <3>5. PICK m : m = att[b].step
        OBVIOUS
      <3>6. Outputs(j, m)' = Outputs(j, m)
        BY <1>2, <1>5, <1>7, <1>19, <1>20, <3>3 DEF Outputs, StageCount
      <3>7. Received(j, i, m)' = Received(j, i, m)
        BY <1>2, <1>7, <1>19, <1>20, <3>3, <3>6 DEF Received
      <3>8. PairOK(b)'
        BY <1>5, <2>2, <3>2, <3>4, <3>5, <3>6, <3>7, PairSame
      <3> QED BY <2>1, <3>8
    <2> QED BY <2>3, <2>4
  <1>24. /\ DOMAIN a2e' = Att /\ DOMAIN e2a' = Att
         /\ \A b \in Att : Owner(b) /= j => a2e'[b] = a2e[b] /\ e2a'[b] = e2a[b]
    BY <1>5, <1>10
  <1> QED BY <1>5, <1>18, <1>22, <1>23, <1>24, FfnStep

(* Compute: nothing moves. *)
LEMMA ComputeStep ==
    ASSUME IInv, Compute
    PROVE  IInv'
  <1>1. /\ plans' = plans /\ att' = att /\ ctl' = ctl /\ graphs' = graphs
        /\ a2e' = a2e /\ e2a' = e2a
        /\ \A j \in Ffn : ffn[j].pc = "compute"
        /\ ffn' = [j \in Ffn |-> [ffn[j] EXCEPT !.pc = "send"]]
    BY DEF Compute
  <1>2. ASSUME NEW j \in Ffn PROVE CtlOK(j)' /\ Taken(j)' = Taken(j)
    BY <1>1, CtlFrame DEF IInv, CtlInv
  <1>3. ASSUME NEW j \in Ffn
        PROVE  /\ FfnOK(j)' /\ Active(j) /\ Active(j)'
               /\ ffn'[j].layer = ffn[j].layer /\ ffn'[j].stage = ffn[j].stage
               /\ ffn'[j].got = ffn[j].got
    <2>1. PICK f : f = ffn[j]
      OBVIOUS
    <2>2. PICK g : g = [f EXCEPT !.pc = "send"]
      OBVIOUS
    <2>3. PICK n : n = Taken(j)
      OBVIOUS
    <2>4. ffn'[j] = g
      BY <1>1, <2>1, <2>2
    <2>5. f.pc = "compute" /\ Active(j) /\ FfnOK(j)
      BY <1>1, <2>1 DEF Active, IInv, FfnInv
    <2>6. /\ n > 0 /\ ~IsCap(n)
          /\ f = [pc |-> f.pc, pay |-> Payload(plans[n], j, n), mode |-> f.mode,
                  rows |-> PeerRows(plans[n].rows, j), layer |-> f.layer,
                  stage |-> f.stage, got |-> f.got]
          /\ f.mode = "replay" <=> plans[n].kind = "replay"
          /\ f.layer \in 1 .. L /\ f.stage \in 0 .. StageCount(n) - 1
          /\ DOMAIN f.got = Srcs(j)
      BY <2>1, <2>3, <2>5 DEF FfnOK
    <2>7. \A k \in Srcs(j) :
             /\ IsSequence(f.got[k]) /\ Len(f.got[k]) <= Parts /\ Len(f.got[k]) = Parts
             /\ \A i \in 1 .. Len(f.got[k]) :
                  f.got[k][i] = Message(Peer(j, k), n, f.layer, f.stage, i)
      BY <2>1, <2>3, <2>5 DEF FfnOK
    <2>8. g = [pc |-> "send", pay |-> Payload(plans[n], j, n), mode |-> f.mode,
               rows |-> PeerRows(plans[n].rows, j), layer |-> f.layer,
               stage |-> f.stage, got |-> f.got]
      BY <2>2, <2>6
    <2>9. /\ g.pc = "send" /\ g.mode = f.mode /\ g.layer = f.layer
          /\ g.stage = f.stage /\ g.got = f.got
      BY <2>8
    <2>10. g = [pc |-> g.pc, pay |-> Payload(plans[n], j, n), mode |-> g.mode,
                rows |-> PeerRows(plans[n].rows, j), layer |-> g.layer,
                stage |-> g.stage, got |-> g.got]
      BY <2>8, <2>9
    <2>11. Active(j)'
      BY <2>4, <2>9 DEF Active
    <2>12. \A b, m, l, s, p : Message(b, m, l, s, p)' = Message(b, m, l, s, p)
      BY <1>1 DEF Message, OwnRows
    <2>13. Taken(j)' = n /\ StageCount(n)' = StageCount(n)
      BY <1>1, <1>2, <2>3 DEF StageCount
    <2>14. FfnOK(j)'
      BY <1>1, <2>4, <2>6, <2>7, <2>9, <2>10, <2>11, <2>12, <2>13 DEF FfnOK
    <2> QED BY <2>1, <2>4, <2>5, <2>9, <2>11, <2>14
  <1>4. ASSUME NEW a \in Att PROVE PairOK(a)'
    <2>1. PICK j : j = Owner(a)
      OBVIOUS
    <2>2. j \in Ffn /\ PairOK(a)
      BY <2>1, OwnerOf DEF IInv, PairInv
    <2>3. /\ Active(j) /\ Active(j)' /\ Taken(j)' = Taken(j)
          /\ ffn'[j].layer = ffn[j].layer /\ ffn'[j].stage = ffn[j].stage
          /\ ffn'[j].got = ffn[j].got
      BY <1>2, <1>3, <2>2
    <2>4. PlaceInv(a)'
      BY <1>1, <2>1, <2>2, <2>3 DEF PairOK, PlaceInv
    <2>5. PICK n : n = att[a].step
      OBVIOUS
    <2>6. Outputs(j, n)' = Outputs(j, n)
      BY <1>1, <2>3 DEF Outputs, StageCount
    <2>7. Received(j, Src(a), n)' = Received(j, Src(a), n)
      BY <2>3, <2>6 DEF Received
    <2> QED BY <1>1, <2>1, <2>2, <2>4, <2>5, <2>6, <2>7, PairSame
  <1>5. PlansInv'
    BY <1>1, PlansFrame DEF IInv
  <1>6. DOMAIN att' = Att /\ \A a \in Att : AttOK(a)'
    BY <1>1, AttFrame DEF IInv, AttInv
  <1>7. ASSUME NEW j \in Ffn PROVE GraphOK(j)'
    BY <1>1, <1>2, GraphFrame DEF IInv, GraphInv
  <1>8. DOMAIN ctl' = Ffn /\ DOMAIN graphs' = Ffn /\ DOMAIN ffn' = Ffn
        /\ DOMAIN a2e' = Att /\ DOMAIN e2a' = Att
    BY <1>1 DEF IInv, CtlInv, GraphInv, PairInv
  <1> QED BY <1>2, <1>3, <1>4, <1>5, <1>6, <1>7, <1>8
       DEF IInv, AttInv, CtlInv, FfnInv, GraphInv, PairInv

(* The loop of ffn_worker.py takes the next control payload: it announces the
   step after the last one taken. *)
LEMMA TakeCtl ==
    ASSUME IInv, NEW j \in Ffn, Ready(j), plans' = plans, att' = att,
           ctl' = [ctl EXCEPT ![j] = Tail(@)], NEW t, t = Taken(j)
    PROVE  /\ t \in Nat /\ t + 1 \in 1 .. Len(plans) /\ ~Active(j)
           /\ Head(ctl[j]) = Payload(plans[t + 1], j, t + 1)
           /\ Taken(j)' = t + 1 /\ DOMAIN ctl' = Ffn
           /\ \A i \in Ffn : CtlOK(i)' /\ (i /= j => Taken(i)' = Taken(i))
  <1>1. DOMAIN ctl = Ffn /\ CtlOK(j) /\ ctl[j] /= <<>> /\ ffn[j].pc = "wait"
    BY DEF IInv, CtlInv, Ready
  <1>2. PICK c : c = ctl[j]
    OBVIOUS
  <1>3. PICK m : m = Len(c)
    OBVIOUS
  <1>4. PICK d : d = Tail(c)
    OBVIOUS
  <1>5. /\ IsSequence(c) /\ m <= att[j].step
        /\ \A i \in 1 .. m : c[i] = Payload(plans[t + i], j, t + i)
    BY <1>1, <1>2, <1>3 DEF CtlOK
  <1>6. /\ m \in Nat /\ m > 0 /\ Head(c) = c[1] /\ IsSequence(d) /\ Len(d) = m - 1
        /\ \A i \in 1 .. m - 1 : d[i] = c[i + 1]
    BY <1>1, <1>2, <1>3, <1>4, <1>5, SequenceLen, SequenceTail
  <1>7. /\ t \in Nat /\ t + m = att[j].step /\ att[j].step \in Nat
        /\ att[j].step <= Len(plans) /\ Len(plans) \in Nat
    BY <1>2, <1>3, StepTypes
  <1>8. ctl'[j] = d /\ DOMAIN ctl' = Ffn /\ \A i \in Ffn : i /= j => ctl'[i] = ctl[i]
    BY <1>1, <1>2, <1>4
  <1>9. Taken(j)' = t + 1
    <2>1. Taken(j)' = att[j].step - (m - 1)
      BY <1>6, <1>8 DEF Taken
    <2> QED BY <1>6, <1>7, <2>1
  <1>10. CtlOK(j)'
    <2>1. ASSUME NEW i \in 1 .. m - 1
          PROVE  d[i] = Payload(plans[(t + 1) + i], j, (t + 1) + i)
      <3>0. m \in Nat /\ t \in Nat
        BY <1>6, <1>7
      <3>1. i + 1 \in 1 .. m /\ t + (i + 1) = (t + 1) + i
        BY <3>0
      <3>2. c[i + 1] = Payload(plans[t + (i + 1)], j, t + (i + 1))
        BY <1>5, <3>1
      <3> QED BY <1>6, <3>1, <3>2
    <2>2. m - 1 <= att[j].step
      BY <1>5, <1>6, <1>7
    <2>3. \A p, i : Payload(p, j, i)' = Payload(p, j, i)
      BY DEF Payload
    <2> QED BY <1>6, <1>8, <1>9, <2>1, <2>2 DEF CtlOK
  <1>11. ASSUME NEW i \in Ffn PROVE CtlOK(i)' /\ (i /= j => Taken(i)' = Taken(i))
    <2>1. CASE i = j
      BY <1>10, <2>1
    <2>2. CASE i /= j
      BY <1>8, <2>2, CtlFrame DEF IInv, CtlInv
    <2> QED BY <2>1, <2>2
  <1>12. t + 1 \in 1 .. Len(plans) /\ Head(c) = Payload(plans[t + 1], j, t + 1)
    BY <1>5, <1>6, <1>7
  <1> QED BY <1>1, <1>2, <1>7, <1>8, <1>9, <1>11, <1>12 DEF Active

(* What is left to show when a payload is taken. *)
LEMMA TakeStep ==
    ASSUME IInv, NEW j \in Ffn, Ready(j), plans' = plans, att' = att,
           ctl' = [ctl EXCEPT ![j] = Tail(@)], a2e' = a2e, e2a' = e2a,
           DOMAIN ffn' = Ffn, \A i \in Ffn : i /= j => ffn'[i] = ffn[i], FfnOK(j)',
           DOMAIN graphs' = Ffn, \A i \in Ffn : i /= j => graphs'[i] = graphs[i],
           GraphOK(j)', \A k \in Srcs(j) : PairOK(Peer(j, k))'
    PROVE  IInv'
  <1>1. PICK t : t = Taken(j)
    OBVIOUS
  <1>2. DOMAIN ctl' = Ffn /\ \A i \in Ffn : CtlOK(i)' /\ (i /= j => Taken(i)' = Taken(i))
    BY <1>1, TakeCtl
  <1>3. PlansInv'
    BY PlansFrame DEF IInv
  <1>4. DOMAIN att' = Att /\ \A a \in Att : AttOK(a)'
    BY AttFrame DEF IInv, AttInv
  <1>5. ASSUME NEW i \in Ffn PROVE FfnOK(i)' /\ GraphOK(i)'
    <2>1. CASE i /= j
      BY <1>2, <2>1, FfnFrame, GraphFrame DEF IInv, FfnInv, GraphInv
    <2> QED BY <2>1
  <1>6. ASSUME NEW a \in Att PROVE PairOK(a)'
    <2>1. Owner(a) \in Ffn /\ Src(a) \in Srcs(Owner(a)) /\ Peer(Owner(a), Src(a)) = a
      BY OwnerOf
    <2>2. CASE Owner(a) = j
      BY <2>1, <2>2
    <2>3. CASE Owner(a) /= j
      <3>1. PairOK(a) /\ ffn'[Owner(a)] = ffn[Owner(a)]
        BY <2>1, <2>3 DEF IInv, PairInv
      <3>2. Taken(Owner(a))' = Taken(Owner(a))
        BY <1>2, <2>1, <2>3
      <3> QED BY <3>1, <3>2, PairFrame
    <2> QED BY <2>2, <2>3
  <1>7. DOMAIN a2e' = Att /\ DOMAIN e2a' = Att
    BY DEF IInv, PairInv
  <1> QED BY <1>2, <1>3, <1>4, <1>5, <1>6, <1>7
       DEF IInv, AttInv, CtlInv, FfnInv, GraphInv, PairInv

(* ... for a pair: a captured step is passed by, any other one begins. *)
LEMMA TakePair ==
    ASSUME IInv, NEW j \in Ffn, NEW k \in Srcs(j), Ready(j), plans' = plans, att' = att,
           ctl' = [ctl EXCEPT ![j] = Tail(@)], a2e' = a2e, e2a' = e2a,
           NEW t, t = Taken(j),
           IF IsCap(t + 1) THEN ~Active(j)'
           ELSE /\ Active(j)'
                /\ ffn'[j].layer = 1 /\ ffn'[j].stage = 0 /\ ffn'[j].got[k] = <<>>
    PROVE  PairOK(Peer(j, k))'
  <1>1. PICK a : a = Peer(j, k)
    OBVIOUS
  <1>2. PICK n : n = att[a].step
    OBVIOUS
  <1>3. /\ a \in Att /\ Owner(a) = j /\ Src(a) = k /\ PairOK(a) /\ PlaceInv(a) /\ AttOK(a)
    BY <1>1, PeerOwner DEF IInv, PairInv, PairOK, AttInv
  <1>4. t \in Nat /\ ~Active(j) /\ Taken(j)' = t + 1 /\ n \in Nat /\ n <= Len(plans)
    BY <1>2, <1>3, TakeCtl, StepTypes
  <1>5. att[a].pc = "run" => n > 0 /\ ~IsCap(n) /\ n \in 1 .. Len(plans)
    <2>1. att[a].pc = "run" => n > 0 /\ ~IsCap(n)
      BY <1>2, <1>3 DEF AttOK
    <2> QED BY <1>4, <2>1, StepTypes
  <1>6. IF att[a].pc = "run" THEN IF n <= t THEN Caps(n, t) ELSE Caps(t, n - 1)
        ELSE Caps(n, t) /\ Caps(t, n)
    BY <1>2, <1>3, <1>4 DEF PlaceInv
  <1>7. CASE IsCap(t + 1)
    <2>1. ~Active(j)'
      BY <1>7
    <2>2. IF att[a].pc = "run" THEN IF n <= t + 1 THEN Caps(n, t + 1) ELSE Caps(t + 1, n - 1)
          ELSE Caps(n, t + 1) /\ Caps(t + 1, n)
      <3>1. CASE att[a].pc = "run"
        <4>1. n /= t + 1
          BY <1>5, <1>7, <3>1
        <4>2. CASE n <= t
          <5>1. Caps(n, t + 1)
            BY <1>4, <1>6, <1>7, <3>1, <4>2 DEF Caps
          <5> QED BY <1>4, <3>1, <4>2, <5>1
        <4>3. CASE n > t + 1
          <5>1. Caps(t + 1, n - 1)
            BY <1>4, <1>6, <3>1, <4>3 DEF Caps
          <5> QED BY <1>4, <3>1, <4>3, <5>1
        <4> QED BY <1>4, <4>1, <4>2, <4>3
      <3>2. CASE att[a].pc /= "run"
        BY <1>4, <1>6, <1>7, <3>2 DEF Caps
      <3> QED BY <3>1, <3>2
    <2>3. PlaceInv(a)'
      BY <1>2, <1>3, <1>4, <2>1, <2>2 DEF PlaceInv
    <2>4. ASSUME att[a].pc = "run"
          PROVE  Outputs(j, n)' = Outputs(j, n) /\ Received(j, k, n)' = Received(j, k, n)
      <3>1. n /= t + 1
        BY <1>5, <1>7, <2>4
      <3>2. t + 1 < n <=> t < n
        BY <1>4, <3>1
      <3>3. Outputs(j, n)' = Outputs(j, n)
        BY <1>4, <2>1, <3>2 DEF Outputs, StageCount
      <3> QED BY <1>4, <2>1, <3>3 DEF Received
    <2>5. PairOK(a)'
      BY <1>2, <1>3, <2>3, <2>4, PairSame
    <2> QED BY <1>1, <2>5
  <1>8. CASE ~IsCap(t + 1)
    <2>1. Active(j)' /\ ffn'[j].layer = 1 /\ ffn'[j].stage = 0 /\ ffn'[j].got[k] = <<>>
      BY <1>8
    <2>2. \/ att[a].pc = "run" /\ n = t + 1
          \/ n < t + 1 /\ Caps(n, t)
      <3>1. CASE n <= t
        BY <1>4, <1>6, <3>1
      <3>2. CASE n > t
        <4>1. n - 1 > t => ~Caps(t, n - 1)
          BY <1>4, <1>8 DEF Caps
        <4>2. ~Caps(t, n)
          BY <1>4, <1>8, <3>2 DEF Caps
        <4> QED BY <1>4, <1>6, <3>2, <4>1, <4>2
      <3> QED BY <1>4, <3>1, <3>2
    <2>3. PlaceInv(a)'
      <3>1. (t + 1) - 1 = t
        BY <1>4
      <3> QED BY <1>2, <1>3, <1>4, <2>1, <2>2, <3>1 DEF PlaceInv
    <2>4. ASSUME att[a].pc = "run"
          PROVE  Outputs(j, n)' = Outputs(j, n) /\ Received(j, k, n)' = Received(j, k, n)
      <3>1. Outputs(j, n)' = Outputs(j, n)
        <4>1. CASE n = t + 1
          <5>1. Outputs(j, n) = 0
            BY <1>4, <4>1 DEF Outputs
          <5>2. Outputs(j, n)' = Slot(StageCount(n), 1, 0)
            BY <1>4, <2>1, <4>1 DEF Outputs, StageCount
          <5>3. Slot(StageCount(n), 1, 0) = 0
            BY DEF Slot
          <5> QED BY <5>1, <5>2, <5>3
        <4>2. CASE n /= t + 1
          <5>1. t + 1 < n <=> t < n
            BY <1>4, <4>2
          <5> QED BY <1>4, <2>1, <4>2, <5>1 DEF Outputs, StageCount
        <4> QED BY <4>1, <4>2
      <3>2. Len(ffn'[j].got[k]) = 0
        BY <2>1, EmptySequence
      <3>3. Received(j, k, n)' = MsgNo(Outputs(j, n), 0)
        BY <1>4, <2>1, <3>1, <3>2 DEF Received
      <3>4. Received(j, k, n) = MsgNo(Outputs(j, n), 0)
        BY <1>4 DEF Received
      <3> QED BY <3>1, <3>3, <3>4
    <2>5. PairOK(a)'
      BY <1>2, <1>3, <2>3, <2>4, PairSame
    <2> QED BY <1>1, <2>5
  <1> QED BY <1>7, <1>8

(* capture_model: the graph of an announced descriptor is captured. *)
LEMMA CaptureStep ==
    ASSUME IInv, NEW j \in Ffn, Capture(j)
    PROVE  IInv'
  <1>1. PICK t : t = Taken(j)
    OBVIOUS
  <1>2. PICK p : p = plans[t + 1]
    OBVIOUS
  <1>3. PICK G : G = graphs[j]
    OBVIOUS
  <1>4. /\ plans' = plans /\ att' = att /\ a2e' = a2e /\ e2a' = e2a /\ ffn' = ffn
        /\ ctl' = [ctl EXCEPT ![j] = Tail(@)] /\ Ready(j)
    BY DEF Capture
  <1>5. /\ t \in Nat /\ t + 1 \in 1 .. Len(plans) /\ ~Active(j)
        /\ Head(ctl[j]) = Payload(p, j, t + 1) /\ Taken(j)' = t + 1
    BY <1>1, <1>2, <1>4, TakeCtl
  <1>6. /\ PlanOK(p) /\ (p.kind = "capture" <=> IsCap(t + 1))
        /\ t + 1 <= 2 * Len(CaptureDescs) => p = CaptureEvents[t + 1]
    BY <1>2, <1>5 DEF IInv, PlansInv
  <1>7. Head(ctl[j]).counts = p.rows /\ Head(ctl[j]).kind = p.kind
    <2>1. j \in Att
      BY StepTypes
    <2> QED BY <1>5, <1>6, <2>1, PayloadOf
  <1>8. IsCap(t + 1)
    BY <1>6, <1>7 DEF Capture
  <1> DEFINE H == [g \in {p.rows} \cup DOMAIN G |->
                     IF g = p.rows THEN PeerRows(p.rows, j) ELSE G[g]]
  <1>9. graphs' = [graphs EXCEPT ![j] = H]
    <2>1. graphs' = [graphs EXCEPT ![j] =
                       [g \in {p.rows} \cup DOMAIN @ |->
                          IF g = p.rows THEN PeerRows(p.rows, j) ELSE @[g]]]
      BY <1>7 DEF Capture, GraphKey
    <2> QED BY <1>3, <2>1
  <1>10. DOMAIN graphs = Ffn /\ GraphOK(j) /\ DOMAIN ffn = Ffn /\ FfnOK(j)
    BY DEF IInv, GraphInv, FfnInv
  <1>11. /\ graphs'[j] = H /\ DOMAIN graphs' = Ffn
         /\ \A i \in Ffn : i /= j => graphs'[i] = graphs[i]
    BY <1>9, <1>10
  <1>12. \A g \in DOMAIN H : H[g] = PeerRows(g, j)
    BY <1>3, <1>10 DEF GraphOK
  <1>13. ASSUME NEW i \in 1 .. Len(CaptureDescs), 2 * i <= t + 1
         PROVE  CaptureEvents[2 * i].rows \in DOMAIN H
    <2>1. i \in Nat
      OBVIOUS
    <2>2. CASE 2 * i <= t
      <3>1. CaptureEvents[2 * i].rows \in DOMAIN G
        BY <1>1, <1>3, <1>10, <2>2 DEF GraphOK
      <3> QED BY <3>1
    <2>3. CASE 2 * i = t + 1
      <3>1. Len(CaptureDescs) \in Nat
        BY CountsAssumption
      <3>2. t + 1 <= 2 * Len(CaptureDescs)
        BY <1>5, <2>3, <3>1
      <3>3. CaptureEvents[2 * i].rows = p.rows
        BY <1>6, <2>3, <3>2
      <3> QED BY <3>3
    <2> QED BY <1>5, <1>13, <2>1, <2>2, <2>3
  <1> HIDE DEF H
  <1>14. GraphOK(j)'
    BY <1>5, <1>11, <1>12, <1>13 DEF GraphOK
  <1>15. ~Active(j)' /\ FfnOK(j)'
    <2>1. ~Active(j)'
      BY <1>4, <1>5 DEF Active
    <2> QED BY <1>4, <1>10, <2>1 DEF FfnOK
  <1>16. ASSUME NEW k \in Srcs(j) PROVE PairOK(Peer(j, k))'
    BY <1>1, <1>4, <1>8, <1>15, TakePair
  <1> QED BY <1>4, <1>10, <1>11, <1>14, <1>15, <1>16, TakeStep

(* the place f from which step n with plan p is run, replayed as Attention does *)
Begun(f, mode, p, j, n) ==
    /\ mode = "replay" <=> p.kind = "replay"
    /\ f = Begin(Payload(p, j, n), mode, PeerRows(p.rows, j))

(* _ffn_forward or a replay starts: the first receive of an announced step. *)
LEMMA BeginStep ==
    ASSUME IInv, NEW j \in Ffn, Ready(j), plans' = plans, att' = att,
           ctl' = [ctl EXCEPT ![j] = Tail(@)], a2e' = a2e, e2a' = e2a, graphs' = graphs,
           NEW t, t = Taken(j), NEW p, p = plans[t + 1], ~IsCap(t + 1),
           NEW mode, NEW f, Begun(f, mode, p, j, t + 1),
           ffn' = [ffn EXCEPT ![j] = f]
    PROVE  IInv'
  <1>1. /\ t \in Nat /\ t + 1 \in 1 .. Len(plans) /\ ~Active(j) /\ Taken(j)' = t + 1
    BY TakeCtl
  <1>2. PICK n : n = t + 1
    OBVIOUS
  <1>3. PICK S : S = StageCount(n)
    OBVIOUS
  <1>4. PlanOK(p) /\ S \in {1, 2} /\ S = p.stages /\ ~IsCap(n) /\ p = plans[n]
    BY <1>1, <1>2, <1>3, PlanAt DEF IInv
  <1>5. DOMAIN PeerRows(p.rows, j) = (0 .. S - 1) \X Srcs(j)
    BY <1>4, PeerRowsOf
  <1>6. {x[2] : x \in DOMAIN PeerRows(p.rows, j)} = Srcs(j)
    <2>1. ASSUME NEW k \in Srcs(j) PROVE k \in {x[2] : x \in (0 .. S - 1) \X Srcs(j)}
      <3>1. <<0, k>> \in (0 .. S - 1) \X Srcs(j) /\ <<0, k>>[2] = k
        BY <1>4
      <3> QED BY <3>1
    <2>2. \A x \in (0 .. S - 1) \X Srcs(j) : x[2] \in Srcs(j)
      OBVIOUS
    <2> QED BY <1>5, <2>1, <2>2
  <1>7. /\ f = Begin(Payload(p, j, n), mode, PeerRows(p.rows, j))
        /\ mode = "replay" <=> p.kind = "replay"
    BY <1>2 DEF Begun
  <1>8. DOMAIN ffn = Ffn /\ DOMAIN graphs = Ffn /\ GraphOK(j)
    BY DEF IInv, FfnInv, GraphInv
  <1>9. ffn'[j] = f /\ DOMAIN ffn' = Ffn /\ \A i \in Ffn : i /= j => ffn'[i] = ffn[i]
    BY <1>2, <1>7, <1>8
  <1>10. f = [pc |-> "recv", pay |-> Payload(p, j, n), mode |-> mode,
              rows |-> PeerRows(p.rows, j), layer |-> 1, stage |-> 0,
              got |-> [k \in Srcs(j) |-> <<>>]]
    BY <1>6, <1>7 DEF Begin
  <1>11. /\ f.pc = "recv" /\ f.mode = mode /\ f.layer = 1 /\ f.stage = 0
         /\ f.got = [k \in Srcs(j) |-> <<>>]
    BY <1>10
  <1>12. f = [pc |-> f.pc, pay |-> Payload(p, j, n), mode |-> f.mode,
              rows |-> PeerRows(p.rows, j), layer |-> f.layer, stage |-> f.stage,
              got |-> f.got]
    BY <1>10, <1>11
  <1>13. Active(j)' /\ Taken(j)' = n /\ StageCount(n)' = S
    BY <1>1, <1>2, <1>3, <1>9, <1>11 DEF Active, StageCount
  <1>14. f.layer \in 1 .. L /\ f.stage \in 0 .. S - 1 /\ n > 0
    <2>1. 1 \in 1 .. L
      BY SizesAssumption
    <2> QED BY <1>1, <1>2, <1>4, <1>11, <2>1
  <1>15. DOMAIN f.got = Srcs(j) /\ \A k \in Srcs(j) : f.got[k] = <<>>
    BY <1>11
  <1>16. ASSUME NEW k \in Srcs(j)
         PROVE  /\ IsSequence(f.got[k]) /\ Len(f.got[k]) <= Parts
                /\ \A i \in 1 .. Len(f.got[k]) :
                     f.got[k][i] = Message(Peer(j, k), n, f.layer, f.stage, i)'
    <2>1. IsSequence(f.got[k]) /\ Len(f.got[k]) = 0
      BY <1>15, EmptySequence
    <2>2. Parts \in Nat
      BY PartsOf
    <2> QED BY <2>1, <2>2
  <1>17. FfnOK(j)'
    BY ZenonT(60), <1>4, <1>7, <1>9, <1>11, <1>12, <1>13, <1>14, <1>15, <1>16 DEF FfnOK
  <1>18. GraphOK(j)'
    <2>1. ASSUME NEW i \in 1 .. Len(CaptureDescs), 2 * i <= t + 1 PROVE 2 * i <= t
      <3>1. 2 * i /= t + 1
        BY DEF IsCap
      <3> QED BY <1>1, <2>1, <3>1
    <2> QED BY <1>1, <1>8, <2>1 DEF GraphOK
  <1>19. ASSUME NEW k \in Srcs(j) PROVE PairOK(Peer(j, k))'
    <2>1. Active(j)' /\ ffn'[j].layer = 1 /\ ffn'[j].stage = 0 /\ ffn'[j].got[k] = <<>>
      BY <1>9, <1>11, <1>13, <1>15
    <2> QED BY <2>1, TakePair
  <1> QED BY <1>8, <1>9, <1>17, <1>18, <1>19, TakeStep

(* execute_model, replay branch: the rows are those of the captured graph. *)
LEMMA ReplayStep ==
    ASSUME IInv, NEW j \in Ffn, Replay(j)
    PROVE  IInv'
  <1>1. PICK t : t = Taken(j)
    OBVIOUS
  <1>2. PICK p : p = plans[t + 1]
    OBVIOUS
  <1>3. /\ plans' = plans /\ att' = att /\ a2e' = a2e /\ e2a' = e2a /\ graphs' = graphs
        /\ ctl' = [ctl EXCEPT ![j] = Tail(@)] /\ Ready(j) /\ Replays(j, Head(ctl[j]))
        /\ ffn' = [ffn EXCEPT ![j] =
             Begin(Head(ctl[j]), "replay", graphs[j][GraphKey(Head(ctl[j]))])]
    BY DEF Replay
  <1>4. /\ t \in Nat /\ t + 1 \in 1 .. Len(plans)
        /\ Head(ctl[j]) = Payload(p, j, t + 1)
    BY <1>1, <1>2, <1>3, TakeCtl
  <1>5. PlanOK(p) /\ (p.kind = "capture" <=> IsCap(t + 1)) /\ j \in Att
    BY <1>2, <1>4, StepTypes DEF IInv, PlansInv
  <1>6. Head(ctl[j]).counts = p.rows /\ Head(ctl[j]).kind = p.kind
    BY <1>4, <1>5, PayloadOf
  <1>7. p.kind = "replay" /\ p.rows \in DOMAIN graphs[j]
    BY <1>3, <1>6 DEF Replays, GraphKey
  <1>8. graphs[j][p.rows] = PeerRows(p.rows, j)
    BY <1>7 DEF IInv, GraphInv, GraphOK
  <1>9. ~IsCap(t + 1)
    BY <1>5, <1>7
  <1>10. ffn' = [ffn EXCEPT ![j] =
                   Begin(Payload(p, j, t + 1), "replay", PeerRows(p.rows, j))]
    BY <1>3, <1>4, <1>6, <1>8 DEF GraphKey
  <1>11. PICK mode : mode = "replay"
    OBVIOUS
  <1>12. PICK f : f = Begin(Payload(p, j, t + 1), mode, PeerRows(p.rows, j))
    OBVIOUS
  <1>13. ffn' = [ffn EXCEPT ![j] = f]
    BY <1>10, <1>11, <1>12
  <1>14. Begun(f, mode, p, j, t + 1)
    BY <1>7, <1>11, <1>12 DEF Begun
  <1> QED BY <1>1, <1>2, <1>3, <1>9, <1>13, <1>14, BeginStep

(* execute_model otherwise: no capture, and no step that Attention replays. *)
LEMMA ForwardStep ==
    ASSUME IInv, NEW j \in Ffn, Forward(j)
    PROVE  IInv'
  <1>1. PICK t : t = Taken(j)
    OBVIOUS
  <1>2. PICK p : p = plans[t + 1]
    OBVIOUS
  <1>3. PICK N : N = Len(CaptureDescs)
    OBVIOUS
  <1>4. /\ plans' = plans /\ att' = att /\ a2e' = a2e /\ e2a' = e2a /\ graphs' = graphs
        /\ ctl' = [ctl EXCEPT ![j] = Tail(@)] /\ Ready(j)
        /\ ~(Head(ctl[j]).kind = "capture" /\ FFNGraphs) /\ ~Replays(j, Head(ctl[j]))
        /\ ffn' = [ffn EXCEPT ![j] =
             Begin(Head(ctl[j]), "forward", PeerRows(Head(ctl[j]).counts, j))]
    BY DEF Forward
  <1>5. /\ t \in Nat /\ t + 1 \in 1 .. Len(plans)
        /\ Head(ctl[j]) = Payload(p, j, t + 1)
    BY <1>1, <1>2, <1>4, TakeCtl
  <1>6. /\ PlanOK(p) /\ (p.kind = "capture" <=> IsCap(t + 1)) /\ j \in Att
        /\ t + 1 <= 2 * N => p.kind /= "replay"
        /\ p.kind = "replay" => \E i \in 1 .. N : p.rows = CaptureEvents[2 * i].rows
    BY <1>2, <1>3, <1>5, StepTypes DEF IInv, PlansInv
  <1>7. Head(ctl[j]).counts = p.rows /\ Head(ctl[j]).kind = p.kind
    BY <1>5, <1>6, PayloadOf
  <1>8. N \in Nat /\ (N > 0 => FFNGraphs)
    <2>1. N \in Nat
      BY <1>3, CountsAssumption
    <2>2. N > 0 => CaptureDescs /= <<>>
      BY <1>3, EmptySequence
    <2> QED BY <2>1, <2>2, GraphsAssumption
  <1>9. ~IsCap(t + 1)
    <2>1. IsCap(t + 1) => N > 0
      BY <1>3, <1>8 DEF IsCap
    <2> QED BY <1>4, <1>6, <1>7, <1>8, <2>1
  <1>10. p.kind /= "replay"
    <2>1. ASSUME p.kind = "replay" PROVE FALSE
      <3>1. PICK i \in 1 .. N : p.rows = CaptureEvents[2 * i].rows
        BY <1>6, <2>1
      <3>2. t + 1 > 2 * N /\ N > 0 /\ 2 * i <= t
        BY <1>5, <1>6, <1>8, <2>1, <3>1
      <3>3. p.rows \in DOMAIN graphs[j]
        BY <1>1, <1>3, <3>1, <3>2 DEF IInv, GraphInv, GraphOK
      <3> QED BY <1>4, <1>7, <1>8, <2>1, <3>2, <3>3 DEF Replays, GraphKey
    <2> QED BY <2>1
  <1>11. ffn' = [ffn EXCEPT ![j] =
                   Begin(Payload(p, j, t + 1), "forward", PeerRows(p.rows, j))]
    BY <1>4, <1>5, <1>7
  <1>12. PICK mode : mode = "forward"
    OBVIOUS
  <1>13. PICK f : f = Begin(Payload(p, j, t + 1), mode, PeerRows(p.rows, j))
    OBVIOUS
  <1>14. ffn' = [ffn EXCEPT ![j] = f]
    BY <1>11, <1>12, <1>13
  <1>15. Begun(f, mode, p, j, t + 1)
    BY <1>10, <1>12, <1>13 DEF Begun
  <1> QED BY <1>1, <1>2, <1>4, <1>9, <1>14, <1>15, BeginStep
----------------------------------------------------------------------------
(***************************************************************************)
(* Concatenating sequences and cutting them apart again.                   *)
(***************************************************************************)
(* f and g are the functions that FlattenSeq and Starts recurse to. *)
Flattens(f, s, m) == f = [i \in 1 .. m |-> IF i = 1 THEN s[i] ELSE f[i - 1] \o s[i]]
Sums(g, z, m) == g = [k \in 1 .. m |-> IF k = 1 THEN 0 ELSE g[k - 1] + z[k - 1]]

(* A set of numbers that has 0, and with every number the next one, has all. *)
LEMMA NatLeast ==
    ASSUME NEW T \in SUBSET Nat, 0 \in T, \A n \in Nat : n \in T => n + 1 \in T
    PROVE  T = Nat
  <1> DEFINE R == {ss \in Nat \X Nat : ss[1] < ss[2]}
             B == Nat \ T
  <1>1. IsWellFoundedOn(R, Nat)
    BY NatLessThanWellFounded DEF OpToRel
  <1>2. \A x, y \in Nat : x < y => <<x, y>> \in R
    OBVIOUS
  <1>3. ASSUME B /= {} PROVE FALSE
    <2>1. B \subseteq Nat
      OBVIOUS
    <2> HIDE DEF R, B
    <2>2. PICK b \in B : \A y \in B : ~(<<y, b>> \in R)
      BY <1>1, <1>3, <2>1, WFMin, Zenon
    <2>3. b \in Nat /\ b \notin T
      BY DEF B
    <2>4. b /= 0 /\ b - 1 \in Nat /\ b - 1 < b /\ (b - 1) + 1 = b
      BY <2>3
    <2>5. b - 1 \notin T
      BY <2>3, <2>4
    <2>6. b - 1 \in B
      BY <2>4, <2>5 DEF B
    <2> QED BY <1>2, <2>2, <2>3, <2>4, <2>6
  <1> QED BY <1>3

(* The recursive functions exist. *)
LEMMA FlattensExists ==
    ASSUME NEW s, NEW m \in Nat
    PROVE  \E f : Flattens(f, s, m)
  <1> DEFINE T == {n \in Nat : \E f : Flattens(f, s, n)}
  <1>1. 0 \in T
    <2>1. PICK f : f = [i \in 1 .. 0 |-> IF i = 1 THEN s[i] ELSE s[i]]
      OBVIOUS
    <2>2. 1 .. 0 = {}
      OBVIOUS
    <2>3. f = [i \in 1 .. 0 |-> IF i = 1 THEN s[i] ELSE f[i - 1] \o s[i]]
      BY <2>1, <2>2
    <2> QED BY <2>3 DEF Flattens
  <1>2. ASSUME NEW n \in Nat, n \in T PROVE n + 1 \in T
    <2>1. PICK f : Flattens(f, s, n)
      BY <1>2
    <2>2. PICK g : g = [i \in 1 .. n + 1 |->
                          IF i = 1 THEN s[i]
                          ELSE IF i = n + 1 THEN f[n] \o s[i] ELSE f[i]]
      OBVIOUS
    <2>3. ASSUME NEW i \in 1 .. n PROVE g[i] = f[i]
      <3>1. i \in 1 .. n + 1 /\ i /= n + 1
        OBVIOUS
      <3>2. f[i] = IF i = 1 THEN s[i] ELSE f[i - 1] \o s[i]
        BY <2>1 DEF Flattens
      <3> QED BY <2>2, <3>1, <3>2
    <2>4. ASSUME NEW i \in 1 .. n + 1
          PROVE  g[i] = IF i = 1 THEN s[i] ELSE g[i - 1] \o s[i]
      <3>1. CASE i = 1
        BY <2>2, <3>1
      <3>2. CASE i = n + 1 /\ i /= 1
        <4>1. n \in 1 .. n /\ i - 1 = n
          BY <3>2
        <4>2. g[i - 1] = f[n]
          BY <2>3, <4>1
        <4>3. g[i] = f[n] \o s[i]
          BY <2>2, <3>2
        <4> QED BY <3>2, <4>2, <4>3
      <3>3. CASE i \in 1 .. n /\ i /= 1
        <4>1. i - 1 \in 1 .. n
          BY <3>3
        <4>2. g[i - 1] = f[i - 1] /\ g[i] = f[i]
          BY <2>3, <3>3, <4>1
        <4>3. f[i] = f[i - 1] \o s[i]
          BY <2>1, <3>3 DEF Flattens
        <4> QED BY <3>3, <4>2, <4>3
      <3>4. i \in 1 .. n \/ i = n + 1
        OBVIOUS
      <3> QED BY <3>1, <3>2, <3>3, <3>4
    <2>5. g = [i \in 1 .. n + 1 |-> g[i]]
      BY <2>2
    <2>6. Flattens(g, s, n + 1)
      BY <2>4, <2>5 DEF Flattens
    <2> QED BY <2>6
  <1> HIDE DEF T
  <1>3. T = Nat
    <2>1. T \in SUBSET Nat
      BY DEF T
    <2> QED BY <1>1, <1>2, <2>1, NatLeast
  <1>4. m \in T
    BY <1>3
  <1> QED BY <1>4 DEF T

(* Every finite list of numbers has its list of partial sums. *)
LEMMA SumsExists ==
    ASSUME NEW z, NEW m \in Nat
    PROVE  \E g : Sums(g, z, m)
  <1> DEFINE T == {n \in Nat : \E f : Sums(f, z, n)}
  <1>1. 0 \in T
    <2>1. PICK f : f = [i \in 1 .. 0 |-> 0]
      OBVIOUS
    <2>2. 1 .. 0 = {}
      OBVIOUS
    <2>3. f = [k \in 1 .. 0 |-> IF k = 1 THEN 0 ELSE f[k - 1] + z[k - 1]]
      BY <2>1, <2>2
    <2> QED BY <2>3 DEF Sums
  <1>2. ASSUME NEW n \in Nat, n \in T PROVE n + 1 \in T
    <2>1. PICK f : Sums(f, z, n)
      BY <1>2
    <2>2. PICK g : g = [k \in 1 .. n + 1 |->
                          IF k = 1 THEN 0
                          ELSE IF k = n + 1 THEN f[n] + z[n] ELSE f[k]]
      OBVIOUS
    <2>3. ASSUME NEW k \in 1 .. n PROVE g[k] = f[k]
      <3>1. k \in 1 .. n + 1 /\ k /= n + 1
        OBVIOUS
      <3>2. f[k] = IF k = 1 THEN 0 ELSE f[k - 1] + z[k - 1]
        BY <2>1 DEF Sums
      <3> QED BY <2>2, <3>1, <3>2
    <2>4. ASSUME NEW k \in 1 .. n + 1
          PROVE  g[k] = IF k = 1 THEN 0 ELSE g[k - 1] + z[k - 1]
      <3>1. CASE k = 1
        BY <2>2, <3>1
      <3>2. CASE k = n + 1 /\ k /= 1
        <4>1. n \in 1 .. n /\ k - 1 = n
          BY <3>2
        <4>2. g[k - 1] = f[n]
          BY <2>3, <4>1
        <4>3. g[k] = f[n] + z[n]
          BY <2>2, <3>2
        <4> QED BY <3>2, <4>1, <4>2, <4>3
      <3>3. CASE k \in 1 .. n /\ k /= 1
        <4>1. k - 1 \in 1 .. n
          BY <3>3
        <4>2. g[k - 1] = f[k - 1] /\ g[k] = f[k]
          BY <2>3, <3>3, <4>1
        <4>3. f[k] = f[k - 1] + z[k - 1]
          BY <2>1, <3>3 DEF Sums
        <4> QED BY <3>3, <4>2, <4>3
      <3>4. k \in 1 .. n \/ k = n + 1
        OBVIOUS
      <3> QED BY <3>1, <3>2, <3>3, <3>4
    <2>5. g = [k \in 1 .. n + 1 |-> g[k]]
      BY <2>2
    <2>6. Sums(g, z, n + 1)
      BY <2>4, <2>5 DEF Sums
    <2> QED BY <2>6
  <1> HIDE DEF T
  <1>3. T = Nat
    <2>1. T \in SUBSET Nat
      BY DEF T
    <2> QED BY <1>1, <1>2, <2>1, NatLeast
  <1>4. m \in T
    BY <1>3
  <1> QED BY <1>4 DEF T

(* s are N sequences over E, and z their lengths *)
PartsAre(s, z, E, N) == \A i \in 1 .. N : s[i] \in Seq(E) /\ z[i] = Len(s[i])

(* Every part is found again in the concatenation, where the lengths before it
   add up to. *)
LEMMA PartsFound ==
    ASSUME NEW N \in Nat \ {0}, NEW E, NEW s, NEW z, PartsAre(s, z, E, N),
           NEW f, Flattens(f, s, N), NEW g, Sums(g, z, N), NEW k \in 1 .. N
    PROVE  SubSeq(f[N], g[k] + 1, g[k] + z[k]) = s[k]
  <1> DEFINE Cut(m) ==
               /\ f[m] \in Seq(E) /\ g[m] \in Nat /\ Len(f[m]) = g[m] + z[m]
               /\ \A i \in 1 .. m :
                    /\ g[i] \in Nat /\ g[i] + z[i] <= Len(f[m])
                    /\ \A r \in 1 .. z[i] : f[m][g[i] + r] = s[i][r]
             T == {n \in Nat : n + 1 <= N => Cut(n + 1)}
  <1>1. \A i \in 1 .. N : s[i] \in Seq(E) /\ z[i] \in Nat /\ z[i] = Len(s[i])
    BY LenProperties DEF PartsAre
  <1>2. Cut(1)
    <2>1. 1 \in 1 .. N
      OBVIOUS
    <2>2. f[1] = s[1] /\ g[1] = 0
      BY <2>1 DEF Flattens, Sums
    <2>3. f[1] \in Seq(E) /\ z[1] \in Nat /\ Len(f[1]) = z[1]
      BY <1>1, <2>1, <2>2
    <2>4. \A r \in 1 .. z[1] : f[1][g[1] + r] = s[1][r]
      BY <2>2
    <2>5. \A i \in 1 .. 1 : i = 1
      OBVIOUS
    <2> QED BY <2>2, <2>3, <2>4, <2>5
  <1>3. ASSUME NEW m \in Nat, m > 0, m + 1 <= N, Cut(m) PROVE Cut(m + 1)
    <2>1. m \in 1 .. N /\ m + 1 \in 1 .. N /\ m + 1 /= 1 /\ (m + 1) - 1 = m
      BY <1>3
    <2>2. f[m + 1] = f[m] \o s[m + 1]
      BY <2>1 DEF Flattens
    <2>3. g[m + 1] = g[m] + z[m]
      BY <2>1 DEF Sums
    <2>4. PICK y : y = Len(f[m])
      OBVIOUS
    <2>5. f[m] \in Seq(E) /\ y = g[m + 1] /\ y \in Nat
      BY <1>1, <1>3, <2>1, <2>3, <2>4
    <2>6. s[m + 1] \in Seq(E) /\ z[m + 1] = Len(s[m + 1]) /\ z[m + 1] \in Nat
      BY <1>1, <2>1
    <2>7. PICK v : v = f[m + 1]
      OBVIOUS
    <2>8. /\ v \in Seq(E) /\ Len(v) = y + z[m + 1]
          /\ \A i \in 1 .. y + z[m + 1] :
               v[i] = IF i <= y THEN f[m][i] ELSE s[m + 1][i - y]
      <3>1. PICK c : c = f[m]
        OBVIOUS
      <3>2. PICK d : d = s[m + 1]
        OBVIOUS
      <3>3. /\ v = c \o d /\ c \in Seq(E) /\ d \in Seq(E)
            /\ Len(c) = y /\ Len(d) = z[m + 1]
        BY <2>2, <2>4, <2>5, <2>6, <2>7, <3>1, <3>2
      <3>4. /\ c \o d \in Seq(E) /\ Len(c \o d) = Len(c) + Len(d)
            /\ \A i \in 1 .. Len(c) + Len(d) :
                 (c \o d)[i] = IF i <= Len(c) THEN c[i] ELSE d[i - Len(c)]
        <4>1. c \in Seq(E) /\ d \in Seq(E)
          BY <3>3
        <4>2. c \o d \in Seq(E)
          BY <4>1, ConcatProperties
        <4>3. Len(c \o d) = Len(c) + Len(d)
          BY <4>1, ConcatProperties
        <4>4. \A i \in 1 .. Len(c) + Len(d) :
                (c \o d)[i] = IF i <= Len(c) THEN c[i] ELSE d[i - Len(c)]
          BY <4>1, ConcatProperties
        <4> QED BY <4>2, <4>3, <4>4
      <3> QED BY <3>1, <3>2, <3>3, <3>4
    <2>9. ASSUME NEW i \in 1 .. m
          PROVE  /\ g[i] \in Nat /\ g[i] + z[i] <= y + z[m + 1]
                 /\ \A r \in 1 .. z[i] : v[g[i] + r] = s[i][r]
      <3>1. /\ g[i] \in Nat /\ z[i] \in Nat /\ g[i] + z[i] <= y
            /\ \A r \in 1 .. z[i] : f[m][g[i] + r] = s[i][r]
        <4>1. i \in 1 .. N
          BY <2>1
        <4> QED BY <1>1, <1>3, <2>4, <4>1
      <3>2. ASSUME NEW r \in 1 .. z[i] PROVE v[g[i] + r] = s[i][r]
        <4>1. g[i] + r \in 1 .. y + z[m + 1] /\ g[i] + r <= y
          <5>1. PICK a : a = g[i]
            OBVIOUS
          <5>2. PICK b : b = z[i]
            OBVIOUS
          <5>3. PICK x : x = z[m + 1]
            OBVIOUS
          <5>4. a \in Nat /\ b \in Nat /\ x \in Nat /\ y \in Nat /\ a + b <= y
            BY <2>5, <2>6, <3>1, <5>1, <5>2, <5>3
          <5>5. r \in Nat /\ 1 <= r /\ r <= b
            BY <5>2, <5>4
          <5>6. a + r \in 1 .. y + x /\ a + r <= y
            BY <5>4, <5>5
          <5> QED BY <5>1, <5>3, <5>6
        <4>2. PICK q : q = g[i] + r
          OBVIOUS
        <4>3. v[q] = f[m][q]
          BY <2>8, <4>1, <4>2
        <4> QED BY <3>1, <4>2, <4>3
      <3>3. g[i] + z[i] <= y + z[m + 1]
        BY <2>5, <2>6, <3>1
      <3> QED BY <3>1, <3>2, <3>3
    <2>10. ASSUME NEW r \in 1 .. z[m + 1] PROVE v[y + r] = s[m + 1][r]
      <3>1. y + r \in 1 .. y + z[m + 1] /\ ~(y + r <= y) /\ (y + r) - y = r
        BY <2>5, <2>6
      <3> QED BY <2>8, <3>1
    <2>11. \A i \in 1 .. m + 1 : i \in 1 .. m \/ i = m + 1
      OBVIOUS
    <2>12. /\ v \in Seq(E) /\ g[m + 1] \in Nat /\ Len(v) = g[m + 1] + z[m + 1]
           /\ \A i \in 1 .. m + 1 :
                /\ g[i] \in Nat /\ g[i] + z[i] <= Len(v)
                /\ \A r \in 1 .. z[i] : v[g[i] + r] = s[i][r]
      <3>1. ASSUME NEW i \in 1 .. m + 1
            PROVE  /\ g[i] \in Nat /\ g[i] + z[i] <= Len(v)
                   /\ \A r \in 1 .. z[i] : v[g[i] + r] = s[i][r]
        <4>1. CASE i \in 1 .. m
          BY <2>8, <2>9, <4>1
        <4>2. CASE i = m + 1
          <5>1. g[m + 1] + z[m + 1] <= Len(v)
            BY <2>5, <2>6, <2>8
          <5> QED BY <2>5, <2>10, <4>2, <5>1
        <4> QED BY <2>11, <4>1, <4>2
      <3> QED BY <2>5, <2>8, <3>1
    <2> QED BY <2>7, <2>12
  <1>4. 0 \in T
    BY <1>2
  <1>5. ASSUME NEW n \in Nat, n \in T PROVE n + 1 \in T
    <2>1. ASSUME (n + 1) + 1 <= N PROVE Cut((n + 1) + 1)
      <3>1. n + 1 \in Nat /\ n + 1 > 0 /\ n + 1 <= N
        BY <2>1
      <3> HIDE DEF Cut
      <3>2. Cut(n + 1)
        BY <1>5, <3>1
      <3> QED BY <1>3, <2>1, <3>1, <3>2
    <2> HIDE DEF Cut
    <2> QED BY <2>1
  <1> HIDE DEF Cut
  <1>6. N - 1 \in T
    <2>1. T \in SUBSET Nat
      OBVIOUS
    <2> HIDE DEF T
    <2>2. T = Nat
      BY <1>4, <1>5, <2>1, NatLeast
    <2> QED BY <2>2
  <1>7. Cut(N)
    <2>1. N - 1 \in Nat /\ (N - 1) + 1 = N /\ N <= N
      OBVIOUS
    <2> QED BY <1>6, <2>1
  <1>8. PICK w : w = f[N]
    OBVIOUS
  <1>9. PICK x : x = g[k]
    OBVIOUS
  <1>10. PICK y : y = z[k]
    OBVIOUS
  <1>11. /\ w \in Seq(E) /\ x \in Nat /\ x + y <= Len(w) /\ y \in Nat /\ y = Len(s[k])
         /\ \A r \in 1 .. y : w[x + r] = s[k][r]
    BY <1>1, <1>7, <1>8, <1>9, <1>10 DEF Cut
  <1>12. PICK u : u = SubSeq(w, x + 1, x + y)
    OBVIOUS
  <1>13. \A i \in x + 1 .. x + y : w[i] \in E
    <2>1. \A i \in 1 .. Len(w) : w[i] \in E
      BY <1>11, ElementOfSeq
    <2>2. Len(w) \in Nat
      BY <1>11, LenProperties
    <2> QED BY <1>11, <2>1, <2>2
  <1>14. /\ u \in Seq(E) /\ Len(u) = y
         /\ \A i \in 1 .. y : u[i] = w[x + i]
    <2>1. x + 1 \in Int /\ x + y \in Int /\ (x + y) - (x + 1) + 1 = y
          /\ (x + 1 <= x + y <=> y > 0) /\ \A i \in 1 .. y : (x + 1) + i - 1 = x + i
      BY <1>11
    <2>2. /\ u \in Seq(E)
          /\ Len(u) = IF x + 1 <= x + y THEN (x + y) - (x + 1) + 1 ELSE 0
          /\ \A i \in 1 .. (x + y) - (x + 1) + 1 : u[i] = w[(x + 1) + i - 1]
      BY <1>12, <1>13, <2>1, SubSeqProperties
    <2>3. Len(u) = y
      BY <1>11, <2>1, <2>2
    <2> QED BY <2>1, <2>2, <2>3
  <1>15. u = s[k]
    <2>1. s[k] \in Seq(E) /\ Len(u) = Len(s[k])
      BY <1>1, <1>11, <1>14
    <2>2. \A i \in 1 .. Len(u) : u[i] = s[k][i]
      BY <1>11, <1>14
    <2> QED BY <1>14, <2>1, <2>2, SeqEqual
  <1> QED BY <1>8, <1>9, <1>10, <1>12, <1>15

(* FlattenSeq is what it recurses to. *)
LEMMA FlattenSeqIs ==
    ASSUME NEW N \in Nat \ {0}, NEW s, Len(s) = N
    PROVE  \E f : Flattens(f, s, N) /\ FlattenSeq(s) = f[N]
  <1> DEFINE f == CHOOSE f : f = [i \in 1 .. N |->
                                     IF i = 1 THEN s[i] ELSE f[i - 1] \o s[i]]
  <1>1. FlattenSeq(s) = f[N]
    BY DEF FlattenSeq
  <1>2. \E h : h = [i \in 1 .. N |-> IF i = 1 THEN s[i] ELSE h[i - 1] \o s[i]]
    BY FlattensExists DEF Flattens
  <1>3. f = [i \in 1 .. N |-> IF i = 1 THEN s[i] ELSE f[i - 1] \o s[i]]
    BY <1>2, ZenonT(40)
  <1>4. Flattens(f, s, N)
    BY <1>3 DEF Flattens
  <1> QED BY <1>1, <1>4

(* send_ffn_output: the slice for a peer is its own rows of the concatenation. *)
LEMMA SliceOf ==
    ASSUME IInv, NEW j \in Ffn, Active(j), NEW k \in Srcs(j), NEW n, n = Taken(j),
           NEW a, a = Peer(j, k), NEW st, st = ffn[j].stage
    PROVE  Slice(j, k) = [r \in 1 .. OwnRows(plans[n], st, a) |-> a]
  <1>1. PICK N : N = Cardinality(Srcs(j))
    OBVIOUS
  <1>2. N \in Nat \ {0} /\ Srcs(j) = 1 .. N
    <2>1. PICK m : m = Cardinality(SubgroupBlock(j, A, F))
      OBVIOUS
    <2>2. m \in Nat /\ Srcs(j) = 1 .. m
      BY <2>1, SrcsOf
    <2>3. Cardinality(1 .. m) = IF 1 > m THEN 0 ELSE m - 1 + 1
      <3>1. 1 \in Int /\ m \in Int
        BY <2>2
      <3> QED BY <3>1, FS_Interval
    <2>4. N = m
      BY <1>1, <2>2, <2>3
    <2> QED BY <2>2, <2>4
  <1>3. PICK S : S = StageCount(n)
    OBVIOUS
  <1>4. /\ n \in 1 .. Len(plans) /\ PlanOK(plans[n]) /\ S = plans[n].stages
        /\ st \in 0 .. S - 1
    BY <1>3, ActiveAt
  <1>5. ffn[j].rows = PeerRows(plans[n].rows, j)
    BY DEF IInv, FfnInv, FfnOK
  <1>6. ASSUME NEW i \in 1 .. N
        PROVE  /\ ffn[j].rows[<<st, i>>] = OwnRows(plans[n], st, Peer(j, i))
               /\ ffn[j].rows[<<st, i>>] \in Nat /\ Peer(j, i) \in Nat
    <2>1. ffn[j].rows[<<st, i>>] = OwnRows(plans[n], st, Peer(j, i))
      <3>1. PICK p : p = plans[n]
        OBVIOUS
      <3>2. PlanOK(p) /\ st \in 0 .. p.stages - 1 /\ i \in Srcs(j)
        BY <1>2, <1>4, <3>1
      <3>3. PeerRows(p.rows, j)[<<st, i>>] = OwnRows(p, st, Peer(j, i))
        BY <3>2, PeerRowsOf
      <3> QED BY <1>5, <3>1, <3>3
    <2>2. Peer(j, i) \in Att
      BY <1>2, PeerOwner
    <2>3. OwnRows(plans[n], st, Peer(j, i)) \in Nat \ {0}
      BY <1>4, <2>2, OwnRowsType
    <2> QED BY <2>1, <2>2, <2>3 DEF Att
  <1> DEFINE s == [i \in 1 .. N |-> [r \in 1 .. ffn[j].rows[<<st, i>>] |-> Peer(j, i)]]
             z == [i \in 1 .. N |-> ffn[j].rows[<<st, i>>]]
             g == Starts(j)
  <1>7. Concatenated(j) = FlattenSeq(s) /\ SplitSizes(j) = z
    BY <1>1 DEF Concatenated, SplitSizes
  <1>8. ASSUME NEW i \in 1 .. N PROVE s[i] \in Seq(Nat) /\ z[i] = Len(s[i])
    <2>1. PICK m : m = ffn[j].rows[<<st, i>>]
      OBVIOUS
    <2>2. PICK b : b = Peer(j, i)
      OBVIOUS
    <2>3. m \in Nat /\ b \in Nat
      BY <1>6, <2>1, <2>2
    <2>4. s[i] = [r \in 1 .. m |-> b] /\ z[i] = m
      BY <2>1, <2>2
    <2> HIDE DEF s, z
    <2> QED BY <2>3, <2>4
  <1>9. Len(s) = N
    <2>1. DOMAIN s = 1 .. N
      OBVIOUS
    <2> HIDE DEF s
    <2>2. s = [i \in 1 .. N |-> s[i]]
      BY DEF s
    <2> QED BY <1>2, <2>2
  <1>10. Sums(g, z, N)
    <2>1. \E h : h = [i \in 1 .. N |-> IF i = 1 THEN 0 ELSE h[i - 1] + z[i - 1]]
      BY <1>2, SumsExists DEF Sums
    <2>2. g = CHOOSE h : h = [i \in 1 .. N |-> IF i = 1 THEN 0 ELSE h[i - 1] + z[i - 1]]
      <3> HIDE DEF z
      <3> QED BY <1>1, <1>7 DEF Starts
    <2> HIDE DEF z, g
    <2>3. g = [i \in 1 .. N |-> IF i = 1 THEN 0 ELSE g[i - 1] + z[i - 1]]
      BY <2>1, <2>2, Zenon
    <2> QED BY <2>3 DEF Sums
  <1>11. Slice(j, k) = SubSeq(FlattenSeq(s), g[k] + 1, g[k] + z[k])
    <2> HIDE DEF s, z
    <2> QED BY <1>7 DEF Slice
  <1>12. s[k] = [r \in 1 .. OwnRows(plans[n], st, a) |-> a]
    BY <1>2, <1>6
  <1> HIDE DEF s, z, g
  <1>13. PICK f : Flattens(f, s, N) /\ FlattenSeq(s) = f[N]
    BY <1>2, <1>9, FlattenSeqIs
  <1>14. SubSeq(f[N], g[k] + 1, g[k] + z[k]) = s[k]
    <2>1. PICK ss : ss = s
      OBVIOUS
    <2>2. PICK zz : zz = z
      OBVIOUS
    <2>3. PICK gg : gg = g
      OBVIOUS
    <2>4. PICK E : E = Nat
      OBVIOUS
    <2>5. PartsAre(ss, zz, E, N)
      BY <1>8, <2>1, <2>2, <2>4 DEF PartsAre
    <2>6. Flattens(f, ss, N) /\ Sums(gg, zz, N) /\ k \in 1 .. N
      BY <1>2, <1>10, <1>13, <2>1, <2>2, <2>3
    <2>7. SubSeq(f[N], gg[k] + 1, gg[k] + zz[k]) = ss[k]
      BY <1>2, <2>5, <2>6, PartsFound
    <2> QED BY <2>1, <2>2, <2>3, <2>7
  <1> QED BY <1>11, <1>12, <1>13, <1>14

(* Where a place is after a transfer, field by field. *)
LEMMA AdvanceRecord ==
    ASSUME NEW a1, NEW a2, NEW a3, NEW a4, NEW a5, NEW a6, NEW a7,
           NEW f, f = [pc |-> a1, pay |-> a2, mode |-> a3, rows |-> a4, layer |-> a5,
                       stage |-> a6, got |-> a7]
    PROVE  Advance(f) =
             IF a6 + 1 \in DOMAIN a2.counts
             THEN [pc |-> "recv", pay |-> a2, mode |-> a3, rows |-> a4, layer |-> a5,
                   stage |-> a6 + 1, got |-> [k \in DOMAIN a7 |-> <<>>]]
             ELSE IF a5 < L
             THEN [pc |-> "recv", pay |-> a2, mode |-> a3, rows |-> a4, layer |-> a5 + 1,
                   stage |-> 0, got |-> [k \in DOMAIN a7 |-> <<>>]]
             ELSE Waiting
  <1>1. PICK y : y = [k \in DOMAIN a7 |-> <<>>]
    OBVIOUS
  <1>2. PICK h : h = [f EXCEPT !.pc = "recv"]
    OBVIOUS
  <1>3. h = [pc |-> "recv", pay |-> a2, mode |-> a3, rows |-> a4, layer |-> a5,
             stage |-> a6, got |-> a7]
    BY <1>2
  <1>4. f.stage = a6 /\ f.layer = a5 /\ f.pay = a2 /\ f.got = a7
    OBVIOUS
  <1>5. [f EXCEPT !.pc = "recv", !.stage = @ + 1, !.got = [k \in DOMAIN @ |-> <<>>]]
          = [pc |-> "recv", pay |-> a2, mode |-> a3, rows |-> a4, layer |-> a5,
             stage |-> a6 + 1, got |-> y]
    <2>1. PICK g : g = [h EXCEPT !.stage = a6 + 1]
      OBVIOUS
    <2>2. g = [pc |-> "recv", pay |-> a2, mode |-> a3, rows |-> a4, layer |-> a5,
               stage |-> a6 + 1, got |-> a7]
      BY <1>3, <2>1
    <2>3. [g EXCEPT !.got = y]
            = [pc |-> "recv", pay |-> a2, mode |-> a3, rows |-> a4, layer |-> a5,
               stage |-> a6 + 1, got |-> y]
      BY <2>2
    <2>4. [f EXCEPT !.pc = "recv", !.stage = @ + 1, !.got = [k \in DOMAIN @ |-> <<>>]]
            = [g EXCEPT !.got = y]
      BY <1>1, <1>2, <1>3, <1>4, <2>1, <2>2
    <2> QED BY <2>3, <2>4
  <1>6. [f EXCEPT !.pc = "recv", !.layer = @ + 1, !.stage = 0,
                  !.got = [k \in DOMAIN @ |-> <<>>]]
          = [pc |-> "recv", pay |-> a2, mode |-> a3, rows |-> a4, layer |-> a5 + 1,
             stage |-> 0, got |-> y]
    <2>1. PICK e : e = [h EXCEPT !.layer = a5 + 1]
      OBVIOUS
    <2>2. e = [pc |-> "recv", pay |-> a2, mode |-> a3, rows |-> a4, layer |-> a5 + 1,
               stage |-> a6, got |-> a7]
      BY <1>3, <2>1
    <2>3. PICK g : g = [e EXCEPT !.stage = 0]
      OBVIOUS
    <2>4. g = [pc |-> "recv", pay |-> a2, mode |-> a3, rows |-> a4, layer |-> a5 + 1,
               stage |-> 0, got |-> a7]
      BY <2>2, <2>3
    <2>5. [g EXCEPT !.got = y]
            = [pc |-> "recv", pay |-> a2, mode |-> a3, rows |-> a4, layer |-> a5 + 1,
               stage |-> 0, got |-> y]
      BY <2>4
    <2>6. [f EXCEPT !.pc = "recv", !.layer = @ + 1, !.stage = 0,
                    !.got = [k \in DOMAIN @ |-> <<>>]] = [g EXCEPT !.got = y]
      BY <1>1, <1>2, <1>3, <1>4, <2>1, <2>2, <2>3, <2>4
    <2> QED BY <2>5, <2>6
  <1> QED BY <1>1, <1>4, <1>5, <1>6 DEF Advance

(* _ffn_forward goes on to the next transfer: one output more has been sent,
   and every tensor up to it received. *)
LEMMA AdvanceTo ==
    ASSUME IInv, NEW j \in Ffn, ffn[j].pc = "send", plans' = plans, att' = att, ctl' = ctl,
           NEW f, f = ffn[j], NEW g, g = Advance(f), ffn'[j] = g,
           NEW n, n = Taken(j), NEW S, S = StageCount(n),
           NEW x, x = Slot(S, f.layer, f.stage)
    PROVE  /\ FfnOK(j)' /\ Taken(j)' = n /\ Outputs(j, n)' = x + 1
           /\ \A k \in Srcs(j) : Received(j, k, n)' = MsgNo(x + 1, 0)
  <1>1. Active(j)
    BY DEF Active
  <1>2. /\ n \in 1 .. Len(plans) /\ ~IsCap(n) /\ PlanOK(plans[n]) /\ S \in {1, 2}
        /\ S = plans[n].stages /\ f.layer \in 1 .. L /\ f.stage \in 0 .. S - 1
        /\ DOMAIN f.got = Srcs(j) /\ FfnOK(j) /\ x \in Nat
    BY <1>1, ActiveAt
  <1>3. /\ f = [pc |-> f.pc, pay |-> Payload(plans[n], j, n), mode |-> f.mode,
                rows |-> PeerRows(plans[n].rows, j), layer |-> f.layer,
                stage |-> f.stage, got |-> f.got]
        /\ f.mode = "replay" <=> plans[n].kind = "replay"
    BY <1>1, <1>2 DEF FfnOK
  <1>4. DOMAIN Payload(plans[n], j, n).counts = 0 .. S - 1
    <2>1. Payload(plans[n], j, n).counts = plans[n].rows
      BY <1>2, StepTypes, PayloadOf
    <2> QED BY <1>2, <2>1 DEF PlanOK
  <1>5. PICK y : y = [k \in Srcs(j) |-> <<>>]
    OBVIOUS
  <1>6. g = IF f.stage + 1 <= S - 1
            THEN [pc |-> "recv", pay |-> Payload(plans[n], j, n), mode |-> f.mode,
                  rows |-> PeerRows(plans[n].rows, j), layer |-> f.layer,
                  stage |-> f.stage + 1, got |-> y]
            ELSE IF f.layer < L
            THEN [pc |-> "recv", pay |-> Payload(plans[n], j, n), mode |-> f.mode,
                  rows |-> PeerRows(plans[n].rows, j), layer |-> f.layer + 1,
                  stage |-> 0, got |-> y]
            ELSE Waiting
    <2>1. PICK a1 : a1 = f.pc
      OBVIOUS
    <2>2. PICK a2 : a2 = Payload(plans[n], j, n)
      OBVIOUS
    <2>3. PICK a3 : a3 = f.mode
      OBVIOUS
    <2>4. PICK a4 : a4 = PeerRows(plans[n].rows, j)
      OBVIOUS
    <2>5. PICK a5 : a5 = f.layer
      OBVIOUS
    <2>6. PICK a6 : a6 = f.stage
      OBVIOUS
    <2>7. PICK a7 : a7 = f.got
      OBVIOUS
    <2>8. f = [pc |-> a1, pay |-> a2, mode |-> a3, rows |-> a4, layer |-> a5,
               stage |-> a6, got |-> a7]
      BY <1>3, <2>1, <2>2, <2>3, <2>4, <2>5, <2>6, <2>7, Zenon
    <2>9. g = IF a6 + 1 \in DOMAIN a2.counts
              THEN [pc |-> "recv", pay |-> a2, mode |-> a3, rows |-> a4, layer |-> a5,
                    stage |-> a6 + 1, got |-> [k \in DOMAIN a7 |-> <<>>]]
              ELSE IF a5 < L
              THEN [pc |-> "recv", pay |-> a2, mode |-> a3, rows |-> a4, layer |-> a5 + 1,
                    stage |-> 0, got |-> [k \in DOMAIN a7 |-> <<>>]]
              ELSE Waiting
      BY <2>8, AdvanceRecord
    <2>10. a6 + 1 \in DOMAIN a2.counts <=> a6 + 1 <= S - 1
      <3>1. a6 \in 0 .. S - 1
        BY <1>2, <2>6
      <3>2. DOMAIN a2.counts = 0 .. S - 1
        BY <1>4, <2>2
      <3> QED BY <1>2, <3>1, <3>2
    <2>11. [k \in DOMAIN a7 |-> <<>>] = y
      BY <1>2, <1>5, <2>7
    <2> QED BY <2>2, <2>3, <2>4, <2>5, <2>6, <2>9, <2>10, <2>11, Zenon
  <1>7. DOMAIN y = Srcs(j) /\ \A k \in Srcs(j) : y[k] = <<>>
    BY <1>5
  <1>8. Taken(j)' = n /\ StageCount(n)' = S
    BY DEF Taken, StageCount
  <1>9. ASSUME NEW l \in 1 .. L, NEW s \in 0 .. S - 1, Slot(S, l, s) = x + 1,
               g = [pc |-> "recv", pay |-> Payload(plans[n], j, n), mode |-> f.mode,
                    rows |-> PeerRows(plans[n].rows, j), layer |-> l, stage |-> s, got |-> y]
        PROVE  /\ FfnOK(j)' /\ Outputs(j, n)' = x + 1
               /\ \A k \in Srcs(j) : Received(j, k, n)' = MsgNo(x + 1, 0)
    <2>1. /\ g.pc = "recv" /\ g.mode = f.mode /\ g.layer = l /\ g.stage = s /\ g.got = y
          /\ g = [pc |-> g.pc, pay |-> Payload(plans[n], j, n), mode |-> g.mode,
                  rows |-> PeerRows(plans[n].rows, j), layer |-> g.layer,
                  stage |-> g.stage, got |-> g.got]
      <3>1. g.pc = "recv" /\ g.mode = f.mode /\ g.layer = l /\ g.stage = s /\ g.got = y
        BY <1>9
      <3> QED BY <1>9, <3>1
    <2>2. Active(j)'
      BY <2>1 DEF Active
    <2>3. ASSUME NEW k \in Srcs(j)
          PROVE  /\ IsSequence(g.got[k]) /\ Len(g.got[k]) <= Parts /\ Len(g.got[k]) = 0
                 /\ \A i \in 1 .. Len(g.got[k]) :
                      g.got[k][i] = Message(Peer(j, k), n, g.layer, g.stage, i)'
      <3>1. IsSequence(g.got[k]) /\ Len(g.got[k]) = 0
        BY <1>7, <2>1, EmptySequence
      <3>2. Parts \in Nat
        BY PartsOf
      <3> QED BY <3>1, <3>2
    <2>4. n > 0 /\ g.layer \in 1 .. L /\ g.stage \in 0 .. S - 1 /\ DOMAIN g.got = Srcs(j)
      BY <1>2, <1>7, <2>1
    <2>5. FfnOK(j)'
      BY <1>2, <1>3, <1>8, <2>1, <2>2, <2>3, <2>4 DEF FfnOK
    <2>6. Outputs(j, n)' = x + 1
      BY <1>8, <1>9, <2>1, <2>2 DEF Outputs
    <2>7. ASSUME NEW k \in Srcs(j) PROVE Received(j, k, n)' = MsgNo(x + 1, 0)
      BY <1>8, <2>1, <2>2, <2>3, <2>6 DEF Received
    <2> QED BY <2>5, <2>6, <2>7
  <1>10. /\ f.stage + 1 <= S - 1 => Slot(S, f.layer, f.stage + 1) = x + 1
         /\ f.stage + 1 > S - 1 => IF f.layer < L THEN Slot(S, f.layer + 1, 0) = x + 1
                                   ELSE Slots(S) = x + 1
    <2>1. PICK l : l = f.layer
      OBVIOUS
    <2>2. PICK s : s = f.stage
      OBVIOUS
    <2>3. l \in 1 .. L /\ s \in 0 .. S - 1 /\ x = Slot(S, l, s)
      BY <1>2, <2>1, <2>2
    <2>4. /\ s + 1 <= S - 1 => Slot(S, l, s + 1) = x + 1
          /\ s + 1 > S - 1 => IF l < L THEN Slot(S, l + 1, 0) = x + 1
                              ELSE Slots(S) = x + 1
      <3>1. S \in {1, 2} /\ l \in 1 .. L /\ s \in 0 .. S - 1
        BY <1>2, <2>3
      <3>2. s + 1 <= S - 1 => Slot(S, l, s + 1) = Slot(S, l, s) + 1
        BY <3>1, SlotsCount
      <3>3. s + 1 > S - 1 => IF l < L THEN Slot(S, l + 1, 0) = Slot(S, l, s) + 1
                             ELSE Slots(S) = Slot(S, l, s) + 1
        BY <3>1, SlotsCount, Zenon
      <3> QED BY <2>3, <3>2, <3>3
    <2> QED BY <2>1, <2>2, <2>4
  <1>11. f.stage \in Nat /\ S \in Nat /\ (~(f.stage + 1 <= S - 1) => f.stage + 1 > S - 1)
    BY <1>2
  <1>12. CASE f.stage + 1 <= S - 1
    <2>1. f.stage + 1 \in 0 .. S - 1 /\ Slot(S, f.layer, f.stage + 1) = x + 1
      BY <1>2, <1>12, <1>10
    <2>2. g = [pc |-> "recv", pay |-> Payload(plans[n], j, n), mode |-> f.mode,
               rows |-> PeerRows(plans[n].rows, j), layer |-> f.layer,
               stage |-> f.stage + 1, got |-> y]
      BY <1>6, <1>12
    <2> QED BY <1>2, <1>8, <1>9, <2>1, <2>2
  <1>13. CASE ~(f.stage + 1 <= S - 1) /\ f.layer < L
    <2>1. f.layer + 1 \in 1 .. L /\ 0 \in 0 .. S - 1 /\ Slot(S, f.layer + 1, 0) = x + 1
      <3>1. Slot(S, f.layer + 1, 0) = x + 1
        BY <1>13, <1>10, <1>11
      <3>2. L \in Nat
        BY SizesAssumption
      <3> QED BY <1>2, <1>13, <3>1, <3>2
    <2>2. g = [pc |-> "recv", pay |-> Payload(plans[n], j, n), mode |-> f.mode,
               rows |-> PeerRows(plans[n].rows, j), layer |-> f.layer + 1,
               stage |-> 0, got |-> y]
      BY <1>6, <1>13
    <2> QED BY <1>8, <1>9, <2>1, <2>2
  <1>14. CASE ~(f.stage + 1 <= S - 1) /\ ~(f.layer < L)
    <2>1. Slots(S) = x + 1
      BY <1>14, <1>10, <1>11
    <2>2. g = Waiting /\ g.pc = "wait"
      BY <1>6, <1>14 DEF Waiting
    <2>3. ~Active(j)' /\ FfnOK(j)'
      BY <2>2 DEF Active, FfnOK
    <2>4. Outputs(j, n)' = x + 1
      <3>1. ~(n < n)
        BY <1>2
      <3> QED BY <1>8, <2>1, <2>3, <3>1 DEF Outputs
    <2>5. \A k \in Srcs(j) : Received(j, k, n)' = MsgNo(x + 1, 0)
      BY <2>3, <2>4 DEF Received
    <2> QED BY <1>8, <2>3, <2>4, <2>5
  <1> QED BY <1>12, <1>13, <1>14

(* ... for a pair: the output of the transfer is on the wire back. *)
LEMMA SendOutputPair ==
    ASSUME IInv, NEW j \in Ffn, ffn[j].pc = "send", plans' = plans, att' = att, ctl' = ctl,
           NEW f, f = ffn[j], NEW n, n = Taken(j), NEW S, S = StageCount(n),
           NEW x, x = Slot(S, f.layer, f.stage), Taken(j)' = n, Outputs(j, n)' = x + 1,
           NEW k \in Srcs(j), Received(j, k, n)' = MsgNo(x + 1, 0),
           NEW a, a = Peer(j, k), a2e'[a] = a2e[a],
           e2a'[a] = Append(e2a[a], Output(a, n, f.layer, f.stage))
    PROVE  PairOK(a)'
  <1>1. Active(j)
    BY DEF Active
  <1>2. /\ n \in 1 .. Len(plans) /\ S \in {1, 2} /\ f.layer \in 1 .. L
        /\ f.stage \in 0 .. S - 1 /\ FfnOK(j) /\ x \in Nat
        /\ Outputs(j, n) = x /\ Received(j, k, n) = MsgNo(x, Len(f.got[k]))
    BY <1>1, ActiveAt
  <1>3. Len(f.got[k]) = Parts /\ f.got[k] /= <<>>
    <2>1. Len(f.got[k]) = Parts
      BY <1>1, <1>2 DEF FfnOK
    <2>2. Parts > 0
      BY PartsOf
    <2> QED BY <2>1, <2>2, EmptySequence
  <1>4. a \in Att /\ Owner(a) = j /\ Src(a) = k /\ PlaceInv(a) /\ UpInv(a) /\ DownInv(a)
    BY PeerOwner DEF IInv, PairInv, PairOK
  <1>5. att[a].pc = "run" /\ att[a].step = n
    BY <1>1, <1>3, <1>4 DEF PlaceInv
  <1>6. att'[a].pc = "run" /\ n = att'[a].step
    BY <1>5
  <1>7. PICK rc : rc = Received(j, k, n)
    OBVIOUS
  <1>8. rc = Received(j, k, n)'
    <2>1. MsgNo(x, Parts) = MsgNo(x + 1, 0)
      BY <1>2, PartsOf DEF MsgNo
    <2> QED BY <1>2, <1>3, <1>7, <2>1
  <1>9. UpInv(a)'
    <2>1. PICK u : u = a2e[a]
      OBVIOUS
    <2>2. /\ IsSequence(u) /\ SentBy(att[a], StageCount(n)) = rc + Len(u)
          /\ UpWire(u, rc, a, n)
      BY <1>4, <1>5, <1>7, <2>1 DEF UpInv
    <2>3. /\ SentBy(att'[a], StageCount(n)) = rc + Len(u) /\ u = a2e'[a]
          /\ rc = Received(Owner(a), Src(a), n)'
      BY <1>4, <1>8, <2>1, <2>2
    <2> QED BY <1>4, <1>6, <2>2, <2>3, UpFrom
  <1>10. DownInv(a)'
    <2>1. PICK u : u = e2a[a]
      OBVIOUS
    <2>2. PICK rd : rd = RcvdBy(att[a], StageCount(n))
      OBVIOUS
    <2>3. PICK w : w = Len(u)
      OBVIOUS
    <2>4. IsSequence(u) /\ x = rd + w /\ DownWire(u, rd, a, n)
      BY <1>2, <1>4, <1>5, <2>1, <2>2, <2>3 DEF DownInv
    <2>5. w \in Nat /\ rd \in Nat
      <3>1. w \in Nat
        BY <2>3, <2>4, SequenceLen
      <3>2. ThreadsOK(att[a], S)
        BY <1>4, <1>5, RunAt
      <3> QED BY <1>2, <2>2, <3>1, <3>2, ThreadAt
    <2>6. PICK l : l = f.layer
      OBVIOUS
    <2>7. PICK s : s = f.stage
      OBVIOUS
    <2>8. PICK v : v = Append(u, Output(a, n, l, s))
      OBVIOUS
    <2>9. l \in 1 .. L /\ s \in 0 .. StageCount(n) - 1 /\ Slot(StageCount(n), l, s) = rd + w
      BY <1>2, <2>4, <2>6, <2>7
    <2>10. DownWire(v, rd, a, n)
      BY <2>3, <2>4, <2>5, <2>8, <2>9, DownAppend
    <2>11. PICK y : y = Len(v)
      OBVIOUS
    <2>12. IsSequence(v) /\ y = w + 1
      BY <2>3, <2>4, <2>8, <2>11, SequenceAppend
    <2>13. v = e2a'[a]
      BY <2>1, <2>6, <2>7, <2>8
    <2>14. Outputs(Owner(a), n)' = rd + y /\ rd = RcvdBy(att'[a], StageCount(n))
      <3>1. x + 1 = rd + y
        BY <1>2, <2>4, <2>5, <2>12
      <3> QED BY <1>4, <2>2, <3>1
    <2> QED BY <1>4, <1>6, <2>10, <2>11, <2>12, <2>13, <2>14, DownFrom
  <1>11. PlaceInv(a)'
    <2>1. Caps(n, n)
      BY <1>2 DEF Caps
    <2>2. n <= n
      BY <1>2
    <2> QED BY <1>4, <1>6, <2>1, <2>2 DEF PlaceInv
  <1> QED BY <1>9, <1>10, <1>11 DEF PairOK

(* SendOutput: every peer gets the output of its own rows. *)
LEMMA SendOutputStep ==
    ASSUME IInv, NEW j \in Ffn, SendOutput(j)
    PROVE  IInv'
  <1>1. PICK f : f = ffn[j]
    OBVIOUS
  <1>2. PICK g : g = Advance(f)
    OBVIOUS
  <1>3. PICK n : n = Taken(j)
    OBVIOUS
  <1>4. PICK S : S = StageCount(n)
    OBVIOUS
  <1>5. PICK x : x = Slot(S, f.layer, f.stage)
    OBVIOUS
  <1>6. /\ ffn[j].pc = "send" /\ plans' = plans /\ att' = att /\ ctl' = ctl
        /\ graphs' = graphs /\ a2e' = a2e /\ ffn' = [ffn EXCEPT ![j] = g]
        /\ e2a' = [a \in Att |->
             IF Owner(a) /= j THEN e2a[a]
             ELSE LET k == CHOOSE i \in Srcs(j) : Peer(j, i) = a
                  IN  Append(e2a[a], [step |-> f.pay.step, layer |-> f.layer,
                                      stage |-> f.stage, rows |-> Slice(j, k)])]
    BY <1>1, <1>2 DEF SendOutput
  <1>7. Active(j)
    BY <1>6 DEF Active
  <1>8. DOMAIN ffn = Ffn /\ DOMAIN a2e = Att /\ DOMAIN e2a = Att
    BY DEF IInv, FfnInv, PairInv
  <1>9. ffn'[j] = g /\ DOMAIN ffn' = Ffn /\ \A i \in Ffn : i /= j => ffn'[i] = ffn[i]
    BY <1>6, <1>8
  <1>10. /\ FfnOK(j)' /\ Taken(j)' = n /\ Outputs(j, n)' = x + 1
         /\ \A k \in Srcs(j) : Received(j, k, n)' = MsgNo(x + 1, 0)
    BY <1>1, <1>2, <1>3, <1>4, <1>5, <1>6, <1>9, AdvanceTo
  <1>11. f.pay.step = n
    <2>1. PlanOK(plans[n]) /\ FfnOK(j)
      BY <1>3, <1>4, <1>7, ActiveAt
    <2>2. f.pay = Payload(plans[n], j, n)
      BY <1>1, <1>3, <1>7, <2>1 DEF FfnOK
    <2> QED BY <2>1, <2>2, StepTypes, PayloadOf
  <1>12. ASSUME NEW k \in Srcs(j) PROVE PairOK(Peer(j, k))'
    <2>1. PICK a : a = Peer(j, k)
      OBVIOUS
    <2>2. a \in Att /\ Owner(a) = j
      BY <2>1, PeerOwner
    <2>3. (CHOOSE i \in Srcs(j) : Peer(j, i) = a) = k
      <3>1. \A i \in Srcs(j) : Peer(j, i) = a => i = k
        BY <2>1, PeerOwner
      <3> QED BY <2>1, <3>1
    <2>4. e2a'[a] = Append(e2a[a], [step |-> n, layer |-> f.layer, stage |-> f.stage,
                                    rows |-> Slice(j, k)])
      BY <1>6, <1>11, <2>2, <2>3
    <2>5. Slice(j, k) = [r \in 1 .. OwnRows(plans[n], f.stage, a) |-> a]
      BY <1>1, <1>3, <1>7, <2>1, SliceOf
    <2>6. e2a'[a] = Append(e2a[a], Output(a, n, f.layer, f.stage))
      BY <2>4, <2>5 DEF Output
    <2>7. /\ a2e'[a] = a2e[a] /\ Taken(j)' = n /\ Outputs(j, n)' = x + 1
          /\ Received(j, k, n)' = MsgNo(x + 1, 0) /\ ffn[j].pc = "send"
          /\ plans' = plans /\ att' = att /\ ctl' = ctl
      BY <1>6, <1>10
    <2>8. PairOK(a)'
      BY <1>1, <1>3, <1>4, <1>5, <2>1, <2>6, <2>7, SendOutputPair
    <2> QED BY <2>1, <2>8
  <1>13. DOMAIN e2a' = Att /\ \A a \in Att : Owner(a) /= j => e2a'[a] = e2a[a]
    BY <1>6
  <1> QED BY <1>6, <1>8, <1>9, <1>10, <1>12, <1>13, FfnStep

----------------------------------------------------------------------------
(***************************************************************************)
(* The steps together.                                                     *)
(***************************************************************************)
(* Agree: all ranks are between two steps, and the plans before stay. *)
LEMMA AgreeStep ==
    ASSUME IInv, Agree
    PROVE  IInv'
  <1>1. PICK p \in ServingPlans : plans' = Append(plans, p)
    BY DEF Agree
  <1>2. PICK m : m = Len(plans)
    OBVIOUS
  <1>3. /\ att' = att /\ ctl' = ctl /\ a2e' = a2e /\ e2a' = e2a /\ ffn' = ffn
        /\ graphs' = graphs /\ \A a \in Att : att[a].pc = "idle" /\ att[a].step = m
    BY <1>2 DEF Agree, ffnVars
  <1>4. /\ m \in Nat /\ IsSequence(plans') /\ Len(plans') = m + 1 /\ plans'[m + 1] = p
        /\ \A n \in 1 .. m : plans'[n] = plans[n]
    BY <1>1, <1>2, SequenceLen, SequenceAppend DEF IInv, PlansInv
  <1>5. PICK N : N = 2 * Len(CaptureDescs)
    OBVIOUS
  <1>6. N \in Nat /\ m >= N
    BY <1>2, <1>5, CountsAssumption DEF IInv, PlansInv
  <1>7. \A n \in 1 .. m + 1 : n \in 1 .. m \/ n = m + 1
    BY <1>4
  <1>8. PlansInv'
    <2>1. ASSUME NEW n \in 1 .. m
          PROVE  /\ PlanOK(plans'[n])
                 /\ plans'[n].kind = "capture" <=> IsCap(n)
                 /\ n <= N => plans'[n] = CaptureEvents[n] /\ plans'[n].kind /= "replay"
                 /\ plans'[n].kind = "replay" =>
                      \E i \in 1 .. Len(CaptureDescs) : plans'[n].rows = CaptureEvents[2 * i].rows
      <3>1. plans'[n] = plans[n]
        BY <1>4
      <3> QED BY <1>2, <1>5, <3>1 DEF IInv, PlansInv
    <2>2. /\ PlanOK(p) /\ p.kind /= "capture" /\ ~IsCap(m + 1) /\ ~(m + 1 <= N)
          /\ p.kind = "replay" =>
               \E i \in 1 .. Len(CaptureDescs) : p.rows = CaptureEvents[2 * i].rows
      <3>1. ~IsCap(m + 1)
        <4>1. Len(CaptureDescs) \in Nat
          BY CountsAssumption
        <4> QED BY <1>4, <1>5, <1>6, <4>1 DEF IsCap
      <3>2. ~(m + 1 <= N)
        BY <1>4, <1>6
      <3> QED BY <3>1, <3>2, ServingOf
    <2>3. Len(plans') >= N
      BY <1>4, <1>6
    <2>4. \A n \in 1 .. m + 1 :
            /\ PlanOK(plans'[n])
            /\ plans'[n].kind = "capture" <=> IsCap(n)
            /\ n <= N => plans'[n] = CaptureEvents[n] /\ plans'[n].kind /= "replay"
            /\ plans'[n].kind = "replay" =>
                 \E i \in 1 .. Len(CaptureDescs) : plans'[n].rows = CaptureEvents[2 * i].rows
      <3> SUFFICES ASSUME NEW n \in 1 .. m + 1
                   PROVE  /\ PlanOK(plans'[n])
                          /\ plans'[n].kind = "capture" <=> IsCap(n)
                          /\ n <= N => /\ plans'[n] = CaptureEvents[n]
                                       /\ plans'[n].kind /= "replay"
                          /\ plans'[n].kind = "replay" =>
                               \E i \in 1 .. Len(CaptureDescs) :
                                 plans'[n].rows = CaptureEvents[2 * i].rows
        OBVIOUS
      <3>1. CASE n \in 1 .. m
        BY <2>1, <3>1
      <3>2. CASE n = m + 1
        BY <1>4, <2>2, <3>2
      <3> QED BY <1>7, <3>1, <3>2
    <2> QED BY <1>4, <1>5, <2>3, <2>4 DEF PlansInv
  <1>9. AttInv'
    <2>1. ASSUME NEW a \in Att PROVE AttOK(a)'
      <3>1. AttOK(a) /\ att[a].pc = "idle" /\ att[a].step = m
        BY <1>3 DEF IInv, AttInv
      <3>2. att[a].step \in 0 .. m + 1
        BY <1>4, <3>1
      <3> QED BY <1>3, <1>4, <3>1, <3>2 DEF AttOK
    <2> QED BY <1>3, <2>1 DEF IInv, AttInv
  <1>10. ASSUME NEW j \in Ffn
         PROVE  /\ Taken(j)' = Taken(j) /\ Taken(j) \in Nat /\ Taken(j) <= m
                /\ Taken(j) + Len(ctl[j]) = m /\ Len(ctl[j]) \in Nat
    <2>1. Taken(j)' = Taken(j)
      BY <1>3 DEF Taken
    <2>2. j \in Att
      BY StepTypes
    <2> QED BY <1>2, <1>3, <2>1, <2>2, StepTypes
  <1>11. ASSUME NEW j \in Ffn PROVE CtlOK(j)'
    <2>1. CtlOK(j)
      BY DEF IInv, CtlInv
    <2>2. ASSUME NEW i \in 1 .. Len(ctl[j])
          PROVE  ctl[j][i] = Payload(plans'[Taken(j) + i], j, Taken(j) + i)
      <3>1. Taken(j) + i \in 1 .. m
        BY <1>10
      <3> QED BY <1>4, <2>1, <3>1 DEF CtlOK
    <2>3. \A q, b, i : Payload(q, b, i)' = Payload(q, b, i)
      BY DEF Payload
    <2> QED BY <1>3, <1>10, <2>1, <2>2, <2>3 DEF CtlOK
  <1>12. ASSUME NEW j \in Ffn PROVE FfnOK(j)' /\ GraphOK(j)'
    <2>1. FfnOK(j) /\ GraphOK(j)
      BY DEF IInv, FfnInv, GraphInv
    <2>2. GraphOK(j)'
      BY <1>3, <1>10, <2>1 DEF GraphOK
    <2>3. CASE Active(j)
      <3>1. Taken(j) \in 1 .. m
        BY <1>2, <2>3, ActiveAt
      <3>2. plans'[Taken(j)] = plans[Taken(j)]
        BY <1>4, <3>1
      <3>3. \A b, l, s, i : Message(b, Taken(j), l, s, i)' = Message(b, Taken(j), l, s, i)
        BY <1>10, <3>2 DEF Message, OwnRows
      <3>4. StageCount(Taken(j))' = StageCount(Taken(j))
        BY <1>10, <3>2 DEF StageCount
      <3>5. FfnOK(j)'
        BY <1>3, <1>10, <2>1, <3>2, <3>3, <3>4 DEF FfnOK, Active
      <3> QED BY <2>2, <3>5
    <2>4. CASE ~Active(j)
      BY <1>3, <2>1, <2>2, <2>4 DEF FfnOK, Active
    <2> QED BY <2>3, <2>4
  <1>13. ASSUME NEW a \in Att PROVE PairOK(a)'
    <2>1. att[a].pc = "idle" /\ Owner(a) \in Ffn /\ PairOK(a)
      BY <1>3, OwnerOf DEF IInv, PairInv
    <2>2. Taken(Owner(a))' = Taken(Owner(a))
      BY <1>10, <2>1
    <2> QED BY <1>3, <2>1, <2>2 DEF PairOK, PlaceInv, UpInv, DownInv, Active
  <1>14. /\ DOMAIN ctl' = Ffn /\ DOMAIN ffn' = Ffn /\ DOMAIN graphs' = Ffn
         /\ DOMAIN a2e' = Att /\ DOMAIN e2a' = Att
    BY <1>3 DEF IInv, CtlInv, FfnInv, GraphInv, PairInv
  <1> QED BY <1>8, <1>9, <1>11, <1>12, <1>13, <1>14
       DEF IInv, CtlInv, FfnInv, GraphInv, PairInv

(* At startup nothing has been agreed but the capture events, nor sent. *)
LEMMA InitIInv == Init => IInv
  <1> SUFFICES ASSUME Init PROVE IInv
    OBVIOUS
  <1>1. PlansInv
    BY InitPlans
  <1>2. Len(plans) \in Nat
    BY <1>1, SequenceLen DEF PlansInv
  <1>3. /\ att = [a \in Att |-> Idle(0)] /\ ctl = [j \in Ffn |-> <<>>]
        /\ a2e = [a \in Att |-> <<>>] /\ e2a = [a \in Att |-> <<>>]
        /\ ffn = [j \in Ffn |-> Waiting] /\ graphs = [j \in Ffn |-> <<>>]
    BY DEF Init
  <1>4. Idle(0).pc = "idle" /\ Idle(0).step = 0 /\ Waiting.pc = "wait"
    BY DEF Idle, Waiting
  <1>5. AttInv
    <2>1. 0 \in 0 .. Len(plans)
      BY <1>2
    <2> QED BY <1>3, <1>4, <2>1 DEF AttInv, AttOK
  <1>6. ASSUME NEW j \in Ffn PROVE Taken(j) = 0 /\ CtlOK(j)
    <2>1. j \in Att
      BY SizesAssumption DEF Ffn, Att, ValidTopology
    <2>2. ctl[j] = <<>> /\ IsSequence(ctl[j]) /\ Len(ctl[j]) = 0 /\ att[j].step = 0
      BY <1>3, <1>4, <2>1, EmptySequence
    <2>3. Taken(j) = 0
      <3>1. Len(ctl[j]) = 0 /\ att[j].step = 0
        BY <2>2
      <3> QED BY <3>1 DEF Taken
    <2>4. Len(ctl[j]) <= att[j].step /\ 1 .. Len(ctl[j]) = {}
      BY <2>2
    <2> QED BY <2>2, <2>3, <2>4 DEF CtlOK
  <1>7. ASSUME NEW j \in Ffn PROVE FfnOK(j) /\ ~Active(j)
    BY <1>3, <1>4 DEF FfnOK, Active
  <1>8. ASSUME NEW j \in Ffn PROVE GraphOK(j)
    <2>1. graphs[j] = <<>> /\ DOMAIN <<>> = {}
      BY <1>3
    <2>2. \A i \in 1 .. Len(CaptureDescs) : ~(2 * i <= 0)
      OBVIOUS
    <2> QED BY <1>6, <2>1, <2>2 DEF GraphOK
  <1>9. ASSUME NEW a \in Att PROVE PairOK(a)
    <2>1. Owner(a) \in Ffn
      BY OwnerOf
    <2>2. /\ att[a].pc = "idle" /\ att[a].step = 0 /\ Taken(Owner(a)) = 0
          /\ ~Active(Owner(a)) /\ a2e[a] = <<>> /\ e2a[a] = <<>>
      BY <1>3, <1>4, <1>6, <1>7, <2>1
    <2>3. Caps(0, 0)
      BY DEF Caps
    <2> QED BY <2>2, <2>3, EmptySequence DEF PairOK, PlaceInv, UpInv, DownInv
  <1>10. /\ DOMAIN ctl = Ffn /\ DOMAIN ffn = Ffn /\ DOMAIN graphs = Ffn
         /\ DOMAIN a2e = Att /\ DOMAIN e2a = Att
    BY <1>3
  <1> QED BY <1>1, <1>5, <1>6, <1>7, <1>8, <1>9, <1>10
       DEF IInv, CtlInv, FfnInv, GraphInv, PairInv

(* Every step keeps the two sides together. *)
LEMMA NextIInv == IInv /\ [Next]_vars => IInv'
  <1> SUFFICES ASSUME IInv, [Next]_vars PROVE IInv'
    OBVIOUS
  <1>1. CASE Agree
    BY <1>1, AgreeStep
  <1>2. ASSUME NEW a \in Att, SendControl(a) \/ SendPart(a) \/ RecvOutput(a) PROVE IInv'
    BY <1>2, SendControlStep, SendPartStep, RecvOutputStep
  <1>3. ASSUME NEW j \in Ffn,
               Capture(j) \/ Replay(j) \/ Forward(j) \/ SendOutput(j) \/ Close(j)
        PROVE  IInv'
    BY <1>3, CaptureStep, ReplayStep, ForwardStep, SendOutputStep, CloseStep
  <1>4. ASSUME NEW j \in Ffn, NEW k \in Srcs(j), RecvPart(j, k) PROVE IInv'
    BY <1>4, RecvPartStep
  <1>5. CASE Compute
    BY <1>5, ComputeStep
  <1>6. CASE UNCHANGED vars
    <2>1. /\ plans' = plans /\ att' = att /\ ctl' = ctl /\ a2e' = a2e /\ e2a' = e2a
          /\ ffn' = ffn /\ graphs' = graphs
      BY <1>6 DEF vars
    <2>2. PlansInv'
      BY <2>1, PlansFrame DEF IInv
    <2>3. ASSUME NEW j \in Ffn PROVE /\ CtlOK(j)' /\ Taken(j)' = Taken(j)
                                     /\ FfnOK(j)' /\ GraphOK(j)'
      <3>1. CtlOK(j)' /\ Taken(j)' = Taken(j)
        BY <2>1, CtlFrame DEF IInv, CtlInv
      <3> QED BY <2>1, <3>1, FfnFrame, GraphFrame DEF IInv, FfnInv, GraphInv
    <2>4. ASSUME NEW a \in Att PROVE AttOK(a)' /\ PairOK(a)'
      <3>1. Owner(a) \in Ffn /\ AttOK(a) /\ PairOK(a)
        BY OwnerOf DEF IInv, AttInv, PairInv
      <3>2. Taken(Owner(a))' = Taken(Owner(a))
        BY <2>3, <3>1
      <3> QED BY <2>1, <3>1, <3>2, AttFrame, PairFrame
    <2>5. /\ DOMAIN att' = Att /\ DOMAIN ctl' = Ffn /\ DOMAIN ffn' = Ffn
          /\ DOMAIN graphs' = Ffn /\ DOMAIN a2e' = Att /\ DOMAIN e2a' = Att
      BY <2>1 DEF IInv, AttInv, CtlInv, FfnInv, GraphInv, PairInv
    <2> QED BY <2>2, <2>3, <2>4, <2>5 DEF IInv, AttInv, CtlInv, FfnInv, GraphInv, PairInv
  <1> QED BY <1>1, <1>2, <1>3, <1>4, <1>5, <1>6 DEF Next

----------------------------------------------------------------------------
(***************************************************************************)
(* The theorems.                                                           *)
(***************************************************************************)
(* p2p.py, ffn_model_runner.py: at any time a wire holds what its receiver is
   about to ask for, although neither side is told where the other one is. *)
THEOREM SidesTogether == Spec => []IInv
  <1>1. Init => IInv
    BY InitIInv
  <1>2. IInv /\ [Next]_vars => IInv'
    BY NextIInv
  <1> QED BY <1>1, <1>2, PTL DEF Spec

(* What an FFN rank has received belongs to the transfer it is at. *)
LEMMA IInvPeersAgree == IInv => PeersAgree
  <1> SUFFICES ASSUME IInv PROVE PeersAgree
    OBVIOUS
  <1>1. ASSUME NEW j \in Ffn, Active(j)
        PROVE  ffn[j].mode = "replay" <=> plans[ffn[j].pay.step].kind = "replay"
    <2>1. PICK n : n = Taken(j)
      OBVIOUS
    <2>2. PlanOK(plans[n]) /\ FfnOK(j)
      BY <1>1, <2>1, ActiveAt
    <2>3. ffn[j].pay = Payload(plans[n], j, n) /\ (ffn[j].mode = "replay" <=> plans[n].kind = "replay")
      BY <1>1, <2>1, <2>2 DEF FfnOK
    <2>4. ffn[j].pay.step = n
      BY <2>2, <2>3, StepTypes, PayloadOf
    <2> QED BY <2>3, <2>4
  <1>2. ASSUME NEW j \in Ffn, Active(j), NEW k \in Srcs(j), NEW i \in DOMAIN ffn[j].got[k]
        PROVE  ffn[j].got[k][i] = [step |-> ffn[j].pay.step, layer |-> ffn[j].layer,
                                   stage |-> ffn[j].stage, part |-> RecvParts[i],
                                   rows |-> ffn[j].rows[<<ffn[j].stage, k>>]]
    <2>1. PICK n : n = Taken(j)
      OBVIOUS
    <2>2. PICK p : p = plans[n]
      OBVIOUS
    <2>3. PICK S : S = StageCount(n)
      OBVIOUS
    <2>4. PICK s : s = ffn[j].stage
      OBVIOUS
    <2>5. PlanOK(p) /\ FfnOK(j) /\ S = p.stages /\ s \in 0 .. S - 1
      BY <1>2, <2>1, <2>2, <2>3, <2>4, ActiveAt
    <2>6. /\ ffn[j].pay = Payload(p, j, n) /\ ffn[j].rows = PeerRows(p.rows, j)
          /\ IsSequence(ffn[j].got[k])
          /\ \A m \in 1 .. Len(ffn[j].got[k]) :
               ffn[j].got[k][m] = Message(Peer(j, k), n, ffn[j].layer, s, m)
      BY <1>2, <2>1, <2>2, <2>4, <2>5 DEF FfnOK
    <2>7. ffn[j].pay.step = n
      BY <2>5, <2>6, StepTypes, PayloadOf
    <2>8. ffn[j].rows[<<s, k>>] = OwnRows(p, s, Peer(j, k))
      BY <2>5, <2>6, PeerRowsOf
    <2>9. i \in 1 .. Len(ffn[j].got[k])
      BY <1>2, <2>6, SequenceLen
    <2>10. ffn[j].got[k][i] = Message(Peer(j, k), n, ffn[j].layer, s, i)
      BY <2>6, <2>9
    <2> QED BY <2>2, <2>4, <2>7, <2>8, <2>10, PartsOf DEF Message
  <1>3. TransfersMatch
    BY <1>2 DEF TransfersMatch
  <1>4. ReplayTogether
    BY <1>1 DEF ReplayTogether
  <1> QED BY <1>3, <1>4 DEF PeersAgree

(* p2p.py:460-523 against :323-390, cuda_graph.py:104-150: for every number of
   ranks, layers and steps, an FFN rank receives the tensors of the transfer it
   made room for, and replays exactly the steps that Attention replays. *)
THEOREM PeersHold == Spec => []PeersAgree
  BY SidesTogether, IInvPeersAgree, PTL

(* The output at the head of the wire is the next one of the microbatch. *)
LEMMA IInvOwnOutput == IInv => OwnOutput
  <1> SUFFICES ASSUME IInv, NEW a \in Att, att[a].pc = "run", Thread(a).at = "recv",
                      e2a[a] /= <<>>
               PROVE  Head(e2a[a]) =
                        [step |-> att[a].step, layer |-> Thread(a).layer,
                         stage |-> att[a].turn,
                         rows |-> [r \in 1 .. OwnRows(PlanOf(a), att[a].turn, a) |-> a]]
    BY DEF OwnOutput
  <1>1. PICK n : n = att[a].step
    OBVIOUS
  <1>2. PICK S : S = StageCount(n)
    OBVIOUS
  <1>3. PICK q : q = att[a]
    OBVIOUS
  <1>4. PICK w : w = e2a[a]
    OBVIOUS
  <1>5. n \in 1 .. Len(plans) /\ S \in {1, 2} /\ ThreadsOK(q, S) /\ DownInv(a)
    BY <1>1, <1>2, <1>3, RunAt
  <1>6. PICK t : t = q.turn
    OBVIOUS
  <1>7. PICK y : y = q.th[q.turn].layer
    OBVIOUS
  <1>8. y \in 1 .. L /\ t \in 0 .. S - 1 /\ SlotAt(q, S) = Slot(S, y, t) /\ SlotAt(q, S) \in Nat
    BY <1>5, <1>6, <1>7, ThreadAt
  <1>9. PICK rc : rc = RcvdBy(q, S)
    OBVIOUS
  <1>10. rc = Slot(S, y, t) /\ rc \in Nat
    <2>1. q.th[q.turn].at = "recv"
      BY <1>3 DEF Thread
    <2> QED BY <1>8, <1>9, <2>1 DEF RcvdBy
  <1>11. IsSequence(w) /\ DownWire(w, rc, a, n)
    BY <1>1, <1>2, <1>3, <1>4, <1>5, <1>9 DEF DownInv
  <1>12. Len(w) \in Nat /\ Len(w) > 0 /\ Head(w) = w[1] /\ 1 \in 1 .. Len(w)
    BY <1>4, <1>11, SequenceLen, SequenceTail
  <1>13. PICK l \in 1 .. L, s \in 0 .. S - 1 :
           Slot(S, l, s) = rc + 1 - 1 /\ w[1] = Output(a, n, l, s)
    BY <1>2, <1>11, <1>12 DEF DownWire
  <1>14. Slot(S, l, s) = Slot(S, y, t)
    BY <1>10, <1>13
  <1>15. l = y /\ s = t
    BY <1>5, <1>8, <1>14, SlotsDiffer
  <1>16. Head(w) = Output(a, n, y, t)
    BY <1>12, <1>13, <1>15
  <1> QED BY <1>1, <1>3, <1>4, <1>6, <1>7, <1>16 DEF Output, Thread, PlanOf

(* p2p.py:586-613, deepseek_v2.py:203-214: for every number of peers and any
   rows, a microbatch receives the output of its own layer and stage, and in it
   the rows that it sent and no others. *)
THEOREM OutputsHold == Spec => []OwnOutput
  BY SidesTogether, IInvOwnOutput, PTL

(* Receive buffers: those of the captured graphs, none is dropped. *)
BuffersInv == DOMAIN hbuf = Ffn /\ BuffersBounded

(* A new connector has no buffers. *)
LEMMA InitBuffers == Init => BuffersInv
  BY DEF Init, BuffersInv, BuffersBounded

(* Only a capture makes new buffers, and those of its own graph. *)
LEMMA NextBuffers ==
    ASSUME IInv, BuffersInv, [Next]_vars
    PROVE  BuffersInv' /\ \A j \in Ffn : hbuf[j] \subseteq hbuf'[j]
  <1>1. CASE hbuf' = hbuf /\ graphs' = graphs
    BY <1>1 DEF BuffersInv, BuffersBounded
  <1>2. ASSUME NEW j \in Ffn, NEW pay, NEW capturing, UpdateState(j, pay.counts, capturing)
        PROVE  /\ DOMAIN hbuf' = Ffn /\ \A i \in Ffn : i /= j => hbuf'[i] = hbuf[i]
               /\ hbuf'[j] = hbuf[j] \cup IF FFNGraphs /\ capturing
                                          THEN BufferKeys(PeerRows(pay.counts, j)) ELSE {}
    BY <1>2 DEF UpdateState, BuffersInv
  <1>3. ASSUME NEW j \in Ffn, Forward(j)
        PROVE  BuffersInv' /\ \A i \in Ffn : hbuf[i] \subseteq hbuf'[i]
    <2>1. UpdateState(j, Head(ctl[j]).counts, FALSE) /\ graphs' = graphs
      BY <1>3 DEF Forward
    <2>2. DOMAIN hbuf' = Ffn /\ \A i \in Ffn : hbuf'[i] = hbuf[i]
      BY <1>2, <2>1
    <2> QED BY <2>1, <2>2 DEF BuffersInv, BuffersBounded
  <1>4. ASSUME NEW j \in Ffn, Capture(j)
        PROVE  BuffersInv' /\ \A i \in Ffn : hbuf[i] \subseteq hbuf'[i]
    <2>1. PICK c : c = Head(ctl[j]).counts
      OBVIOUS
    <2>2. PICK G : G = graphs[j]
      OBVIOUS
    <2>3. PICK R : R = PeerRows(c, j)
      OBVIOUS
    <2>4. PICK H : H = [g \in {c} \cup DOMAIN G |-> IF g = c THEN R ELSE G[g]]
      OBVIOUS
    <2>5. UpdateState(j, Head(ctl[j]).counts, TRUE) /\ FFNGraphs
      BY <1>4 DEF Capture
    <2>6. graphs' = [graphs EXCEPT ![j] = H]
      BY <1>4, <2>1, <2>2, <2>3, <2>4 DEF Capture, GraphKey
    <2>7. DOMAIN graphs = Ffn /\ \A g \in DOMAIN G : G[g] = PeerRows(g, j)
      BY <2>2 DEF IInv, GraphInv, GraphOK
    <2>8. graphs'[j] = H /\ \A i \in Ffn : i /= j => graphs'[i] = graphs[i]
      BY <2>6, <2>7
    <2>9. /\ DOMAIN hbuf' = Ffn /\ \A i \in Ffn : i /= j => hbuf'[i] = hbuf[i]
          /\ hbuf'[j] = hbuf[j] \cup BufferKeys(R)
      BY <1>2, <2>1, <2>3, <2>5
    <2>10. /\ DOMAIN H = {c} \cup DOMAIN G /\ H[c] = R
           /\ \A g \in DOMAIN G : H[g] = G[g]
      BY <2>3, <2>4, <2>7
    <2>11. hbuf'[j] \subseteq UNION {BufferKeys(H[g]) : g \in DOMAIN H}
      <3> SUFFICES ASSUME NEW x \in hbuf'[j]
                   PROVE  \E g \in DOMAIN H : x \in BufferKeys(H[g])
        OBVIOUS
      <3>1. CASE x \in BufferKeys(R)
        BY <2>10, <3>1
      <3>2. CASE x \in hbuf[j]
        <4>1. PICK g \in DOMAIN G : x \in BufferKeys(G[g])
          BY <2>2, <3>2 DEF BuffersInv, BuffersBounded
        <4>2. g \in DOMAIN H /\ H[g] = G[g]
          BY <2>10
        <4> QED BY <4>1, <4>2
      <3> QED BY <2>9, <3>1, <3>2
    <2>12. BuffersBounded'
      <3>1. ASSUME NEW i \in Ffn
            PROVE  hbuf'[i] \subseteq UNION {BufferKeys(graphs'[i][g]) : g \in DOMAIN graphs'[i]}
        <4>1. CASE i = j
          BY <2>8, <2>11, <4>1
        <4>2. CASE i /= j
          BY <2>8, <2>9, <4>2 DEF BuffersInv, BuffersBounded
        <4> QED BY <4>1, <4>2
      <3>2. \A r : BufferKeys(r)' = BufferKeys(r)
        BY DEF BufferKeys
      <3> QED BY <3>1, <3>2 DEF BuffersBounded
    <2>13. \A i \in Ffn : hbuf[i] \subseteq hbuf'[i]
      BY <2>9
    <2> QED BY <2>9, <2>12, <2>13 DEF BuffersInv
  <1>5. CASE \E j \in Ffn : Forward(j)
    BY <1>3, <1>5
  <1>6. CASE \E j \in Ffn : Capture(j)
    BY <1>4, <1>6
  <1>7. CASE Agree
    BY <1>1, <1>7 DEF Agree, ffnVars
  <1>8. CASE \E a \in Att : SendControl(a) \/ SendPart(a) \/ RecvOutput(a)
    BY <1>1, <1>8 DEF SendControl, SendPart, RecvOutput, ffnVars
  <1>9. CASE \E j \in Ffn : Replay(j) \/ SendOutput(j) \/ Close(j)
    BY <1>1, <1>9 DEF Replay, SendOutput, Close
  <1>10. CASE \E j \in Ffn : \E k \in Srcs(j) : RecvPart(j, k)
    BY <1>1, <1>10 DEF RecvPart
  <1>11. CASE Compute
    BY <1>1, <1>11 DEF Compute
  <1>12. CASE UNCHANGED vars
    BY <1>1, <1>12 DEF vars
  <1> QED BY <1>5, <1>6, <1>7, <1>8, <1>9, <1>10, <1>11, <1>12 DEF Next

(* p2p.py:844-856: whatever batches arrive, the hidden-state buffers are those
   of captured graphs, and a captured graph's buffers stay. *)
THEOREM BuffersHold == Spec => BuffersKept
  <1>1. Init => BuffersInv
    BY InitBuffers
  <1>2. IInv /\ BuffersInv /\ [Next]_vars => BuffersInv'
    BY NextBuffers
  <1>3. IInv /\ BuffersInv /\ [Next]_vars
          => [BuffersBounded' /\ \A j \in Ffn : hbuf[j] \subseteq hbuf'[j]]_vars
    BY NextBuffers DEF BuffersInv
  <1>4. BuffersKept
          <=> [][BuffersBounded' /\ \A j \in Ffn : hbuf[j] \subseteq hbuf'[j]]_vars
    BY DEF BuffersKept
  <1> QED BY <1>1, <1>2, <1>3, <1>4, SidesTogether, PTL DEF Spec
=============================================================================
