------------------------------ MODULE CAMP2PProofs ------------------------------
(***************************************************************************)
(* Proofs about steps over the CAM P2P connector.  For any number of ranks *)
(* and layers, whatever order ranks and devices take, a flag lets a kernel *)
(* read a window only when the window holds what the kernel expects.       *)
(***************************************************************************)
EXTENDS CAMP2PStep, TLAPS, FiniteSetTheorems, SequenceTheorems, WellFoundedInduction

(***************************************************************************)
(* Sequences.                                                              *)
(***************************************************************************)
(* Concatenating one or two elements. *)
LEMMA ConcatOne ==
    ASSUME NEW T, NEW p \in Seq(T), NEW x \in T, NEW y \in T
    PROVE  /\ <<>> \o <<x>> = <<x>> /\ <<x>> \o <<>> = <<x>>
           /\ p \o <<x>> = Append(p, x) /\ p \o (<<x>> \o <<y>>) = Append(Append(p, x), y)
  <1>1. <<x>> \in Seq(T) /\ <<y>> \in Seq(T)
    OBVIOUS
  <1>2. <<>> \o <<x>> = <<x>>
    BY <1>1
  <1>3. <<x>> \o <<>> = <<x>>
    BY <1>1, ConcatEmptySeq, Zenon
  <1>4. \A s \in Seq(T), e \in T : s \o <<e>> = Append(s, e)
    OBVIOUS
  <1>5. p \o (<<x>> \o <<y>>) = (p \o <<x>>) \o <<y>>
    BY <1>1, ConcatAssociative
  <1>6. p \o <<x>> = Append(p, x) /\ Append(p, x) \in Seq(T)
    BY <1>4
  <1>7. (p \o <<x>>) \o <<y>> = Append(Append(p, x), y)
    BY <1>4, <1>6
  <1> QED BY <1>2, <1>3, <1>5, <1>6, <1>7

(* f is the function that FlattenSeq recurses to. *)
Flattens(f, s, m) == f = [i \in 1 .. m |-> IF i = 1 THEN s[i] ELSE f[i - 1] \o s[i]]

(* A set of numbers that has 0, and with every number the next one, has all. *)
LEMMA NatLeast ==
    ASSUME NEW T \in SUBSET Nat, 0 \in T, \A n \in Nat : n \in T => n + 1 \in T
    PROVE  T = Nat
  <1> DEFINE R == {ss \in Nat \X Nat : ss[1] < ss[2]}
             B == Nat \ T
  <1>1. IsWellFoundedOn(R, Nat)
    BY NatLessThanWellFounded DEF OpToRel
  <1>2. \A x, y \in Nat : x < y => <<x, y>> \in R
    OBVIOUS
  <1>3. ASSUME B /= {} PROVE FALSE
    <2>1. B \subseteq Nat
      OBVIOUS
    <2> HIDE DEF R, B
    <2>2. PICK b \in B : \A y \in B : ~(<<y, b>> \in R)
      BY <1>1, <1>3, <2>1, WFMin, Zenon
    <2>3. b \in Nat /\ b \notin T
      BY DEF B
    <2>4. b /= 0 /\ b - 1 \in Nat /\ b - 1 < b /\ (b - 1) + 1 = b
      BY <2>3
    <2>5. b - 1 \notin T
      BY <2>3, <2>4
    <2>6. b - 1 \in B
      BY <2>4, <2>5 DEF B
    <2> QED BY <1>2, <2>2, <2>3, <2>4, <2>6
  <1> QED BY <1>3

(* The recursive functions exist. *)
LEMMA FlattensExists ==
    ASSUME NEW s, NEW m \in Nat
    PROVE  \E f : Flattens(f, s, m)
  <1> DEFINE T == {n \in Nat : \E f : Flattens(f, s, n)}
  <1>1. 0 \in T
    <2>1. PICK f : f = [i \in 1 .. 0 |-> IF i = 1 THEN s[i] ELSE s[i]]
      OBVIOUS
    <2>2. 1 .. 0 = {}
      OBVIOUS
    <2>3. f = [i \in 1 .. 0 |-> IF i = 1 THEN s[i] ELSE f[i - 1] \o s[i]]
      BY <2>1, <2>2
    <2> QED BY <2>3 DEF Flattens
  <1>2. ASSUME NEW n \in Nat, n \in T PROVE n + 1 \in T
    <2>1. PICK f : Flattens(f, s, n)
      BY <1>2
    <2>2. PICK g : g = [i \in 1 .. n + 1 |->
                          IF i = 1 THEN s[i]
                          ELSE IF i = n + 1 THEN f[n] \o s[i] ELSE f[i]]
      OBVIOUS
    <2>3. ASSUME NEW i \in 1 .. n PROVE g[i] = f[i]
      <3>1. i \in 1 .. n + 1 /\ i /= n + 1
        OBVIOUS
      <3>2. f[i] = IF i = 1 THEN s[i] ELSE f[i - 1] \o s[i]
        BY <2>1 DEF Flattens
      <3> QED BY <2>2, <3>1, <3>2
    <2>4. ASSUME NEW i \in 1 .. n + 1
          PROVE  g[i] = IF i = 1 THEN s[i] ELSE g[i - 1] \o s[i]
      <3>1. CASE i = 1
        BY <2>2, <3>1
      <3>2. CASE i = n + 1 /\ i /= 1
        <4>1. n \in 1 .. n /\ i - 1 = n
          BY <3>2
        <4>2. g[i - 1] = f[n]
          BY <2>3, <4>1
        <4>3. g[i] = f[n] \o s[i]
          BY <2>2, <3>2
        <4> QED BY <3>2, <4>2, <4>3
      <3>3. CASE i \in 1 .. n /\ i /= 1
        <4>1. i - 1 \in 1 .. n
          BY <3>3
        <4>2. g[i - 1] = f[i - 1] /\ g[i] = f[i]
          BY <2>3, <3>3, <4>1
        <4>3. f[i] = f[i - 1] \o s[i]
          BY <2>1, <3>3 DEF Flattens
        <4> QED BY <3>3, <4>2, <4>3
      <3>4. i \in 1 .. n \/ i = n + 1
        OBVIOUS
      <3> QED BY <3>1, <3>2, <3>3, <3>4
    <2>5. g = [i \in 1 .. n + 1 |-> g[i]]
      BY <2>2
    <2>6. Flattens(g, s, n + 1)
      BY <2>4, <2>5 DEF Flattens
    <2> QED BY <2>6
  <1> HIDE DEF T
  <1>3. T = Nat
    <2>1. T \in SUBSET Nat
      BY DEF T
    <2> QED BY <1>1, <1>2, <2>1, NatLeast
  <1>4. m \in T
    BY <1>3
  <1> QED BY <1>4 DEF T

(* FlattenSeq is what it recurses to. *)
LEMMA FlattenSeqIs ==
    ASSUME NEW N \in Nat \ {0}, NEW s, Len(s) = N
    PROVE  \E f : Flattens(f, s, N) /\ FlattenSeq(s) = f[N]
  <1> DEFINE f == CHOOSE f : f = [i \in 1 .. N |->
                                     IF i = 1 THEN s[i] ELSE f[i - 1] \o s[i]]
  <1>1. FlattenSeq(s) = f[N]
    BY DEF FlattenSeq
  <1>2. \E h : h = [i \in 1 .. N |-> IF i = 1 THEN s[i] ELSE h[i - 1] \o s[i]]
    BY FlattensExists DEF Flattens
  <1>3. f = [i \in 1 .. N |-> IF i = 1 THEN s[i] ELSE f[i - 1] \o s[i]]
    BY <1>2, ZenonT(40)
  <1>4. Flattens(f, s, N)
    BY <1>3 DEF Flattens
  <1> QED BY <1>1, <1>4

(***************************************************************************)
(* The program of Attention: the transfers of each stage alternate, layer  *)
(* after layer.                                                            *)
(***************************************************************************)
(* the operation of stage s that has c operations behind it *)
AttOp(c, s) == Op(IF c % 2 = 0 THEN "send" ELSE "recv", (c \div 2) + 1, s)
AttOps(n) == [op : {"send", "recv"}, layer : 1 .. L, stage : Stages(n)]

(* m[k][s] is how many operations of stage s precede the k-th of all *)
Counted(p, n, m) ==
    /\ p \in Seq(AttOps(n))
    /\ m \in [1 .. Len(p) + 1 -> [Stages(n) -> 0 .. 2 * L]]
    /\ \A s \in Stages(n) : m[1][s] = 0
    /\ \A k \in 1 .. Len(p) :
         /\ p[k] = AttOp(m[k][p[k].stage], p[k].stage)
         /\ m[k + 1] = [m[k] EXCEPT ![p[k].stage] = @ + 1]
CountsTo(p, n, w) == \E m : Counted(p, n, m) /\ m[Len(p) + 1] = w
CountedAll(n, m) ==
    Counted(AttSchedule(n), n, m) /\ \A s \in Stages(n) : m[Len(AttSchedule(n)) + 1][s] = 2 * L
Made(n) == CHOOSE m : CountedAll(n, m)

(* One more operation, which is the next of its stage. *)
LEMMA OneMore ==
    ASSUME NEW n \in Nat \ {0}, NEW p, NEW w, CountsTo(p, n, w), NEW c \in AttOps(n),
           w[c.stage] < 2 * L, c = AttOp(w[c.stage], c.stage), NEW z, z = Append(p, c),
           NEW u, u = [w EXCEPT ![c.stage] = @ + 1]
    PROVE  CountsTo(z, n, u)
  <1> PICK m : Counted(p, n, m) /\ m[Len(p) + 1] = w
    BY DEF CountsTo
  <1>1. PICK N : N = Len(p)
    OBVIOUS
  <1>2. p \in Seq(AttOps(n)) /\ N \in Nat /\ m \in [1 .. N + 1 -> [Stages(n) -> 0 .. 2 * L]]
    BY <1>1 DEF Counted
  <1>3. PICK q : q = z
    OBVIOUS
  <1>4. /\ q \in Seq(AttOps(n)) /\ Len(q) = N + 1
        /\ q[N + 1] = c /\ \A k \in 1 .. N : q[k] = p[k]
    BY <1>1, <1>2, <1>3, AppendProperties
  <1>5. u = [w EXCEPT ![c.stage] = w[c.stage] + 1]
    OBVIOUS
  <1>6. u \in [Stages(n) -> 0 .. 2 * L]
    <2>1. L \in Nat
      BY SizesAssumption
    <2>2. N + 1 \in 1 .. N + 1
      BY <1>2
    <2>3. w \in [Stages(n) -> 0 .. 2 * L] /\ c.stage \in Stages(n)
      BY <1>1, <1>2, <2>2 DEF AttOps
    <2>4. w[c.stage] + 1 \in 0 .. 2 * L
      BY <2>1, <2>3
    <2> QED BY <1>5, <2>3, <2>4
  <1>7. PICK h : h = [k \in 1 .. N + 2 |-> IF k = N + 2 THEN u ELSE m[k]]
    OBVIOUS
  <1>8. (\A k \in 1 .. N + 1 : h[k] = m[k]) /\ h[N + 2] = u
    BY <1>2, <1>7
  <1>9. h \in [1 .. Len(q) + 1 -> [Stages(n) -> 0 .. 2 * L]]
    <2>1. \A k \in 1 .. N + 2 : k = N + 2 \/ k \in 1 .. N + 1
      BY <1>2
    <2>2. Len(q) + 1 = N + 2
      BY <1>2, <1>4
    <2> QED BY <1>2, <1>6, <1>7, <2>1, <2>2
  <1>10. ASSUME NEW k \in 1 .. Len(q)
         PROVE  /\ q[k] = AttOp(h[k][q[k].stage], q[k].stage)
                /\ h[k + 1] = [h[k] EXCEPT ![q[k].stage] = @ + 1]
    <2>1. CASE k = N + 1
      <3>1. h[k] = m[N + 1] /\ h[k + 1] = u /\ q[k] = c
        BY <1>2, <1>4, <1>8, <2>1
      <3>2. m[N + 1] = w
        BY <1>1
      <3>3. u = [m[N + 1] EXCEPT ![c.stage] = @ + 1]
        BY <3>2
      <3> QED BY <3>1, <3>2, <3>3
    <2>2. CASE k \in 1 .. N
      <3>1. k \in 1 .. N + 1 /\ k + 1 \in 1 .. N + 1
        BY <1>2, <2>2
      <3>2. h[k] = m[k] /\ h[k + 1] = m[k + 1] /\ q[k] = p[k]
        BY <1>4, <1>8, <2>2, <3>1
      <3>3. /\ p[k] = AttOp(m[k][p[k].stage], p[k].stage)
            /\ m[k + 1] = [m[k] EXCEPT ![p[k].stage] = @ + 1]
        BY <1>1, <2>2 DEF Counted
      <3> QED BY <3>2, <3>3
    <2>3. k = N + 1 \/ k \in 1 .. N
      BY <1>2, <1>4
    <2> QED BY <2>1, <2>2, <2>3
  <1>11. \A s \in Stages(n) : h[1][s] = 0
    <2>1. 1 \in 1 .. N + 1
      BY <1>2
    <2> QED BY <1>8, <2>1 DEF Counted
  <1>12. Counted(q, n, h)
    BY <1>4, <1>9, <1>10, <1>11 DEF Counted
  <1>13. h[Len(q) + 1] = u
    BY <1>2, <1>4, <1>8
  <1> QED BY <1>3, <1>12, <1>13 DEF CountsTo

(* After i turns of n stages: the turns of a stage, and its operations. *)
Turns(n, s, i) == IF s < i % n THEN (i \div n) + 1 ELSE i \div n
OpsOf(x) == IF x = 0 THEN 0 ELSE IF x = L + 1 THEN 2 * L ELSE 2 * x - 1

(* A turn. *)
LEMMA OneTurn ==
    ASSUME NEW n \in 1 .. 2, NEW i \in 0 .. n * (L + 1) - 1, NEW p, NEW w,
           CountsTo(p, n, w), w = [s \in Stages(n) |-> OpsOf(Turns(n, s, i))],
           NEW q, q = p \o Turn(i % n, i \div n + 1)
    PROVE  CountsTo(q, n, [s \in Stages(n) |-> OpsOf(Turns(n, s, i + 1))])
  <1>1. L \in Nat /\ L >= 1
    BY SizesAssumption
  <1>2. PICK t : t = i % n
    OBVIOUS
  <1>3. PICK l : l = i \div n + 1
    OBVIOUS
  <1>4. n = 1 \/ n = 2
    OBVIOUS
  <1>5. /\ i \in Nat /\ t \in Stages(n) /\ l \in 1 .. L + 1
        /\ Turns(n, t, i) = l - 1 /\ Turns(n, t, i + 1) = l
        /\ \A s \in Stages(n) : s /= t => Turns(n, s, i + 1) = Turns(n, s, i)
    <2>1. CASE n = 1
      BY <1>1, <1>2, <1>3, <2>1 DEF Turns, Stages
    <2>2. CASE n = 2
      BY <1>1, <1>2, <1>3, <2>2 DEF Turns, Stages
    <2> QED BY <1>4, <2>1, <2>2
  <1>6. p \in Seq(AttOps(n)) /\ n \in Nat \ {0}
    BY <1>4 DEF Counted, CountsTo
  <1>7. w[t] = OpsOf(l - 1)
    BY <1>5
  <1>8. PICK back : back = Op("recv", l - 1, t)
    OBVIOUS
  <1>9. PICK forth : forth = Op("send", l, t)
    OBVIOUS
  <1>10. PICK v : v = [s \in Stages(n) |-> OpsOf(Turns(n, s, i + 1))]
    OBVIOUS
  <1>11. ASSUME NEW c, c = OpsOf(l) PROVE v = [w EXCEPT ![t] = c]
    BY <1>5, <1>10, <1>11
  <1>12. back.stage = t /\ forth.stage = t
    BY <1>8, <1>9 DEF Op
  <1>13. CASE l = 1
    <2>1. forth \in AttOps(n)
      BY <1>1, <1>5, <1>9, <1>13 DEF AttOps, Op
    <2>2. q = Append(p, forth)
      <3>1. Turn(t, l) = <<>> \o <<forth>>
        BY <1>1, <1>9, <1>13 DEF Turn
      <3>2. q = p \o <<forth>>
        BY <1>2, <1>3, <1>6, <2>1, <3>1, ConcatOne
      <3> QED BY <1>6, <2>1, <3>2, ConcatOne
    <2>3. w[t] = 0 /\ OpsOf(l) = 1
      BY <1>1, <1>7, <1>13 DEF OpsOf
    <2>4. forth = AttOp(0, t)
      BY <1>9, <1>13 DEF AttOp
    <2>5. v = [w EXCEPT ![forth.stage] = @ + 1]
      BY <1>11, <1>12, <2>3
    <2>6. w[forth.stage] < 2 * L /\ forth = AttOp(w[forth.stage], forth.stage)
      BY <1>1, <1>12, <2>3, <2>4
    <2>7. CountsTo(q, n, v)
      BY <1>6, <2>1, <2>2, <2>5, <2>6, OneMore
    <2> QED BY <1>10, <2>7
  <1>14. CASE l = L + 1
    <2>1. back \in AttOps(n)
      BY <1>1, <1>5, <1>8, <1>14 DEF AttOps, Op
    <2>2. q = Append(p, back)
      <3>1. Turn(t, l) = <<back>> \o <<>>
        <4>1. l > 1 /\ ~(l <= L)
          BY <1>1, <1>14
        <4> QED BY <1>8, <4>1 DEF Turn
      <3>2. q = p \o <<back>>
        BY <1>2, <1>3, <1>6, <2>1, <3>1, ConcatOne
      <3> QED BY <1>6, <2>1, <3>2, ConcatOne
    <2>3. w[t] = 2 * L - 1 /\ OpsOf(l) = (2 * L - 1) + 1
      BY <1>1, <1>7, <1>14 DEF OpsOf
    <2>4. back = AttOp(2 * L - 1, t)
      <3>1. (2 * L - 1) % 2 /= 0 /\ ((2 * L - 1) \div 2) + 1 = L
        BY <1>1
      <3> QED BY <1>1, <1>8, <1>14, <3>1 DEF AttOp
    <2>5. v = [w EXCEPT ![back.stage] = @ + 1]
      BY <1>11, <1>12, <2>3
    <2>6. w[back.stage] < 2 * L /\ back = AttOp(w[back.stage], back.stage)
      BY <1>1, <1>12, <2>3, <2>4
    <2>7. CountsTo(q, n, v)
      BY <1>6, <2>1, <2>2, <2>5, <2>6, OneMore
    <2> QED BY <1>10, <2>7
  <1>15. CASE l \in 2 .. L
    <2>1. back \in AttOps(n) /\ forth \in AttOps(n)
      BY <1>1, <1>5, <1>8, <1>9, <1>15 DEF AttOps, Op
    <2>2. PICK r : r = Append(p, back)
      OBVIOUS
    <2>3. q = Append(r, forth)
      <3>1. Turn(t, l) = <<back>> \o <<forth>>
        BY <1>1, <1>8, <1>9, <1>15 DEF Turn
      <3>2. q = p \o (<<back>> \o <<forth>>)
        BY <1>2, <1>3, <3>1
      <3> QED BY <1>6, <2>1, <2>2, <3>2, ConcatOne
    <2>4. w[t] = 2 * l - 3 /\ OpsOf(l) = 2 * l - 1
      BY <1>1, <1>7, <1>15 DEF OpsOf
    <2>5. back = AttOp(2 * l - 3, t) /\ forth = AttOp(2 * l - 2, t)
      <3>1. (2 * l - 3) % 2 /= 0 /\ ((2 * l - 3) \div 2) + 1 = l - 1
        BY <1>15
      <3>2. (2 * l - 2) % 2 = 0 /\ ((2 * l - 2) \div 2) + 1 = l
        BY <1>15
      <3> QED BY <1>8, <1>9, <3>1, <3>2 DEF AttOp
    <2>6. PICK u : u = [w EXCEPT ![t] = @ + 1]
      OBVIOUS
    <2>7. w[back.stage] < 2 * L /\ back = AttOp(w[back.stage], back.stage)
      BY <1>1, <1>12, <1>15, <2>4, <2>5
    <2>8. u = [w EXCEPT ![back.stage] = @ + 1]
      BY <1>12, <2>6
    <2>9. CountsTo(r, n, u)
      BY <1>6, <2>1, <2>2, <2>7, <2>8, OneMore
    <2>10. u[t] = 2 * l - 2
      BY <1>5, <1>15, <2>4, <2>6
    <2>11. u[forth.stage] < 2 * L /\ forth = AttOp(u[forth.stage], forth.stage)
      BY <1>1, <1>12, <1>15, <2>5, <2>10
    <2>12. v = [u EXCEPT ![forth.stage] = @ + 1]
      <3>1. v = [w EXCEPT ![t] = 2 * l - 1]
        BY <1>11, <2>4
      <3>2. u[t] + 1 = 2 * l - 1
        BY <1>15, <2>10
      <3> QED BY <1>12, <2>6, <3>1, <3>2
    <2>13. CountsTo(q, n, v)
      BY <1>6, <2>1, <2>3, <2>9, <2>11, <2>12, OneMore
    <2> QED BY <1>10, <2>13
  <1>16. l = 1 \/ l = L + 1 \/ l \in 2 .. L
    BY <1>1, <1>5
  <1> QED BY <1>13, <1>14, <1>15, <1>16

(* The program of Attention takes every stage through its operations. *)
LEMMA ScheduleCounted ==
    ASSUME NEW n \in 1 .. 2
    PROVE  CountedAll(n, Made(n))
  <1>1. L \in Nat /\ L >= 1
    BY SizesAssumption
  <1>2. PICK N : N = n * (L + 1)
    OBVIOUS
  <1>3. n = 1 \/ n = 2
    BY <1>1
  <1>4. N \in Nat \ {0}
    BY <1>1, <1>2, <1>3
  <1>5. PICK z : z = [i \in 1 .. N |-> Turn((i - 1) % n, (i - 1) \div n + 1)]
    OBVIOUS
  <1>6. AttSchedule(n) = FlattenSeq(z)
    BY <1>2, <1>5 DEF AttSchedule
  <1>7. Len(z) = N
    BY <1>4, <1>5
  <1>8. PICK f : Flattens(f, z, N) /\ FlattenSeq(z) = f[N]
    BY <1>4, <1>7, FlattenSeqIs
  <1> DEFINE Good(i, p) == CountsTo(p, n, [s \in Stages(n) |-> OpsOf(Turns(n, s, i))])
             T == {i \in Nat : i + 1 <= N => Good(i + 1, f[i + 1])}
  <1>9. ASSUME NEW i \in 0 .. N - 1, NEW p, Good(i, p), NEW q, q = p \o z[i + 1]
        PROVE  Good(i + 1, q)
    <2>1. i + 1 \in 1 .. N /\ (i + 1) - 1 = i
      BY <1>4
    <2>2. q = p \o Turn(i % n, i \div n + 1)
      BY <1>5, <1>9, <2>1
    <2>3. i \in 0 .. n * (L + 1) - 1
      BY <1>2
    <2>4. PICK w : w = [s \in Stages(n) |-> OpsOf(Turns(n, s, i))]
      OBVIOUS
    <2>5. CountsTo(p, n, w)
      BY <1>9, <2>4
    <2> QED BY <2>2, <2>3, <2>4, <2>5, OneTurn
  <1>10. Good(0, <<>>)
    <2>1. PICK w : w = [s \in Stages(n) |-> 0]
      OBVIOUS
    <2>2. <<>> \in Seq(AttOps(n)) /\ Len(<<>>) = 0
      OBVIOUS
    <2>3. PICK m : m = [k \in 1 .. 1 |-> w]
      OBVIOUS
    <2>4. m[1] = w /\ w \in [Stages(n) -> 0 .. 2 * L]
      BY <1>1, <2>1, <2>3
    <2>5. Counted(<<>>, n, m)
      BY <2>1, <2>2, <2>3, <2>4 DEF Counted
    <2>6. CountsTo(<<>>, n, w)
      BY <2>2, <2>4, <2>5 DEF CountsTo
    <2>7. w = [s \in Stages(n) |-> OpsOf(Turns(n, s, 0))]
      <3>1. \A s \in Stages(n) : Turns(n, s, 0) = 0
        BY <1>3 DEF Turns, Stages
      <3>2. \A s \in Stages(n) : OpsOf(Turns(n, s, 0)) = 0
        BY <3>1 DEF OpsOf
      <3> QED BY <2>1, <3>2
    <2> QED BY <2>6, <2>7
  <1>11. f[1] = z[1] /\ \A i \in 2 .. N : f[i] = f[i - 1] \o z[i]
    <2>1. 1 \in 1 .. N /\ \A i \in 2 .. N : i \in 1 .. N /\ i /= 1
      BY <1>4
    <2> QED BY <1>8, <2>1 DEF Flattens
  <1>12. 0 \in T
    <2>1. z[1] = <<>> \o z[1]
      <3>1. z[1] = Turn(0, 1)
        BY <1>3, <1>4, <1>5
      <3>2. Turn(0, 1) = <<>> \o <<Op("send", 1, 0)>>
        BY <1>1 DEF Turn
      <3>3. <<>> \o <<Op("send", 1, 0)>> = <<Op("send", 1, 0)>>
        BY ConcatOne
      <3> QED BY <3>1, <3>2, <3>3
    <2>2. 0 \in 0 .. N - 1
      BY <1>4
    <2>3. z[0 + 1] = z[1]
      OBVIOUS
    <2> HIDE DEF Good
    <2>4. Good(0 + 1, f[1])
      BY <1>9, <1>10, <1>11, <2>1, <2>2, <2>3
    <2> QED BY <2>4
  <1>13. ASSUME NEW i \in Nat, i \in T PROVE i + 1 \in T
    <2> SUFFICES ASSUME (i + 1) + 1 <= N PROVE Good((i + 1) + 1, f[(i + 1) + 1])
      OBVIOUS
    <2>1. i + 1 <= N /\ i + 1 \in 0 .. N - 1 /\ (i + 1) + 1 \in 2 .. N /\ ((i + 1) + 1) - 1 = i + 1
      BY <1>4
    <2>2. Good(i + 1, f[i + 1])
      BY <1>13, <2>1
    <2>3. f[(i + 1) + 1] = f[i + 1] \o z[(i + 1) + 1]
      BY <1>11, <2>1
    <2> HIDE DEF Good
    <2> QED BY <1>9, <2>1, <2>2, <2>3
  <1> HIDE DEF T, Good
  <1>14. T = Nat
    <2>1. T \in SUBSET Nat
      BY DEF T
    <2> QED BY <1>12, <1>13, <2>1, NatLeast
  <1>15. Good(N, f[N])
    <2>1. N - 1 \in Nat /\ (N - 1) + 1 = N
      BY <1>4
    <2>2. N - 1 \in T
      BY <1>14, <2>1
    <2> QED BY <2>1, <2>2 DEF T
  <1>16. \A s \in Stages(n) : OpsOf(Turns(n, s, N)) = 2 * L
    <2>1. \A s \in Stages(n) : Turns(n, s, N) = L + 1
      <3>1. CASE n = 1
        BY <1>1, <1>2, <3>1 DEF Turns, Stages
      <3>2. CASE n = 2
        BY <1>1, <1>2, <3>2 DEF Turns, Stages
      <3> QED BY <1>3, <3>1, <3>2
    <2> QED BY <1>1, <2>1 DEF OpsOf
  <1>17. \E m : CountedAll(n, m)
    <2>1. PICK w : w = [s \in Stages(n) |-> OpsOf(Turns(n, s, N))]
      OBVIOUS
    <2>2. CountsTo(f[N], n, w)
      BY <1>15, <2>1 DEF Good
    <2>3. PICK m : Counted(f[N], n, m) /\ m[Len(f[N]) + 1] = w
      BY <2>2 DEF CountsTo
    <2>4. AttSchedule(n) = f[N]
      BY <1>6, <1>8
    <2> QED BY <1>16, <2>1, <2>3, <2>4 DEF CountedAll
  <1> QED BY <1>17 DEF Made

(* How many operations of stage s precede the k-th of an Attention rank. *)
AC(n, k, s) == Made(n)[k][s]

LEMMA AttProgram ==
    ASSUME NEW n \in 1 .. 2, NEW p, p = AttSchedule(n)
    PROVE  /\ Len(p) \in Nat /\ p \in Seq(AttOps(n))
           /\ \A s \in Stages(n) :
                /\ AC(n, 1, s) = 0 /\ AC(n, Len(p) + 1, s) = 2 * L
                /\ \A k \in 1 .. Len(p) + 1 : AC(n, k, s) \in 0 .. 2 * L
           /\ \A k \in 1 .. Len(p) :
                /\ p[k].stage \in Stages(n)
                /\ p[k] = AttOp(AC(n, k, p[k].stage), p[k].stage)
                /\ \A s \in Stages(n) :
                     AC(n, k + 1, s) = IF s = p[k].stage THEN AC(n, k, s) + 1 ELSE AC(n, k, s)
  <1> PICK m : m = Made(n)
    OBVIOUS
  <1>1. Counted(p, n, m) /\ \A s \in Stages(n) : m[Len(p) + 1][s] = 2 * L
    BY ScheduleCounted DEF CountedAll
  <1>2. p \in Seq(AttOps(n)) /\ Len(p) \in Nat
        /\ m \in [1 .. Len(p) + 1 -> [Stages(n) -> 0 .. 2 * L]]
    BY <1>1 DEF Counted
  <1>3. \A k, s : AC(n, k, s) = m[k][s]
    BY DEF AC
  <1>4. \A s \in Stages(n) : AC(n, 1, s) = 0 /\ AC(n, Len(p) + 1, s) = 2 * L
    BY <1>1, <1>3 DEF Counted
  <1>5. \A s \in Stages(n) : \A k \in 1 .. Len(p) + 1 : AC(n, k, s) \in 0 .. 2 * L
    BY <1>2, <1>3
  <1>6. ASSUME NEW k \in 1 .. Len(p)
        PROVE  /\ p[k].stage \in Stages(n)
               /\ p[k] = AttOp(AC(n, k, p[k].stage), p[k].stage)
               /\ \A s \in Stages(n) :
                    AC(n, k + 1, s) = IF s = p[k].stage THEN AC(n, k, s) + 1 ELSE AC(n, k, s)
    <2>1. p[k] \in AttOps(n)
      BY <1>2
    <2>2. p[k].stage \in Stages(n)
      BY <2>1 DEF AttOps
    <2>3. p[k] = AttOp(m[k][p[k].stage], p[k].stage)
          /\ m[k + 1] = [m[k] EXCEPT ![p[k].stage] = @ + 1]
      BY <1>1 DEF Counted
    <2>4. m[k] \in [Stages(n) -> 0 .. 2 * L]
      BY <1>2
    <2>5. \A s \in Stages(n) :
            m[k + 1][s] = IF s = p[k].stage THEN m[k][s] + 1 ELSE m[k][s]
      BY <2>3, <2>4
    <2>6. p[k] = AttOp(AC(n, k, p[k].stage), p[k].stage)
      <3>1. AC(n, k, p[k].stage) = m[k][p[k].stage]
        BY <1>3
      <3> QED BY <2>3, <3>1
    <2>7. \A s \in Stages(n) :
            AC(n, k + 1, s) = IF s = p[k].stage THEN AC(n, k, s) + 1 ELSE AC(n, k, s)
      <3> TAKE s \in Stages(n)
      <3>1. AC(n, k, s) = m[k][s] /\ AC(n, k + 1, s) = m[k + 1][s]
        BY <1>3
      <3> QED BY <2>5, <3>1
    <2> QED BY <2>2, <2>6, <2>7
  <1> QED BY <1>2, <1>4, <1>5, <1>6

(***************************************************************************)
(* The program of an FFN rank: receive, compute and send of one stage and  *)
(* layer after the other.                                                  *)
(***************************************************************************)
(* How many transfers of stage s precede the k-th operation. *)
FC(n, k, s) ==
    2 * Turns(n, s, (k - 1) \div 3)
      + (IF (k - 1) % 3 /= 0 /\ s = ((k - 1) \div 3) % n THEN 1 ELSE 0)

(* Between a receive and its send one stage, that of the operation, is at an
   odd count, and before a receive none. *)
LEMMA FfnProgram ==
    ASSUME NEW n \in 1 .. 2, NEW p, p = FfnSchedule(n)
    PROVE  /\ Len(p) \in Nat \ {0} /\ p \in Seq([op : {"recv", "compute", "send"}, layer : Nat, stage : Stages(n)])
           /\ \A s \in Stages(n) :
                /\ FC(n, 1, s) = 0 /\ FC(n, Len(p) + 1, s) = 2 * L
                /\ \A k \in 1 .. Len(p) + 1 : FC(n, k, s) \in 0 .. 2 * L
           /\ \A k \in 1 .. Len(p) :
                /\ p[k].stage \in Stages(n)
                /\ p[k].layer = (FC(n, k, p[k].stage) \div 2) + 1
                /\ \A s \in Stages(n) : s /= p[k].stage => FC(n, k, s) % 2 = 0
                /\ p[k].op = "recv" <=> FC(n, k, p[k].stage) % 2 = 0
                /\ \A s \in Stages(n) :
                     FC(n, k + 1, s) = IF s = p[k].stage /\ p[k].op /= "compute"
                                       THEN FC(n, k, s) + 1 ELSE FC(n, k, s)
  <1>1. L \in Nat /\ L >= 1
    BY SizesAssumption
  <1>2. PICK N : N = 3 * n * L
    OBVIOUS
  <1>3. n = 1 \/ n = 2
    OBVIOUS
  <1>4. N \in Nat \ {0} /\ (n = 1 => N = 3 * L) /\ (n = 2 => N = 6 * L)
    BY <1>1, <1>2, <1>3
  <1>5. p = [k \in 1 .. N |->
               Op(<<"recv", "compute", "send">>[((k - 1) % 3) + 1],
                  ((k - 1) \div 3) \div n + 1, ((k - 1) \div 3) % n)]
    BY <1>2 DEF FfnSchedule
  <1>6. ASSUME NEW k \in 1 .. N + 1
        PROVE  \E i \in 0 .. n * L, r \in 0 .. 2 :
                 /\ k = 3 * i + r + 1 /\ (k - 1) \div 3 = i /\ (k - 1) % 3 = r
                 /\ i = n * L => r = 0
                 /\ k \in 1 .. N => i < n * L
    <2>1. PICK i : i = (k - 1) \div 3
      OBVIOUS
    <2>2. PICK r : r = (k - 1) % 3
      OBVIOUS
    <2>3. i \in Nat /\ r \in 0 .. 2 /\ k = 3 * i + r + 1
      BY <1>4, <2>1, <2>2
    <2>4. n * L \in Nat /\ N = 3 * (n * L)
      BY <1>1, <1>3, <1>4
    <2>5. i \in 0 .. n * L /\ (i = n * L => r = 0) /\ (k \in 1 .. N => i < n * L)
      BY <2>3, <2>4
    <2> QED BY <2>1, <2>2, <2>3, <2>5
  <1>7. ASSUME NEW s \in Stages(n), NEW i \in 0 .. n * L
        PROVE  /\ Turns(n, s, i) \in 0 .. L
               /\ Turns(n, s, 0) = 0 /\ Turns(n, s, n * L) = L
               /\ i < n * L => /\ Turns(n, s, i + 1) = IF s = i % n THEN Turns(n, s, i) + 1
                                                       ELSE Turns(n, s, i)
                               /\ i % n \in Stages(n) /\ Turns(n, i % n, i) = i \div n
                               /\ Turns(n, i % n, i) < L
    <2>1. CASE n = 1
      BY <1>1, <2>1 DEF Turns, Stages
    <2>2. CASE n = 2
      BY <1>1, <2>2 DEF Turns, Stages
    <2> QED BY <1>3, <2>1, <2>2
  <1>8. Len(p) = N
    BY <1>4, <1>5
  <1>9. ASSUME NEW k \in 1 .. N
        PROVE  \E i \in 0 .. n * L, r \in 0 .. 2 :
                 /\ k = 3 * i + r + 1 /\ (k - 1) \div 3 = i /\ (k - 1) % 3 = r /\ i < n * L
                 /\ p[k].op = IF r = 0 THEN "recv" ELSE IF r = 1 THEN "compute" ELSE "send"
                 /\ p[k].stage = i % n /\ p[k].layer = i \div n + 1
    <2>1. k \in 1 .. N + 1
      BY <1>4
    <2>2. PICK i \in 0 .. n * L, r \in 0 .. 2 :
             k = 3 * i + r + 1 /\ (k - 1) \div 3 = i /\ (k - 1) % 3 = r /\ i < n * L
      BY <1>6, <2>1
    <2>3. p[k] = Op(<<"recv", "compute", "send">>[r + 1], i \div n + 1, i % n)
      BY <1>5, <2>2
    <2>4. <<"recv", "compute", "send">>[r + 1] = IF r = 0 THEN "recv" ELSE IF r = 1 THEN "compute" ELSE "send"
      OBVIOUS
    <2>5. p[k].op = <<"recv", "compute", "send">>[r + 1] /\ p[k].stage = i % n /\ p[k].layer = i \div n + 1
      BY <2>3 DEF Op
    <2> QED BY <2>2, <2>4, <2>5
  <1>10. ASSUME NEW s \in Stages(n)
         PROVE  /\ FC(n, 1, s) = 0 /\ FC(n, N + 1, s) = 2 * L
                /\ \A k \in 1 .. N + 1 : FC(n, k, s) \in 0 .. 2 * L
    <2>1. ASSUME NEW k \in 1 .. N + 1 PROVE FC(n, k, s) \in 0 .. 2 * L
      <3>1. PICK i \in 0 .. n * L, r \in 0 .. 2 :
             /\ k = 3 * i + r + 1 /\ (k - 1) \div 3 = i /\ (k - 1) % 3 = r
             /\ i = n * L => r = 0
        BY <1>6
      <3>2. PICK t : t = Turns(n, s, i)
        OBVIOUS
      <3>3. FC(n, k, s) = 2 * t + (IF r /= 0 /\ s = i % n THEN 1 ELSE 0)
        BY <3>1, <3>2 DEF FC
      <3>4. t \in 0 .. L
        BY <1>7, <3>2
      <3>5. r /= 0 /\ s = i % n => t < L
        <4>1. n * L \in Nat
          BY <1>1, <1>3
        <4>2. i < n * L \/ i = n * L
          BY <4>1
        <4> QED BY <1>7, <3>1, <3>2, <4>2
      <3> QED BY <1>1, <3>3, <3>4, <3>5
    <2>2. FC(n, 1, s) = 0
      <3>1. (1 - 1) \div 3 = 0 /\ (1 - 1) % 3 = 0
        OBVIOUS
      <3>2. 0 \in 0 .. n * L
        BY <1>1, <1>3
      <3>3. Turns(n, s, 0) = 0
        BY <1>7, <3>2
      <3> QED BY <3>1, <3>3 DEF FC
    <2>3. FC(n, N + 1, s) = 2 * L
      <3>1. ((N + 1) - 1) \div 3 = n * L /\ ((N + 1) - 1) % 3 = 0
        BY <1>1, <1>3, <1>4
      <3>2. n * L \in 0 .. n * L
        BY <1>1, <1>3
      <3>3. Turns(n, s, n * L) = L
        BY <1>7, <3>2
      <3> QED BY <1>1, <3>1, <3>3 DEF FC
    <2> QED BY <2>1, <2>2, <2>3
  <1>11. ASSUME NEW k \in 1 .. N
         PROVE  /\ p[k].op \in {"recv", "compute", "send"} /\ p[k].layer \in Nat
                /\ p[k] = [op |-> p[k].op, layer |-> p[k].layer, stage |-> p[k].stage]
                /\ p[k].stage \in Stages(n)
                /\ p[k].layer = (FC(n, k, p[k].stage) \div 2) + 1
                /\ \A s \in Stages(n) : s /= p[k].stage => FC(n, k, s) % 2 = 0
                /\ p[k].op = "recv" <=> FC(n, k, p[k].stage) % 2 = 0
                /\ \A s \in Stages(n) :
                     FC(n, k + 1, s) = IF s = p[k].stage /\ p[k].op /= "compute"
                                       THEN FC(n, k, s) + 1 ELSE FC(n, k, s)
    <2>1. PICK i \in 0 .. n * L, r \in 0 .. 2 :
                 /\ k = 3 * i + r + 1 /\ (k - 1) \div 3 = i /\ (k - 1) % 3 = r /\ i < n * L
                 /\ p[k].op = IF r = 0 THEN "recv" ELSE IF r = 1 THEN "compute" ELSE "send"
                 /\ p[k].stage = i % n /\ p[k].layer = i \div n + 1
      BY <1>9
    <2>2. PICK g : g = i % n
      OBVIOUS
    <2>3. g \in Stages(n) /\ Turns(n, g, i) = i \div n /\ i \div n \in 0 .. L
      <3>1. i % n \in Stages(n) /\ Turns(n, i % n, i) = i \div n
        <4>1. 0 \in Stages(n)
          BY DEF Stages
        <4> QED BY <1>7, <2>1, <4>1
      <3>2. Turns(n, i % n, i) \in 0 .. L
        BY <1>7, <3>1
      <3> QED BY <2>2, <3>1, <3>2
    <2>4. ASSUME NEW s \in Stages(n)
          PROVE  /\ FC(n, k, s) = 2 * Turns(n, s, i) + (IF r /= 0 /\ s = g THEN 1 ELSE 0)
                 /\ FC(n, k + 1, s) = IF r = 2 THEN 2 * Turns(n, s, i + 1)
                                      ELSE 2 * Turns(n, s, i) + (IF s = g THEN 1 ELSE 0)
                 /\ Turns(n, s, i) \in 0 .. L
                 /\ Turns(n, s, i + 1) = IF s = g THEN Turns(n, s, i) + 1 ELSE Turns(n, s, i)
      <3>1. FC(n, k, s) = 2 * Turns(n, s, i) + (IF r /= 0 /\ s = g THEN 1 ELSE 0)
        BY <2>1, <2>2 DEF FC
      <3>2. CASE r = 2
        <4>1. ((k + 1) - 1) \div 3 = i + 1 /\ ((k + 1) - 1) % 3 = 0
          BY <2>1, <3>2
        <4>2. Turns(n, s, i) \in 0 .. L /\ Turns(n, s, i + 1) = IF s = g THEN Turns(n, s, i) + 1 ELSE Turns(n, s, i)
          BY <1>7, <2>1, <2>2
        <4>3. Turns(n, s, i + 1) \in Nat
          BY <1>1, <4>2
        <4>4. FC(n, k + 1, s) = 2 * Turns(n, s, i + 1)
          BY <4>1, <4>3 DEF FC
        <4> QED BY <3>1, <3>2, <4>2, <4>4
      <3>3. CASE r /= 2
        <4>1. ((k + 1) - 1) \div 3 = i /\ ((k + 1) - 1) % 3 = r + 1
          BY <2>1, <3>3
        <4>2. FC(n, k + 1, s) = 2 * Turns(n, s, i) + (IF s = g THEN 1 ELSE 0)
          BY <2>2, <4>1 DEF FC
        <4>3. Turns(n, s, i) \in 0 .. L /\ Turns(n, s, i + 1) = IF s = g THEN Turns(n, s, i) + 1 ELSE Turns(n, s, i)
          BY <1>7, <2>1, <2>2
        <4> QED BY <3>1, <3>3, <4>2, <4>3
      <3> QED BY <3>2, <3>3
    <2>5. p[k].stage = g /\ p[k].layer = i \div n + 1
      BY <2>1, <2>2
    <2>6. (FC(n, k, g) \div 2) = Turns(n, g, i) /\ (FC(n, k, g) % 2 = 0 <=> r = 0)
      BY <1>1, <2>3, <2>4
    <2>7. \A s \in Stages(n) : s /= g => FC(n, k, s) % 2 = 0
      BY <1>1, <2>4
    <2>8. p[k].op = "recv" <=> r = 0
      BY <2>1
    <2>9. p[k].op = "compute" <=> r = 1
      BY <2>1
    <2>10. ASSUME NEW s \in Stages(n)
           PROVE  FC(n, k + 1, s) = IF s = g /\ p[k].op /= "compute"
                                    THEN FC(n, k, s) + 1 ELSE FC(n, k, s)
      BY <1>1, <2>4, <2>9
    <2>11. p[k] = [op |-> p[k].op, layer |-> p[k].layer, stage |-> p[k].stage]
      BY <1>5 DEF Op
    <2>12. p[k].op \in {"recv", "compute", "send"} /\ p[k].layer \in Nat
      BY <1>1, <2>1, <2>3
    <2> QED BY <2>3, <2>5, <2>6, <2>7, <2>8, <2>10, <2>11, <2>12
  <1>12. p \in Seq([op : {"recv", "compute", "send"}, layer : Nat, stage : Stages(n)])
    <2> DEFINE S == [op : {"recv", "compute", "send"}, layer : Nat, stage : Stages(n)]
    <2>1. ASSUME NEW k \in 1 .. N PROVE p[k] \in S
      <3>1. p[k] = [op |-> p[k].op, layer |-> p[k].layer, stage |-> p[k].stage]
        BY <1>11
      <3>2. p[k].op \in {"recv", "compute", "send"} /\ p[k].layer \in Nat /\ p[k].stage \in Stages(n)
        BY <1>11
      <3> QED BY <3>1, <3>2
    <2>2. p \in [1 .. N -> S]
      BY <1>5, <2>1
    <2> HIDE DEF S
    <2>3. p \in Seq(S)
      BY <1>4, <2>2
    <2> QED BY <2>3 DEF S
  <1> QED BY <1>4, <1>8, <1>10, <1>11, <1>12

(* What an Attention rank finds at a place k of its program. *)
LEMMA AttNow ==
    ASSUME NEW n \in 1 .. 2, NEW k \in 1 .. Len(AttSchedule(n)),
           NEW op, op = AttSchedule(n)[k], NEW g, g = op.stage
    PROVE  /\ g \in Stages(n) /\ k + 1 \in 1 .. Len(AttSchedule(n)) + 1
           /\ AC(n, k, g) \in 0 .. 2 * L - 1 /\ op = AttOp(AC(n, k, g), g)
           /\ AC(n, k + 1, g) = AC(n, k, g) + 1
           /\ \A s \in Stages(n) : s /= g => AC(n, k + 1, s) = AC(n, k, s)
  <1>1. PICK p : p = AttSchedule(n)
    OBVIOUS
  <1>2. Len(p) \in Nat
    BY <1>1, AttProgram
  <1>3. g \in Stages(n) /\ op = AttOp(AC(n, k, g), g)
    BY <1>1, AttProgram
  <1>4. \A s \in Stages(n) :
          AC(n, k + 1, s) = IF s = p[k].stage THEN AC(n, k, s) + 1 ELSE AC(n, k, s)
    BY <1>1, AttProgram
  <1>5. k + 1 \in 1 .. Len(p) + 1 /\ k \in 1 .. Len(p) + 1
    BY <1>1, <1>2
  <1>6. AC(n, k, g) \in 0 .. 2 * L /\ AC(n, k + 1, g) \in 0 .. 2 * L
    BY <1>1, <1>3, <1>5, AttProgram
  <1>7. AC(n, k + 1, g) = AC(n, k, g) + 1
    BY <1>1, <1>3, <1>4
  <1>8. \A s \in Stages(n) : s /= g => AC(n, k + 1, s) = AC(n, k, s)
    BY <1>1, <1>4
  <1>9. AC(n, k, g) \in 0 .. 2 * L - 1
    BY <1>6, <1>7, SizesAssumption
  <1> QED BY <1>1, <1>3, <1>5, <1>7, <1>8, <1>9

(* What an FFN rank finds at a place k of its program. *)
LEMMA FfnNow ==
    ASSUME NEW n \in 1 .. 2, NEW k \in 1 .. Len(FfnSchedule(n)),
           NEW op, op = FfnSchedule(n)[k], NEW g, g = op.stage
    PROVE  /\ g \in Stages(n) /\ k + 1 \in 1 .. Len(FfnSchedule(n)) + 1
           /\ op.layer = (FC(n, k, g) \div 2) + 1
           /\ op.op = "recv" <=> FC(n, k, g) % 2 = 0
           /\ k = 1 => op.op = "recv"
           /\ op.op = "compute" => FC(n, k + 1, g) = FC(n, k, g)
           /\ op.op /= "compute" => FC(n, k + 1, g) = FC(n, k, g) + 1
           /\ FC(n, k, g) \in 0 .. 2 * L - 1
           /\ \A s \in Stages(n) : s /= g => /\ FC(n, k + 1, s) = FC(n, k, s)
                                             /\ FC(n, k, s) % 2 = 0
  <1>1. PICK p : p = FfnSchedule(n)
    OBVIOUS
  <1>2. Len(p) \in Nat
    BY <1>1, FfnProgram
  <1>3. g \in Stages(n)
    BY <1>1, FfnProgram
  <1>4. op.layer = (FC(n, k, g) \div 2) + 1
    BY <1>1, FfnProgram
  <1>5. op.op = "recv" <=> FC(n, k, g) % 2 = 0
    BY <1>1, FfnProgram
  <1>6. \A s \in Stages(n) : s /= p[k].stage => FC(n, k, s) % 2 = 0
    BY <1>1, FfnProgram
  <1>7. \A s \in Stages(n) :
          FC(n, k + 1, s) = IF s = p[k].stage /\ p[k].op /= "compute"
                            THEN FC(n, k, s) + 1 ELSE FC(n, k, s)
    BY <1>1, FfnProgram
  <1>8. k + 1 \in 1 .. Len(p) + 1 /\ k \in 1 .. Len(p) + 1
    BY <1>1, <1>2
  <1>9. FC(n, k, g) \in 0 .. 2 * L /\ FC(n, k + 1, g) \in 0 .. 2 * L
    BY <1>1, <1>3, <1>8, FfnProgram
  <1>10. FC(n, 1, g) = 0
    BY <1>1, <1>3, FfnProgram
  <1>11. k = 1 => op.op = "recv"
    BY <1>5, <1>10
  <1>12. /\ op.op = "compute" => FC(n, k + 1, g) = FC(n, k, g)
         /\ op.op /= "compute" => FC(n, k + 1, g) = FC(n, k, g) + 1
    BY <1>1, <1>3, <1>7
  <1>13. \A s \in Stages(n) : s /= g => FC(n, k + 1, s) = FC(n, k, s) /\ FC(n, k, s) % 2 = 0
    BY <1>1, <1>6, <1>7
  <1>14. FC(n, k, g) \in 0 .. 2 * L - 1
    <2>1. CASE op.op = "compute"
      <3>1. FC(n, k, g) % 2 /= 0
        BY <1>5, <2>1
      <3> QED BY <1>9, <3>1, SizesAssumption
    <2>2. CASE op.op /= "compute"
      BY <1>9, <1>12, <2>2, SizesAssumption
    <2> QED BY <2>1, <2>2
  <1> QED BY <1>1, <1>3, <1>4, <1>5, <1>8, <1>11, <1>12, <1>13, <1>14

(* Where a program begins and ends. *)
LEMMA Ends ==
    ASSUME NEW n \in 1 .. 2, NEW s \in Stages(n)
    PROVE  /\ AC(n, 1, s) = 0 /\ AC(n, Len(AttSchedule(n)) + 1, s) = 2 * L
           /\ \A k \in 1 .. Len(AttSchedule(n)) + 1 : AC(n, k, s) \in 0 .. 2 * L
           /\ FC(n, 1, s) = 0 /\ FC(n, Len(FfnSchedule(n)) + 1, s) = 2 * L
           /\ \A k \in 1 .. Len(FfnSchedule(n)) + 1 : FC(n, k, s) \in 0 .. 2 * L
  <1>1. PICK p : p = AttSchedule(n)
    OBVIOUS
  <1>2. /\ AC(n, 1, s) = 0 /\ AC(n, Len(p) + 1, s) = 2 * L
        /\ \A k \in 1 .. Len(p) + 1 : AC(n, k, s) \in 0 .. 2 * L
    BY <1>1, AttProgram
  <1>3. PICK q : q = FfnSchedule(n)
    OBVIOUS
  <1>4. /\ FC(n, 1, s) = 0 /\ FC(n, Len(q) + 1, s) = 2 * L
        /\ \A k \in 1 .. Len(q) + 1 : FC(n, k, s) \in 0 .. 2 * L
    BY <1>3, FfnProgram
  <1> QED BY <1>1, <1>2, <1>3, <1>4

----------------------------------------------------------------------------
(***************************************************************************)
(* One stage of a step between an Attention rank and its FFN rank.  Each   *)
(* has done a number of transfers of the stage, x and y; the window of the *)
(* stage holds a value only one side may read next, and the counts of the  *)
(* operations on the group tell which.                                     *)
(***************************************************************************)
(* the rows on the wire of stage s, as the Attention rank and as its FFN rank
   derive them from a plan *)
Wire(p, a, s) ==
    IF A > F /\ Cardinality(DOMAIN Physical(Counts(p, a))) > 1
    THEN Physical(Counts(p, a))[s][a] ELSE OwnRows(p, s, a)
Chunk(p, a, s) ==
    BatchSizes(Counts(p, MetadataSource(Owner(a))), Owner(a))[s] \div Ratio

Sent(p, n, a, s, x) ==
    [from |-> "attention", rank |-> a, step |-> n, layer |-> (x \div 2) + 1,
     stage |-> s, rows |-> Wire(p, a, s)]
Back(p, n, a, s, x) ==
    [from |-> "ffn", of |-> Sent(p, n, a, s, x), rows |-> Chunk(p, a, s)]

(* after an odd number of transfers the FFN rank works on what it got *)
Meet(x, y) == IF y % 2 = 1 THEN x = y ELSE x \in {y - 1, y, y + 1}

(* ma and mf operations, ta and tf the flags that have come, w the window and
   got what the FFN rank has read of it *)
Crossing(p, n, a, s, x, y, ma, mf, ta, tf, w, got) ==
    /\ x \in Nat /\ y \in Nat /\ Meet(x, y)
    /\ ma \in Nat /\ mf \in Nat /\ ma + y = mf + x
    /\ ta \in Nat /\ tf \in Nat /\ ta <= ma /\ tf <= mf
    /\ x = y + 1 => w = Sent(p, n, a, s, x)
    /\ x = y /\ x % 2 = 1 => got = Sent(p, n, a, s, x)
    /\ y = x + 1 => w = Back(p, n, a, s, x)

(* An Attention rank sends. *)
LEMMA CrossSend ==
    ASSUME NEW p, NEW n, NEW a, NEW s, NEW x, NEW y, NEW ma, NEW mf, NEW ta, NEW tf,
           NEW w, NEW got, Crossing(p, n, a, s, x, y, ma, mf, ta, tf, w, got),
           x % 2 = 0, NEW v, v = Sent(p, n, a, s, x)
    PROVE  x = y /\ Crossing(p, n, a, s, x + 1, y, ma + 1, mf, ma + 1, tf, v, got)
  <1>1. (x + 1) \div 2 = x \div 2 /\ x = y
    BY DEF Crossing, Meet
  <1>2. v = Sent(p, n, a, s, x + 1)
    BY <1>1 DEF Sent
  <1> QED BY <1>1, <1>2 DEF Crossing, Meet

(* It receives when the flag of its count has come. *)
LEMMA CrossReceive ==
    ASSUME NEW p, NEW n, NEW a, NEW s, NEW x, NEW y, NEW ma, NEW mf, NEW ta, NEW tf,
           NEW w, NEW got, Crossing(p, n, a, s, x, y, ma, mf, ta, tf, w, got),
           tf = ma + 1
    PROVE  /\ y = x + 1 /\ w = Back(p, n, a, s, x)
           /\ Crossing(p, n, a, s, x + 1, y, ma + 1, mf, ta, tf, w, got)
  <1>1. y = x + 1
    BY DEF Crossing, Meet
  <1> QED BY <1>1 DEF Crossing, Meet

(* The FFN rank reads a window when the flag of its count has come. *)
LEMMA CrossTake ==
    ASSUME NEW p, NEW n, NEW a, NEW s, NEW x, NEW y, NEW ma, NEW mf, NEW ta, NEW tf,
           NEW w, NEW got, Crossing(p, n, a, s, x, y, ma, mf, ta, tf, w, got),
           ta = mf + 1
    PROVE  /\ x = y + 1 /\ w = Sent(p, n, a, s, x)
           /\ Crossing(p, n, a, s, x, y + 1, ma, mf + 1, ta, tf, w, w)
  <1>1. x = y + 1
    BY DEF Crossing, Meet
  <1> QED BY <1>1 DEF Crossing, Meet

(* The FFN rank writes the output into the window. *)
LEMMA CrossGive ==
    ASSUME NEW p, NEW n, NEW a, NEW s, NEW x, NEW y, NEW ma, NEW mf, NEW ta, NEW tf,
           NEW w, NEW got, Crossing(p, n, a, s, x, y, ma, mf, ta, tf, w, got),
           y % 2 = 1,
           NEW v, v = [from |-> "ffn", of |-> got, rows |-> Chunk(p, a, s)]
    PROVE  Crossing(p, n, a, s, x, y + 1, ma, mf + 1, ta, mf + 1, v, got)
  <1>1. x = y
    BY DEF Crossing, Meet
  <1>2. v = Back(p, n, a, s, x)
    BY <1>1 DEF Crossing, Back
  <1> QED BY <1>1, <1>2 DEF Crossing, Meet

(* What an FFN rank holds of another stage does not matter. *)
LEMMA CrossOther ==
    ASSUME NEW p, NEW n, NEW a, NEW s, NEW x, NEW y, NEW ma, NEW mf, NEW ta, NEW tf,
           NEW w, NEW got, Crossing(p, n, a, s, x, y, ma, mf, ta, tf, w, got),
           y % 2 = 0, NEW other
    PROVE  Crossing(p, n, a, s, x, y, ma, mf, ta, tf, w, other)
  BY DEF Crossing

----------------------------------------------------------------------------
(***************************************************************************)
(* An Attention rank r and its FFN rank q, each in a step of its own: the  *)
(* FFN rank may not have taken the step's payload yet, or have taken the   *)
(* next one already.  w is the number of microbatches of r's step, p its   *)
(* plan, v that of q's step.                                               *)
(***************************************************************************)
ProgA(w) == IF w = 0 THEN <<>> ELSE AttSchedule(w)
ProgF(w) == IF w = 0 THEN <<>> ELSE FfnSchedule(w)

Runs(w, v, r, q) ==
    /\ w \in 0 .. NumUbatches /\ v \in 0 .. NumUbatches
    /\ r.step \in Nat /\ (w = 0 <=> r.step = 0) /\ q.step \in Nat /\ (v = 0 <=> q.step = 0)
    /\ q.step = r.step => v = w
    /\ r.ops = ProgA(w) /\ r.pc \in 1 .. Len(r.ops) + 1
    /\ q.ops = ProgF(v) /\ q.pc \in 1 .. Len(q.ops) + 1

Near(r, q) ==
    \/ q.step = r.step
    \/ q.step + 1 = r.step /\ Idle(q)
    \/ q.step = r.step + 1 /\ q.pc = 1

(* transfers of stage s that r and q have done of r's step *)
Xs(w, r, s) == AC(w, r.pc, s)
Ys(w, r, q, s) ==
    IF q.step = r.step THEN FC(w, q.pc, s) ELSE IF q.step > r.step THEN 2 * L ELSE 0

Place(a) == CHOOSE i \in 1 .. Ratio : Peers(Owner(a))[i] = a

StageIs(p, w, a, s, r, q, ma, mf, ta, tf, wn) ==
    Crossing(p, r.step, a, s, Xs(w, r, s), Ys(w, r, q, s), ma[s + 1], mf[s + 1],
             ta[s + 1], tf[s + 1], wn[s + 1], q.got[Place(a)])

(* the group of no stage *)
Apart(ma, mf, ta, tf) == ma \in Nat /\ ta \in Nat /\ tf \in Nat /\ ma = mf /\ ta <= ma /\ tf <= mf

Pair(p, w, a, r, q, ma, mf, ta, tf, wn) ==
    /\ Near(r, q)
    /\ \A s \in Stages(w) : StageIs(p, w, a, s, r, q, ma, mf, ta, tf, wn)
    /\ \A g \in Groups : g > w => Apart(ma[g], mf[g], ta[g], tf[g])

(* f is e but at g *)
Put(f, e, g, x) == f[g] = x /\ \A h \in Groups : h /= g => f[h] = e[h]

(* Every stage has a group of its own. *)
LEMMA GroupOf ==
    ASSUME NEW w \in 0 .. NumUbatches, NEW s \in Stages(w)
    PROVE  GroupEp(s) = s + 1 /\ s + 1 \in Groups /\ w \in 1 .. 2
  BY SizesAssumption DEF GroupEp, Stages, Groups

(* Where the ranks are in a stage. *)
LEMMA Bounds ==
    ASSUME NEW w, NEW v, NEW r, NEW q, Runs(w, v, r, q), NEW s \in Stages(w)
    PROVE  /\ Xs(w, r, s) \in 0 .. 2 * L /\ (Idle(r) => Xs(w, r, s) = 2 * L)
           /\ q.step = r.step => FC(w, q.pc, s) \in 0 .. 2 * L /\ (Idle(q) => FC(w, q.pc, s) = 2 * L)
  <1>1. w \in 1 .. 2
    BY GroupOf DEF Runs
  <1>2. r.ops = AttSchedule(w) /\ Len(AttSchedule(w)) \in Nat
    BY <1>1, AttProgram DEF Runs, ProgA
  <1>3. Xs(w, r, s) \in 0 .. 2 * L
    BY <1>1, <1>2, Ends DEF Runs, Xs
  <1>4. Idle(r) => r.pc = Len(AttSchedule(w)) + 1
    BY <1>2 DEF Idle, Runs
  <1>5. Idle(r) => Xs(w, r, s) = 2 * L
    BY <1>1, <1>4, Ends DEF Xs
  <1>6. ASSUME q.step = r.step
        PROVE  FC(w, q.pc, s) \in 0 .. 2 * L /\ (Idle(q) => FC(w, q.pc, s) = 2 * L)
    <2>1. q.ops = FfnSchedule(w) /\ Len(FfnSchedule(w)) \in Nat
      BY <1>1, <1>6, FfnProgram DEF Runs, ProgF
    <2>2. FC(w, q.pc, s) \in 0 .. 2 * L
      BY <1>1, <2>1, Ends DEF Runs
    <2>3. Idle(q) => q.pc = Len(FfnSchedule(w)) + 1
      BY <2>1 DEF Idle, Runs
    <2> QED BY <1>1, <2>2, <2>3, Ends
  <1> QED BY <1>3, <1>5, <1>6

(* An Attention rank that has ended its step: so has its FFN rank, and all the
   groups are at rest. *)
LEMMA Resting ==
    ASSUME NEW p, NEW w, NEW v, NEW a, NEW r, NEW q, NEW ma, NEW mf, NEW ta, NEW tf, NEW wn,
           Runs(w, v, r, q), Pair(p, w, a, r, q, ma, mf, ta, tf, wn), Idle(r)
    PROVE  /\ (q.step = r.step /\ Idle(q)) \/ (q.step = r.step + 1 /\ q.pc = 1)
           /\ \A g \in Groups : Apart(ma[g], mf[g], ta[g], tf[g])
  <1>1. L \in Nat /\ L >= 1 /\ NumUbatches \in 1 .. 2
    BY SizesAssumption
  <1>2. w \in 0 .. NumUbatches
    BY DEF Runs
  <1>3. ASSUME NEW s \in Stages(w)
        PROVE  /\ Ys(w, r, q, s) = 2 * L
               /\ Apart(ma[s + 1], mf[s + 1], ta[s + 1], tf[s + 1])
    <2>1. PICK x : x = Xs(w, r, s)
      OBVIOUS
    <2>2. PICK y : y = Ys(w, r, q, s)
      OBVIOUS
    <2>3. x = 2 * L
      BY <1>3, <2>1, Bounds
    <2>4. Crossing(p, r.step, a, s, x, y, ma[s + 1], mf[s + 1], ta[s + 1], tf[s + 1], wn[s + 1],
                   q.got[Place(a)])
      BY <1>3, <2>1, <2>2 DEF Pair, StageIs
    <2>5. y \in 0 .. 2 * L
      <3>1. q.step = r.step => FC(w, q.pc, s) \in 0 .. 2 * L
        BY <1>3, Bounds
      <3> QED BY <1>1, <2>2, <3>1 DEF Ys
    <2>6. y = 2 * L
      BY <1>1, <2>3, <2>4, <2>5 DEF Crossing, Meet
    <2> QED BY <2>2, <2>3, <2>4, <2>6 DEF Crossing, Apart
  <1>4. ASSUME NEW g \in Groups PROVE Apart(ma[g], mf[g], ta[g], tf[g])
    <2>1. CASE g > w
      BY <2>1 DEF Pair
    <2>2. CASE ~(g > w)
      <3>1. g - 1 \in Stages(w) /\ (g - 1) + 1 = g
        BY <1>1, <1>2, <2>2 DEF Groups, Stages
      <3>2. Apart(ma[(g - 1) + 1], mf[(g - 1) + 1], ta[(g - 1) + 1], tf[(g - 1) + 1])
        BY <1>3, <3>1
      <3> QED BY <3>1, <3>2
    <2> QED BY <2>1, <2>2
  <1>5. q.step = r.step => Idle(q)
    <2> SUFFICES ASSUME q.step = r.step, ~Idle(q) PROVE FALSE
      OBVIOUS
    <2>1. v = w /\ q.ops = ProgF(w) /\ q.pc \in 1 .. Len(q.ops) + 1 /\ ~(q.pc > Len(q.ops))
      BY DEF Runs, Idle
    <2>2. w /= 0
      <3> SUFFICES ASSUME w = 0 PROVE FALSE
        OBVIOUS
      <3>1. q.ops = <<>>
        BY <2>1 DEF ProgF
      <3> QED BY <2>1, <3>1
    <2>3. w \in 1 .. 2 /\ q.ops = FfnSchedule(w)
      BY <1>1, <1>2, <2>1, <2>2 DEF ProgF
    <2>4. Len(q.ops) \in Nat
      BY <2>3, FfnProgram
    <2>5. q.pc \in 1 .. Len(FfnSchedule(w))
      BY <2>1, <2>3, <2>4
    <2>6. PICK k : k = q.pc
      OBVIOUS
    <2>7. PICK g : g = FfnSchedule(w)[k].stage
      OBVIOUS
    <2>8. g \in Stages(w) /\ FC(w, k, g) \in 0 .. 2 * L - 1
      BY <2>3, <2>5, <2>6, <2>7, FfnNow
    <2>9. Ys(w, r, q, g) = FC(w, k, g)
      BY <2>6 DEF Ys
    <2> QED BY <1>1, <1>3, <2>8, <2>9
  <1>6. q.step + 1 /= r.step
    <2> SUFFICES ASSUME q.step + 1 = r.step PROVE FALSE
      OBVIOUS
    <2>1. r.step /= 0 /\ ~(q.step = r.step) /\ ~(q.step > r.step)
      BY DEF Runs
    <2>2. w /= 0
      BY <2>1 DEF Runs
    <2>3. 0 \in Stages(w)
      BY <1>1, <1>2, <2>2 DEF Stages
    <2>4. Ys(w, r, q, 0) = 0
      BY <2>1 DEF Ys
    <2> QED BY <1>1, <1>3, <2>3, <2>4
  <1>7. q.step = r.step \/ (q.step = r.step + 1 /\ q.pc = 1)
    BY <1>6 DEF Pair, Near
  <1> QED BY <1>4, <1>5, <1>7

(* An Attention rank begins the next step. *)
LEMMA PairBegins ==
    ASSUME NEW p, NEW w, NEW v, NEW a, NEW r, NEW q, NEW ma, NEW mf, NEW ta, NEW tf, NEW wn,
           Runs(w, v, r, q), Pair(p, w, a, r, q, ma, mf, ta, tf, wn), Idle(r),
           NEW p2, NEW w2 \in 1 .. NumUbatches, q.step = r.step + 1 => v = w2,
           NEW r2, r2.step = r.step + 1, r2.ops = AttSchedule(w2), r2.pc = 1
    PROVE  Runs(w2, v, r2, q) /\ Pair(p2, w2, a, r2, q, ma, mf, ta, tf, wn)
  <1>1. L \in Nat /\ L >= 1 /\ NumUbatches \in 1 .. 2
    BY SizesAssumption
  <1>2. w2 \in 1 .. 2 /\ w2 \in 0 .. NumUbatches
    BY <1>1
  <1>3. (q.step = r.step /\ Idle(q)) \/ (q.step = r.step + 1 /\ q.pc = 1)
    BY Resting
  <1>4. \A g \in Groups : Apart(ma[g], mf[g], ta[g], tf[g])
    BY Resting
  <1>5. Runs(w2, v, r2, q)
    <2>1. Len(AttSchedule(w2)) \in Nat
      BY <1>2, AttProgram
    <2>2. r2.pc \in 1 .. Len(r2.ops) + 1 /\ r2.ops = ProgA(w2)
      BY <1>2, <2>1 DEF ProgA
    <2>3. r2.step \in Nat \ {0}
      BY DEF Runs
    <2>4. q.step = r2.step => v = w2
      BY <1>3
    <2> QED BY <1>2, <2>2, <2>3, <2>4 DEF Runs
  <1>6. Near(r2, q)
    BY <1>3 DEF Near
  <1>7. ASSUME NEW s \in Stages(w2) PROVE StageIs(p2, w2, a, s, r2, q, ma, mf, ta, tf, wn)
    <2>1. s + 1 \in Groups
      BY <1>2, GroupOf
    <2>2. Xs(w2, r2, s) = 0
      BY <1>2, Ends DEF Xs
    <2>3. Ys(w2, r2, q, s) = 0
      <3>1. r.step \in Nat
        BY DEF Runs
      <3>2. CASE q.step = r.step
        BY <3>1, <3>2 DEF Ys
      <3>3. CASE q.step = r.step + 1 /\ q.pc = 1
        BY <1>2, <3>3, Ends DEF Ys
      <3> QED BY <1>3, <3>2, <3>3
    <2>4. Apart(ma[s + 1], mf[s + 1], ta[s + 1], tf[s + 1])
      BY <1>4, <2>1
    <2>5. Crossing(p2, r2.step, a, s, 0, 0, ma[s + 1], mf[s + 1], ta[s + 1], tf[s + 1], wn[s + 1],
                   q.got[Place(a)])
      BY <2>4 DEF Crossing, Apart, Meet
    <2> QED BY <2>2, <2>3, <2>5 DEF StageIs
  <1> QED BY <1>4, <1>5, <1>6, <1>7 DEF Pair

(* An FFN rank begins the step of its next payload. *)
LEMMA PairTakes ==
    ASSUME NEW p, NEW w, NEW v, NEW a, NEW r, NEW q, NEW ma, NEW mf, NEW ta, NEW tf, NEW wn,
           Runs(w, v, r, q), Pair(p, w, a, r, q, ma, mf, ta, tf, wn), Idle(q),
           NEW v2 \in 1 .. NumUbatches, r.step = q.step + 1 => w = v2,
           NEW q2, q2.step = q.step + 1, q2.ops = FfnSchedule(v2), q2.pc = 1
    PROVE  Runs(w, v2, r, q2) /\ Pair(p, w, a, r, q2, ma, mf, ta, tf, wn)
  <1>1. L \in Nat /\ L >= 1 /\ NumUbatches \in 1 .. 2
    BY SizesAssumption
  <1>2. v2 \in 1 .. 2 /\ v2 \in 0 .. NumUbatches
    BY <1>1
  <1>3. Len(FfnSchedule(v2)) \in Nat
    BY <1>2, FfnProgram
  <1>4. Runs(w, v2, r, q2)
    <2>1. q2.pc \in 1 .. Len(q2.ops) + 1 /\ q2.ops = ProgF(v2)
      BY <1>2, <1>3 DEF ProgF
    <2>2. q2.step \in Nat \ {0}
      BY DEF Runs
    <2>3. q2.step = r.step => v2 = w
      OBVIOUS
    <2> QED BY <1>2, <2>1, <2>2, <2>3 DEF Runs
  <1>5. q.step = r.step \/ q.step + 1 = r.step
    <2> SUFFICES ASSUME q.step = r.step + 1, q.pc = 1 PROVE FALSE
      BY DEF Pair, Near
    <2>1. q.step \in Nat /\ q.step /= 0 /\ v \in 0 .. NumUbatches /\ v /= 0
      BY DEF Runs
    <2>2. v \in 1 .. 2
      BY <1>1, <2>1
    <2>3. q.ops = FfnSchedule(v)
      BY <2>1 DEF Runs, ProgF
    <2>4. Len(q.ops) \in Nat \ {0}
      BY <2>2, <2>3, FfnProgram
    <2> QED BY <2>4 DEF Idle
  <1>6. Near(r, q2)
    <2>1. q.step \in Nat /\ r.step \in Nat
      BY DEF Runs
    <2> QED BY <1>5, <2>1 DEF Near
  <1>7. ASSUME NEW s \in Stages(w) PROVE StageIs(p, w, a, s, r, q2, ma, mf, ta, tf, wn)
    <2>1. w \in 1 .. 2
      BY GroupOf DEF Runs
    <2>2. PICK y : y = Ys(w, r, q, s)
      OBVIOUS
    <2>3. q.step \in Nat /\ r.step \in Nat
      BY DEF Runs
    <2>4. y % 2 = 0 /\ Ys(w, r, q2, s) = y
      <3>1. CASE q.step = r.step
        <4>1. y = 2 * L
          BY <2>2, <3>1, Bounds DEF Ys
        <4>2. Ys(w, r, q2, s) = 2 * L
          BY <2>3, <3>1 DEF Ys
        <4> QED BY <1>1, <4>1, <4>2
      <3>2. CASE q.step + 1 = r.step
        <4>1. y = 0
          BY <2>2, <2>3, <3>2 DEF Ys
        <4>2. FC(w, 1, s) = 0
          BY <2>1, Ends
        <4>3. Ys(w, r, q2, s) = 0
          BY <2>3, <3>2, <4>2 DEF Ys
        <4> QED BY <4>1, <4>3
      <3> QED BY <1>5, <3>1, <3>2
    <2>5. PICK x : x = Xs(w, r, s)
      OBVIOUS
    <2>6. Crossing(p, r.step, a, s, x, y, ma[s + 1], mf[s + 1], ta[s + 1], tf[s + 1], wn[s + 1],
                   q.got[Place(a)])
      BY <2>2, <2>5 DEF Pair, StageIs
    <2>7. Crossing(p, r.step, a, s, x, y, ma[s + 1], mf[s + 1], ta[s + 1], tf[s + 1], wn[s + 1],
                   q2.got[Place(a)])
      BY <2>4, <2>6, CrossOther
    <2> QED BY <2>4, <2>5, <2>7 DEF StageIs
  <1> QED BY <1>4, <1>6, <1>7 DEF Pair

(* The operation an Attention rank comes to. *)
LEMMA AttOpNow ==
    ASSUME NEW w, NEW v, NEW r, NEW q, Runs(w, v, r, q), ~Idle(r),
           NEW op, op = OpOf(r), NEW g, g = op.stage, NEW x, x = Xs(w, r, g),
           NEW r2, r2.step = r.step, r2.ops = r.ops, r2.pc = r.pc + 1
    PROVE  /\ w \in 1 .. 2 /\ g \in Stages(w) /\ x \in 0 .. 2 * L - 1 /\ op = AttOp(x, g)
           /\ Runs(w, v, r2, q) /\ Xs(w, r2, g) = x + 1
           /\ \A s \in Stages(w) : s /= g => Xs(w, r2, s) = Xs(w, r, s)
  <1>1. NumUbatches \in 1 .. 2
    BY SizesAssumption
  <1>2. r.ops = ProgA(w) /\ r.pc \in 1 .. Len(r.ops) + 1 /\ w \in 0 .. NumUbatches
    BY DEF Runs
  <1>3. w /= 0
    <2> SUFFICES ASSUME w = 0 PROVE FALSE
      OBVIOUS
    <2>1. r.ops = <<>>
      BY <1>2 DEF ProgA
    <2> QED BY <1>2, <2>1 DEF Idle
  <1>4. w \in 1 .. 2 /\ r.ops = AttSchedule(w)
    BY <1>1, <1>2, <1>3 DEF ProgA
  <1>5. Len(AttSchedule(w)) \in Nat
    BY <1>4, AttProgram
  <1>6. PICK k : k = r.pc
    OBVIOUS
  <1>7. k \in 1 .. Len(AttSchedule(w)) /\ op = AttSchedule(w)[k]
    BY <1>2, <1>4, <1>5, <1>6 DEF Idle, OpOf
  <1>8. /\ g \in Stages(w) /\ k + 1 \in 1 .. Len(AttSchedule(w)) + 1
        /\ AC(w, k, g) \in 0 .. 2 * L - 1 /\ op = AttOp(AC(w, k, g), g)
        /\ AC(w, k + 1, g) = AC(w, k, g) + 1
        /\ \A s \in Stages(w) : s /= g => AC(w, k + 1, s) = AC(w, k, s)
    BY <1>4, <1>7, AttNow
  <1>9. Runs(w, v, r2, q)
    BY <1>4, <1>6, <1>8 DEF Runs
  <1> QED BY <1>4, <1>6, <1>8, <1>9 DEF Xs

(* It sends: fills the window of the stage and sets the flag. *)
LEMMA PairSends ==
    ASSUME NEW p, NEW w, NEW v, NEW a, NEW r, NEW q, NEW ma, NEW mf, NEW ta, NEW tf, NEW wn,
           Runs(w, v, r, q), Pair(p, w, a, r, q, ma, mf, ta, tf, wn), At(r, "send"),
           NEW op, op = OpOf(r),
           NEW r2, r2.step = r.step, r2.ops = r.ops, r2.pc = r.pc + 1,
           NEW g, g = op.stage + 1,
           NEW ma2, Put(ma2, ma, g, ma[g] + 1), NEW ta2, Put(ta2, ta, g, ma[g] + 1),
           NEW wn2, Put(wn2, wn, g, [from |-> "attention", rank |-> a, step |-> r.step,
                                     layer |-> op.layer, stage |-> op.stage,
                                     rows |-> Wire(p, a, op.stage)])
    PROVE  Runs(w, v, r2, q) /\ Pair(p, w, a, r2, q, ma2, mf, ta2, tf, wn2)
  <1>1. L \in Nat /\ L >= 1 /\ NumUbatches \in 1 .. 2
    BY SizesAssumption
  <1>2. PICK t : t = op.stage
    OBVIOUS
  <1>3. PICK x : x = Xs(w, r, t)
    OBVIOUS
  <1>4. ~Idle(r) /\ op.op = "send"
    BY DEF At
  <1>5. /\ w \in 1 .. 2 /\ t \in Stages(w) /\ x \in 0 .. 2 * L - 1 /\ op = AttOp(x, t)
        /\ Runs(w, v, r2, q) /\ Xs(w, r2, t) = x + 1
        /\ \A s \in Stages(w) : s /= t => Xs(w, r2, s) = Xs(w, r, s)
    BY <1>2, <1>3, <1>4, AttOpNow
  <1>6. x % 2 = 0 /\ op.layer = (x \div 2) + 1
    BY <1>4, <1>5 DEF AttOp, Op
  <1>7. Near(r2, q)
    BY DEF Near, Pair
  <1>8. t + 1 = g /\ g \in Groups /\ g <= w
    <2>1. w \in 0 .. NumUbatches
      BY DEF Runs
    <2>2. t + 1 = g
      BY <1>2
    <2> QED BY <1>1, <1>5, <2>1, <2>2 DEF Stages, Groups
  <1>9. ASSUME NEW s \in Stages(w) PROVE StageIs(p, w, a, s, r2, q, ma2, mf, ta2, tf, wn2)
    <2>1. PICK y : y = Ys(w, r, q, s)
      OBVIOUS
    <2>2. Ys(w, r2, q, s) = y
      BY <2>1 DEF Ys
    <2>3. s + 1 \in Groups
      BY <1>5, GroupOf DEF Runs
    <2>4. CASE s = t
      <3>1. Crossing(p, r.step, a, s, x, y, ma[g], mf[g], ta[g], tf[g], wn[g], q.got[Place(a)])
        BY <1>3, <1>8, <2>1, <2>4 DEF Pair, StageIs
      <3>2. wn2[g] = Sent(p, r.step, a, s, x)
        BY <1>2, <1>6, <2>4 DEF Put, Sent
      <3>3. Crossing(p, r.step, a, s, x + 1, y, ma[g] + 1, mf[g], ma[g] + 1, tf[g], wn2[g], q.got[Place(a)])
        BY <1>6, <3>1, <3>2, CrossSend
      <3>4. ma2[g] = ma[g] + 1 /\ ta2[g] = ma[g] + 1
        BY DEF Put
      <3> QED BY <1>5, <1>8, <2>2, <2>4, <3>3, <3>4 DEF StageIs
    <2>5. CASE s /= t
      <3>1. StageIs(p, w, a, s, r, q, ma, mf, ta, tf, wn)
        BY DEF Pair
      <3>2. s + 1 /= g
        BY <1>5, <1>8, <2>5 DEF Stages
      <3>3. ma2[s + 1] = ma[s + 1] /\ ta2[s + 1] = ta[s + 1] /\ wn2[s + 1] = wn[s + 1]
        BY <2>3, <3>2 DEF Put
      <3>4. Xs(w, r2, s) = Xs(w, r, s)
        BY <1>5, <2>5
      <3> QED BY <2>1, <2>2, <3>1, <3>3, <3>4 DEF StageIs
    <2> QED BY <2>4, <2>5
  <1>10. ASSUME NEW h \in Groups, h > w PROVE Apart(ma2[h], mf[h], ta2[h], tf[h])
    <2>1. h /= g
      BY <1>1, <1>5, <1>8, <1>10 DEF Groups
    <2>2. ma2[h] = ma[h] /\ ta2[h] = ta[h]
      BY <2>1 DEF Put
    <2> QED BY <1>10, <2>2 DEF Pair
  <1> QED BY <1>5, <1>7, <1>9, <1>10 DEF Pair

(* It receives: the window held the output of its own transfer. *)
Received(p, w, v, a, r, r2, q, ma2, mf, ta, tf, wn, op, g) ==
    /\ Runs(w, v, r2, q) /\ Pair(p, w, a, r2, q, ma2, mf, ta, tf, wn)
    /\ wn[g] = [from |-> "ffn", rows |-> Chunk(p, a, op.stage),
                of |-> [from |-> "attention", rank |-> a, step |-> r.step,
                        layer |-> op.layer, stage |-> op.stage,
                        rows |-> Wire(p, a, op.stage)]]
    /\ op.stage \in Stages(w) /\ w \in 1 .. 2

LEMMA PairReceives ==
    ASSUME NEW p, NEW w, NEW v, NEW a, NEW r, NEW q, NEW ma, NEW mf, NEW ta, NEW tf, NEW wn,
           Runs(w, v, r, q), Pair(p, w, a, r, q, ma, mf, ta, tf, wn), At(r, "recv"),
           NEW op, op = OpOf(r),
           NEW r2, r2.step = r.step, r2.ops = r.ops, r2.pc = r.pc + 1,
           NEW g, g = op.stage + 1, tf[g] = ma[g] + 1,
           NEW ma2, Put(ma2, ma, g, ma[g] + 1)
    PROVE  Received(p, w, v, a, r, r2, q, ma2, mf, ta, tf, wn, op, g)
  <1>1. L \in Nat /\ L >= 1 /\ NumUbatches \in 1 .. 2
    BY SizesAssumption
  <1>2. PICK t : t = op.stage
    OBVIOUS
  <1>3. PICK x : x = Xs(w, r, t)
    OBVIOUS
  <1>4. ~Idle(r) /\ op.op = "recv"
    BY DEF At
  <1>5. /\ w \in 1 .. 2 /\ t \in Stages(w) /\ x \in 0 .. 2 * L - 1 /\ op = AttOp(x, t)
        /\ Runs(w, v, r2, q) /\ Xs(w, r2, t) = x + 1
        /\ \A s \in Stages(w) : s /= t => Xs(w, r2, s) = Xs(w, r, s)
    BY <1>2, <1>3, <1>4, AttOpNow
  <1>6. op.layer = (x \div 2) + 1
    BY <1>4, <1>5 DEF AttOp, Op
  <1>7. Near(r2, q)
    BY DEF Near, Pair
  <1>8. t + 1 = g /\ g \in Groups /\ g <= w
    <2>1. w \in 0 .. NumUbatches
      BY DEF Runs
    <2>2. t + 1 = g
      BY <1>2
    <2> QED BY <1>1, <1>5, <2>1, <2>2 DEF Stages, Groups
  <1>9. PICK z : z = Ys(w, r, q, t)
    OBVIOUS
  <1>10. Crossing(p, r.step, a, t, x, z, ma[g], mf[g], ta[g], tf[g], wn[g], q.got[Place(a)])
    BY <1>3, <1>5, <1>8, <1>9 DEF Pair, StageIs
  <1>11. /\ wn[g] = Back(p, r.step, a, t, x)
         /\ Crossing(p, r.step, a, t, x + 1, z, ma[g] + 1, mf[g], ta[g], tf[g], wn[g], q.got[Place(a)])
    BY <1>10, CrossReceive
  <1>12. ASSUME NEW s \in Stages(w) PROVE StageIs(p, w, a, s, r2, q, ma2, mf, ta, tf, wn)
    <2>1. PICK y : y = Ys(w, r, q, s)
      OBVIOUS
    <2>2. Ys(w, r2, q, s) = y
      BY <2>1 DEF Ys
    <2>3. s + 1 \in Groups
      BY <1>5, GroupOf DEF Runs
    <2>4. CASE s = t
      <3>1. ma2[g] = ma[g] + 1
        BY DEF Put
      <3> QED BY <1>5, <1>8, <1>9, <1>11, <2>1, <2>2, <2>4, <3>1 DEF StageIs
    <2>5. CASE s /= t
      <3>1. StageIs(p, w, a, s, r, q, ma, mf, ta, tf, wn)
        BY DEF Pair
      <3>2. s + 1 /= g
        BY <1>5, <1>8, <2>5 DEF Stages
      <3>3. ma2[s + 1] = ma[s + 1]
        BY <2>3, <3>2 DEF Put
      <3>4. Xs(w, r2, s) = Xs(w, r, s)
        BY <1>5, <2>5
      <3> QED BY <2>1, <2>2, <3>1, <3>3, <3>4 DEF StageIs
    <2> QED BY <2>4, <2>5
  <1>13. ASSUME NEW h \in Groups, h > w PROVE Apart(ma2[h], mf[h], ta[h], tf[h])
    <2>1. h /= g
      BY <1>1, <1>5, <1>8, <1>13 DEF Groups
    <2>2. ma2[h] = ma[h]
      BY <2>1 DEF Put
    <2> QED BY <1>13, <2>2 DEF Pair
  <1>14. Pair(p, w, a, r2, q, ma2, mf, ta, tf, wn)
    BY <1>7, <1>12, <1>13 DEF Pair
  <1> QED BY <1>2, <1>5, <1>6, <1>11, <1>14 DEF Back, Sent, Received

(* The operation an FFN rank comes to, when it is in r's step. *)
LEMMA FfnOpNow ==
    ASSUME NEW w, NEW v, NEW r, NEW q, Runs(w, v, r, q), ~Idle(q), q.step = r.step,
           NEW op, op = OpOf(q), NEW g, g = op.stage, NEW y, y = Ys(w, r, q, g),
           NEW q2, q2.step = q.step, q2.ops = q.ops, q2.pc = q.pc + 1
    PROVE  /\ w \in 1 .. 2 /\ g \in Stages(w) /\ y \in 0 .. 2 * L - 1
           /\ op.layer = (y \div 2) + 1 /\ Runs(w, v, r, q2)
           /\ op.op = "recv" <=> y % 2 = 0
           /\ op.op = "compute" => Ys(w, r, q2, g) = y
           /\ op.op /= "compute" => Ys(w, r, q2, g) = y + 1
           /\ \A s \in Stages(w) : s /= g => /\ Ys(w, r, q2, s) = Ys(w, r, q, s)
                                             /\ Ys(w, r, q, s) % 2 = 0
  <1>1. NumUbatches \in 1 .. 2
    BY SizesAssumption
  <1>2. q.ops = ProgF(w) /\ q.pc \in 1 .. Len(q.ops) + 1 /\ w \in 0 .. NumUbatches /\ v = w
    BY DEF Runs
  <1>3. w /= 0
    <2> SUFFICES ASSUME w = 0 PROVE FALSE
      OBVIOUS
    <2>1. q.ops = <<>>
      BY <1>2 DEF ProgF
    <2> QED BY <1>2, <2>1 DEF Idle
  <1>4. w \in 1 .. 2 /\ q.ops = FfnSchedule(w)
    BY <1>1, <1>2, <1>3 DEF ProgF
  <1>5. Len(FfnSchedule(w)) \in Nat
    BY <1>4, FfnProgram
  <1>6. PICK k : k = q.pc
    OBVIOUS
  <1>7. k \in 1 .. Len(FfnSchedule(w)) /\ op = FfnSchedule(w)[k]
    BY <1>2, <1>4, <1>5, <1>6 DEF Idle, OpOf
  <1>8. /\ g \in Stages(w) /\ k + 1 \in 1 .. Len(FfnSchedule(w)) + 1
        /\ op.layer = (FC(w, k, g) \div 2) + 1
        /\ op.op = "recv" <=> FC(w, k, g) % 2 = 0
        /\ op.op = "compute" => FC(w, k + 1, g) = FC(w, k, g)
        /\ op.op /= "compute" => FC(w, k + 1, g) = FC(w, k, g) + 1
        /\ FC(w, k, g) \in 0 .. 2 * L - 1
    BY <1>4, <1>7, FfnNow
  <1>9. \A s \in Stages(w) : s /= g => FC(w, k + 1, s) = FC(w, k, s) /\ FC(w, k, s) % 2 = 0
    BY <1>4, <1>7, FfnNow
  <1>10. \A s : Ys(w, r, q, s) = FC(w, k, s) /\ Ys(w, r, q2, s) = FC(w, k + 1, s)
    BY <1>6 DEF Ys
  <1>11. Runs(w, v, r, q2)
    BY <1>2, <1>4, <1>6, <1>8 DEF Runs
  <1> QED BY <1>4, <1>8, <1>9, <1>10, <1>11

(* An FFN rank that has taken a step's payload receives first. *)
LEMMA FirstReceives ==
    ASSUME NEW w, NEW v, NEW r, NEW q, Runs(w, v, r, q), ~Idle(q), q.pc = 1
    PROVE  OpOf(q).op = "recv" /\ OpOf(q).stage \in Stages(v) /\ v \in 1 .. 2 /\ v \in 1 .. NumUbatches
  <1>1. NumUbatches \in 1 .. 2
    BY SizesAssumption
  <1>2. q.ops = ProgF(v) /\ v \in 0 .. NumUbatches
    BY DEF Runs
  <1>3. v /= 0
    <2> SUFFICES ASSUME v = 0 PROVE FALSE
      OBVIOUS
    <2>1. q.ops = <<>>
      BY <1>2 DEF ProgF
    <2> QED BY <2>1 DEF Idle
  <1>4. v \in 1 .. 2 /\ v \in 1 .. NumUbatches /\ q.ops = FfnSchedule(v)
    BY <1>1, <1>2, <1>3 DEF ProgF
  <1>5. Len(FfnSchedule(v)) \in Nat
    BY <1>4, FfnProgram
  <1>6. 1 \in 1 .. Len(FfnSchedule(v)) /\ OpOf(q) = FfnSchedule(v)[1]
    BY <1>4, <1>5 DEF Idle, OpOf
  <1> QED BY <1>4, <1>6, FfnNow

(* An FFN rank that goes on with its program is in the step of r: in an earlier
   one it has ended, and in the next it waits for r's flag. *)
LEMMA SameStep ==
    ASSUME NEW p, NEW w, NEW v, NEW a, NEW r, NEW q, NEW ma, NEW mf, NEW ta, NEW tf, NEW wn,
           Runs(w, v, r, q), Pair(p, w, a, r, q, ma, mf, ta, tf, wn), ~Idle(q),
           NEW op, op = OpOf(q), NEW g, g = op.stage + 1,
           op.op = "recv" => ta[g] = mf[g] + 1
    PROVE  q.step = r.step
  <1> SUFFICES ASSUME q.step /= r.step PROVE FALSE
    OBVIOUS
  <1>1. L \in Nat /\ L >= 1 /\ NumUbatches \in 1 .. 2
    BY SizesAssumption
  <1>2. q.step = r.step + 1 /\ q.pc = 1
    BY DEF Pair, Near
  <1>3. /\ ta[g] = mf[g] + 1 /\ op.stage \in Stages(v)
        /\ v \in 1 .. 2 /\ v \in 1 .. NumUbatches
    BY <1>2, FirstReceives
  <1>4. g \in Groups /\ g - 1 \in Nat /\ (g - 1) + 1 = g
    BY <1>1, <1>3 DEF Groups, Stages
  <1>5. w \in 0 .. NumUbatches /\ r.step \in Nat
    BY DEF Runs
  <1>6. CASE g > w
    <2>1. Apart(ma[g], mf[g], ta[g], tf[g])
      BY <1>4, <1>6 DEF Pair
    <2> QED BY <1>3, <2>1 DEF Apart
  <1>7. CASE ~(g > w)
    <2>1. PICK s : s = g - 1
      OBVIOUS
    <2>2. s \in Stages(w) /\ s + 1 = g
      BY <1>4, <1>5, <1>7, <2>1 DEF Stages
    <2>3. PICK x : x = Xs(w, r, s)
      OBVIOUS
    <2>4. x \in 0 .. 2 * L
      BY <2>2, <2>3, Bounds
    <2>5. Ys(w, r, q, s) = 2 * L
      BY <1>2, <1>5 DEF Ys
    <2>6. Crossing(p, r.step, a, s, x, 2 * L, ma[g], mf[g], ta[g], tf[g], wn[g], q.got[Place(a)])
      BY <2>2, <2>3, <2>5 DEF Pair, StageIs
    <2>7. x = 2 * L + 1
      BY <1>3, <2>6, CrossTake
    <2> QED BY <1>1, <2>4, <2>7
  <1> QED BY <1>6, <1>7

(* The FFN rank receives: the window held r's transfer. *)
TakenIn(p, w, v, a, r, q, q2, ma, mf2, ta, tf, wn, op, g) ==
    /\ q.step = r.step /\ op.stage \in Stages(w) /\ w \in 1 .. 2
    /\ wn[g] = [from |-> "attention", rank |-> a, step |-> r.step,
                layer |-> op.layer, stage |-> op.stage,
                rows |-> Wire(p, a, op.stage)]
    /\ Runs(w, v, r, q2) /\ Pair(p, w, a, r, q2, ma, mf2, ta, tf, wn)

LEMMA PairTakesIn ==
    ASSUME NEW p, NEW w, NEW v, NEW a, NEW r, NEW q, NEW ma, NEW mf, NEW ta, NEW tf, NEW wn,
           Runs(w, v, r, q), Pair(p, w, a, r, q, ma, mf, ta, tf, wn), At(q, "recv"),
           NEW op, op = OpOf(q), NEW g, g = op.stage + 1, ta[g] = mf[g] + 1,
           NEW q2, q2.step = q.step, q2.ops = q.ops, q2.pc = q.pc + 1, q2.got[Place(a)] = wn[g],
           NEW mf2, Put(mf2, mf, g, mf[g] + 1)
    PROVE  TakenIn(p, w, v, a, r, q, q2, ma, mf2, ta, tf, wn, op, g)
  <1>1. L \in Nat /\ L >= 1 /\ NumUbatches \in 1 .. 2
    BY SizesAssumption
  <1>2. PICK t : t = op.stage
    OBVIOUS
  <1>3. PICK y : y = Ys(w, r, q, t)
    OBVIOUS
  <1>4. ~Idle(q) /\ op.op = "recv"
    BY DEF At
  <1>5. q.step = r.step
    BY <1>4, SameStep
  <1>6. /\ w \in 1 .. 2 /\ t \in Stages(w) /\ y \in 0 .. 2 * L - 1
        /\ op.layer = (y \div 2) + 1 /\ Runs(w, v, r, q2)
        /\ op.op = "recv" <=> y % 2 = 0
        /\ op.op /= "compute" => Ys(w, r, q2, t) = y + 1
    BY <1>2, <1>3, <1>4, <1>5, FfnOpNow
  <1>7. \A s \in Stages(w) : s /= t => Ys(w, r, q2, s) = Ys(w, r, q, s) /\ Ys(w, r, q, s) % 2 = 0
    BY <1>2, <1>3, <1>4, <1>5, FfnOpNow
  <1>8. t + 1 = g /\ g \in Groups /\ g <= w
    <2>1. w \in 0 .. NumUbatches
      BY DEF Runs
    <2>2. t + 1 = g
      BY <1>2
    <2> QED BY <1>1, <1>6, <2>1, <2>2 DEF Stages, Groups
  <1>9. PICK z : z = Xs(w, r, t)
    OBVIOUS
  <1>10. Crossing(p, r.step, a, t, z, y, ma[g], mf[g], ta[g], tf[g], wn[g], q.got[Place(a)])
    BY <1>3, <1>6, <1>8, <1>9 DEF Pair, StageIs
  <1>11. /\ z = y + 1 /\ wn[g] = Sent(p, r.step, a, t, z)
         /\ Crossing(p, r.step, a, t, z, y + 1, ma[g], mf[g] + 1, ta[g], tf[g], wn[g], wn[g])
    BY <1>10, CrossTake
  <1>12. ASSUME NEW s \in Stages(w) PROVE StageIs(p, w, a, s, r, q2, ma, mf2, ta, tf, wn)
    <2>1. s + 1 \in Groups
      BY <1>6, GroupOf DEF Runs
    <2>2. CASE s = t
      <3>1. mf2[g] = mf[g] + 1
        BY DEF Put
      <3>2. Ys(w, r, q2, s) = y + 1
        BY <1>4, <1>6, <2>2
      <3> QED BY <1>8, <1>9, <1>11, <2>2, <3>1, <3>2 DEF StageIs
    <2>3. CASE s /= t
      <3>1. PICK x : x = Xs(w, r, s)
        OBVIOUS
      <3>2. PICK u : u = Ys(w, r, q, s)
        OBVIOUS
      <3>3. Crossing(p, r.step, a, s, x, u, ma[s + 1], mf[s + 1], ta[s + 1], tf[s + 1], wn[s + 1],
                     q.got[Place(a)])
        BY <3>1, <3>2 DEF Pair, StageIs
      <3>4. u % 2 = 0 /\ Ys(w, r, q2, s) = u
        BY <1>7, <2>3, <3>2
      <3>5. Crossing(p, r.step, a, s, x, u, ma[s + 1], mf[s + 1], ta[s + 1], tf[s + 1], wn[s + 1],
                     q2.got[Place(a)])
        BY <3>3, <3>4, CrossOther
      <3>6. s + 1 /= g
        BY <1>6, <1>8, <2>3 DEF Stages
      <3>7. mf2[s + 1] = mf[s + 1]
        BY <2>1, <3>6 DEF Put
      <3> QED BY <3>1, <3>4, <3>5, <3>7 DEF StageIs
    <2> QED BY <2>2, <2>3
  <1>13. ASSUME NEW h \in Groups, h > w PROVE Apart(ma[h], mf2[h], ta[h], tf[h])
    <2>1. h /= g
      BY <1>1, <1>6, <1>8, <1>13 DEF Groups
    <2>2. mf2[h] = mf[h]
      BY <2>1 DEF Put
    <2> QED BY <1>13, <2>2 DEF Pair
  <1>14. Near(r, q2)
    BY <1>5 DEF Near
  <1>15. Pair(p, w, a, r, q2, ma, mf2, ta, tf, wn)
    BY <1>12, <1>13, <1>14 DEF Pair
  <1>16. z \div 2 = y \div 2
    BY <1>4, <1>6, <1>11
  <1>17. wn[g] = [from |-> "attention", rank |-> a, step |-> r.step, layer |-> op.layer,
                  stage |-> op.stage, rows |-> Wire(p, a, op.stage)]
    BY <1>2, <1>6, <1>11, <1>16 DEF Sent
  <1> QED BY <1>2, <1>5, <1>6, <1>15, <1>17 DEF TakenIn

(* The FFN rank computes. *)
LEMMA PairComputes ==
    ASSUME NEW p, NEW w, NEW v, NEW a, NEW r, NEW q, NEW ma, NEW mf, NEW ta, NEW tf, NEW wn,
           Runs(w, v, r, q), Pair(p, w, a, r, q, ma, mf, ta, tf, wn), At(q, "compute"),
           NEW q2, q2.step = q.step, q2.ops = q.ops, q2.pc = q.pc + 1, q2.got = q.got
    PROVE  Runs(w, v, r, q2) /\ Pair(p, w, a, r, q2, ma, mf, ta, tf, wn)
  <1>1. PICK op : op = OpOf(q)
    OBVIOUS
  <1>2. PICK t : t = op.stage
    OBVIOUS
  <1>3. ~Idle(q) /\ op.op = "compute"
    BY <1>1 DEF At
  <1>4. q.step = r.step
    BY <1>1, <1>3, SameStep
  <1>5. Runs(w, v, r, q2) /\ (op.op = "compute" => Ys(w, r, q2, t) = Ys(w, r, q, t))
    BY <1>1, <1>2, <1>3, <1>4, FfnOpNow
  <1>6. \A s \in Stages(w) : s /= t => Ys(w, r, q2, s) = Ys(w, r, q, s)
    BY <1>1, <1>2, <1>3, <1>4, FfnOpNow
  <1>7. ASSUME NEW s \in Stages(w) PROVE StageIs(p, w, a, s, r, q2, ma, mf, ta, tf, wn)
    <2>1. Ys(w, r, q2, s) = Ys(w, r, q, s)
      BY <1>3, <1>5, <1>6
    <2> QED BY <2>1 DEF Pair, StageIs
  <1>8. Near(r, q2)
    BY <1>4 DEF Near
  <1> QED BY <1>5, <1>7, <1>8 DEF Pair

(* The FFN rank sends: fills the window with the output and sets the flag. *)
LEMMA PairGives ==
    ASSUME NEW p, NEW w, NEW v, NEW a, NEW r, NEW q, NEW ma, NEW mf, NEW ta, NEW tf, NEW wn,
           Runs(w, v, r, q), Pair(p, w, a, r, q, ma, mf, ta, tf, wn), At(q, "send"),
           NEW op, op = OpOf(q), NEW g, g = op.stage + 1,
           NEW q2, q2.step = q.step, q2.ops = q.ops, q2.pc = q.pc + 1, q2.got = q.got,
           NEW mf2, Put(mf2, mf, g, mf[g] + 1), NEW tf2, Put(tf2, tf, g, mf[g] + 1),
           NEW rows, q.step = r.step => rows = Chunk(p, a, op.stage),
           NEW wn2, Put(wn2, wn, g, [from |-> "ffn", of |-> q.got[Place(a)], rows |-> rows])
    PROVE  Runs(w, v, r, q2) /\ Pair(p, w, a, r, q2, ma, mf2, ta, tf2, wn2)
  <1>1. L \in Nat /\ L >= 1 /\ NumUbatches \in 1 .. 2
    BY SizesAssumption
  <1>2. PICK t : t = op.stage
    OBVIOUS
  <1>3. PICK y : y = Ys(w, r, q, t)
    OBVIOUS
  <1>4. ~Idle(q) /\ op.op = "send"
    BY DEF At
  <1>5. q.step = r.step
    BY <1>4, SameStep
  <1>6. /\ w \in 1 .. 2 /\ t \in Stages(w) /\ y \in 0 .. 2 * L - 1 /\ Runs(w, v, r, q2)
        /\ op.op = "recv" <=> y % 2 = 0
        /\ op.op /= "compute" => Ys(w, r, q2, t) = y + 1
    BY <1>2, <1>3, <1>4, <1>5, FfnOpNow
  <1>7. \A s \in Stages(w) : s /= t => Ys(w, r, q2, s) = Ys(w, r, q, s)
    BY <1>2, <1>3, <1>4, <1>5, FfnOpNow
  <1>8. t + 1 = g /\ g \in Groups /\ g <= w
    <2>1. w \in 0 .. NumUbatches
      BY DEF Runs
    <2>2. t + 1 = g
      BY <1>2
    <2> QED BY <1>1, <1>6, <2>1, <2>2 DEF Stages, Groups
  <1>9. ASSUME NEW s \in Stages(w) PROVE StageIs(p, w, a, s, r, q2, ma, mf2, ta, tf2, wn2)
    <2>1. s + 1 \in Groups
      BY <1>6, GroupOf DEF Runs
    <2>2. PICK x : x = Xs(w, r, s)
      OBVIOUS
    <2>3. CASE s = t
      <3>1. Crossing(p, r.step, a, s, x, y, ma[g], mf[g], ta[g], tf[g], wn[g], q.got[Place(a)])
        BY <1>3, <1>8, <2>2, <2>3 DEF Pair, StageIs
      <3>2. wn2[g] = [from |-> "ffn", of |-> q.got[Place(a)], rows |-> Chunk(p, a, s)]
        BY <1>2, <1>5, <2>3 DEF Put
      <3>3. y % 2 = 1
        BY <1>4, <1>6
      <3>4. Crossing(p, r.step, a, s, x, y + 1, ma[g], mf[g] + 1, ta[g], mf[g] + 1, wn2[g],
                     q.got[Place(a)])
        BY <3>1, <3>2, <3>3, CrossGive
      <3>5. mf2[g] = mf[g] + 1 /\ tf2[g] = mf[g] + 1
        BY DEF Put
      <3>6. Ys(w, r, q2, s) = y + 1
        BY <1>4, <1>6, <2>3
      <3> QED BY <1>8, <2>2, <2>3, <3>4, <3>5, <3>6 DEF StageIs
    <2>4. CASE s /= t
      <3>1. StageIs(p, w, a, s, r, q, ma, mf, ta, tf, wn)
        BY DEF Pair
      <3>2. s + 1 /= g
        BY <1>6, <1>8, <2>4 DEF Stages
      <3>3. mf2[s + 1] = mf[s + 1] /\ tf2[s + 1] = tf[s + 1] /\ wn2[s + 1] = wn[s + 1]
        BY <2>1, <3>2 DEF Put
      <3>4. Ys(w, r, q2, s) = Ys(w, r, q, s)
        BY <1>7, <2>4
      <3> QED BY <3>1, <3>3, <3>4 DEF StageIs
    <2> QED BY <2>3, <2>4
  <1>10. ASSUME NEW h \in Groups, h > w PROVE Apart(ma[h], mf2[h], ta[h], tf2[h])
    <2>1. h /= g
      BY <1>1, <1>6, <1>8, <1>10 DEF Groups
    <2>2. mf2[h] = mf[h] /\ tf2[h] = tf[h]
      BY <2>1 DEF Put
    <2> QED BY <1>10, <2>2 DEF Pair
  <1>11. Near(r, q2)
    BY <1>5 DEF Near
  <1> QED BY <1>6, <1>9, <1>10, <1>11 DEF Pair

----------------------------------------------------------------------------
(***************************************************************************)
(* The ranks of a strided group.                                           *)
(***************************************************************************)
(* Quotient and remainder. *)
LEMMA DivRemainder ==
    ASSUME NEW j \in Nat, NEW N \in Nat \ {0}
    PROVE  j \div N \in Nat /\ j % N \in 0 .. N - 1 /\ j = N * (j \div N) + (j % N)
  BY Z3

(* No other quotient and remainder. *)
LEMMA RemainderUnique ==
    ASSUME NEW N \in Nat \ {0}, NEW q \in Nat, NEW r \in 0 .. N - 1, NEW j \in Nat,
           j = N * q + r
    PROVE  j % N = r /\ j \div N = q
  <1>1. PICK p, s : p = j \div N /\ s = j % N
    OBVIOUS
  <1>2. p \in Nat /\ s \in 0 .. N - 1 /\ N * p + s = N * q + r
    BY <1>1, DivRemainder
  <1>3. ~(p < q)
    <2>1. p < q => N * p + N <= N * q
      <3>1. p < q => p + 1 <= q
        BY <1>2
      <3> QED BY <1>2, <3>1, Z3
    <2>2. N * p \in Nat /\ N * q \in Nat
      BY <1>2, Z3
    <2> QED BY <1>2, <2>1, <2>2
  <1>4. ~(q < p)
    <2>1. q < p => N * q + N <= N * p
      <3>1. q < p => q + 1 <= p
        BY <1>2
      <3> QED BY <1>2, <3>1, Z3
    <2>2. N * p \in Nat /\ N * q \in Nat
      BY <1>2, Z3
    <2> QED BY <1>2, <2>1, <2>2
  <1>5. p = q
    BY <1>2, <1>3, <1>4
  <1>6. N * p \in Nat
    BY <1>2, Z3
  <1> QED BY <1>1, <1>2, <1>5, <1>6

(* The sizes: Ratio Attention ranks for an FFN rank, TP workers of a DP rank. *)
LEMMA Sizes ==
    /\ A \in Nat \ {0} /\ F \in Nat \ {0} /\ DP \in Nat \ {0} /\ F <= A
    /\ Ratio \in Nat \ {0} /\ A = F * Ratio /\ TP \in Nat \ {0} /\ A = DP * TP
    /\ (Ratio = 1) = (A = F) /\ MinSize = F
  <1>1. /\ A \in Nat \ {0} /\ F \in Nat \ {0} /\ DP \in Nat \ {0} /\ F <= A /\ DP <= A
        /\ A % F = 0 /\ A % DP = 0
    BY SizesAssumption
  <1>2. Ratio \in Nat /\ A = F * Ratio
    <2>1. A \div F \in Nat /\ A = F * (A \div F) + (A % F)
      BY <1>1, DivRemainder
    <2>2. F * (A \div F) \in Nat
      BY <1>1, <2>1, Z3
    <2> QED BY <1>1, <2>1, <2>2 DEF Ratio
  <1>3. TP \in Nat /\ A = DP * TP
    <2>1. A \div DP \in Nat /\ A = DP * (A \div DP) + (A % DP)
      BY <1>1, DivRemainder
    <2>2. DP * (A \div DP) \in Nat
      BY <1>1, <2>1, Z3
    <2> QED BY <1>1, <2>1, <2>2 DEF TP
  <1>4. Ratio /= 0 /\ TP /= 0
    BY <1>1, <1>2, <1>3, Z3
  <1>5. (Ratio = 1) = (A = F)
    BY <1>1, <1>2, Z3
  <1>6. MinSize = F
    BY <1>1 DEF MinSize
  <1> QED BY <1>1, <1>2, <1>3, <1>4, <1>5, <1>6

(* Every Attention rank is a peer of its FFN rank. *)
LEMMA OwnerOf ==
    ASSUME NEW a \in Att
    PROVE  Owner(a) \in Ffn /\ Place(a) \in 1 .. Ratio /\ Peers(Owner(a))[Place(a)] = a
  <1>1. a \in Nat /\ a < A
    BY Sizes DEF Att
  <1>2. PICK j, i : j = a % F /\ i = a \div F
    OBVIOUS
  <1>3. i \in Nat /\ j \in 0 .. F - 1 /\ a = F * i + j
    BY <1>1, <1>2, DivRemainder, Sizes
  <1>4. i < Ratio
    <2>1. F * i < F * Ratio
      <3>1. F * i \in Nat
        BY <1>3, Sizes, Z3
      <3> QED BY <1>1, <1>3, <3>1, Sizes
    <2> QED BY <1>3, <2>1, Sizes, Z3
  <1>5. i + 1 \in 1 .. Ratio /\ (i + 1) - 1 = i
    BY <1>3, <1>4, Sizes
  <1>6. Peers(j)[i + 1] = j + i * F
    BY <1>5 DEF Peers
  <1>7. i * F = F * i
    BY <1>3, Sizes, Z3
  <1>8. Peers(j)[i + 1] = a
    <2>1. F * i \in Nat
      BY <1>3, Sizes, Z3
    <2> QED BY <1>3, <1>6, <1>7, <2>1
  <1>9. Owner(a) = j /\ j \in Ffn
    BY <1>2, <1>3 DEF Owner, Ffn
  <1>10. \E k \in 1 .. Ratio : Peers(Owner(a))[k] = a
    BY <1>5, <1>8, <1>9
  <1> QED BY <1>9, <1>10 DEF Place

(* The peers of an FFN rank have no other. *)
LEMMA PeerOf ==
    ASSUME NEW j \in Ffn, NEW i \in 1 .. Ratio
    PROVE  Peers(j)[i] \in Att /\ Owner(Peers(j)[i]) = j
  <1>1. PICK a : a = Peers(j)[i]
    OBVIOUS
  <1>2. PICK k : k = i - 1
    OBVIOUS
  <1>3. k \in Nat /\ k + 1 <= Ratio /\ j \in 0 .. F - 1
    BY <1>2, Sizes DEF Ffn
  <1>4. k * F = F * k /\ F * k \in Nat
    BY <1>3, Sizes, Z3
  <1>5. a = F * k + j
    BY <1>1, <1>2, <1>3, <1>4 DEF Peers
  <1>6. F * k + F <= F * Ratio
    BY <1>3, Sizes, Z3
  <1>7. a \in Nat /\ a < A
    BY <1>3, <1>4, <1>5, <1>6, Sizes
  <1>8. a % F = j
    BY <1>3, <1>5, <1>7, RemainderUnique, Sizes
  <1> QED BY <1>1, <1>7, <1>8, Sizes DEF Att, Owner

(* An FFN rank is the first of its peers, and takes its control payloads. *)
LEMMA SourceOf ==
    ASSUME NEW j \in Ffn
    PROVE  j \in Att /\ Owner(j) = j /\ MetadataSource(j) = j
  <1>1. j \in Nat /\ j \in 0 .. F - 1 /\ F \in Nat \ {0}
    BY Sizes DEF Ffn
  <1>2. j = F * 0 + j
    BY <1>1
  <1>3. j % F = j
    BY <1>1, <1>2, RemainderUnique
  <1> QED BY <1>1, <1>3, Sizes DEF Att, Owner, MetadataSource

(* ... and no one else does. *)
LEMMA DestinationsOf ==
    ASSUME NEW a \in Att, NEW j \in Ffn
    PROVE  j \in Destinations(a) <=> j = a
  <1>1. j % F = j
    BY SourceOf DEF Owner
  <1>2. j < F /\ a \in Nat
    BY Sizes DEF Ffn, Att
  <1> QED BY <1>1, <1>2, Sizes DEF Destinations

(* The DP rank of a worker. *)
LEMMA DPRank ==
    ASSUME NEW a \in Att
    PROVE  a \div TP \in 0 .. DP - 1
  <1>1. a \in Nat /\ a < A
    BY Sizes DEF Att
  <1>2. PICK d : d = a \div TP
    OBVIOUS
  <1>3. d \in Nat /\ a % TP \in 0 .. TP - 1 /\ a = TP * d + (a % TP)
    BY <1>1, <1>2, DivRemainder, Sizes
  <1>4. TP * d \in Nat /\ TP * d <= a
    <2>1. TP * d \in Nat
      BY <1>3, Sizes, Z3
    <2> QED BY <1>3, <2>1, Sizes
  <1>5. TP * d < TP * DP
    <2>1. TP * DP = DP * TP
      BY Sizes, Z3
    <2> QED BY <1>1, <1>4, <2>1, Sizes
  <1>6. d < DP
    BY <1>3, <1>5, Sizes, Z3
  <1> QED BY <1>2, <1>3, <1>6, Sizes

----------------------------------------------------------------------------
(***************************************************************************)
(* Token counts.                                                           *)
(***************************************************************************)
(* A largest of finitely many numbers. *)
HasLargest(c, D) == \E m \in D : \A e \in D : c[e] <= c[m]
AllHave(c, n) == \A D \in SUBSET (0 .. n) : D = {} \/ HasLargest(c, D)

(* One number more. *)
LEMMA OneLarger ==
    ASSUME NEW N \in Nat, NEW c \in [0 .. N -> Nat], NEW n \in Nat, n + 1 <= N, AllHave(c, n)
    PROVE  AllHave(c, n + 1)
  <1> SUFFICES ASSUME NEW D \in SUBSET (0 .. n + 1), D /= {} PROVE HasLargest(c, D)
    BY DEF AllHave
  <1>1. PICK k : k = n + 1
    OBVIOUS
  <1>2. PICK R : R = D \ {k}
    OBVIOUS
  <1>3. R \in SUBSET (0 .. n) /\ D \in SUBSET (0 .. N) /\ k \in 0 .. N
    BY <1>1, <1>2
  <1>4. R = {} \/ HasLargest(c, R)
    BY <1>3 DEF AllHave
  <1>5. CASE k \notin D
    <2>1. R = D
      BY <1>2, <1>5
    <2> QED BY <1>4, <2>1
  <1>6. CASE k \in D /\ R = {}
    <2>1. D = {k} /\ c[k] \in Nat
      BY <1>2, <1>3, <1>6
    <2> QED BY <2>1 DEF HasLargest
  <1>7. CASE k \in D /\ HasLargest(c, R)
    <2>1. PICK m \in R : \A e \in R : c[e] <= c[m]
      BY <1>7 DEF HasLargest
    <2>2. \A e \in D : e \in R \/ e = k
      BY <1>2
    <2>3. \A e \in D : c[e] \in Nat
      BY <1>3
    <2>4. m \in D
      BY <1>2
    <2>5. CASE c[m] <= c[k]
      <3>1. \A e \in D : c[e] <= c[k]
        BY <1>7, <2>1, <2>2, <2>3, <2>4, <2>5
      <3> QED BY <1>7, <3>1 DEF HasLargest
    <2>6. CASE ~(c[m] <= c[k])
      <3>1. \A e \in D : c[e] <= c[m]
        BY <1>7, <2>1, <2>2, <2>3, <2>4, <2>6
      <3> QED BY <2>4, <3>1 DEF HasLargest
    <2> QED BY <2>5, <2>6
  <1> QED BY <1>4, <1>5, <1>6, <1>7

(* ... and so for any number of them. *)
LEMMA LargestIn ==
    ASSUME NEW N \in Nat, NEW c \in [0 .. N -> Nat], NEW E \in SUBSET (0 .. N), E /= {}
    PROVE  HasLargest(c, E)
  <1> DEFINE T == {n \in Nat : n <= N => AllHave(c, n)}
  <1>1. AllHave(c, 0)
    <2> SUFFICES ASSUME NEW D \in SUBSET (0 .. 0), D /= {} PROVE HasLargest(c, D)
      BY DEF AllHave
    <2>1. 0 .. 0 = {0}
      OBVIOUS
    <2>2. D = {0}
      BY <2>1
    <2>3. c[0] \in Nat
      OBVIOUS
    <2> QED BY <2>2, <2>3 DEF HasLargest
  <1>2. 0 \in T
    BY <1>1
  <1>3. ASSUME NEW n \in Nat, n \in T PROVE n + 1 \in T
    <2>1. n + 1 <= N => AllHave(c, n)
      BY <1>3
    <2>2. n + 1 <= N => AllHave(c, n + 1)
      BY <2>1, OneLarger
    <2> QED BY <2>2
  <1> HIDE DEF T
  <1>4. T = Nat
    <2>1. T \in SUBSET Nat
      BY DEF T
    <2> QED BY <1>2, <1>3, <2>1, NatLeast
  <1>5. N \in T
    BY <1>4
  <1>6. AllHave(c, N)
    BY <1>5 DEF T
  <1> QED BY <1>6 DEF AllHave

(* The largest count of some ranks is a count of one of them. *)
LEMMA MaxOfIn ==
    ASSUME NEW N \in Nat, NEW c \in [0 .. N -> Nat], NEW E \in SUBSET (0 .. N), E /= {}
    PROVE  MaxOf({c[e] : e \in E}) \in {c[e] : e \in E}
  <1>1. PICK S : S = {c[e] : e \in E}
    OBVIOUS
  <1>2. \E m \in S : \A n \in S : n <= m
    <2>1. PICK m \in E : \A e \in E : c[e] <= c[m]
      BY LargestIn DEF HasLargest
    <2> QED BY <1>1, <2>1
  <1> QED BY <1>1, <1>2 DEF MaxOf

(* ... and of equal counts it is that count. *)
LEMMA MaxOfOne ==
    ASSUME NEW r \in Nat
    PROVE  MaxOf({r}) = r
  <1>1. \E m \in {r} : \A n \in {r} : n <= m
    OBVIOUS
  <1> QED BY <1>1 DEF MaxOf

(* A plan has tokens for every DP rank in every microbatch. *)
Counts1 == [0 .. DP - 1 -> Nat \ {0}]
RowsOK(p) == \E w \in 1 .. NumUbatches : p.rows \in [Stages(w) -> Counts1]
WidthOf(p) == Cardinality(DOMAIN p.rows)

(* The number of microbatches. *)
LEMMA StagesSize ==
    ASSUME NEW w \in Nat
    PROVE  Cardinality(Stages(w)) = w
  <1>1. Cardinality(0 .. w - 1) = IF 0 > w - 1 THEN 0 ELSE (w - 1) - 0 + 1
    BY FS_Interval
  <1> QED BY <1>1 DEF Stages

(* ... of a plan. *)
LEMMA WidthIs ==
    ASSUME NEW p, RowsOK(p)
    PROVE  /\ WidthOf(p) \in 1 .. NumUbatches /\ WidthOf(p) \in 1 .. 2
           /\ DOMAIN p.rows = Stages(WidthOf(p)) /\ p.rows \in [Stages(WidthOf(p)) -> Counts1]
  <1>1. NumUbatches \in 1 .. 2
    BY SizesAssumption
  <1>2. PICK w \in 1 .. NumUbatches : p.rows \in [Stages(w) -> Counts1]
    BY DEF RowsOK
  <1>3. DOMAIN p.rows = Stages(w) /\ w \in Nat
    BY <1>1, <1>2
  <1>4. WidthOf(p) = w
    BY <1>3, StagesSize DEF WidthOf
  <1> QED BY <1>1, <1>2, <1>3, <1>4

(* The rows of a rank. *)
LEMMA OwnRowsType ==
    ASSUME NEW p, RowsOK(p), NEW s \in Stages(WidthOf(p)), NEW a \in Att
    PROVE  OwnRows(p, s, a) \in Nat \ {0}
  <1>1. p.rows \in [Stages(WidthOf(p)) -> Counts1]
    BY WidthIs
  <1>2. p.rows[s] \in [0 .. DP - 1 -> Nat \ {0}]
    BY <1>1 DEF Counts1
  <1>3. a \div TP \in 0 .. DP - 1
    BY DPRank
  <1> QED BY <1>2, <1>3 DEF OwnRows

(* Padding the DP ranks of a group to the largest count leaves the counts in the
   set they are from. *)
LEMMA PaddingKeeps ==
    ASSUME NEW S \in SUBSET Nat, NEW c \in [0 .. DP - 1 -> S]
    PROVE  DpPadding(c) \in [0 .. DP - 1 -> S]
  <1>1. DP - 1 \in Nat
    BY Sizes
  <1>2. ASSUME NEW groups, NEW d \in 0 .. DP - 1
        PROVE  MaxOf({c[e] : e \in {e \in DOMAIN c : e % groups = d % groups}}) \in S
    <2>1. PICK E : E = {e \in DOMAIN c : e % groups = d % groups}
      OBVIOUS
    <2>2. E \in SUBSET (0 .. DP - 1) /\ E /= {} /\ c \in [0 .. DP - 1 -> Nat]
      BY <2>1
    <2>3. MaxOf({c[e] : e \in E}) \in {c[e] : e \in E}
      BY <1>1, <2>2, MaxOfIn
    <2>4. {c[e] : e \in E} \subseteq S
      BY <2>2
    <2> QED BY <2>1, <2>3, <2>4
  <1>3. DOMAIN c = 0 .. DP - 1
    OBVIOUS
  <1> QED BY <1>2, <1>3 DEF DpPadding

(* What a batch may be. *)
LEMMA Inputs ==
    /\ \A i \in DOMAIN CaptureDescs :
         /\ CaptureDescs[i].size \in Nat \ {0} /\ CaptureDescs[i].stages \in 1 .. NumUbatches
         /\ CaptureDescs[i].size >= CaptureDescs[i].stages
    /\ Len(CaptureDescs) \in Nat /\ DOMAIN CaptureDescs = 1 .. Len(CaptureDescs)
    /\ EagerCounts \subseteq Nat \ {0} /\ DboCounts \subseteq Nat \ {0, 1}
    /\ DboCounts /= {} => NumUbatches = 2
    /\ \A n \in DboCounts : LiveSplits \subseteq 1 .. n - 1
    /\ FFNGraphs \in BOOLEAN
  <1>1. PICK R : R = [size : Nat \ {0}, stages : 1 .. NumUbatches]
    OBVIOUS
  <1>2. CaptureDescs \in Seq(R)
    BY <1>1, InputsAssumption, Zenon
  <1>3. Len(CaptureDescs) \in Nat /\ DOMAIN CaptureDescs = 1 .. Len(CaptureDescs)
    BY <1>2
  <1>4. \A i \in DOMAIN CaptureDescs : CaptureDescs[i] \in R
    BY <1>2
  <1>5. \A d \in R : d.size \in Nat \ {0} /\ d.stages \in 1 .. NumUbatches
    BY <1>1
  <1>6. \A i \in DOMAIN CaptureDescs : CaptureDescs[i].size >= CaptureDescs[i].stages
    BY InputsAssumption, Zenon
  <1>7. EagerCounts \subseteq Nat \ {0} /\ DboCounts \subseteq Nat \ {0, 1}
    BY InputsAssumption, Zenon
  <1>8. DboCounts /= {} => NumUbatches = 2
    <2>1. NumUbatches = 1 => DboCounts = {}
      BY InputsAssumption, Zenon
    <2>2. NumUbatches \in 1 .. 2
      BY SizesAssumption
    <2> QED BY <2>1, <2>2
  <1>9. (\A n \in DboCounts : LiveSplits \subseteq 1 .. n - 1) /\ FFNGraphs \in BOOLEAN
    BY InputsAssumption, Zenon
  <1> QED BY <1>3, <1>4, <1>5, <1>6, <1>7, <1>8, <1>9

(* The plan of a descriptor. *)
LEMMA DescPlanRows ==
    ASSUME NEW kind, NEW i \in DOMAIN CaptureDescs
    PROVE  RowsOK(DescPlan(kind, CaptureDescs[i]))
  <1>1. PICK d : d = CaptureDescs[i]
    OBVIOUS
  <1>2. d.size \in Nat \ {0} /\ d.stages \in 1 .. NumUbatches /\ d.size >= d.stages
    BY <1>1, Inputs
  <1>3. PICK n, w : n = d.size /\ w = d.stages
    OBVIOUS
  <1>4. n \in Nat \ {0} /\ w \in 1 .. NumUbatches /\ n >= w /\ w \in 1 .. 2
    BY <1>2, <1>3, SizesAssumption
  <1>5. ASSUME NEW s \in Stages(w) PROVE Slice(n, w, s) \in Nat \ {0}
    <2>1. CASE w = 1
      BY <1>4, <2>1 DEF Slice
    <2>2. CASE w = 2
      BY <1>4, <2>2 DEF Slice
    <2> QED BY <1>4, <2>1, <2>2
  <1>6. DescPlan(kind, d).rows =
          [s \in Stages(w) |-> [e \in 0 .. DP - 1 |-> Slice(n, w, s)]]
    BY <1>3 DEF DescPlan, Plan, Uniform
  <1>7. DescPlan(kind, d).rows \in [Stages(w) -> Counts1]
    BY <1>5, <1>6 DEF Counts1
  <1> QED BY <1>1, <1>4, <1>7 DEF RowsOK

(* The plans of Attention's batches. *)
LEMMA ServingRows ==
    ASSUME NEW p \in ServingPlans
    PROVE  RowsOK(p)
  <1>1. DP - 1 \in Nat /\ 0 \in 0 .. DP - 1 /\ NumUbatches \in 1 .. 2
    BY Sizes, SizesAssumption
  <1>2. CASE \E i \in DOMAIN CaptureDescs : p = DescPlan("replay", CaptureDescs[i])
    BY <1>2, DescPlanRows
  <1>3. CASE \E c \in [0 .. DP - 1 -> EagerCounts] : p = Plan("eager", 1, DpPadding(c))
    <2>1. PICK c \in [0 .. DP - 1 -> EagerCounts] : p = Plan("eager", 1, DpPadding(c))
      BY <1>3
    <2>2. PICK e : e = DpPadding(c)
      OBVIOUS
    <2>3. e \in [0 .. DP - 1 -> EagerCounts]
      BY <2>2, PaddingKeeps, Inputs
    <2>4. e \in [0 .. DP - 1 -> Nat \ {0}]
      BY <2>3, Inputs
    <2>5. p.rows = [s \in Stages(1) |-> [d \in 0 .. DP - 1 |-> e[d]]]
      BY <2>1, <2>2 DEF Plan, Slice
    <2>6. p.rows \in [Stages(1) -> Counts1]
      BY <2>4, <2>5 DEF Counts1
    <2> QED BY <1>1, <2>6 DEF RowsOK
  <1>4. CASE \E c \in [0 .. DP - 1 -> DboCounts] : p = Plan("eager", 2, DpPadding(c))
    <2>1. PICK c \in [0 .. DP - 1 -> DboCounts] : p = Plan("eager", 2, DpPadding(c))
      BY <1>4
    <2>2. PICK e : e = DpPadding(c)
      OBVIOUS
    <2>3. e \in [0 .. DP - 1 -> DboCounts]
      BY <2>2, PaddingKeeps, Inputs
    <2>4. NumUbatches = 2
      <3>1. c[0] \in DboCounts
        BY <1>1
      <3> QED BY <1>1, <3>1, Inputs
    <2>5. p.rows = [s \in Stages(2) |-> [d \in 0 .. DP - 1 |-> Slice(e[d], 2, s)]]
      BY <2>1, <2>2 DEF Plan
    <2>6. ASSUME NEW s \in Stages(2), NEW d \in 0 .. DP - 1 PROVE Slice(e[d], 2, s) \in Nat \ {0}
      <3>1. PICK n : n = e[d]
        OBVIOUS
      <3>2. n \in DboCounts
        BY <2>3, <3>1
      <3>3. n \in Nat /\ n >= 2
        BY <3>2, Inputs
      <3>4. n \div 2 \in Nat \ {0} /\ n - (n \div 2) \in Nat \ {0}
        BY <3>3
      <3>5. Slice(n, 2, s) \in {n \div 2, n - (n \div 2)}
        BY DEF Slice
      <3> QED BY <3>1, <3>4, <3>5
    <2>7. p.rows \in [Stages(2) -> Counts1]
      BY <2>5, <2>6 DEF Counts1
    <2> QED BY <2>4, <2>7 DEF RowsOK
  <1>5. CASE \E n \in DboCounts, first \in [0 .. DP - 1 -> LiveSplits] : p = LivePlan(n, first)
    <2>1. PICK n \in DboCounts, first \in [0 .. DP - 1 -> LiveSplits] : p = LivePlan(n, first)
      BY <1>5
    <2>2. NumUbatches = 2 /\ n \in Nat \ {0, 1} /\ LiveSplits \subseteq 1 .. n - 1
      BY <1>1, Inputs
    <2>3. p.rows = [s \in Stages(2) |-> [d \in 0 .. DP - 1 |-> IF s = 0 THEN first[d] ELSE n - first[d]]]
      BY <2>1 DEF LivePlan
    <2>4. \A d \in 0 .. DP - 1 : first[d] \in 1 .. n - 1
      BY <2>2
    <2>5. \A d \in 0 .. DP - 1 : first[d] \in Nat \ {0} /\ n - first[d] \in Nat \ {0}
      BY <2>2, <2>4
    <2>6. p.rows \in [Stages(2) -> Counts1]
      BY <2>3, <2>5 DEF Counts1
    <2> QED BY <2>2, <2>6 DEF RowsOK
  <1> QED BY <1>2, <1>3, <1>4, <1>5 DEF ServingPlans

(***************************************************************************)
(* What a payload says.                                                    *)
(***************************************************************************)
Constant(r) == [a \in Att |-> r]

(* A count of every DP rank, or of every worker, is one of every worker. *)
LEMMA ExpandedConstant ==
    ASSUME NEW r
    PROVE  Expanded(Uniform(r)) = Constant(r) /\ Expanded(Constant(r)) = Constant(r)
  <1>1. Cardinality(0 .. DP - 1) = DP /\ Cardinality(0 .. A - 1) = A
    <2>1. Cardinality(Stages(DP)) = DP /\ Cardinality(Stages(A)) = A
      BY Sizes, StagesSize
    <2> QED BY <2>1 DEF Stages
  <1>2. DOMAIN Uniform(r) = 0 .. DP - 1 /\ DOMAIN Constant(r) = 0 .. A - 1
    BY DEF Uniform, Constant, Att
  <1>3. ASSUME NEW a \in Att PROVE Uniform(r)[a \div (A \div DP)] = r
    BY DPRank DEF TP, Uniform
  <1>4. ASSUME NEW a \in Att PROVE Constant(r)[a \div (A \div A)] = r
    <2>1. A \div A = 1
      <3>1. A = A * 1 + 0 /\ 0 \in 0 .. A - 1 /\ 1 \in Nat
        BY Sizes
      <3> QED BY <3>1, RemainderUnique, Sizes
    <2>2. a \div 1 = a
      BY Sizes DEF Att
    <2> QED BY <2>1, <2>2 DEF Constant
  <1>5. Expanded(Uniform(r)) = [a \in Att |-> Uniform(r)[a \div (A \div DP)]]
    BY <1>1, <1>2 DEF Expanded
  <1>6. Expanded(Constant(r)) = [a \in Att |-> Constant(r)[a \div (A \div A)]]
    BY <1>1, <1>2 DEF Expanded
  <1>7. Constant(r) = [a \in Att |-> r]
    BY DEF Constant
  <1> QED BY <1>3, <1>4, <1>5, <1>6, <1>7

(* Counts of two microbatches, each the same for every worker. *)
Even(c, w, e) ==
    /\ DOMAIN c = Stages(w) /\ \A s \in Stages(w) : e[s] \in Nat
    /\ \A s \in Stages(w) : Expanded(c[s]) = Constant(e[s])

(* Physical leaves them alone. *)
LEMMA PhysicalEven ==
    ASSUME NEW c, NEW w \in 1 .. 2, NEW e, Even(c, w, e), Ratio > 1, w = 2
    PROVE  Physical(c) = [s \in Stages(w) |-> Constant(e[s])] /\ Even(Physical(c), w, e)
  <1>1. Cardinality(DOMAIN c) = 2 /\ DOMAIN c = Stages(w)
    BY StagesSize DEF Even
  <1>2. Physical(c) =
          [s \in Stages(w) |->
             [a \in Att |-> MaxOf({Expanded(c[s])[b] : b \in {b \in Att : Owner(b) = Owner(a)}})]]
    BY <1>1, Sizes DEF Physical
  <1>3. ASSUME NEW s \in Stages(w), NEW a \in Att
        PROVE  MaxOf({Expanded(c[s])[b] : b \in {b \in Att : Owner(b) = Owner(a)}}) = e[s]
    <2>1. Expanded(c[s]) = Constant(e[s])
      BY DEF Even
    <2>2. \A b \in Att : Expanded(c[s])[b] = e[s]
      BY <2>1 DEF Constant
    <2>3. {Expanded(c[s])[b] : b \in {b \in Att : Owner(b) = Owner(a)}} = {e[s]}
      BY <2>2
    <2>4. e[s] \in Nat
      BY DEF Even
    <2> QED BY <2>3, <2>4, MaxOfOne
  <1>4. \A s \in Stages(w) :
          [a \in Att |-> MaxOf({Expanded(c[s])[b] : b \in {b \in Att : Owner(b) = Owner(a)}})]
          = Constant(e[s])
    BY <1>3 DEF Constant
  <1>5. Physical(c) = [s \in Stages(w) |-> Constant(e[s])]
    BY <1>2, <1>4
  <1>6. \A s \in Stages(w) : Expanded(Physical(c)[s]) = Constant(e[s])
    BY <1>5, ExpandedConstant
  <1>7. DOMAIN Physical(c) = Stages(w) /\ \A s \in Stages(w) : e[s] \in Nat
    BY <1>5 DEF Even
  <1> QED BY <1>5, <1>6, <1>7 DEF Even

(* d announces the same tokens as c *)
SameTokens(c, d, w) ==
    DOMAIN c = Stages(w) /\ DOMAIN d = Stages(w) /\ \A s \in Stages(w) : Expanded(d[s]) = Expanded(c[s])

(* What an Attention rank announces, before and after it is made physical, once
   by the sender and once by the receiver. *)
LEMMA Announced ==
    ASSUME NEW p, RowsOK(p), NEW a \in Att, NEW c, c = Counts(p, a), NEW w, w = WidthOf(p)
    PROVE  /\ SameTokens(c, Physical(c), w) /\ SameTokens(c, Physical(Physical(c)), w)
           /\ Cardinality(DOMAIN Physical(c)) = w /\ Cardinality(DOMAIN c) = w
           /\ \A s \in Stages(w) : w > 1 => Expanded(c[s]) = Constant(OwnRows(p, s, a))
           /\ \A s \in Stages(w) : w > 1 /\ Ratio > 1 => Physical(c)[s] = Constant(OwnRows(p, s, a))
           /\ w = 1 => c = p.rows
  <1>1. w \in 1 .. 2 /\ DOMAIN p.rows = Stages(w) /\ Cardinality(DOMAIN p.rows) = w
    BY WidthIs DEF WidthOf
  <1>2. Cardinality(Stages(w)) = w
    BY <1>1, StagesSize
  <1>3. CASE w = 1
    <2>1. c = p.rows /\ DOMAIN c = Stages(w) /\ Cardinality(DOMAIN c) <= 1
      BY <1>1, <1>3 DEF Counts
    <2>2. Physical(c) = c
      BY <2>1 DEF Physical
    <2> QED BY <1>2, <1>3, <2>1, <2>2 DEF SameTokens
  <1>4. CASE w = 2
    <2>1. PICK e : e = [s \in Stages(w) |-> OwnRows(p, s, a)]
      OBVIOUS
    <2>2. c = [s \in Stages(w) |-> Uniform(e[s])]
      BY <1>1, <1>4, <2>1 DEF Counts
    <2>3. \A s \in Stages(w) : e[s] \in Nat
      BY <2>1, OwnRowsType
    <2>4. \A s \in Stages(w) : Expanded(c[s]) = Constant(e[s])
      BY <2>2, ExpandedConstant
    <2>5. Even(c, w, e)
      BY <2>2, <2>3, <2>4 DEF Even
    <2>6. CASE Ratio > 1
      <3>1. PICK d : d = Physical(c)
        OBVIOUS
      <3>2. d = [s \in Stages(w) |-> Constant(e[s])] /\ Even(d, w, e)
        BY <1>1, <1>4, <2>5, <2>6, <3>1, PhysicalEven
      <3>3. Even(Physical(d), w, e)
        BY <1>1, <1>4, <2>6, <3>2, PhysicalEven
      <3>4. SameTokens(c, d, w) /\ SameTokens(c, Physical(d), w)
        BY <2>5, <3>2, <3>3 DEF Even, SameTokens
      <3>5. Cardinality(DOMAIN d) = w /\ Cardinality(DOMAIN c) = w
        BY <1>2, <2>5, <3>2 DEF Even
      <3> QED BY <1>4, <2>1, <2>4, <3>1, <3>2, <3>4, <3>5
    <2>7. CASE ~(Ratio > 1)
      <3>1. Physical(c) = c
        BY <2>7, Sizes DEF Physical
      <3>2. SameTokens(c, c, w)
        BY <2>2 DEF SameTokens
      <3>3. Cardinality(DOMAIN c) = w
        BY <1>2, <2>2
      <3> QED BY <1>4, <2>1, <2>4, <2>7, <3>1, <3>2, <3>3
    <2> QED BY <2>6, <2>7
  <1> QED BY <1>1, <1>3, <1>4

(* The token count of an FFN rank depends on the workers' counts only. *)
LEMMA TokensSame ==
    ASSUME NEW c, NEW d, Expanded(c) = Expanded(d), NEW j
    PROVE  FfnTokens(c, j) = FfnTokens(d, j)
  <1>1. PICK e : e = Expanded(c)
    OBVIOUS
  <1>2. e = Expanded(d)
    BY <1>1
  <1> QED BY <1>1, <1>2 DEF FfnTokens

(* So all of them derive the same batch sizes from a payload, and its key has
   the sizes of every FFN rank. *)
LEMMA BatchesSame ==
    ASSUME NEW c, NEW d, NEW w, SameTokens(c, d, w), NEW j \in Ffn
    PROVE  /\ BatchSizes(d, j) = BatchSizes(c, j)
           /\ GraphKey(d, j) = GraphKey(c, j)
           /\ DOMAIN GraphKey(d, j) = Stages(w)
           /\ [s \in DOMAIN GraphKey(d, j) |-> GraphKey(d, j)[s][j]] = BatchSizes(c, j)
  <1>1. \A s \in Stages(w) : \A k : FfnTokens(d[s], k) = FfnTokens(c[s], k)
    BY TokensSame DEF SameTokens
  <1>2. DOMAIN c = Stages(w) /\ DOMAIN d = Stages(w)
    BY DEF SameTokens
  <1>3. BatchSizes(c, j) = [s \in Stages(w) |-> FfnTokens(c[s], j)]
    BY <1>2 DEF BatchSizes
  <1>4. BatchSizes(d, j) = [s \in Stages(w) |-> FfnTokens(d[s], j)]
    BY <1>2 DEF BatchSizes
  <1>5. GraphKey(d, j) = [s \in Stages(w) |-> [k \in Ffn |-> FfnTokens(d[s], k)]]
    BY <1>2 DEF GraphKey
  <1>6. GraphKey(c, j) = [s \in Stages(w) |-> [k \in Ffn |-> FfnTokens(c[s], k)]]
    BY <1>2 DEF GraphKey
  <1>7. GraphKey(d, j) = GraphKey(c, j)
    <2>1. \A s \in Stages(w) :
            [k \in Ffn |-> FfnTokens(d[s], k)] = [k \in Ffn |-> FfnTokens(c[s], k)]
      BY <1>1
    <2> QED BY <1>5, <1>6, <2>1
  <1>8. BatchSizes(d, j) = BatchSizes(c, j)
    BY <1>1, <1>3, <1>4
  <1>9. DOMAIN GraphKey(d, j) = Stages(w)
    BY <1>5
  <1>10. \A s \in Stages(w) : GraphKey(d, j)[s][j] = FfnTokens(d[s], j)
    BY <1>5
  <1>11. [s \in DOMAIN GraphKey(d, j) |-> GraphKey(d, j)[s][j]]
         = [s \in Stages(w) |-> FfnTokens(d[s], j)]
    BY <1>9, <1>10
  <1> QED BY <1>4, <1>7, <1>8, <1>9, <1>11

----------------------------------------------------------------------------
(***************************************************************************)
(* The rows of a transfer: both sides derive the same.                     *)
(***************************************************************************)
(* g are the partial sums that FfnTokens recurses to. *)
Adds(g, e, j, m) == g = [i \in 0 .. m |-> IF i = 0 THEN 0 ELSE g[i - 1] + e[Peers(j)[i]]]

(* The partial sums exist. *)
LEMMA AddsExists ==
    ASSUME NEW e, NEW j, NEW m \in Nat
    PROVE  \E g : Adds(g, e, j, m)
  <1> DEFINE T == {n \in Nat : \E g : Adds(g, e, j, n)}
  <1>1. 0 \in T
    <2>1. PICK g : g = [i \in 0 .. 0 |-> 0]
      OBVIOUS
    <2>2. \A i \in 0 .. 0 : i = 0
      OBVIOUS
    <2>3. g = [i \in 0 .. 0 |-> IF i = 0 THEN 0 ELSE g[i - 1] + e[Peers(j)[i]]]
      BY <2>1, <2>2
    <2> QED BY <2>3 DEF Adds
  <1>2. ASSUME NEW n \in Nat, n \in T PROVE n + 1 \in T
    <2>1. PICK f : Adds(f, e, j, n)
      BY <1>2
    <2>2. PICK g : g = [i \in 0 .. n + 1 |->
                          IF i = n + 1 THEN f[n] + e[Peers(j)[i]] ELSE f[i]]
      OBVIOUS
    <2>3. ASSUME NEW i \in 0 .. n PROVE g[i] = f[i]
      BY <2>2
    <2>4. ASSUME NEW i \in 0 .. n + 1
          PROVE  g[i] = IF i = 0 THEN 0 ELSE g[i - 1] + e[Peers(j)[i]]
      <3>1. CASE i = 0
        <4>1. g[i] = f[i] /\ i \in 0 .. n
          BY <2>3, <3>1
        <4>2. f[i] = 0
          BY <2>1, <3>1, <4>1 DEF Adds
        <4> QED BY <3>1, <4>1, <4>2
      <3>2. CASE i = n + 1
        <4>1. n \in 0 .. n /\ i - 1 = n /\ i /= 0
          BY <3>2
        <4>2. g[i - 1] = f[n]
          BY <2>3, <4>1
        <4>3. g[i] = f[n] + e[Peers(j)[i]]
          BY <2>2, <3>2
        <4> QED BY <4>1, <4>2, <4>3
      <3>3. CASE i \in 1 .. n
        <4>1. i - 1 \in 0 .. n /\ i \in 0 .. n /\ i /= 0
          BY <3>3
        <4>2. g[i - 1] = f[i - 1] /\ g[i] = f[i]
          BY <2>3, <4>1
        <4>3. f[i] = f[i - 1] + e[Peers(j)[i]]
          BY <2>1, <4>1 DEF Adds
        <4> QED BY <4>1, <4>2, <4>3
      <3> QED BY <3>1, <3>2, <3>3
    <2>5. g = [i \in 0 .. n + 1 |-> g[i]]
      BY <2>2
    <2>6. Adds(g, e, j, n + 1)
      BY <2>4, <2>5 DEF Adds
    <2> QED BY <2>6
  <1> HIDE DEF T
  <1>3. T = Nat
    <2>1. T \in SUBSET Nat
      BY DEF T
    <2> QED BY <1>1, <1>2, <2>1, NatLeast
  <1>4. m \in T
    BY <1>3
  <1> QED BY <1>4 DEF T

(* Equal counts add up to a multiple. *)
LEMMA EqualSum ==
    ASSUME NEW e, NEW j, NEW r \in Nat, NEW m \in Nat, NEW g, Adds(g, e, j, m),
           \A i \in 1 .. m : e[Peers(j)[i]] = r
    PROVE  g[m] = m * r
  <1> DEFINE T == {n \in Nat : n <= m => g[n] = n * r}
  <1>1. 0 \in T
    <2>1. 0 \in 0 .. m
      OBVIOUS
    <2>2. g[0] = 0
      BY <2>1 DEF Adds
    <2>3. 0 * r = 0
      OBVIOUS
    <2> QED BY <2>2, <2>3
  <1>2. ASSUME NEW n \in Nat, n \in T PROVE n + 1 \in T
    <2> SUFFICES ASSUME n + 1 <= m PROVE g[n + 1] = (n + 1) * r
      OBVIOUS
    <2>1. g[n] = n * r
      BY <1>2
    <2>2. n + 1 \in 0 .. m /\ n + 1 \in 1 .. m /\ n + 1 /= 0 /\ (n + 1) - 1 = n
      OBVIOUS
    <2>3. g[n + 1] = g[n] + e[Peers(j)[n + 1]]
      BY <2>2 DEF Adds
    <2>4. g[n + 1] = n * r + r
      BY <2>1, <2>2, <2>3
    <2>5. (n + 1) * r = n * r + r
      BY Z3
    <2> QED BY <2>4, <2>5
  <1> HIDE DEF T
  <1>3. T = Nat
    <2>1. T \in SUBSET Nat
      BY DEF T
    <2> QED BY <1>1, <1>2, <2>1, NatLeast
  <1>4. m \in T
    BY <1>3
  <1> QED BY <1>4 DEF T

(* The batch of an FFN rank whose peers have equally many tokens falls into
   equal chunks of their number. *)
LEMMA EqualChunks ==
    ASSUME NEW c, NEW j \in Ffn, NEW r \in Nat \ {0},
           \A i \in 1 .. Ratio : Expanded(c)[Peers(j)[i]] = r
    PROVE  FfnTokens(c, j) \div Ratio = r
  <1>1. PICK e : e = Expanded(c)
    OBVIOUS
  <1>2. PICK n : n = Ratio
    OBVIOUS
  <1>3. n \in Nat \ {0}
    BY <1>2, Sizes
  <1>4. PICK g : g = CHOOSE h : h = [i \in 0 .. n |-> IF i = 0 THEN 0 ELSE h[i - 1] + e[Peers(j)[i]]]
    OBVIOUS
  <1>5. FfnTokens(c, j) = IF g[n] = 0 THEN 1 ELSE g[n]
    BY <1>1, <1>2, <1>4 DEF FfnTokens
  <1>6. \E h : h = [i \in 0 .. n |-> IF i = 0 THEN 0 ELSE h[i - 1] + e[Peers(j)[i]]]
    <2>1. PICK h : Adds(h, e, j, n)
      BY <1>3, AddsExists
    <2>2. h = [i \in 0 .. n |-> IF i = 0 THEN 0 ELSE h[i - 1] + e[Peers(j)[i]]]
      BY <2>1 DEF Adds
    <2> QED BY <2>2
  <1>7. g = [i \in 0 .. n |-> IF i = 0 THEN 0 ELSE g[i - 1] + e[Peers(j)[i]]]
    BY <1>4, <1>6, ZenonT(40)
  <1>8. Adds(g, e, j, n)
    BY <1>7 DEF Adds
  <1>9. \A i \in 1 .. n : e[Peers(j)[i]] = r
    BY <1>1, <1>2
  <1>10. g[n] = n * r
    BY <1>3, <1>8, <1>9, EqualSum
  <1>11. n * r \in Nat \ {0}
    BY <1>3, Z3
  <1>12. FfnTokens(c, j) = n * r
    BY <1>5, <1>10, <1>11
  <1>13. (n * r) \div n = r
    <2>1. n * r = n * r + 0 /\ 0 \in 0 .. n - 1 /\ n * r \in Nat
      BY <1>3, <1>11
    <2> QED BY <1>3, <2>1, RemainderUnique
  <1> QED BY <1>2, <1>12, <1>13

(* Attention puts its own rows on the wire. *)
LEMMA WireIsOwn ==
    ASSUME NEW p, RowsOK(p), NEW a \in Att, NEW s \in Stages(WidthOf(p))
    PROVE  Wire(p, a, s) = OwnRows(p, s, a)
  <1>1. PICK w : w = WidthOf(p)
    OBVIOUS
  <1>2. PICK c : c = Counts(p, a)
    OBVIOUS
  <1>3. Cardinality(DOMAIN Physical(c)) = w
        /\ (w > 1 /\ Ratio > 1 => Physical(c)[s] = Constant(OwnRows(p, s, a)))
    BY <1>1, <1>2, Announced
  <1>4. CASE A > F /\ w > 1
    <2>1. Ratio > 1
      BY <1>4, Sizes
    <2>2. Physical(c)[s][a] = OwnRows(p, s, a)
      BY <1>3, <1>4, <2>1 DEF Constant
    <2> QED BY <1>2, <2>2 DEF Wire
  <1>5. CASE ~(A > F /\ w > 1)
    BY <1>2, <1>3, <1>5 DEF Wire
  <1> QED BY <1>4, <1>5

(* All peers of an FFN rank have the same rows. *)
PeersEqual(p) ==
    \A s \in Stages(WidthOf(p)) : \A a, b \in Att : Owner(a) = Owner(b) => OwnRows(p, s, a) = OwnRows(p, s, b)

(* Then its chunks are their rows. *)
LEMMA ChunkIsOwn ==
    ASSUME NEW p, RowsOK(p), PeersEqual(p), NEW a \in Att, NEW s \in Stages(WidthOf(p))
    PROVE  Chunk(p, a, s) = OwnRows(p, s, a)
  <1>1. PICK w, j : w = WidthOf(p) /\ j = Owner(a)
    OBVIOUS
  <1>2. j \in Ffn /\ j \in Att /\ Owner(j) = j /\ MetadataSource(j) = j
    BY <1>1, OwnerOf, SourceOf
  <1>3. PICK c : c = Counts(p, j)
    OBVIOUS
  <1>4. SameTokens(c, Physical(c), w)
        /\ (w > 1 => Expanded(c[s]) = Constant(OwnRows(p, s, j))) /\ (w = 1 => c = p.rows)
    BY <1>1, <1>2, <1>3, Announced
  <1>5. PICK r : r = OwnRows(p, s, a)
    OBVIOUS
  <1>6. r \in Nat \ {0}
    BY <1>5, OwnRowsType
  <1>7. \A b \in Att : Owner(b) = j => OwnRows(p, s, b) = r
    BY <1>1, <1>5 DEF PeersEqual
  <1>8. w \in 1 .. 2
    BY <1>1, WidthIs
  <1>9. ASSUME NEW i \in 1 .. Ratio PROVE Expanded(c[s])[Peers(j)[i]] = r
    <2>1. PICK b : b = Peers(j)[i]
      OBVIOUS
    <2>2. b \in Att /\ OwnRows(p, s, b) = r
      BY <1>2, <1>7, <2>1, PeerOf
    <2>3. CASE w > 1
      <3>1. OwnRows(p, s, j) = r
        BY <1>2, <1>7
      <3> QED BY <1>4, <2>1, <2>2, <2>3, <3>1 DEF Constant
    <2>4. CASE w = 1
      <3>1. c[s] = p.rows[s]
        BY <1>4, <2>4
      <3>2. DOMAIN p.rows[s] = 0 .. DP - 1
        BY <1>1, WidthIs DEF Counts1
      <3>3. Cardinality(0 .. DP - 1) = DP
        <4>1. Cardinality(Stages(DP)) = DP
          BY StagesSize, Sizes
        <4> QED BY <4>1 DEF Stages
      <3>4. Expanded(p.rows[s])[b] = p.rows[s][b \div (A \div DP)]
        BY <2>2, <3>2, <3>3 DEF Expanded
      <3> QED BY <2>1, <2>2, <3>1, <3>4 DEF OwnRows, TP
    <2> QED BY <1>8, <2>3, <2>4
  <1>10. FfnTokens(c[s], j) \div Ratio = r
    BY <1>2, <1>6, <1>9, EqualChunks
  <1>11. BatchSizes(c, j)[s] = FfnTokens(c[s], j)
    BY <1>1, <1>4 DEF BatchSizes, SameTokens
  <1> QED BY <1>1, <1>2, <1>3, <1>5, <1>10, <1>11 DEF Chunk

(* Batches whose split each DP rank chooses by itself are what sets peers apart. *)
SplitsAgree == LiveSplits = {} \/ A = F

(* A block of blocks. *)
LEMMA BlockOfBlocks ==
    ASSUME NEW T \in Nat \ {0}, NEW G \in Nat \ {0}, NEW q \in Nat, NEW u \in Nat, NEW v \in Nat
    PROVE  G * q + u \in Nat /\ (T * G) * q + (T * u + v) = T * (G * q + u) + v
  <1>1. G * q \in Nat
    BY Z3
  <1>2. (T * G) * q = T * (G * q)
    BY Z3
  <1>3. PICK k : k = G * q
    OBVIOUS
  <1>4. k \in Nat
    BY <1>1, <1>3
  <1>5. T * k + T * u = T * (k + u) /\ T * k \in Nat /\ T * u \in Nat
    BY <1>4, Z3
  <1>6. T * k + (T * u + v) = (T * k + T * u) + v
    BY <1>5
  <1>7. T * (G * q + u) + v = T * (k + u) + v /\ (T * G) * q + (T * u + v) = T * k + (T * u + v)
    BY <1>2, <1>3
  <1> QED BY <1>3, <1>4, <1>5, <1>6, <1>7

(* Peers of an FFN rank are workers of DP ranks that are padded alike. *)
LEMMA PeersPadded ==
    ASSUME NEW c, DOMAIN c = 0 .. DP - 1, A /= F,
           NEW a \in Att, NEW b \in Att, Owner(a) = Owner(b)
    PROVE  DpPadding(c)[a \div TP] = DpPadding(c)[b \div TP]
  <1>1. PICK groups : groups = IF F % TP = 0 THEN F \div TP ELSE 1
    OBVIOUS
  <1>2. DpPadding(c) =
          [d \in 0 .. DP - 1 |-> MaxOf({c[e] : e \in {e \in DOMAIN c : e % groups = d % groups}})]
    BY <1>1 DEF DpPadding
  <1>3. PICK d, e : d = a \div TP /\ e = b \div TP
    OBVIOUS
  <1>4. d \in 0 .. DP - 1 /\ e \in 0 .. DP - 1
    BY <1>3, DPRank
  <1>5. d % groups = e % groups
    <2>1. CASE F % TP /= 0
      <3>1. groups = 1
        BY <1>1, <2>1
      <3>2. d % 1 = 0 /\ e % 1 = 0
        BY <1>4, Sizes
      <3> QED BY <3>1, <3>2
    <2>2. CASE F % TP = 0
      <3>1. groups \in Nat \ {0} /\ F = TP * groups
        <4>1. groups \in Nat /\ F = TP * groups + 0
          BY <1>1, <2>2, DivRemainder, Sizes
        <4>2. TP * groups \in Nat
          BY <4>1, Sizes, Z3
        <4>3. groups /= 0
          BY <4>1, Sizes, Z3
        <4> QED BY <4>1, <4>2, <4>3
      <3>2. ASSUME NEW x \in Att, NEW y, y = x \div TP
            PROVE  y % groups = (x % F) \div TP
        <4>1. x \in Nat /\ F \in Nat \ {0} /\ TP \in Nat \ {0}
          BY Sizes DEF Att
        <4>2. PICK q, o : q = x \div F /\ o = x % F
          OBVIOUS
        <4>3. q \in Nat /\ o \in 0 .. F - 1 /\ x = F * q + o
          BY <4>1, <4>2, DivRemainder
        <4>4. PICK u, v : u = o \div TP /\ v = o % TP
          OBVIOUS
        <4>5. u \in Nat /\ v \in 0 .. TP - 1 /\ o = TP * u + v
          <5>1. o \in Nat
            BY <4>1, <4>3
          <5> QED BY <4>1, <4>4, <5>1, DivRemainder
        <4>6. u < groups
          <5>1. TP * u \in Nat
            BY <4>1, <4>5, Z3
          <5>2. TP * u < TP * groups
            BY <3>1, <4>3, <4>5, <5>1
          <5> QED BY <3>1, <4>1, <4>5, <5>2, Z3
        <4>7. groups * q + u \in Nat
          BY <3>1, <4>1, <4>3, <4>5, BlockOfBlocks
        <4>8. x = TP * (groups * q + u) + v
          <5>1. (TP * groups) * q + (TP * u + v) = TP * (groups * q + u) + v
            <6>1. v \in Nat
              BY <4>1, <4>5
            <6> QED BY <3>1, <4>1, <4>3, <4>5, <6>1, BlockOfBlocks
          <5> QED BY <3>1, <4>3, <4>5, <5>1
        <4>9. y = groups * q + u
          <5>1. PICK k : k = groups * q + u
            OBVIOUS
          <5>2. k \in Nat /\ x = TP * k + v
            BY <4>7, <4>8, <5>1
          <5>3. x \div TP = k
            BY <4>1, <4>5, <5>2, RemainderUnique
          <5> QED BY <3>2, <5>1, <5>3
        <4>10. y % groups = u
          BY <3>1, <4>3, <4>5, <4>6, <4>7, <4>9, RemainderUnique
        <4> QED BY <4>2, <4>4, <4>10
      <3>3. d % groups = (a % F) \div TP /\ e % groups = (b % F) \div TP
        BY <1>3, <3>2
      <3> QED BY <3>3 DEF Owner
    <2> QED BY <2>1, <2>2
  <1> QED BY <1>2, <1>3, <1>4, <1>5

(* Every plan that the ranks make together gives peers equal rows. *)
LEMMA DescPeers ==
    ASSUME NEW kind, NEW i \in DOMAIN CaptureDescs
    PROVE  PeersEqual(DescPlan(kind, CaptureDescs[i]))
  <1>1. PICK p : p = DescPlan(kind, CaptureDescs[i])
    OBVIOUS
  <1>2. PICK n, w : n = CaptureDescs[i].size /\ w = CaptureDescs[i].stages
    OBVIOUS
  <1>3. p.rows = [s \in Stages(w) |-> [e \in 0 .. DP - 1 |-> Slice(n, w, s)]]
    BY <1>1, <1>2 DEF DescPlan, Plan, Uniform
  <1>4. DOMAIN p.rows = Stages(WidthOf(p))
    BY <1>1, DescPlanRows, WidthIs
  <1>5. ASSUME NEW s \in Stages(WidthOf(p)), NEW a \in Att PROVE OwnRows(p, s, a) = Slice(n, w, s)
    BY <1>3, <1>4, DPRank DEF OwnRows
  <1> QED BY <1>1, <1>5 DEF PeersEqual

(* ... if no DP rank splits by itself. *)
LEMMA ServingPeers ==
    ASSUME SplitsAgree, NEW p \in ServingPlans
    PROVE  PeersEqual(p)
  <1>1. DP - 1 \in Nat /\ 0 \in 0 .. DP - 1 /\ RowsOK(p)
    BY Sizes, ServingRows
  <1>2. DOMAIN p.rows = Stages(WidthOf(p))
    BY <1>1, WidthIs
  <1>3. CASE A = F
    <2>1. ASSUME NEW a \in Att, NEW b \in Att, Owner(a) = Owner(b) PROVE a = b
      <3>1. a \in Ffn /\ b \in Ffn
        BY <1>3 DEF Att, Ffn
      <3> QED BY <2>1, <3>1, SourceOf
    <2> QED BY <2>1 DEF PeersEqual
  <1>4. CASE LiveSplits = {} /\ A /= F
    <2>1. CASE \E i \in DOMAIN CaptureDescs : p = DescPlan("replay", CaptureDescs[i])
      BY <2>1, DescPeers
    <2>2. ASSUME NEW stages, NEW c, DOMAIN c = 0 .. DP - 1, p = Plan("eager", stages, DpPadding(c))
          PROVE  PeersEqual(p)
      <3>1. p.rows = [s \in Stages(stages) |-> [d \in 0 .. DP - 1 |-> Slice(DpPadding(c)[d], stages, s)]]
        BY <2>2 DEF Plan
      <3>2. ASSUME NEW s \in Stages(WidthOf(p)), NEW a \in Att
            PROVE  OwnRows(p, s, a) = Slice(DpPadding(c)[a \div TP], stages, s)
        BY <1>2, <3>1, DPRank DEF OwnRows
      <3>3. ASSUME NEW s \in Stages(WidthOf(p)), NEW a \in Att, NEW b \in Att, Owner(a) = Owner(b)
            PROVE  OwnRows(p, s, a) = OwnRows(p, s, b)
        <4>1. DpPadding(c)[a \div TP] = DpPadding(c)[b \div TP]
          BY <1>4, <2>2, <3>3, PeersPadded
        <4> QED BY <3>2, <4>1
      <3> QED BY <3>3 DEF PeersEqual
    <2>3. CASE \E c \in [0 .. DP - 1 -> EagerCounts] : p = Plan("eager", 1, DpPadding(c))
      BY <2>2, <2>3
    <2>4. CASE \E c \in [0 .. DP - 1 -> DboCounts] : p = Plan("eager", 2, DpPadding(c))
      BY <2>2, <2>4
    <2>5. CASE \E n \in DboCounts, first \in [0 .. DP - 1 -> LiveSplits] : p = LivePlan(n, first)
      <3>1. PICK first \in [0 .. DP - 1 -> LiveSplits] : TRUE
        BY <2>5
      <3>2. first[0] \in LiveSplits
        BY <1>1
      <3> QED BY <1>4, <3>2
    <2> QED BY <2>1, <2>3, <2>4, <2>5 DEF ServingPlans
  <1> QED BY <1>3, <1>4 DEF SplitsAgree

----------------------------------------------------------------------------
----------------------------------------------------------------------------
(***************************************************************************)
(* Sequences of any elements.                                              *)
(***************************************************************************)
(* Sequences of any elements, as in DeepEPProofs.                          *)
(***************************************************************************)
(* A sequence, of any elements. *)
IsSequence(s) == \E n \in Nat : s = [i \in 1 .. n |-> s[i]]

(* It is one over some set, with an element of which it can be extended. *)
LEMMA SequenceOf ==
    ASSUME NEW s, IsSequence(s), NEW e
    PROVE  \E T : s \in Seq(T) /\ e \in T
  <1> PICK n \in Nat : s = [i \in 1 .. n |-> s[i]]
    BY DEF IsSequence
  <1> DEFINE T == {s[i] : i \in 1 .. n} \cup {e}
  <1>1. s \in [1 .. n -> T]
    OBVIOUS
  <1>2. s \in Seq(T)
    <2> HIDE DEF T
    <2> QED BY <1>1
  <1> QED BY <1>2

(* A sequence of any elements has a length, and is empty if that is 0. *)
LEMMA SequenceLen ==
    ASSUME NEW s, IsSequence(s)
    PROVE  Len(s) \in Nat /\ DOMAIN s = 1 .. Len(s) /\ (s = <<>> <=> Len(s) = 0)
  <1> PICK T : s \in Seq(T)
    BY SequenceOf
  <1> QED BY LenProperties, EmptySeq

(* The empty sequence, and its length. *)
LEMMA EmptySequence == IsSequence(<<>>) /\ Len(<<>>) = 0
  <1>1. <<>> = [i \in 1 .. 0 |-> <<>>[i]]
    OBVIOUS
  <1> QED BY <1>1 DEF IsSequence

(* A sequence over a set is one of any elements. *)
LEMMA IsSequenceOf == ASSUME NEW T, NEW s \in Seq(T) PROVE IsSequence(s)
  <1> PICK n \in Nat : s \in [1 .. n -> T]
    OBVIOUS
  <1>1. s = [i \in 1 .. n |-> s[i]]
    OBVIOUS
  <1> QED BY <1>1 DEF IsSequence

(* What Append does to a sequence of any elements. *)
LEMMA SequenceAppend ==
    ASSUME NEW s, IsSequence(s), NEW e
    PROVE  /\ IsSequence(Append(s, e)) /\ Len(Append(s, e)) = Len(s) + 1
           /\ \A i \in 1 .. Len(s) : Append(s, e)[i] = s[i]
           /\ Append(s, e)[Len(s) + 1] = e
  <1> PICK T : s \in Seq(T) /\ e \in T
    BY SequenceOf
  <1>1. /\ Append(s, e) \in Seq(T) /\ Len(Append(s, e)) = Len(s) + 1
        /\ Append(s, e)[Len(s) + 1] = e
    BY AppendProperties
  <1>2. \A i \in 1 .. Len(s) : Append(s, e)[i] = s[i]
    BY AppendProperties
  <1>3. IsSequence(Append(s, e))
    BY <1>1, IsSequenceOf
  <1> QED BY <1>1, <1>2, <1>3

(* What Head and Tail return of a non-empty one. *)
LEMMA SequenceTail ==
    ASSUME NEW s, IsSequence(s), s /= <<>>
    PROVE  /\ Len(s) > 0 /\ Head(s) = s[1]
           /\ IsSequence(Tail(s)) /\ Len(Tail(s)) = Len(s) - 1
           /\ \A i \in 1 .. Len(s) - 1 : Tail(s)[i] = s[i + 1]
  <1> PICK T : s \in Seq(T)
    BY SequenceOf
  <1>1. /\ Tail(s) \in Seq(T) /\ Len(Tail(s)) = Len(s) - 1
        /\ \A i \in 1 .. Len(Tail(s)) : Tail(s)[i] = s[i + 1]
    BY HeadTailProperties
  <1>2. Len(s) \in Nat /\ Len(s) > 0 /\ Head(s) = s[1]
    BY SequenceLen
  <1> QED BY <1>1, <1>2, IsSequenceOf

----------------------------------------------------------------------------
(***************************************************************************)
(* The invariant.  Every rank is in a step that Attention has planned, its *)
(* operations are those of the step's number of microbatches, and what it  *)
(* derived from the payload is what the plan says; the payloads on the way *)
(* are those of the steps between Attention's and the FFN rank's; graphs   *)
(* hold the batch sizes of their key; and each Attention rank meets its    *)
(* FFN rank in every window.                                               *)
(***************************************************************************)
PlanAt(pl, n) == IF n = 0 THEN <<>> ELSE pl[n]
Wd(pl, n) == IF n = 0 THEN 0 ELSE WidthOf(pl[n])
Payload(p, j, n) == [step |-> n, kind |-> p.kind, counts |-> Physical(Counts(p, j))]
Warmups == 2 * Len(CaptureDescs)

PlansOK(pl) ==
    /\ IsSequence(pl) /\ Len(pl) >= Warmups
    /\ \A k \in 1 .. Len(pl) : /\ k <= Warmups => pl[k] = CapturePlans[k]
                               /\ k > Warmups => pl[k] \in ServingPlans

AttOK(pl, a, r, m) ==
    /\ r = [step |-> r.step, ops |-> r.ops, pc |-> r.pc] /\ r.step \in 0 .. Len(pl)
    /\ r.ops = ProgA(Wd(pl, r.step)) /\ r.pc \in 1 .. Len(r.ops) + 1
    /\ r.step > 0 => m = Physical(Counts(pl[r.step], a))

BatchOK(p, j, q) ==
    /\ q.batch = BatchSizes(Counts(p, j), j)
    /\ FFNGraphs => (q.mode = "replay" <=> p.kind = "replay")

FfnOK(pl, j, q) ==
    /\ q = [step |-> q.step, mode |-> q.mode, batch |-> q.batch, got |-> q.got,
            ops |-> q.ops, pc |-> q.pc]
    /\ q.step \in 0 .. Len(pl) /\ q.ops = ProgF(Wd(pl, q.step)) /\ q.pc \in 1 .. Len(q.ops) + 1
    /\ q.step > 0 => BatchOK(pl[q.step], j, q)

(* c has the payloads of the steps after n up to k *)
CtlOK(pl, j, n, k, c) ==
    /\ IsSequence(c) /\ Len(c) = k - n
    /\ \A i \in 1 .. Len(c) : c[i] = Payload(pl[n + i], j, n + i)

(* the batch sizes of FFN rank j in a key *)
Own(key, j) == [s \in DOMAIN key |-> key[s][j]]

GraphOK(j, n, gr) ==
    /\ \A key \in DOMAIN gr : gr[key] = Own(key, j)
    /\ FFNGraphs => \A i \in 1 .. Len(CaptureDescs) :
         2 * i <= n => GraphKey(Counts(CapturePlans[2 * i], j), j) \in DOMAIN gr

PairOf(pl, a, r, q, ma, mf, ta, tf, wn) ==
    Pair(PlanAt(pl, r.step), Wd(pl, r.step), a, r, q, ma, mf, ta, tf, wn)

Wide(f, D) == DOMAIN f = D /\ \A x \in D : DOMAIN f[x] = Groups

Types ==
    /\ DOMAIN att = Att /\ DOMAIN amd = Att
    /\ DOMAIN ffn = Ffn /\ DOMAIN fmd = Ffn /\ DOMAIN ctl = Ffn /\ DOMAIN graphs = Ffn
    /\ Wide(magic, World) /\ Wide(toFfn, Att) /\ Wide(toAtt, Att) /\ Wide(win, Att)
AttInv == \A a \in Att : AttOK(plans, a, att[a], amd[a])
FfnInv == \A j \in Ffn : FfnOK(plans, j, ffn[j])
CtlInv == \A j \in Ffn : CtlOK(plans, j, ffn[j].step, att[j].step, ctl[j])
GraphInv == \A j \in Ffn : GraphOK(j, ffn[j].step, graphs[j])
PairOfRanks(a) ==
    PairOf(plans, a, att[a], ffn[Owner(a)], magic[WorldRank(a)], magic[Owner(a)],
           toFfn[a], toAtt[a], win[a])
PairsInv == \A a \in Att : PairOfRanks(a)

IInv == Types /\ PlansOK(plans) /\ AttInv /\ FfnInv /\ CtlInv /\ GraphInv /\ PairsInv

(* A planned step. *)
LEMMA PlanOf ==
    ASSUME NEW pl, PlansOK(pl), NEW n \in 1 .. Len(pl)
    PROVE  /\ RowsOK(pl[n]) /\ PlanAt(pl, n) = pl[n] /\ Wd(pl, n) = WidthOf(pl[n])
           /\ Wd(pl, n) \in 1 .. NumUbatches /\ Wd(pl, n) \in 1 .. 2
  <1>1. Len(CaptureDescs) \in Nat /\ DOMAIN CaptureDescs = 1 .. Len(CaptureDescs) /\ Len(pl) \in Nat
    BY Inputs, SequenceLen DEF PlansOK
  <1>2. n \in Nat /\ n /= 0
    BY <1>1
  <1>3. RowsOK(pl[n])
    <2>1. CASE n <= Warmups
      <3>1. n \in 1 .. 2 * Len(CaptureDescs) /\ (n + 1) \div 2 \in DOMAIN CaptureDescs
        BY <1>1, <1>2, <2>1 DEF Warmups
      <3>2. pl[n] = DescPlan(IF n % 2 = 1 THEN "warmup" ELSE "capture", CaptureDescs[(n + 1) \div 2])
        BY <2>1, <3>1 DEF PlansOK, CapturePlans
      <3> QED BY <3>1, <3>2, DescPlanRows
    <2>2. CASE n > Warmups
      BY <2>2, ServingRows DEF PlansOK
    <2> QED BY <1>1, <1>2, <2>1, <2>2 DEF Warmups
  <1> QED BY <1>2, <1>3, WidthIs DEF PlanAt, Wd

(* The two ranks of a pair run their steps. *)
LEMMA RunsOf ==
    ASSUME NEW pl, PlansOK(pl), NEW a, NEW r, NEW m, AttOK(pl, a, r, m),
           NEW j, NEW q, FfnOK(pl, j, q)
    PROVE  Runs(Wd(pl, r.step), Wd(pl, q.step), r, q)
  <1>1. Len(pl) \in Nat /\ NumUbatches \in 1 .. 2
    BY SequenceLen, SizesAssumption DEF PlansOK
  <1>2. ASSUME NEW n \in 0 .. Len(pl) PROVE Wd(pl, n) \in 0 .. NumUbatches /\ (Wd(pl, n) = 0 <=> n = 0)
    <2>1. CASE n = 0
      BY <1>1, <2>1 DEF Wd
    <2>2. CASE n /= 0
      <3>1. n \in 1 .. Len(pl)
        BY <1>1, <2>2
      <3> QED BY <1>1, <2>2, <3>1, PlanOf
    <2> QED BY <2>1, <2>2
  <1>3. r.step \in 0 .. Len(pl) /\ q.step \in 0 .. Len(pl)
    BY DEF AttOK, FfnOK
  <1>4. r.step \in Nat /\ q.step \in Nat
    BY <1>1, <1>3
  <1>5. r.ops = ProgA(Wd(pl, r.step)) /\ r.pc \in 1 .. Len(r.ops) + 1
    BY DEF AttOK
  <1>6. q.ops = ProgF(Wd(pl, q.step)) /\ q.pc \in 1 .. Len(q.ops) + 1
    BY DEF FfnOK
  <1> QED BY <1>2, <1>3, <1>4, <1>5, <1>6 DEF Runs

(* The ranks of the AFD world. *)
LEMMA WorldRanks ==
    /\ \A j \in Ffn : j \in World
    /\ \A a \in Att : WorldRank(a) \in World /\ \A j \in Ffn : WorldRank(a) /= j
    /\ \A a, b \in Att : WorldRank(a) = WorldRank(b) => a = b
  <1>1. \A j \in Ffn : j \in Nat /\ j < F
    BY Sizes DEF Ffn
  <1>2. \A a \in Att : a \in Nat /\ a < A
    BY Sizes DEF Att
  <1>3. \A j \in Ffn : j \in World
    BY <1>1, Sizes DEF World
  <1>4. \A a \in Att : WorldRank(a) \in World
    BY <1>2, Sizes DEF World, WorldRank
  <1>5. \A a \in Att : \A j \in Ffn : WorldRank(a) /= j
    BY <1>1, <1>2, Sizes DEF WorldRank
  <1>6. \A a, b \in Att : WorldRank(a) = WorldRank(b) => a = b
    BY <1>2, Sizes DEF WorldRank
  <1> QED BY <1>3, <1>4, <1>5, <1>6

(* Nothing has happened yet. *)
LEMMA InitIInv == Init => IInv
  <1> SUFFICES ASSUME Init PROVE IInv
    OBVIOUS
  <1>1. Types
    BY WorldRanks DEF Init, Types, Wide
  <1>2. PlansOK(plans)
    <2>1. Len(CaptureDescs) \in Nat
      BY Inputs
    <2>2. PICK N : N = Warmups
      OBVIOUS
    <2>3. N \in Nat
      BY <2>1, <2>2 DEF Warmups
    <2>4. plans = [k \in 1 .. N |-> CapturePlans[k]]
      BY <2>2 DEF Init, CapturePlans, Warmups
    <2>5. IsSequence(plans) /\ Len(plans) = N
      BY <2>3, <2>4 DEF IsSequence
    <2>6. \A k \in 1 .. N : plans[k] = CapturePlans[k] /\ ~(k > N)
      BY <2>3, <2>4
    <2> QED BY <2>2, <2>3, <2>5, <2>6 DEF PlansOK
  <1>3. Len(plans) \in Nat
    BY <1>2, SequenceLen DEF PlansOK
  <1>4. \A a \in Att : att[a] = [step |-> 0, ops |-> <<>>, pc |-> 1]
    BY DEF Init
  <1>5. \A j \in Ffn : ffn[j] = [step |-> 0, mode |-> "forward", batch |-> <<>>, got |-> <<>>,
                                ops |-> <<>>, pc |-> 1]
    BY DEF Init
  <1>6. AttInv
    BY <1>3, <1>4, EmptySequence DEF AttInv, AttOK, ProgA, Wd
  <1>7. FfnInv
    BY <1>3, <1>5, EmptySequence DEF FfnInv, FfnOK, ProgF, Wd
  <1>8. CtlInv
    <2>1. ASSUME NEW j \in Ffn PROVE CtlOK(plans, j, 0, 0, ctl[j])
      <3>1. ctl[j] = <<>>
        BY DEF Init
      <3> QED BY <3>1, EmptySequence DEF CtlOK
    <2> QED BY <1>4, <1>5, <2>1, SourceOf DEF CtlInv
  <1>9. GraphInv
    <2>1. ASSUME NEW j \in Ffn PROVE GraphOK(j, 0, graphs[j])
      <3>1. DOMAIN graphs[j] = {}
        BY DEF Init
      <3>2. \A i \in 1 .. Len(CaptureDescs) : ~(2 * i <= 0)
        BY Inputs
      <3> QED BY <3>1, <3>2 DEF GraphOK
    <2> QED BY <1>5, <2>1 DEF GraphInv
  <1>10. PairsInv
    <2>1. ASSUME NEW a \in Att PROVE PairOfRanks(a)
      <3>1. PICK r, q : r = att[a] /\ q = ffn[Owner(a)]
        OBVIOUS
      <3>2. Near(r, q) /\ r.step = 0
        BY <1>4, <1>5, <3>1, OwnerOf DEF Near
      <3>3. Stages(Wd(plans, r.step)) = {}
        BY <3>2 DEF Wd, Stages
      <3>4. PICK ma, mf : ma = magic[WorldRank(a)] /\ mf = magic[Owner(a)]
        OBVIOUS
      <3>5. PICK ta, tf : ta = toFfn[a] /\ tf = toAtt[a]
        OBVIOUS
      <3>6. \A g \in Groups : ma[g] = 0 /\ mf[g] = 0 /\ ta[g] = 0 /\ tf[g] = 0
        BY <3>4, <3>5, OwnerOf, WorldRanks DEF Init
      <3>7. \A g \in Groups : Apart(ma[g], mf[g], ta[g], tf[g])
        BY <3>6 DEF Apart
      <3> QED BY <3>1, <3>2, <3>3, <3>4, <3>5, <3>7 DEF PairOfRanks, PairOf, Pair
    <2> QED BY <2>1 DEF PairsInv
  <1> QED BY <1>1, <1>2, <1>6, <1>7, <1>8, <1>9, <1>10 DEF IInv

----------------------------------------------------------------------------
(***************************************************************************)
(* Steps that leave the ranks alone.                                       *)
(***************************************************************************)
(* Nothing the invariant is about changes. *)
LEMMA FrameStep ==
    ASSUME IInv, UNCHANGED <<plans, attVars, ctl, ffnVars, winVars>>
    PROVE  IInv'
  <1>1. /\ plans' = plans /\ att' = att /\ amd' = amd /\ ctl' = ctl /\ ffn' = ffn
        /\ fmd' = fmd /\ graphs' = graphs
        /\ magic' = magic /\ toFfn' = toFfn /\ toAtt' = toAtt /\ win' = win
    BY DEF attVars, ffnVars, winVars
  <1>2. Types'
    BY <1>1 DEF IInv, Types
  <1>3. PlansOK(plans)'
    BY <1>1 DEF IInv
  <1>4. AttInv'
    BY <1>1 DEF IInv, AttInv
  <1>5. FfnInv'
    BY <1>1 DEF IInv, FfnInv
  <1>6. CtlInv'
    BY <1>1 DEF IInv, CtlInv
  <1>7. GraphInv'
    BY <1>1 DEF IInv, GraphInv
  <1>8. PairsInv'
    BY <1>1 DEF IInv, PairsInv, PairOfRanks
  <1> QED BY <1>2, <1>3, <1>4, <1>5, <1>6, <1>7, <1>8 DEF IInv

(* Another plan leaves the earlier ones. *)
LEMMA PlansGrow ==
    ASSUME NEW pl, PlansOK(pl), NEW p \in ServingPlans, NEW pl2, pl2 = Append(pl, p)
    PROVE  /\ PlansOK(pl2) /\ Len(pl) \in Nat /\ Len(pl2) = Len(pl) + 1
           /\ \A n \in 1 .. Len(pl) : pl2[n] = pl[n]
           /\ \A n \in 0 .. Len(pl) : PlanAt(pl2, n) = PlanAt(pl, n) /\ Wd(pl2, n) = Wd(pl, n)
  <1>1. IsSequence(pl2) /\ Len(pl2) = Len(pl) + 1 /\ Len(pl) \in Nat
    BY SequenceAppend, SequenceLen DEF PlansOK
  <1>2. (\A n \in 1 .. Len(pl) : pl2[n] = pl[n]) /\ pl2[Len(pl) + 1] = p
    BY SequenceAppend DEF PlansOK
  <1>3. Len(pl) >= Warmups /\ Warmups \in Nat
    BY Inputs DEF PlansOK, Warmups
  <1>4. ASSUME NEW n \in 0 .. Len(pl)
        PROVE  PlanAt(pl2, n) = PlanAt(pl, n) /\ Wd(pl2, n) = Wd(pl, n)
    BY <1>1, <1>2 DEF PlanAt, Wd
  <1>5. ASSUME NEW k \in 1 .. Len(pl2)
        PROVE  (k <= Warmups => pl2[k] = CapturePlans[k]) /\ (k > Warmups => pl2[k] \in ServingPlans)
    <2>1. CASE k \in 1 .. Len(pl)
      BY <1>2, <2>1 DEF PlansOK
    <2>2. CASE k = Len(pl) + 1
      BY <1>1, <1>2, <1>3, <2>2
    <2> QED BY <1>1, <2>1, <2>2
  <1>6. Len(pl2) >= Warmups
    BY <1>1, <1>3
  <1> QED BY <1>1, <1>2, <1>4, <1>5, <1>6 DEF PlansOK

(* Attention agrees on a step. *)
LEMMA AgreeStep == ASSUME IInv, Agree PROVE IInv'
  <1>1. PICK p \in ServingPlans : plans' = Append(plans, p)
    BY DEF Agree
  <1>2. /\ att' = att /\ amd' = amd /\ ctl' = ctl /\ ffn' = ffn
        /\ fmd' = fmd /\ graphs' = graphs
        /\ magic' = magic /\ toFfn' = toFfn /\ toAtt' = toAtt /\ win' = win
    BY DEF Agree, attVars, ffnVars, winVars
  <1>3. PICK pl, pl2 : pl = plans /\ pl2 = plans'
    OBVIOUS
  <1>4. PlansOK(pl) /\ pl2 = Append(pl, p)
    BY <1>1, <1>3 DEF IInv
  <1>5. /\ PlansOK(pl2) /\ Len(pl) \in Nat /\ Len(pl2) = Len(pl) + 1
        /\ \A n \in 1 .. Len(pl) : pl2[n] = pl[n]
        /\ \A n \in 0 .. Len(pl) : PlanAt(pl2, n) = PlanAt(pl, n) /\ Wd(pl2, n) = Wd(pl, n)
    BY <1>4, PlansGrow
  <1>6. Types'
    BY <1>2 DEF IInv, Types
  <1>7. AttInv'
    <2>1. ASSUME NEW a \in Att PROVE AttOK(pl2, a, att[a], amd[a])
      <3>1. AttOK(pl, a, att[a], amd[a])
        BY <1>3 DEF IInv, AttInv
      <3>2. att[a].step \in 0 .. Len(pl)
        BY <3>1 DEF AttOK
      <3>3. Wd(pl2, att[a].step) = Wd(pl, att[a].step) /\ att[a].step \in 0 .. Len(pl2)
        BY <1>5, <3>2
      <3>4. att[a].step > 0 => pl2[att[a].step] = pl[att[a].step]
        BY <1>5, <3>2
      <3> QED BY <3>1, <3>3, <3>4 DEF AttOK
    <2> QED BY <1>2, <1>3, <2>1 DEF AttInv
  <1>8. FfnInv'
    <2>1. ASSUME NEW j \in Ffn PROVE FfnOK(pl2, j, ffn[j])
      <3>1. FfnOK(pl, j, ffn[j])
        BY <1>3 DEF IInv, FfnInv
      <3>2. ffn[j].step \in 0 .. Len(pl)
        BY <3>1 DEF FfnOK
      <3>3. Wd(pl2, ffn[j].step) = Wd(pl, ffn[j].step) /\ ffn[j].step \in 0 .. Len(pl2)
        BY <1>5, <3>2
      <3>4. ffn[j].step > 0 => pl2[ffn[j].step] = pl[ffn[j].step]
        BY <1>5, <3>2
      <3> QED BY <3>1, <3>3, <3>4 DEF FfnOK
    <2> QED BY <1>2, <1>3, <2>1 DEF FfnInv
  <1>9. CtlInv'
    <2>1. ASSUME NEW j \in Ffn PROVE CtlOK(pl2, j, ffn[j].step, att[j].step, ctl[j])
      <3>1. PICK n, k, c : n = ffn[j].step /\ k = att[j].step /\ c = ctl[j]
        OBVIOUS
      <3>2. CtlOK(pl, j, n, k, c)
        BY <1>3, <3>1 DEF IInv, CtlInv
      <3>3. n \in 0 .. Len(pl) /\ k \in 0 .. Len(pl)
        BY <1>3, <3>1, SourceOf DEF IInv, FfnInv, FfnOK, AttInv, AttOK
      <3>4. Len(c) = k - n
        BY <3>2 DEF CtlOK
      <3>5. \A i \in 1 .. Len(c) : n + i \in 1 .. Len(pl)
        BY <1>5, <3>3, <3>4
      <3>6. \A i \in 1 .. Len(c) : pl2[n + i] = pl[n + i]
        BY <1>5, <3>5
      <3>7. CtlOK(pl2, j, n, k, c)
        BY <3>2, <3>6 DEF CtlOK
      <3> QED BY <3>1, <3>7
    <2> QED BY <1>2, <1>3, <2>1 DEF CtlInv
  <1>10. GraphInv'
    BY <1>2 DEF IInv, GraphInv
  <1>11. PairsInv'
    <2>1. ASSUME NEW a \in Att
          PROVE  PairOf(pl2, a, att[a], ffn[Owner(a)], magic[WorldRank(a)], magic[Owner(a)],
                        toFfn[a], toAtt[a], win[a])
      <3>1. PairOf(pl, a, att[a], ffn[Owner(a)], magic[WorldRank(a)], magic[Owner(a)],
                   toFfn[a], toAtt[a], win[a])
        BY <1>3 DEF IInv, PairsInv, PairOfRanks
      <3>2. att[a].step \in 0 .. Len(pl)
        BY <1>3 DEF IInv, AttInv, AttOK
      <3>3. PlanAt(pl2, att[a].step) = PlanAt(pl, att[a].step) /\ Wd(pl2, att[a].step) = Wd(pl, att[a].step)
        BY <1>5, <3>2
      <3> QED BY <3>1, <3>3 DEF PairOf
    <2> QED BY <1>2, <1>3, <2>1 DEF PairsInv, PairOfRanks
  <1>12. PlansOK(plans)'
    BY <1>3, <1>5
  <1> QED BY <1>6, <1>7, <1>8, <1>9, <1>10, <1>11, <1>12 DEF IInv

----------------------------------------------------------------------------
(***************************************************************************)
(* Steps of an Attention rank.                                             *)
(***************************************************************************)
(* One entry changes. *)
PutIn(f, f2, D, x, g, e) ==
    Wide(f2, D) /\ Put(f2[x], f[x], g, e) /\ \A y \in D : y /= x => f2[y] = f[y]

LEMMA PutAt ==
    ASSUME NEW f, NEW D, Wide(f, D), NEW x \in D, NEW g \in Groups, NEW e,
           NEW f2, f2 = [f EXCEPT ![x][g] = e]
    PROVE  PutIn(f, f2, D, x, g, e)
  <1>1. DOMAIN f = D /\ DOMAIN f[x] = Groups
    BY DEF Wide
  <1>2. f2[x] = [f[x] EXCEPT ![g] = e]
    BY <1>1
  <1>3. \A y \in D : y /= x => f2[y] = f[y]
    BY <1>1
  <1>4. Put(f2[x], f[x], g, e)
    BY <1>1, <1>2 DEF Put
  <1>5. DOMAIN f2 = D
    BY <1>1
  <1>6. DOMAIN f2[x] = Groups
    BY <1>1, <1>2
  <1>7. \A y \in D : DOMAIN f2[y] = Groups
    BY <1>3, <1>6 DEF Wide
  <1> QED BY <1>3, <1>4, <1>5, <1>7 DEF Wide, PutIn

(* The rows that a rank puts on the wire are those of its plan. *)
LEMMA WireOf ==
    ASSUME IInv, NEW a \in Att, att[a].step > 0, NEW s
    PROVE  WireRows(a, s) = Wire(plans[att[a].step], a, s)
  <1>1. amd[a] = Physical(Counts(plans[att[a].step], a))
    BY DEF IInv, AttInv, AttOK
  <1> QED BY <1>1 DEF WireRows, Wire

(* What the invariant says of an Attention rank and of its FFN rank. *)
LEMMA PairAt ==
    ASSUME IInv, NEW a \in Att, NEW r, r = att[a], NEW q, q = ffn[Owner(a)]
    PROVE  /\ Runs(Wd(plans, r.step), Wd(plans, q.step), r, q)
           /\ Pair(PlanAt(plans, r.step), Wd(plans, r.step), a, r, q, magic[WorldRank(a)],
                   magic[Owner(a)], toFfn[a], toAtt[a], win[a])
           /\ r.step \in 0 .. Len(plans) /\ q.step \in 0 .. Len(plans) /\ Len(plans) \in Nat
           /\ \A n \in 1 .. Len(plans) : /\ Wd(plans, n) \in 1 .. NumUbatches /\ Wd(plans, n) \in 1 .. 2
                                         /\ Wd(plans, n) = WidthOf(plans[n]) /\ RowsOK(plans[n])
                                         /\ PlanAt(plans, n) = plans[n]
           /\ (Wd(plans, r.step) /= 0 => r.step \in 1 .. Len(plans))
           /\ (Wd(plans, q.step) /= 0 => q.step \in 1 .. Len(plans))
  <1>1. PlansOK(plans) /\ AttOK(plans, a, r, amd[a]) /\ FfnOK(plans, Owner(a), q)
    BY OwnerOf DEF IInv, AttInv, FfnInv
  <1>2. Runs(Wd(plans, r.step), Wd(plans, q.step), r, q)
    BY <1>1, RunsOf
  <1>3. Pair(PlanAt(plans, r.step), Wd(plans, r.step), a, r, q, magic[WorldRank(a)],
             magic[Owner(a)], toFfn[a], toAtt[a], win[a])
    BY DEF IInv, PairsInv, PairOfRanks, PairOf
  <1>4. Len(plans) \in Nat
    BY <1>1, SequenceLen DEF PlansOK
  <1>5. r.step \in 0 .. Len(plans) /\ q.step \in 0 .. Len(plans)
    BY <1>1 DEF AttOK, FfnOK
  <1>6. \A n \in 1 .. Len(plans) : /\ Wd(plans, n) \in 1 .. NumUbatches /\ Wd(plans, n) \in 1 .. 2
                                   /\ Wd(plans, n) = WidthOf(plans[n]) /\ RowsOK(plans[n])
                                   /\ PlanAt(plans, n) = plans[n]
    BY <1>1, PlanOf
  <1>7. \A n \in 0 .. Len(plans) : Wd(plans, n) /= 0 => n \in 1 .. Len(plans)
    BY <1>4 DEF Wd
  <1> QED BY <1>2, <1>3, <1>4, <1>5, <1>6, <1>7

(* It announces the next step and begins it. *)
LEMMA SendControlStep == ASSUME IInv, NEW b \in Att, SendControl(b) PROVE IInv'
  <1>1. PICK n, p, counts : n = att[b].step + 1 /\ p = plans[n] /\ counts = Physical(Counts(p, b))
    OBVIOUS
  <1>2. Idle(att[b]) /\ n <= Len(plans)
    BY <1>1 DEF SendControl
  <1>3. /\ plans' = plans /\ ffn' = ffn /\ fmd' = fmd /\ graphs' = graphs
        /\ magic' = magic /\ toFfn' = toFfn /\ toAtt' = toAtt /\ win' = win
    BY DEF SendControl, ffnVars, winVars
  <1>4. PICK r2 : r2 = [step |-> n, ops |-> AttSchedule(WidthOf(p)), pc |-> 1]
    OBVIOUS
  <1>5. att' = [att EXCEPT ![b] = r2] /\ amd' = [amd EXCEPT ![b] = counts]
    BY <1>1, <1>4 DEF SendControl, WidthOf
  <1>6. ctl' = [j \in Ffn |-> IF j \notin Destinations(b) THEN ctl[j]
                              ELSE Append(ctl[j], Payload(p, b, n))]
    BY <1>1 DEF SendControl, Payload
  <1>7. DOMAIN att = Att /\ DOMAIN amd = Att
    BY DEF IInv, Types
  <1>8. /\ att'[b] = r2 /\ amd'[b] = counts
        /\ \A a \in Att : a /= b => att'[a] = att[a] /\ amd'[a] = amd[a]
    BY <1>5, <1>7
  <1>9. Len(plans) \in Nat /\ att[b].step \in 0 .. Len(plans)
    BY PairAt
  <1>10. n \in 1 .. Len(plans) /\ n \in Nat /\ n - 1 = att[b].step
    BY <1>1, <1>2, <1>9
  <1>11. /\ Wd(plans, n) \in 1 .. NumUbatches /\ Wd(plans, n) \in 1 .. 2
         /\ Wd(plans, n) = WidthOf(p) /\ PlanAt(plans, n) = p
    BY <1>1, <1>10, PairAt
  <1>12. Types'
    <2>1. DOMAIN att' = Att /\ DOMAIN amd' = Att /\ DOMAIN ctl' = Ffn
      BY <1>5, <1>6, <1>7
    <2> QED BY <1>3, <2>1 DEF IInv, Types
  <1>13. AttInv'
    <2>1. AttOK(plans, b, r2, counts)
      <3>1. Len(AttSchedule(Wd(plans, n))) \in Nat
        BY <1>11, AttProgram
      <3>2. r2.step = n /\ r2.ops = ProgA(Wd(plans, n)) /\ r2.pc = 1
        BY <1>4, <1>11 DEF ProgA
      <3>3. r2.pc \in 1 .. Len(r2.ops) + 1
        BY <1>4, <1>11, <3>1
      <3>4. r2 = [step |-> r2.step, ops |-> r2.ops, pc |-> r2.pc]
        BY <1>4
      <3>5. counts = Physical(Counts(plans[r2.step], b))
        BY <1>1, <3>2
      <3>6. r2.step \in 0 .. Len(plans)
        BY <1>10, <3>2
      <3> QED BY <3>2, <3>3, <3>4, <3>5, <3>6 DEF AttOK
    <2>2. ASSUME NEW a \in Att, a /= b PROVE AttOK(plans, a, att[a], amd[a])
      BY DEF IInv, AttInv
    <2> QED BY <1>3, <1>8, <2>1, <2>2 DEF AttInv
  <1>14. FfnInv'
    BY <1>3 DEF IInv, FfnInv
  <1>15. CtlInv'
    <2>1. ASSUME NEW j \in Ffn PROVE CtlOK(plans, j, ffn[j].step, att'[j].step, ctl'[j])
      <3>1. PICK k, c : k = ffn[j].step /\ c = ctl[j]
        OBVIOUS
      <3>2. CtlOK(plans, j, k, att[j].step, c) /\ j \in Att
        BY <3>1, SourceOf DEF IInv, CtlInv
      <3>3. CASE j = b
        <4>1. ctl'[j] = Append(c, Payload(p, b, n))
          BY <1>6, <3>1, <3>3, DestinationsOf
        <4>2. IsSequence(c) /\ Len(c) = (n - 1) - k
          BY <1>10, <3>2, <3>3 DEF CtlOK
        <4>3. Len(c) \in Nat /\ k \in Nat
          <5>1. k \in 0 .. Len(plans)
            BY <3>1 DEF IInv, FfnInv, FfnOK
          <5> QED BY <1>9, <4>2, <5>1, SequenceLen
        <4>4. PICK d : d = ctl'[j]
          OBVIOUS
        <4>5. /\ IsSequence(d) /\ Len(d) = Len(c) + 1
              /\ \A i \in 1 .. Len(c) : d[i] = c[i]
              /\ d[Len(c) + 1] = Payload(p, b, n)
          BY <4>1, <4>2, <4>4, SequenceAppend
        <4>6. Len(d) = n - k /\ k + (Len(c) + 1) = n
          BY <1>10, <4>2, <4>3, <4>5
        <4>7. ASSUME NEW i \in 1 .. Len(d) PROVE d[i] = Payload(plans[k + i], j, k + i)
          <5>1. CASE i \in 1 .. Len(c)
            BY <3>2, <4>5, <5>1 DEF CtlOK
          <5>2. CASE i = Len(c) + 1
            BY <1>1, <3>3, <4>5, <4>6, <5>2
          <5> QED BY <4>3, <4>5, <5>1, <5>2
        <4>8. att'[j].step = n
          BY <1>4, <1>8, <3>3
        <4>9. CtlOK(plans, j, k, n, d)
          BY <4>5, <4>6, <4>7 DEF CtlOK
        <4> QED BY <3>1, <4>4, <4>8, <4>9
      <3>4. CASE j /= b
        <4>1. ctl'[j] = c
          BY <1>6, <3>1, <3>4, DestinationsOf
        <4>2. att'[j] = att[j]
          BY <1>8, <3>2, <3>4
        <4> QED BY <3>1, <3>2, <4>1, <4>2
      <3> QED BY <3>3, <3>4
    <2> QED BY <1>3, <2>1 DEF CtlInv
  <1>16. GraphInv'
    BY <1>3 DEF IInv, GraphInv
  <1>17. PairsInv'
    <2>1. PairOf(plans, b, r2, ffn[Owner(b)], magic[WorldRank(b)], magic[Owner(b)],
                 toFfn[b], toAtt[b], win[b])
      <3>1. PICK r, q : r = att[b] /\ q = ffn[Owner(b)]
        OBVIOUS
      <3>2. PICK w, v : w = Wd(plans, r.step) /\ v = Wd(plans, q.step)
        OBVIOUS
      <3>3. PICK p1 : p1 = PlanAt(plans, r.step)
        OBVIOUS
      <3>4. Runs(w, v, r, q) /\ Pair(p1, w, b, r, q, magic[WorldRank(b)],
                                      magic[Owner(b)], toFfn[b], toAtt[b], win[b])
        BY <3>1, <3>2, <3>3, PairAt
      <3>5. PICK w2 : w2 = WidthOf(p)
        OBVIOUS
      <3>6. w2 \in 1 .. NumUbatches /\ (q.step = r.step + 1 => v = w2)
        BY <1>1, <1>11, <3>1, <3>2, <3>5
      <3>7. r2.step = r.step + 1 /\ r2.ops = AttSchedule(w2) /\ r2.pc = 1 /\ Idle(r)
        BY <1>1, <1>2, <1>4, <3>1, <3>5
      <3>8. Pair(p, w2, b, r2, q, magic[WorldRank(b)], magic[Owner(b)], toFfn[b], toAtt[b], win[b])
        BY <3>4, <3>6, <3>7, PairBegins
      <3>9. PlanAt(plans, r2.step) = p /\ Wd(plans, r2.step) = w2
        BY <1>4, <1>11, <3>5
      <3> QED BY <3>1, <3>8, <3>9 DEF PairOf
    <2>2. ASSUME NEW a \in Att, a /= b PROVE PairOfRanks(a)'
      <3>1. PairOfRanks(a)
        BY DEF IInv, PairsInv
      <3> QED BY <1>3, <1>8, <2>2, <3>1 DEF PairOfRanks
    <2>3. PairOfRanks(b)'
      BY <1>3, <1>8, <2>1 DEF PairOfRanks
    <2> QED BY <2>2, <2>3 DEF PairsInv
  <1>18. PlansOK(plans)'
    BY <1>3 DEF IInv
  <1> QED BY <1>12, <1>13, <1>14, <1>15, <1>16, <1>17, <1>18 DEF IInv

(* It comes to its next operation, of the step it is in. *)
LEMMA AttGoesOn ==
    ASSUME IInv, NEW b \in Att, ~Idle(att[b]), att' = [att EXCEPT ![b].pc = @ + 1],
           UNCHANGED <<plans, amd, ctl, ffn, graphs>>
    PROVE  /\ DOMAIN att' = Att /\ (\A a \in Att : a /= b => att'[a] = att[a])
           /\ att'[b].step = att[b].step /\ att'[b].ops = att[b].ops /\ att'[b].pc = att[b].pc + 1
           /\ att[b].step \in 1 .. Len(plans)
           /\ PlansOK(plans)' /\ AttInv' /\ FfnInv' /\ CtlInv' /\ GraphInv'
  <1>1. PICK r, r2 : r = att[b] /\ r2 = att'[b]
    OBVIOUS
  <1>2. DOMAIN att = Att
    BY DEF IInv, Types
  <1>3. AttOK(plans, b, r, amd[b])
    BY <1>1 DEF IInv, AttInv
  <1>4. r = [step |-> r.step, ops |-> r.ops, pc |-> r.pc] /\ r2 = [r EXCEPT !.pc = @ + 1]
    BY <1>1, <1>2, <1>3 DEF AttOK
  <1>5. r2.step = r.step /\ r2.ops = r.ops /\ r2.pc = r.pc + 1
    BY <1>4
  <1>6. \A a \in Att : a /= b => att'[a] = att[a]
    BY <1>2
  <1>7. Runs(Wd(plans, r.step), Wd(plans, ffn[Owner(b)].step), r, ffn[Owner(b)])
    BY <1>1, PairAt
  <1>8. PICK w, v, q : w = Wd(plans, r.step) /\ q = ffn[Owner(b)] /\ v = Wd(plans, q.step)
    OBVIOUS
  <1>9. w \in 1 .. 2 /\ Runs(w, v, r2, q)
    <2>1. PICK op : op = OpOf(r)
      OBVIOUS
    <2>2. PICK s : s = op.stage
      OBVIOUS
    <2>3. PICK x : x = Xs(w, r, s)
      OBVIOUS
    <2>4. Runs(w, v, r, q) /\ ~Idle(r)
      BY <1>1, <1>7, <1>8
    <2> QED BY <1>5, <2>1, <2>2, <2>3, <2>4, AttOpNow
  <1>10. r.step \in 1 .. Len(plans)
    BY <1>1, <1>8, <1>9, PairAt
  <1>11. r2.pc \in 1 .. Len(r2.ops) + 1
    BY <1>9 DEF Runs
  <1>12. AttOK(plans, b, r2, amd[b])
    <2>1. r2 = [step |-> r2.step, ops |-> r2.ops, pc |-> r2.pc]
      BY <1>4, <1>5
    <2> QED BY <1>3, <1>5, <1>11, <2>1 DEF AttOK
  <1>13. AttInv'
    <2>1. ASSUME NEW a \in Att, a /= b PROVE AttOK(plans, a, att[a], amd[a])
      BY DEF IInv, AttInv
    <2> QED BY <1>1, <1>6, <1>12, <2>1 DEF AttInv
  <1>14. CtlInv'
    <2>1. ASSUME NEW j \in Ffn PROVE CtlOK(plans, j, ffn[j].step, att'[j].step, ctl[j])
      <3>1. att'[j].step = att[j].step
        BY <1>1, <1>5, <1>6, SourceOf
      <3> QED BY <3>1 DEF IInv, CtlInv
    <2> QED BY <2>1 DEF CtlInv
  <1>15. PlansOK(plans)' /\ FfnInv' /\ GraphInv'
    BY DEF IInv, FfnInv, GraphInv
  <1>16. DOMAIN att' = Att
    BY <1>2
  <1> QED BY <1>1, <1>5, <1>6, <1>10, <1>13, <1>14, <1>15, <1>16

(* It fills its window. *)
LEMMA SendAttnOutputStep == ASSUME IInv, NEW b \in Att, SendAttnOutput(b) PROVE IInv'
  <1>1. PICK r, q : r = att[b] /\ q = ffn[Owner(b)]
    OBVIOUS
  <1>2. PICK op, g : op = OpOf(r) /\ g = GroupEp(op.stage)
    OBVIOUS
  <1>3. At(r, "send") /\ ~Idle(r)
    BY <1>1 DEF SendAttnOutput, At
  <1>4. /\ plans' = plans /\ amd' = amd /\ ctl' = ctl
        /\ ffn' = ffn /\ fmd' = fmd /\ graphs' = graphs
        /\ toAtt' = toAtt
    BY DEF SendAttnOutput, ffnVars
  <1>5. att' = [att EXCEPT ![b].pc = @ + 1]
    BY DEF SendAttnOutput
  <1>6. /\ DOMAIN att' = Att /\ (\A a \in Att : a /= b => att'[a] = att[a])
        /\ att'[b].step = r.step /\ att'[b].ops = r.ops /\ att'[b].pc = r.pc + 1
        /\ r.step \in 1 .. Len(plans)
        /\ PlansOK(plans)' /\ AttInv' /\ FfnInv' /\ CtlInv' /\ GraphInv'
    BY <1>1, <1>3, <1>4, <1>5, AttGoesOn
  <1>7. PICK w, v, p : w = Wd(plans, r.step) /\ v = Wd(plans, q.step) /\ p = plans[r.step]
    OBVIOUS
  <1>8. PlanAt(plans, r.step) = p /\ r.step > 0
    BY <1>1, <1>6, <1>7, PairAt
  <1>9. PICK ma, mf : ma = magic[WorldRank(b)] /\ mf = magic[Owner(b)]
    OBVIOUS
  <1>10. PICK ta, tf, wn : ta = toFfn[b] /\ tf = toAtt[b] /\ wn = win[b]
    OBVIOUS
  <1>11. Runs(w, v, r, q) /\ Pair(p, w, b, r, q, ma, mf, ta, tf, wn)
    BY <1>1, <1>7, <1>8, <1>9, <1>10, PairAt
  <1>12. w \in 0 .. NumUbatches /\ op.stage \in Stages(w)
    <2>1. PICK x, s, r2 : x = Xs(w, r, op.stage) /\ s = op.stage /\ r2 = att'[b]
      OBVIOUS
    <2>2. r2.step = r.step /\ r2.ops = r.ops /\ r2.pc = r.pc + 1
      BY <1>6, <2>1
    <2>3. s \in Stages(w)
      BY <1>2, <1>3, <1>11, <2>1, <2>2, AttOpNow
    <2> QED BY <1>11, <2>1, <2>3 DEF Runs
  <1>13. g = op.stage + 1 /\ g \in Groups
    BY <1>2, <1>12, GroupOf
  <1>14. PICK e : e = [from |-> "attention", rank |-> b, step |-> r.step,
                      layer |-> op.layer, stage |-> op.stage, rows |-> Wire(p, b, op.stage)]
    OBVIOUS
  <1>15. Transfer(b, op) = e
    <2>1. WireRows(b, op.stage) = Wire(p, b, op.stage)
      BY <1>1, <1>7, <1>8, WireOf
    <2> QED BY <1>1, <1>14, <2>1 DEF Transfer
  <1>16. Wide(magic, World) /\ Wide(toFfn, Att) /\ Wide(toAtt, Att) /\ Wide(win, Att)
    BY DEF IInv, Types
  <1>17. WorldRank(b) \in World
    BY WorldRanks
  <1>18. /\ win' = [win EXCEPT ![b][g] = e]
         /\ magic' = [magic EXCEPT ![WorldRank(b)][g] = ma[g] + 1]
         /\ toFfn' = [toFfn EXCEPT ![b][g] = ma[g] + 1]
    BY <1>1, <1>2, <1>9, <1>15 DEF SendAttnOutput
  <1>19. Wide(win', Att) /\ Put(win'[b], wn, g, e) /\ \A a \in Att : a /= b => win'[a] = win[a]
    <2>1. PutIn(win, win', Att, b, g, e)
      BY <1>13, <1>16, <1>18, PutAt
    <2> QED BY <1>10, <2>1 DEF PutIn
  <1>20. /\ Wide(magic', World) /\ Put(magic'[WorldRank(b)], ma, g, ma[g] + 1)
         /\ \A k \in World : k /= WorldRank(b) => magic'[k] = magic[k]
    <2>1. PutIn(magic, magic', World, WorldRank(b), g, ma[g] + 1)
      BY <1>13, <1>16, <1>17, <1>18, PutAt
    <2> QED BY <1>9, <2>1 DEF PutIn
  <1>21. /\ Wide(toFfn', Att) /\ Put(toFfn'[b], ta, g, ma[g] + 1)
         /\ \A a \in Att : a /= b => toFfn'[a] = toFfn[a]
    <2>1. PutIn(toFfn, toFfn', Att, b, g, ma[g] + 1)
      BY <1>13, <1>16, <1>18, PutAt
    <2> QED BY <1>10, <2>1 DEF PutIn
  <1>22. Types'
    BY <1>4, <1>6, <1>16, <1>19, <1>20, <1>21 DEF IInv, Types
  <1>23. \A a \in Att : magic'[Owner(a)] = magic[Owner(a)]
    BY <1>20, OwnerOf, WorldRanks
  <1>24. PairOfRanks(b)'
    <2>1. PICK r2, ma2, ta2, wn2 : r2 = att'[b] /\ ma2 = magic'[WorldRank(b)]
                                   /\ ta2 = toFfn'[b] /\ wn2 = win'[b]
      OBVIOUS
    <2>2. r2.step = r.step /\ r2.ops = r.ops /\ r2.pc = r.pc + 1
      BY <1>6, <2>1
    <2>3. Put(ma2, ma, g, ma[g] + 1) /\ Put(ta2, ta, g, ma[g] + 1) /\ Put(wn2, wn, g, e)
      BY <1>19, <1>20, <1>21, <2>1
    <2>4. Pair(p, w, b, r2, q, ma2, mf, ta2, tf, wn2)
      BY <1>2, <1>3, <1>11, <1>13, <1>14, <2>2, <2>3, PairSends
    <2>5. PairOf(plans, b, r2, q, ma2, mf, ta2, tf, wn2)
      BY <1>7, <1>8, <2>2, <2>4 DEF PairOf
    <2> QED BY <1>1, <1>4, <1>9, <1>10, <1>23, <2>1, <2>5 DEF PairOfRanks
  <1>25. PairsInv'
    <2>1. ASSUME NEW a \in Att, a /= b PROVE PairOfRanks(a)'
      <3>1. PairOfRanks(a)
        BY DEF IInv, PairsInv
      <3>2. magic'[WorldRank(a)] = magic[WorldRank(a)]
        BY <1>20, <2>1, WorldRanks
      <3> QED BY <1>4, <1>6, <1>19, <1>21, <1>23, <2>1, <3>1, <3>2 DEF PairOfRanks
    <2> QED BY <1>24, <2>1 DEF PairsInv
  <1> QED BY <1>6, <1>22, <1>25 DEF IInv

(* It takes the output from its window. *)
LEMMA RecvFfnOutputStep == ASSUME IInv, NEW b \in Att, RecvFfnOutput(b) PROVE IInv'
  <1>1. PICK r, q : r = att[b] /\ q = ffn[Owner(b)]
    OBVIOUS
  <1>2. PICK op, g : op = OpOf(r) /\ g = GroupEp(op.stage)
    OBVIOUS
  <1>3. At(r, "recv") /\ ~Idle(r)
    BY <1>1 DEF RecvFfnOutput, OutputReady, At
  <1>4. /\ plans' = plans /\ amd' = amd /\ ctl' = ctl
        /\ ffn' = ffn /\ fmd' = fmd /\ graphs' = graphs
        /\ toFfn' = toFfn /\ toAtt' = toAtt /\ win' = win
    BY DEF RecvFfnOutput, ffnVars
  <1>5. att' = [att EXCEPT ![b].pc = @ + 1]
    BY DEF RecvFfnOutput
  <1>6. /\ DOMAIN att' = Att /\ (\A a \in Att : a /= b => att'[a] = att[a])
        /\ att'[b].step = r.step /\ att'[b].ops = r.ops /\ att'[b].pc = r.pc + 1
        /\ r.step \in 1 .. Len(plans)
        /\ PlansOK(plans)' /\ AttInv' /\ FfnInv' /\ CtlInv' /\ GraphInv'
    BY <1>1, <1>3, <1>4, <1>5, AttGoesOn
  <1>7. PICK w, v, p : w = Wd(plans, r.step) /\ v = Wd(plans, q.step) /\ p = plans[r.step]
    OBVIOUS
  <1>8. PlanAt(plans, r.step) = p
    BY <1>1, <1>6, <1>7, PairAt
  <1>9. PICK ma, mf : ma = magic[WorldRank(b)] /\ mf = magic[Owner(b)]
    OBVIOUS
  <1>10. PICK ta, tf, wn : ta = toFfn[b] /\ tf = toAtt[b] /\ wn = win[b]
    OBVIOUS
  <1>11. Runs(w, v, r, q) /\ Pair(p, w, b, r, q, ma, mf, ta, tf, wn)
    BY <1>1, <1>7, <1>8, <1>9, <1>10, PairAt
  <1>12. w \in 0 .. NumUbatches /\ op.stage \in Stages(w)
    <2>1. PICK x, s, r2 : x = Xs(w, r, op.stage) /\ s = op.stage /\ r2 = att'[b]
      OBVIOUS
    <2>2. r2.step = r.step /\ r2.ops = r.ops /\ r2.pc = r.pc + 1
      BY <1>6, <2>1
    <2>3. s \in Stages(w)
      BY <1>2, <1>3, <1>11, <2>1, <2>2, AttOpNow
    <2> QED BY <1>11, <2>1, <2>3 DEF Runs
  <1>13. g = op.stage + 1 /\ g \in Groups
    BY <1>2, <1>12, GroupOf
  <1>14. Wide(magic, World) /\ WorldRank(b) \in World
    BY WorldRanks DEF IInv, Types
  <1>15. tf[g] = ma[g] + 1 /\ magic' = [magic EXCEPT ![WorldRank(b)][g] = ma[g] + 1]
    BY <1>1, <1>2, <1>9, <1>10 DEF RecvFfnOutput, OutputReady
  <1>16. /\ Wide(magic', World) /\ Put(magic'[WorldRank(b)], ma, g, ma[g] + 1)
         /\ \A k \in World : k /= WorldRank(b) => magic'[k] = magic[k]
    <2>1. PutIn(magic, magic', World, WorldRank(b), g, ma[g] + 1)
      BY <1>13, <1>14, <1>15, PutAt
    <2> QED BY <1>9, <2>1 DEF PutIn
  <1>17. Types'
    BY <1>4, <1>6, <1>16 DEF IInv, Types
  <1>18. \A a \in Att : magic'[Owner(a)] = magic[Owner(a)]
    BY <1>16, OwnerOf, WorldRanks
  <1>19. PairOfRanks(b)'
    <2>1. PICK r2, ma2 : r2 = att'[b] /\ ma2 = magic'[WorldRank(b)]
      OBVIOUS
    <2>2. r2.step = r.step /\ r2.ops = r.ops /\ r2.pc = r.pc + 1
      BY <1>6, <2>1
    <2>3. Put(ma2, ma, g, ma[g] + 1)
      BY <1>16, <2>1
    <2>4. g = op.stage + 1 /\ tf[g] = ma[g] + 1 /\ op = OpOf(r) /\ At(r, "recv")
      BY <1>2, <1>3, <1>13, <1>15
    <2>6. Pair(p, w, b, r2, q, ma2, mf, ta, tf, wn)
      <3>1. Received(p, w, v, b, r, r2, q, ma2, mf, ta, tf, wn, op, g)
        BY <1>11, <2>2, <2>3, <2>4, PairReceives
      <3> QED BY <3>1 DEF Received
    <2>5. PairOf(plans, b, r2, q, ma2, mf, ta, tf, wn)
      BY <1>7, <1>8, <2>2, <2>6 DEF PairOf
    <2> QED BY <1>1, <1>4, <1>9, <1>10, <1>18, <2>1, <2>5 DEF PairOfRanks
  <1>20. PairsInv'
    <2>1. ASSUME NEW a \in Att, a /= b PROVE PairOfRanks(a)'
      <3>1. PairOfRanks(a)
        BY DEF IInv, PairsInv
      <3>2. magic'[WorldRank(a)] = magic[WorldRank(a)]
        BY <1>16, <2>1, WorldRanks
      <3> QED BY <1>4, <1>6, <1>18, <2>1, <3>1, <3>2 DEF PairOfRanks
    <2> QED BY <1>19, <2>1 DEF PairsInv
  <1> QED BY <1>6, <1>17, <1>20 DEF IInv

----------------------------------------------------------------------------
(***************************************************************************)
(* Steps of an FFN rank.                                                   *)
(***************************************************************************)
(* A replayed step has the counts of a captured one before it, and every second
   step of the warmup is a capture. *)
LEMMA Captured ==
    ASSUME NEW pl, PlansOK(pl), NEW n \in 1 .. Len(pl), NEW j
    PROVE  /\ pl[n].kind = "replay" =>
                \E i \in 1 .. Len(CaptureDescs) :
                    2 * i <= n - 1 /\ Counts(CapturePlans[2 * i], j) = Counts(pl[n], j)
           /\ \A i \in 1 .. Len(CaptureDescs) :
                2 * i = n => pl[n] = CapturePlans[2 * i] /\ pl[n].kind = "capture"
  <1>1. /\ Len(CaptureDescs) \in Nat /\ DOMAIN CaptureDescs = 1 .. Len(CaptureDescs)
        /\ Len(pl) \in Nat
    BY Inputs, SequenceLen DEF PlansOK
  <1>2. n \in Nat /\ n >= 1
    BY <1>1
  <1>3. ASSUME NEW i \in 1 .. Len(CaptureDescs)
        PROVE  /\ CapturePlans[2 * i] = DescPlan("capture", CaptureDescs[i])
               /\ 2 * i \in 1 .. Warmups
    <2>1. i \in Nat /\ 2 * i \in 1 .. 2 * Len(CaptureDescs)
      BY <1>1
    <2>2. (2 * i) % 2 /= 1 /\ (2 * i + 1) \div 2 = i
      BY <2>1
    <2>3. PICK k : k = 2 * i
      OBVIOUS
    <2>4. CapturePlans[k] = DescPlan(IF k % 2 = 1 THEN "warmup" ELSE "capture",
                                     CaptureDescs[(k + 1) \div 2])
      BY <2>1, <2>3 DEF CapturePlans
    <2> QED BY <2>1, <2>2, <2>3, <2>4 DEF Warmups
  <1>4. ASSUME NEW i \in 1 .. Len(CaptureDescs), 2 * i = n
        PROVE  pl[n] = CapturePlans[2 * i] /\ pl[n].kind = "capture"
    <2>1. pl[n] = CapturePlans[2 * i]
      BY <1>1, <1>3, <1>4 DEF PlansOK, Warmups
    <2>2. PICK d, k : d = CaptureDescs[i] /\ k = 2 * i
      OBVIOUS
    <2>3. CapturePlans[k] = DescPlan("capture", d)
      BY <1>3, <2>2
    <2>4. DescPlan("capture", d).kind = "capture"
      BY DEF DescPlan, Plan
    <2> QED BY <2>1, <2>2, <2>3, <2>4
  <1>5. ASSUME pl[n].kind = "replay"
        PROVE  \E i \in 1 .. Len(CaptureDescs) :
                   2 * i <= n - 1 /\ Counts(CapturePlans[2 * i], j) = Counts(pl[n], j)
    <2>1. n > Warmups
      <3> SUFFICES ASSUME n <= Warmups PROVE FALSE
        BY <1>1 DEF Warmups
      <3>1. n \in 1 .. 2 * Len(CaptureDescs)
        BY <1>1, <1>2 DEF Warmups
      <3>2. pl[n] = DescPlan(IF n % 2 = 1 THEN "warmup" ELSE "capture", CaptureDescs[(n + 1) \div 2])
        BY <3>1 DEF PlansOK, CapturePlans
      <3>3. pl[n].kind = IF n % 2 = 1 THEN "warmup" ELSE "capture"
        BY <3>2 DEF DescPlan, Plan
      <3> QED BY <1>5, <3>3
    <2>2. pl[n] \in ServingPlans
      BY <2>1 DEF PlansOK
    <2>3. \A c, m : Plan("eager", m, c).kind = "eager"
      BY DEF Plan
    <2>4. \A m, first : LivePlan(m, first).kind = "eager"
      BY DEF LivePlan
    <2>5. PICK i \in DOMAIN CaptureDescs : pl[n] = DescPlan("replay", CaptureDescs[i])
      BY <1>5, <2>2, <2>3, <2>4 DEF ServingPlans
    <2>6. CapturePlans[2 * i].rows = pl[n].rows
      <3>1. PICK d, k : d = CaptureDescs[i] /\ k = 2 * i
        OBVIOUS
      <3>2. CapturePlans[k] = DescPlan("capture", d) /\ pl[n] = DescPlan("replay", d)
        BY <1>1, <1>3, <2>5, <3>1
      <3>3. DescPlan("capture", d).rows = DescPlan("replay", d).rows
        BY DEF DescPlan, Plan
      <3> QED BY <3>1, <3>2, <3>3
    <2>7. Counts(CapturePlans[2 * i], j) = Counts(pl[n], j)
      BY <2>6 DEF Counts, OwnRows
    <2>8. i \in 1 .. Len(CaptureDescs) /\ 2 * i <= n - 1
      BY <1>1, <1>2, <2>1 DEF Warmups
    <2> QED BY <2>7, <2>8
  <1> QED BY <1>4, <1>5

(* The next payload of an FFN rank is that of the next step of its source, and
   announces the counts of the plan. *)
LEMMA NextPayload ==
    ASSUME IInv, NEW j \in Ffn, Ready(j), NEW n, n = ffn[j].step + 1,
           NEW pay, pay = Head(ctl[j]), NEW p, p = plans[n],
           NEW c, c = Counts(p, j)
    PROVE  /\ n \in 1 .. Len(plans) /\ n \in Nat /\ ffn[j].step \in Nat /\ ffn[j].step = n - 1
           /\ CtlOK(plans, j, n, att[j].step, Tail(ctl[j]))
           /\ pay.step = n /\ pay.kind = p.kind /\ Cardinality(DOMAIN pay.counts) = Wd(plans, n)
           /\ BatchSizes(Physical(pay.counts), j) = BatchSizes(c, j)
           /\ GraphKey(pay.counts, j) = GraphKey(c, j)
           /\ Own(GraphKey(c, j), j) = BatchSizes(c, j)
  <1>1. PICK b, k : b = ctl[j] /\ k = att[j].step
    OBVIOUS
  <1>2. CtlOK(plans, j, ffn[j].step, k, b) /\ b /= <<>> /\ j \in Att /\ Owner(j) = j
    BY <1>1, SourceOf DEF IInv, CtlInv, Ready
  <1>3. k \in 0 .. Len(plans) /\ ffn[j].step \in 0 .. Len(plans) /\ Len(plans) \in Nat
    BY <1>1, <1>2, PairAt
  <1>4. /\ Len(b) > 0 /\ pay = b[1] /\ Len(b) \in Nat
        /\ IsSequence(Tail(b)) /\ Len(Tail(b)) = Len(b) - 1
        /\ \A i \in 1 .. Len(b) - 1 : Tail(b)[i] = b[i + 1]
    BY <1>1, <1>2, SequenceTail, SequenceLen DEF CtlOK
  <1>5. Len(b) = k - ffn[j].step
    BY <1>2 DEF CtlOK
  <1>6. n \in 1 .. Len(plans) /\ n \in Nat /\ ffn[j].step \in Nat /\ ffn[j].step = n - 1
    <2>1. PICK m, t, N : m = Len(b) /\ t = ffn[j].step /\ N = Len(plans)
      OBVIOUS
    <2>2. m > 0 /\ m \in Nat /\ m = k - t /\ k \in 0 .. N /\ t \in 0 .. N /\ N \in Nat /\ n = t + 1
      BY <1>3, <1>4, <1>5, <2>1
    <2>3. n \in 1 .. N /\ n \in Nat /\ t \in Nat /\ t = n - 1
      BY <2>2
    <2> QED BY <2>1, <2>3
  <1>7. \A i \in 1 .. Len(b) : b[i] = Payload(plans[ffn[j].step + i], j, ffn[j].step + i)
    BY <1>2 DEF CtlOK
  <1>8. pay = Payload(p, j, n)
    <2>1. 1 \in 1 .. Len(b)
      BY <1>4
    <2> QED BY <1>4, <1>7, <2>1
  <1>9. CtlOK(plans, j, n, k, Tail(b))
    <2>1. Len(Tail(b)) = k - n
      BY <1>3, <1>4, <1>5, <1>6
    <2>2. ASSUME NEW i \in 1 .. Len(Tail(b)) PROVE Tail(b)[i] = Payload(plans[n + i], j, n + i)
      <3>1. i \in 1 .. Len(b) - 1 /\ i + 1 \in 1 .. Len(b) /\ ffn[j].step + (i + 1) = n + i
        BY <1>4, <1>6
      <3> QED BY <1>4, <1>7, <3>1
    <2> QED BY <1>4, <2>1, <2>2 DEF CtlOK
  <1>10. pay.step = n /\ pay.kind = p.kind /\ pay.counts = Physical(c)
    BY <1>8 DEF Payload
  <1>11. PICK w : w = WidthOf(p)
    OBVIOUS
  <1>12. RowsOK(p) /\ Wd(plans, n) = w
    BY <1>2, <1>6, <1>11, PairAt
  <1>13. /\ SameTokens(c, Physical(c), w) /\ SameTokens(c, Physical(Physical(c)), w)
         /\ Cardinality(DOMAIN Physical(c)) = w
    BY <1>2, <1>11, <1>12, Announced
  <1>14. BatchSizes(Physical(Physical(c)), j) = BatchSizes(c, j)
    BY <1>13, BatchesSame
  <1>15. /\ GraphKey(Physical(c), j) = GraphKey(c, j)
         /\ [s \in DOMAIN GraphKey(Physical(c), j) |-> GraphKey(Physical(c), j)[s][j]] = BatchSizes(c, j)
    BY <1>13, BatchesSame
  <1>16. Own(GraphKey(c, j), j) = BatchSizes(c, j)
    BY <1>15 DEF Own
  <1> QED BY <1>1, <1>6, <1>9, <1>10, <1>12, <1>13, <1>14, <1>15, <1>16

(* It begins the step of its payload with what it derives from it. *)
Begins(j, mode, batch) == ffn' = [ffn EXCEPT ![j] = Begin(Head(ctl[j]), mode, batch)]
ModeOf(mode, p) == FFNGraphs => (mode = "replay" <=> p.kind = "replay")

LEMMA BeginStep ==
    ASSUME IInv, NEW j \in Ffn, TakePayload(j), NEW n, n = ffn[j].step + 1,
           NEW mode, NEW batch, Begins(j, mode, batch),
           batch = BatchSizes(Counts(plans[n], j), j), ModeOf(mode, plans[n]),
           DOMAIN fmd' = Ffn, DOMAIN graphs' = Ffn, GraphOK(j, n, graphs'[j]),
           \A k \in Ffn : k /= j => graphs'[k] = graphs[k]
    PROVE  IInv'
  <1>1. PICK pay, p, q2 : pay = Head(ctl[j]) /\ p = plans[n] /\ q2 = Begin(pay, mode, batch)
    OBVIOUS
  <1>2. /\ n \in 1 .. Len(plans) /\ n \in Nat /\ ffn[j].step \in Nat
        /\ CtlOK(plans, j, n, att[j].step, Tail(ctl[j]))
        /\ pay.step = n /\ Cardinality(DOMAIN pay.counts) = Wd(plans, n)
    BY <1>1, NextPayload DEF TakePayload
  <1>3. /\ plans' = plans /\ att' = att /\ amd' = amd
        /\ magic' = magic /\ toFfn' = toFfn /\ toAtt' = toAtt /\ win' = win
        /\ ctl' = [ctl EXCEPT ![j] = Tail(@)] /\ Idle(ffn[j])
    BY DEF TakePayload, Ready, attVars, winVars
  <1>4. DOMAIN ffn = Ffn /\ DOMAIN ctl = Ffn
    BY DEF IInv, Types
  <1>5. /\ ffn'[j] = q2 /\ (\A k \in Ffn : k /= j => ffn'[k] = ffn[k]) /\ DOMAIN ffn' = Ffn
        /\ ctl'[j] = Tail(ctl[j]) /\ (\A k \in Ffn : k /= j => ctl'[k] = ctl[k])
        /\ DOMAIN ctl' = Ffn
    BY <1>1, <1>3, <1>4 DEF Begins
  <1>6. PICK v2 : v2 = Wd(plans, n)
    OBVIOUS
  <1>7. /\ q2.step = n /\ q2.ops = FfnSchedule(v2) /\ q2.pc = 1 /\ q2.batch = batch
        /\ q2.mode = mode
        /\ q2 = [step |-> q2.step, mode |-> q2.mode, batch |-> q2.batch, got |-> q2.got,
                 ops |-> q2.ops, pc |-> q2.pc]
    BY <1>1, <1>2, <1>6 DEF Begin
  <1>8. v2 \in 1 .. NumUbatches /\ v2 \in 1 .. 2 /\ Len(plans) \in Nat
    BY <1>2, <1>6, SourceOf, PairAt
  <1>9. Types'
    BY <1>3, <1>5 DEF IInv, Types
  <1>10. AttInv' /\ PlansOK(plans)'
    BY <1>3 DEF IInv, AttInv
  <1>11. FfnInv'
    <2>1. FfnOK(plans, j, q2)
      <3>1. Len(FfnSchedule(v2)) \in Nat
        BY <1>8, FfnProgram
      <3>2. q2.ops = ProgF(Wd(plans, q2.step))
        BY <1>6, <1>7, <1>8 DEF ProgF
      <3>3. q2.pc \in 1 .. Len(q2.ops) + 1
        BY <1>7, <3>1
      <3>4. BatchOK(plans[q2.step], j, q2)
        BY <1>7 DEF BatchOK, ModeOf
      <3>5. q2.step \in 0 .. Len(plans)
        BY <1>2, <1>7, <1>8
      <3> QED BY <1>7, <3>2, <3>3, <3>4, <3>5 DEF FfnOK
    <2>2. ASSUME NEW k \in Ffn, k /= j PROVE FfnOK(plans, k, ffn[k])
      BY DEF IInv, FfnInv
    <2> QED BY <1>3, <1>5, <2>1, <2>2 DEF FfnInv
  <1>12. CtlInv'
    <2>1. ASSUME NEW k \in Ffn, k /= j PROVE CtlOK(plans, k, ffn[k].step, att[k].step, ctl[k])
      BY DEF IInv, CtlInv
    <2> QED BY <1>2, <1>3, <1>5, <1>7, <2>1 DEF CtlInv
  <1>13. GraphInv'
    <2>1. ASSUME NEW k \in Ffn, k /= j PROVE GraphOK(k, ffn[k].step, graphs[k])
      BY DEF IInv, GraphInv
    <2> QED BY <1>5, <1>7, <2>1 DEF GraphInv
  <1>14. PairsInv'
    <2>1. ASSUME NEW a \in Att, Owner(a) = j
          PROVE  PairOf(plans, a, att[a], q2, magic[WorldRank(a)], magic[Owner(a)],
                        toFfn[a], toAtt[a], win[a])
      <3>1. PICK r, q : r = att[a] /\ q = ffn[j]
        OBVIOUS
      <3>2. PICK w, v, p1 : w = Wd(plans, r.step) /\ v = Wd(plans, q.step) /\ p1 = PlanAt(plans, r.step)
        OBVIOUS
      <3>3. Runs(w, v, r, q) /\ Pair(p1, w, a, r, q, magic[WorldRank(a)],
                                      magic[Owner(a)], toFfn[a], toAtt[a], win[a])
        BY <2>1, <3>1, <3>2, PairAt
      <3>4. r.step = q.step + 1 => w = v2
        BY <1>6, <3>1, <3>2
      <3>5. q2.step = q.step + 1 /\ Idle(q)
        BY <1>3, <1>7, <3>1
      <3>6. Pair(p1, w, a, r, q2, magic[WorldRank(a)], magic[Owner(a)], toFfn[a], toAtt[a], win[a])
        BY <1>7, <1>8, <3>3, <3>4, <3>5, PairTakes
      <3> QED BY <3>1, <3>2, <3>6 DEF PairOf
    <2>2. ASSUME NEW a \in Att, Owner(a) /= j PROVE PairOfRanks(a)'
      <3>1. PairOfRanks(a) /\ ffn'[Owner(a)] = ffn[Owner(a)]
        BY <1>5, <2>2, OwnerOf DEF IInv, PairsInv
      <3> QED BY <1>3, <3>1 DEF PairOfRanks
    <2>3. ASSUME NEW a \in Att, Owner(a) = j PROVE PairOfRanks(a)'
      BY <1>3, <1>5, <2>1, <2>3 DEF PairOfRanks
    <2> QED BY <2>2, <2>3 DEF PairsInv
  <1> QED BY <1>9, <1>10, <1>11, <1>12, <1>13, <1>14 DEF IInv

(* It replays a graph: the one of the announced counts. *)
LEMMA ReplayStep == ASSUME IInv, NEW j \in Ffn, Replay(j) PROVE IInv'
  <1>1. PICK n, pay, p, c, gr : /\ n = ffn[j].step + 1 /\ pay = Head(ctl[j]) /\ p = plans[n]
                                /\ c = Counts(p, j) /\ gr = graphs[j]
    OBVIOUS
  <1>2. PICK key : key = GraphKey(c, j)
    OBVIOUS
  <1>3. /\ TakePayload(j) /\ Ready(j) /\ pay.kind = "replay" /\ graphs' = graphs
        /\ GraphKey(pay.counts, j) \in DOMAIN gr
        /\ ffn' = [ffn EXCEPT ![j] = Begin(pay, "replay", gr[GraphKey(pay.counts, j)])]
    BY <1>1 DEF Replay, Replays, TakePayload
  <1>4. /\ n \in 1 .. Len(plans) /\ n \in Nat /\ ffn[j].step = n - 1 /\ pay.kind = p.kind
        /\ GraphKey(pay.counts, j) = key /\ Own(key, j) = BatchSizes(c, j)
    <2>1. /\ n \in 1 .. Len(plans) /\ n \in Nat /\ ffn[j].step = n - 1 /\ pay.kind = p.kind
          /\ GraphKey(pay.counts, j) = GraphKey(c, j)
          /\ Own(GraphKey(c, j), j) = BatchSizes(c, j)
      BY <1>1, <1>3, NextPayload
    <2> QED BY <1>2, <2>1
  <1>5. GraphOK(j, n - 1, gr)
    BY <1>1, <1>4 DEF IInv, GraphInv
  <1>6. gr[key] = BatchSizes(c, j)
    BY <1>3, <1>4, <1>5 DEF GraphOK
  <1>7. p.kind = "replay" /\ PlansOK(plans)
    BY <1>3, <1>4 DEF IInv
  <1>8. GraphOK(j, n, gr)
    <2>1. \A i \in 1 .. Len(CaptureDescs) : 2 * i /= n
      BY <1>1, <1>4, <1>7, Captured
    <2>2. ASSUME NEW i \in 1 .. Len(CaptureDescs), 2 * i <= n PROVE 2 * i <= n - 1
      <3>1. 2 * i /= n
        BY <2>1
      <3> QED BY <1>4, <2>2, <3>1, Inputs
    <2> QED BY <1>5, <2>2 DEF GraphOK
  <1>9. DOMAIN graphs' = Ffn /\ DOMAIN fmd' = Ffn /\ graphs' = graphs
    BY DEF IInv, Types, Replay
  <1>10. PICK batch : batch = gr[key]
    OBVIOUS
  <1>11. Begins(j, "replay", batch)
    BY <1>1, <1>3, <1>4, <1>10 DEF Begins
  <1>12. batch = BatchSizes(Counts(plans[n], j), j) /\ ModeOf("replay", plans[n])
    BY <1>1, <1>6, <1>7, <1>10 DEF ModeOf
  <1> QED BY <1>1, <1>3, <1>8, <1>9, <1>11, <1>12, BeginStep

(* It runs the model on what the connector's state says: no plan that Attention
   replays comes here when the FFN ranks have captured their graphs. *)
LEMMA ForwardStep == ASSUME IInv, NEW j \in Ffn, Forward(j) PROVE IInv'
  <1>1. PICK n, pay, p, c, gr : /\ n = ffn[j].step + 1 /\ pay = Head(ctl[j]) /\ p = plans[n]
                                /\ c = Counts(p, j) /\ gr = graphs[j]
    OBVIOUS
  <1>2. PICK key : key = GraphKey(c, j)
    OBVIOUS
  <1>3. /\ TakePayload(j) /\ Ready(j) /\ graphs' = graphs
        /\ ~Captures(pay) /\ ~Replays(j, pay)
        /\ fmd' = [fmd EXCEPT ![j] = Physical(pay.counts)]
        /\ ffn' = [ffn EXCEPT ![j] = Begin(pay, "forward", BatchSizes(fmd'[j], j))]
    BY <1>1 DEF Forward, TakePayload
  <1>4. /\ n \in 1 .. Len(plans) /\ n \in Nat /\ ffn[j].step = n - 1 /\ pay.kind = p.kind
        /\ GraphKey(pay.counts, j) = key
        /\ BatchSizes(Physical(pay.counts), j) = BatchSizes(c, j)
    BY <1>1, <1>2, <1>3, NextPayload
  <1>5. GraphOK(j, n - 1, gr) /\ PlansOK(plans)
    BY <1>1, <1>4 DEF IInv, GraphInv
  <1>6. DOMAIN fmd = Ffn /\ DOMAIN graphs' = Ffn /\ DOMAIN fmd' = Ffn /\ fmd'[j] = Physical(pay.counts)
    BY <1>3 DEF IInv, Types
  <1>7. Begins(j, "forward", BatchSizes(c, j))
    BY <1>1, <1>3, <1>4, <1>6 DEF Begins
  <1>8. FFNGraphs => p.kind /= "replay"
    <2> SUFFICES ASSUME FFNGraphs, p.kind = "replay" PROVE FALSE
      OBVIOUS
    <2>1. PICK i \in 1 .. Len(CaptureDescs) :
            2 * i <= n - 1 /\ Counts(CapturePlans[2 * i], j) = c
      BY <1>1, <1>4, <1>5, Captured
    <2>2. key \in DOMAIN gr
      BY <1>2, <1>5, <2>1 DEF GraphOK
    <2> QED BY <1>1, <1>3, <1>4, <2>2 DEF Replays
  <1>9. GraphOK(j, n, gr)
    <2>1. ASSUME FFNGraphs, NEW i \in 1 .. Len(CaptureDescs), 2 * i <= n PROVE 2 * i <= n - 1
      <3>1. p.kind /= "capture"
        BY <1>3, <1>4, <2>1 DEF Captures
      <3>2. 2 * i /= n
        BY <1>1, <1>4, <1>5, <3>1, Captured
      <3> QED BY <1>4, <2>1, <3>2, Inputs
    <2> QED BY <1>5, <2>1 DEF GraphOK
  <1>10. PICK batch : batch = BatchSizes(c, j)
    OBVIOUS
  <1>11. /\ Begins(j, "forward", batch)
         /\ batch = BatchSizes(Counts(plans[n], j), j)
    BY <1>1, <1>7, <1>10
  <1>12. ModeOf("forward", plans[n])
    BY <1>1, <1>8 DEF ModeOf
  <1> QED BY <1>1, <1>3, <1>6, <1>9, <1>11, <1>12, BeginStep

(* It captures a graph of the announced counts, if it has none. *)
LEMMA CaptureStep == ASSUME IInv, NEW j \in Ffn, Capture(j) PROVE IInv'
  <1>1. PICK n, pay, p, c, gr : /\ n = ffn[j].step + 1 /\ pay = Head(ctl[j]) /\ p = plans[n]
                                /\ c = Counts(p, j) /\ gr = graphs[j]
    OBVIOUS
  <1>2. PICK key, b : key = GraphKey(c, j) /\ b = BatchSizes(c, j)
    OBVIOUS
  <1>3. /\ TakePayload(j) /\ Ready(j) /\ Captures(pay)
        /\ fmd' = [fmd EXCEPT ![j] = Physical(pay.counts)]
        /\ ffn' = [ffn EXCEPT ![j] = CaptureRun(j, pay, fmd'[j])]
    BY <1>1 DEF Capture, TakePayload
  <1>4. /\ n \in 1 .. Len(plans) /\ n \in Nat /\ ffn[j].step = n - 1 /\ pay.kind = p.kind
        /\ GraphKey(pay.counts, j) = key
        /\ BatchSizes(Physical(pay.counts), j) = b /\ Own(key, j) = b
    <2>1. /\ n \in 1 .. Len(plans) /\ n \in Nat /\ ffn[j].step = n - 1 /\ pay.kind = p.kind
          /\ GraphKey(pay.counts, j) = GraphKey(c, j)
          /\ BatchSizes(Physical(pay.counts), j) = BatchSizes(c, j)
          /\ Own(GraphKey(c, j), j) = BatchSizes(c, j)
      BY <1>1, <1>3, NextPayload
    <2> QED BY <1>2, <2>1
  <1>5. GraphOK(j, n - 1, gr) /\ PlansOK(plans)
    BY <1>1, <1>4 DEF IInv, GraphInv
  <1>6. /\ DOMAIN graphs = Ffn /\ DOMAIN fmd = Ffn /\ DOMAIN fmd' = Ffn
        /\ fmd'[j] = Physical(pay.counts)
    BY <1>3 DEF IInv, Types
  <1>7. graphs' = IF key \in DOMAIN gr THEN graphs
                  ELSE [graphs EXCEPT ![j] = [k \in DOMAIN gr \cup {key} |->
                            IF k = key THEN b ELSE gr[k]]]
    <2>1. PICK k2, b2 : k2 = GraphKey(pay.counts, j) /\ b2 = BatchSizes(fmd'[j], j)
      OBVIOUS
    <2>2. graphs' = IF k2 \in DOMAIN graphs[j] THEN graphs
                    ELSE [graphs EXCEPT ![j] = [k \in DOMAIN graphs[j] \cup {k2} |->
                              IF k = k2 THEN b2 ELSE graphs[j][k]]]
      BY <1>1, <1>6, <2>1 DEF Capture
    <2>3. k2 = key /\ b2 = b
      BY <1>4, <1>6, <2>1
    <2> QED BY <1>1, <2>2, <2>3
  <1>8. PICK gr2 : gr2 = graphs'[j]
    OBVIOUS
  <1>9. DOMAIN graphs' = Ffn /\ \A k \in Ffn : k /= j => graphs'[k] = graphs[k]
    BY <1>6, <1>7
  <1>10. /\ DOMAIN gr2 = DOMAIN gr \cup {key}
         /\ \A k \in DOMAIN gr2 : (k \in DOMAIN gr /\ gr2[k] = gr[k]) \/ (k = key /\ gr2[k] = b)
    <2>1. CASE key \in DOMAIN gr
      BY <1>1, <1>7, <1>8, <2>1
    <2>2. CASE key \notin DOMAIN gr
      <3>1. gr2 = [k \in DOMAIN gr \cup {key} |-> IF k = key THEN b ELSE gr[k]]
        BY <1>6, <1>7, <1>8, <2>2
      <3> QED BY <3>1
    <2> QED BY <2>1, <2>2
  <1>11. GraphOK(j, n, gr2)
    <2>1. \A k \in DOMAIN gr2 : gr2[k] = Own(k, j)
      BY <1>4, <1>5, <1>10 DEF GraphOK
    <2>2. ASSUME FFNGraphs, NEW i \in 1 .. Len(CaptureDescs), 2 * i <= n
          PROVE  GraphKey(Counts(CapturePlans[2 * i], j), j) \in DOMAIN gr2
      <3>1. CASE 2 * i = n
        <4>1. p = CapturePlans[2 * i]
          BY <1>1, <1>4, <1>5, <3>1, Captured
        <4>2. GraphKey(Counts(CapturePlans[2 * i], j), j) = key
          BY <1>1, <1>2, <4>1
        <4> QED BY <1>10, <4>2
      <3>2. CASE 2 * i /= n
        <4>1. 2 * i <= n - 1
          BY <1>4, <2>2, <3>2, Inputs
        <4>2. GraphKey(Counts(CapturePlans[2 * i], j), j) \in DOMAIN gr
          BY <1>5, <2>2, <4>1 DEF GraphOK
        <4> QED BY <1>10, <4>2
      <3> QED BY <3>1, <3>2
    <2> QED BY <2>1, <2>2 DEF GraphOK
  <1>12. CaptureRun(j, pay, fmd'[j]) = Begin(pay, "capture", b)
    <2>1. CASE key \in DOMAIN gr
      <3>1. gr[key] = b
        BY <1>4, <1>5, <2>1 DEF GraphOK
      <3> QED BY <1>1, <1>4, <2>1, <3>1 DEF CaptureRun
    <2>2. CASE key \notin DOMAIN gr
      BY <1>1, <1>4, <1>6, <2>2 DEF CaptureRun
    <2> QED BY <2>1, <2>2
  <1>13. Begins(j, "capture", b)
    BY <1>1, <1>3, <1>12 DEF Begins
  <1>14. b = BatchSizes(Counts(plans[n], j), j) /\ plans[n].kind = "capture"
    BY <1>1, <1>2, <1>3, <1>4 DEF Captures
  <1>15. ModeOf("capture", plans[n])
    BY <1>14 DEF ModeOf
  <1> QED BY <1>1, <1>3, <1>6, <1>8, <1>9, <1>11, <1>13, <1>14, <1>15, BeginStep

(* It comes to its next operation, of the step it is in. *)
Ahead(q, got) ==
    [step |-> q.step, mode |-> q.mode, batch |-> q.batch, got |-> got, ops |-> q.ops, pc |-> q.pc + 1]

Moved(q, got) == [q EXCEPT !.pc = @ + 1, !.got = got]

GoesOn(j, q, op, got) ==
    /\ FfnOK(plans, j, Ahead(q, got))
    /\ Moved(q, got) = Ahead(q, got)
    /\ [q EXCEPT !.pc = @ + 1] = Ahead(q, q.got)
    /\ GroupEp(op.stage) = op.stage + 1 /\ op.stage + 1 \in Groups
    /\ op.stage \in Stages(WidthOf(plans[q.step])) /\ q.step \in 1 .. Len(plans)

LEMMA FfnGoesOn ==
    ASSUME IInv, NEW j \in Ffn, NEW q, q = ffn[j], ~Idle(q), NEW op, op = OpOf(q), NEW got
    PROVE  GoesOn(j, q, op, got)
  <1>1. FfnOK(plans, j, q) /\ PlansOK(plans)
    BY DEF IInv, FfnInv
  <1>2. PICK w : w = Wd(plans, q.step)
    OBVIOUS
  <1>3. Len(plans) \in Nat /\ q.step \in 0 .. Len(plans)
    BY <1>1, SequenceLen DEF PlansOK, FfnOK
  <1>4. q.ops = ProgF(w) /\ q.pc \in 1 .. Len(q.ops) + 1
    BY <1>1, <1>2 DEF FfnOK
  <1>5. q.step /= 0
    <2> SUFFICES ASSUME q.step = 0 PROVE FALSE
      OBVIOUS
    <2>1. q.ops = <<>>
      BY <1>2, <1>4 DEF Wd, ProgF
    <2> QED BY <1>4, <2>1 DEF Idle
  <1>6. q.step \in 1 .. Len(plans)
    BY <1>3, <1>5
  <1>7. w \in 1 .. NumUbatches /\ w \in 1 .. 2 /\ w = WidthOf(plans[q.step])
    BY <1>1, <1>2, <1>6, PlanOf
  <1>8. q.ops = FfnSchedule(w) /\ Len(FfnSchedule(w)) \in Nat
    BY <1>4, <1>7, FfnProgram DEF ProgF
  <1>9. PICK k : k = q.pc
    OBVIOUS
  <1>10. k \in 1 .. Len(FfnSchedule(w)) /\ op = FfnSchedule(w)[k]
    BY <1>4, <1>8, <1>9 DEF Idle, OpOf
  <1>11. op.stage \in Stages(w) /\ k + 1 \in 1 .. Len(FfnSchedule(w)) + 1
    BY <1>7, <1>10, FfnNow
  <1>12. w \in 0 .. NumUbatches
    BY <1>7, SizesAssumption
  <1>13. GroupEp(op.stage) = op.stage + 1 /\ op.stage + 1 \in Groups
    BY <1>11, <1>12, GroupOf
  <1>14. q = [step |-> q.step, mode |-> q.mode, batch |-> q.batch, got |-> q.got,
              ops |-> q.ops, pc |-> q.pc]
    BY <1>1 DEF FfnOK
  <1>15. FfnOK(plans, j, Ahead(q, got))
    <2>1. PICK q2 : q2 = Ahead(q, got)
      OBVIOUS
    <2>2. /\ q2.step = q.step /\ q2.mode = q.mode /\ q2.batch = q.batch
          /\ q2.ops = q.ops /\ q2.pc = q.pc + 1
          /\ q2 = [step |-> q2.step, mode |-> q2.mode, batch |-> q2.batch, got |-> q2.got,
                   ops |-> q2.ops, pc |-> q2.pc]
      BY <2>1 DEF Ahead
    <2>3. q2.pc \in 1 .. Len(q2.ops) + 1
      BY <1>8, <1>9, <1>11, <2>2
    <2>4. BatchOK(plans[q2.step], j, q2)
      BY <1>1, <1>3, <1>5, <2>2 DEF FfnOK, BatchOK
    <2> QED BY <1>2, <1>3, <1>4, <2>1, <2>2, <2>3, <2>4 DEF FfnOK
  <1>16. [q EXCEPT !.pc = @ + 1] = Ahead(q, q.got)
    BY <1>14 DEF Ahead
  <1>17. Moved(q, got) = Ahead(q, got)
    <2>1. Moved(q, got) = [[q EXCEPT !.pc = @ + 1] EXCEPT !.got = got]
      BY DEF Moved
    <2>2. [Ahead(q, q.got) EXCEPT !.got = got] = Ahead(q, got)
      BY DEF Ahead
    <2> QED BY <1>16, <2>1, <2>2
  <1> QED BY <1>6, <1>7, <1>11, <1>13, <1>15, <1>16, <1>17 DEF GoesOn

(* ... which leaves the payloads and the graphs alone. *)
LEMMA FfnFrame ==
    ASSUME IInv, \A k \in Ffn : ffn'[k].step = ffn[k].step,
           UNCHANGED <<plans, att, amd, ctl, graphs>>
    PROVE  PlansOK(plans)' /\ AttInv' /\ CtlInv' /\ GraphInv'
  <1>1. PlansOK(plans)' /\ AttInv'
    BY DEF IInv, AttInv
  <1>2. CtlInv'
    BY DEF IInv, CtlInv
  <1>3. GraphInv'
    BY DEF IInv, GraphInv
  <1> QED BY <1>1, <1>2, <1>3

(* The experts compute, on all FFN ranks at once. *)
LEMMA ComputeStep == ASSUME IInv, Compute PROVE IInv'
  <1>1. /\ plans' = plans /\ att' = att /\ amd' = amd /\ ctl' = ctl /\ fmd' = fmd
        /\ graphs' = graphs /\ magic' = magic /\ toFfn' = toFfn /\ toAtt' = toAtt /\ win' = win
    BY DEF Compute, attVars, winVars
  <1>2. ASSUME NEW j \in Ffn
        PROVE  /\ At(ffn[j], "compute") /\ ffn'[j] = Ahead(ffn[j], ffn[j].got)
               /\ FfnOK(plans, j, ffn'[j])
    <2>1. At(ffn[j], "compute") /\ ffn'[j] = [ffn[j] EXCEPT !.pc = @ + 1]
      BY DEF Compute
    <2>2. PICK q, op, got : q = ffn[j] /\ op = OpOf(q) /\ got = q.got
      OBVIOUS
    <2>3. ~Idle(q)
      BY <2>1, <2>2 DEF At
    <2>4. GoesOn(j, q, op, got)
      BY <2>2, <2>3, FfnGoesOn
    <2>5. FfnOK(plans, j, Ahead(q, got)) /\ [q EXCEPT !.pc = @ + 1] = Ahead(q, q.got)
      BY <2>4 DEF GoesOn
    <2> QED BY <2>1, <2>2, <2>5
  <1>3. DOMAIN ffn' = Ffn
    <2>1. ffn' = [j \in Ffn |-> [ffn[j] EXCEPT !.pc = @ + 1]]
      BY DEF Compute
    <2> QED BY <2>1
  <1>4. ASSUME NEW k \in Ffn PROVE ffn'[k].step = ffn[k].step
    <2>1. ffn'[k] = Ahead(ffn[k], ffn[k].got)
      BY <1>2
    <2> QED BY <2>1 DEF Ahead
  <1>5. PlansOK(plans)' /\ AttInv' /\ CtlInv' /\ GraphInv'
    BY <1>1, <1>4, FfnFrame
  <1>6. FfnInv'
    BY <1>1, <1>2 DEF FfnInv
  <1>7. Types'
    BY <1>1, <1>3 DEF IInv, Types
  <1>8. PairsInv'
    <2>1. ASSUME NEW a \in Att PROVE PairOfRanks(a)'
      <3>1. PICK r, q, q2 : r = att[a] /\ q = ffn[Owner(a)] /\ q2 = ffn'[Owner(a)]
        OBVIOUS
      <3>2. PICK w, v, p : w = Wd(plans, r.step) /\ v = Wd(plans, q.step) /\ p = PlanAt(plans, r.step)
        OBVIOUS
      <3>3. PICK ma, mf : ma = magic[WorldRank(a)] /\ mf = magic[Owner(a)]
        OBVIOUS
      <3>4. PICK ta, tf, wn : ta = toFfn[a] /\ tf = toAtt[a] /\ wn = win[a]
        OBVIOUS
      <3>5. Runs(w, v, r, q) /\ Pair(p, w, a, r, q, ma, mf, ta, tf, wn)
        BY <3>1, <3>2, <3>3, <3>4, PairAt
      <3>6. At(q, "compute") /\ q2 = Ahead(q, q.got)
        BY <1>2, <3>1, OwnerOf
      <3>7. q2.step = q.step /\ q2.ops = q.ops /\ q2.pc = q.pc + 1 /\ q2.got = q.got
        BY <3>6 DEF Ahead
      <3>8. Pair(p, w, a, r, q2, ma, mf, ta, tf, wn)
        BY <3>5, <3>6, <3>7, PairComputes
      <3> QED BY <1>1, <3>1, <3>2, <3>3, <3>4, <3>8 DEF PairOfRanks, PairOf
    <2> QED BY <2>1 DEF PairsInv
  <1> QED BY <1>5, <1>6, <1>7, <1>8 DEF IInv

(* It takes in the windows of all its peers. *)
LEMMA RecvAttnOutputStep == ASSUME IInv, NEW j \in Ffn, RecvAttnOutput(j) PROVE IInv'
  <1>1. PICK q, op, g : q = ffn[j] /\ op = OpOf(q) /\ g = GroupEp(op.stage)
    OBVIOUS
  <1>2. PICK got : got = [i \in 1 .. Ratio |-> win[Peers(j)[i]][g]]
    OBVIOUS
  <1>3. /\ plans' = plans /\ att' = att /\ amd' = amd /\ ctl' = ctl /\ fmd' = fmd
        /\ graphs' = graphs /\ toFfn' = toFfn /\ toAtt' = toAtt /\ win' = win
    BY DEF RecvAttnOutput, attVars
  <1>4. /\ At(q, "recv") /\ ~Idle(q)
        /\ \A i \in 1 .. Ratio : toFfn[Peers(j)[i]][g] = magic[j][g] + 1
    BY <1>1 DEF RecvAttnOutput, At, Flagged
  <1>5. magic' = [magic EXCEPT ![j][g] = magic[j][g] + 1]
    BY <1>1 DEF RecvAttnOutput
  <1>6. DOMAIN ffn = Ffn /\ Wide(magic, World) /\ j \in World
    BY WorldRanks DEF IInv, Types
  <1>7. ffn' = [ffn EXCEPT ![j] = Moved(q, got)]
    BY <1>1, <1>2, <1>6 DEF RecvAttnOutput, Moved
  <1>8. /\ FfnOK(plans, j, Ahead(q, got)) /\ Moved(q, got) = Ahead(q, got)
        /\ g = op.stage + 1 /\ g \in Groups
    <2>1. q = ffn[j] /\ op = OpOf(q) /\ ~Idle(q)
      BY <1>1, <1>4
    <2>2. GoesOn(j, q, op, got)
      BY <2>1, FfnGoesOn
    <2>3. /\ FfnOK(plans, j, Ahead(q, got)) /\ Moved(q, got) = Ahead(q, got)
          /\ GroupEp(op.stage) = op.stage + 1 /\ op.stage + 1 \in Groups
      BY <2>2 DEF GoesOn
    <2> QED BY <1>1, <2>3
  <1>9. PICK q2 : q2 = Ahead(q, got)
    OBVIOUS
  <1>10. q2.step = q.step /\ q2.ops = q.ops /\ q2.pc = q.pc + 1 /\ q2.got = got
    BY <1>9 DEF Ahead
  <1>11. /\ ffn'[j] = q2 /\ DOMAIN ffn' = Ffn /\ \A k \in Ffn : k /= j => ffn'[k] = ffn[k]
    BY <1>6, <1>7, <1>8, <1>9
  <1>12. \A k \in Ffn : ffn'[k].step = ffn[k].step
    BY <1>1, <1>10, <1>11
  <1>13. PlansOK(plans)' /\ AttInv' /\ CtlInv' /\ GraphInv'
    BY <1>3, <1>12, FfnFrame
  <1>14. FfnInv'
    <2>1. ASSUME NEW k \in Ffn, k /= j PROVE FfnOK(plans, k, ffn[k])
      BY DEF IInv, FfnInv
    <2> QED BY <1>3, <1>8, <1>9, <1>11, <2>1 DEF FfnInv
  <1>15. PutIn(magic, magic', World, j, g, magic[j][g] + 1)
    BY <1>5, <1>6, <1>8, PutAt
  <1>16. Types'
    BY <1>3, <1>11, <1>15 DEF IInv, Types, PutIn
  <1>17. \A a \in Att : magic'[WorldRank(a)] = magic[WorldRank(a)]
    BY <1>15, WorldRanks DEF PutIn
  <1>18. ASSUME NEW a \in Att, Owner(a) = j PROVE PairOfRanks(a)'
    <2>1. PICK r : r = att[a]
      OBVIOUS
    <2>2. PICK w, v, p : w = Wd(plans, r.step) /\ v = Wd(plans, q.step) /\ p = PlanAt(plans, r.step)
      OBVIOUS
    <2>3. PICK ma, mf, mf2 : ma = magic[WorldRank(a)] /\ mf = magic[j] /\ mf2 = magic'[j]
      OBVIOUS
    <2>4. PICK ta, tf, wn : ta = toFfn[a] /\ tf = toAtt[a] /\ wn = win[a]
      OBVIOUS
    <2>5. Runs(w, v, r, q) /\ Pair(p, w, a, r, q, ma, mf, ta, tf, wn)
      BY <1>1, <1>18, <2>1, <2>2, <2>3, <2>4, PairAt
    <2>6. Place(a) \in 1 .. Ratio /\ Peers(j)[Place(a)] = a
      BY <1>18, OwnerOf
    <2>7. q2.got[Place(a)] = wn[g] /\ ta[g] = mf[g] + 1
      BY <1>2, <1>4, <1>10, <2>3, <2>4, <2>6
    <2>8. Put(mf2, mf, g, mf[g] + 1)
      BY <1>15, <2>3 DEF PutIn
    <2>9. TakenIn(p, w, v, a, r, q, q2, ma, mf2, ta, tf, wn, op, g)
      BY <1>1, <1>4, <1>8, <1>10, <2>5, <2>7, <2>8, PairTakesIn
    <2>10. PairOf(plans, a, r, q2, ma, mf2, ta, tf, wn)
      BY <2>2, <2>9 DEF TakenIn, PairOf
    <2> QED BY <1>3, <1>11, <1>17, <1>18, <2>1, <2>3, <2>4, <2>10 DEF PairOfRanks
  <1>19. ASSUME NEW a \in Att, Owner(a) /= j PROVE PairOfRanks(a)'
    <2>1. PairOfRanks(a) /\ ffn'[Owner(a)] = ffn[Owner(a)]
      BY <1>11, <1>19, OwnerOf DEF IInv, PairsInv
    <2>2. magic'[Owner(a)] = magic[Owner(a)]
      BY <1>15, <1>19, OwnerOf, WorldRanks DEF PutIn
    <2> QED BY <1>3, <1>17, <2>1, <2>2 DEF PairOfRanks
  <1>20. PairsInv'
    BY <1>18, <1>19 DEF PairsInv
  <1> QED BY <1>13, <1>14, <1>16, <1>20 DEF IInv

(* It fills the windows of all its peers. *)
LEMMA SendFfnOutputStep == ASSUME IInv, NEW j \in Ffn, SendFfnOutput(j) PROVE IInv'
  <1>1. PICK q, op, g : q = ffn[j] /\ op = OpOf(q) /\ g = GroupEp(op.stage)
    OBVIOUS
  <1>2. PICK rows, m : rows = q.batch[op.stage] \div Ratio /\ m = magic[j][g] + 1
    OBVIOUS
  <1>3. /\ plans' = plans /\ att' = att /\ amd' = amd /\ ctl' = ctl /\ fmd' = fmd
        /\ graphs' = graphs /\ toFfn' = toFfn
    BY DEF SendFfnOutput, attVars
  <1>4. At(q, "send") /\ ~Idle(q)
    BY <1>1 DEF SendFfnOutput, At
  <1>5. magic' = [magic EXCEPT ![j][g] = m]
    BY <1>1, <1>2 DEF SendFfnOutput
  <1>6. /\ DOMAIN ffn = Ffn /\ Wide(magic, World) /\ j \in World
        /\ Wide(win, Att) /\ Wide(toAtt, Att)
    BY WorldRanks DEF IInv, Types
  <1>7. ffn' = [ffn EXCEPT ![j] = [q EXCEPT !.pc = @ + 1]]
    BY <1>1, <1>6 DEF SendFfnOutput
  <1>8. PICK got : got = q.got
    OBVIOUS
  <1>9. /\ FfnOK(plans, j, Ahead(q, got)) /\ [q EXCEPT !.pc = @ + 1] = Ahead(q, got)
        /\ g = op.stage + 1 /\ g \in Groups /\ q.step \in 1 .. Len(plans)
    <2>1. GoesOn(j, q, op, got)
      BY <1>1, <1>4, FfnGoesOn
    <2> QED BY <1>1, <1>8, <2>1 DEF GoesOn
  <1>10. PICK q2 : q2 = Ahead(q, got)
    OBVIOUS
  <1>11. q2.step = q.step /\ q2.ops = q.ops /\ q2.pc = q.pc + 1 /\ q2.got = q.got
    BY <1>8, <1>10 DEF Ahead
  <1>12. /\ ffn'[j] = q2 /\ DOMAIN ffn' = Ffn /\ \A k \in Ffn : k /= j => ffn'[k] = ffn[k]
    BY <1>6, <1>7, <1>9, <1>10
  <1>13. \A k \in Ffn : ffn'[k].step = ffn[k].step
    BY <1>1, <1>11, <1>12
  <1>14. PlansOK(plans)' /\ AttInv' /\ CtlInv' /\ GraphInv'
    BY <1>3, <1>13, FfnFrame
  <1>15. FfnInv'
    <2>1. ASSUME NEW k \in Ffn, k /= j PROVE FfnOK(plans, k, ffn[k])
      BY DEF IInv, FfnInv
    <2> QED BY <1>3, <1>9, <1>10, <1>12, <2>1 DEF FfnInv
  <1>16. PutIn(magic, magic', World, j, g, m)
    BY <1>5, <1>6, <1>9, PutAt
  <1>17. \A a \in Att : magic'[WorldRank(a)] = magic[WorldRank(a)]
    BY <1>16, WorldRanks DEF PutIn
  <1>18. /\ DOMAIN win' = Att
         /\ \A a \in Att : /\ Owner(a) = j => win'[a] = [win[a] EXCEPT ![g] =
                                  [from |-> "ffn", of |-> q.got[Place(a)], rows |-> rows]]
                           /\ Owner(a) /= j => win'[a] = win[a]
    <2>1. win' = [a \in Att |-> IF a \notin {b \in Att : Owner(b) = j} THEN win[a]
                    ELSE [win[a] EXCEPT ![g] =
                            [from |-> "ffn", of |-> q.got[CHOOSE i \in 1 .. Ratio : Peers(j)[i] = a],
                             rows |-> rows]]]
      BY <1>1, <1>2 DEF SendFfnOutput
    <2>2. \A a \in Att : Owner(a) = j => Place(a) = CHOOSE i \in 1 .. Ratio : Peers(j)[i] = a
      BY DEF Place
    <2> QED BY <2>1, <2>2
  <1>19. /\ DOMAIN toAtt' = Att
         /\ \A a \in Att : /\ Owner(a) = j => toAtt'[a] = [toAtt[a] EXCEPT ![g] = m]
                           /\ Owner(a) /= j => toAtt'[a] = toAtt[a]
    BY <1>1, <1>2 DEF SendFfnOutput
  <1>20. Wide(win', Att) /\ Wide(toAtt', Att)
    <2>1. ASSUME NEW a \in Att PROVE DOMAIN win'[a] = Groups /\ DOMAIN toAtt'[a] = Groups
      <3>1. DOMAIN win[a] = Groups /\ DOMAIN toAtt[a] = Groups
        BY <1>6 DEF Wide
      <3> QED BY <1>18, <1>19, <3>1
    <2> QED BY <1>18, <1>19, <2>1 DEF Wide
  <1>21. Types'
    BY <1>3, <1>12, <1>16, <1>20 DEF IInv, Types, PutIn
  <1>22. ASSUME NEW a \in Att, Owner(a) = j PROVE PairOfRanks(a)'
    <2>1. PICK r : r = att[a]
      OBVIOUS
    <2>2. PICK w, v, p : w = Wd(plans, r.step) /\ v = Wd(plans, q.step) /\ p = PlanAt(plans, r.step)
      OBVIOUS
    <2>3. PICK ma, mf, mf2 : ma = magic[WorldRank(a)] /\ mf = magic[j] /\ mf2 = magic'[j]
      OBVIOUS
    <2>4. PICK ta, tf, tf2 : ta = toFfn[a] /\ tf = toAtt[a] /\ tf2 = toAtt'[a]
      OBVIOUS
    <2>5. PICK wn, wn2 : wn = win[a] /\ wn2 = win'[a]
      OBVIOUS
    <2>6. Runs(w, v, r, q) /\ Pair(p, w, a, r, q, ma, mf, ta, tf, wn)
      BY <1>1, <1>22, <2>1, <2>2, <2>3, <2>4, <2>5, PairAt
    <2>7. Put(mf2, mf, g, mf[g] + 1)
      BY <1>2, <1>16, <2>3 DEF PutIn
    <2>8. Put(tf2, tf, g, mf[g] + 1)
      <3>1. DOMAIN tf = Groups /\ tf2 = [tf EXCEPT ![g] = m]
        BY <1>6, <1>19, <1>22, <2>4 DEF Wide
      <3> QED BY <1>2, <1>9, <2>3, <3>1 DEF Put
    <2>9. PICK e : e = [from |-> "ffn", of |-> q.got[Place(a)], rows |-> rows]
      OBVIOUS
    <2>10. Put(wn2, wn, g, e)
      <3>1. DOMAIN wn = Groups /\ wn2 = [wn EXCEPT ![g] = e]
        BY <1>6, <1>18, <1>22, <2>5, <2>9 DEF Wide
      <3> QED BY <1>9, <3>1 DEF Put
    <2>11. q.step = r.step => rows = Chunk(p, a, op.stage)
      <3> SUFFICES ASSUME q.step = r.step PROVE rows = Chunk(p, a, op.stage)
        OBVIOUS
      <3>1. p = plans[q.step]
        BY <1>9, <2>2, PairAt
      <3>2. q.batch = BatchSizes(Counts(plans[q.step], j), j)
        BY <1>1, <1>9 DEF IInv, FfnInv, FfnOK, BatchOK
      <3>3. MetadataSource(Owner(a)) = j
        BY <1>22, SourceOf
      <3> QED BY <1>2, <1>22, <3>1, <3>2, <3>3 DEF Chunk
    <2>12. Pair(p, w, a, r, q2, ma, mf2, ta, tf2, wn2)
      BY <1>1, <1>4, <1>9, <1>11, <2>6, <2>7, <2>8, <2>9, <2>10, <2>11, PairGives
    <2>13. PairOf(plans, a, r, q2, ma, mf2, ta, tf2, wn2)
      BY <2>2, <2>12 DEF PairOf
    <2> QED BY <1>3, <1>12, <1>17, <1>22, <2>1, <2>3, <2>4, <2>5, <2>13 DEF PairOfRanks
  <1>23. ASSUME NEW a \in Att, Owner(a) /= j PROVE PairOfRanks(a)'
    <2>1. PairOfRanks(a) /\ ffn'[Owner(a)] = ffn[Owner(a)]
      BY <1>12, <1>23, OwnerOf DEF IInv, PairsInv
    <2>2. magic'[Owner(a)] = magic[Owner(a)]
      BY <1>16, <1>23, OwnerOf, WorldRanks DEF PutIn
    <2>3. win'[a] = win[a] /\ toAtt'[a] = toAtt[a]
      BY <1>18, <1>19, <1>23
    <2> QED BY <1>3, <1>17, <2>1, <2>2, <2>3 DEF PairOfRanks
  <1>24. PairsInv'
    BY <1>22, <1>23 DEF PairsInv
  <1> QED BY <1>14, <1>15, <1>21, <1>24 DEF IInv

----------------------------------------------------------------------------
(***************************************************************************)
(* The theorems.                                                           *)
(***************************************************************************)
(* Every step keeps the invariant. *)
LEMMA NextIInv == IInv /\ [Next]_vars => IInv'
  <1> SUFFICES ASSUME IInv, [Next]_vars PROVE IInv'
    OBVIOUS
  <1>1. CASE \E r \in World : todo[r] /= <<>> /\ CreateGroup(Head(todo[r]))
    <2>1. UNCHANGED <<plans, attVars, ctl, ffnVars, winVars>>
      BY <1>1 DEF CreateGroup
    <2> QED BY <2>1, FrameStep
  <1>2. CASE Agree
    BY <1>2, AgreeStep
  <1>3. ASSUME NEW a \in Att, SendControl(a) \/ SendAttnOutput(a) \/ RecvFfnOutput(a)
        PROVE  IInv'
    BY <1>3, SendControlStep, SendAttnOutputStep, RecvFfnOutputStep
  <1>4. ASSUME NEW j \in Ffn, Replay(j) \/ Forward(j) \/ Capture(j) PROVE IInv'
    BY <1>4, ReplayStep, ForwardStep, CaptureStep
  <1>5. ASSUME NEW j \in Ffn, RecvAttnOutput(j) \/ SendFfnOutput(j) PROVE IInv'
    BY <1>5, RecvAttnOutputStep, SendFfnOutputStep
  <1>6. CASE Compute
    BY <1>6, ComputeStep
  <1>7. CASE UNCHANGED vars
    BY <1>7, FrameStep DEF vars
  <1> QED BY <1>1, <1>2, <1>3, <1>4, <1>5, <1>6, <1>7 DEF Next

(* In every behaviour each rank is in a planned step, with what the plan says,
   and meets its peers in every window. *)
THEOREM StepsMeet == Spec => []IInv
  <1>1. Init => IInv
    BY InitIInv
  <1>2. IInv /\ [Next]_vars => IInv'
    BY NextIInv
  <1> QED BY <1>1, <1>2, PTL DEF Spec

(* The ranks plan steps of which all peers of an FFN rank have the same rows, if
   no DP rank splits a batch by itself. *)
LEMMA PlannedPeers ==
    ASSUME SplitsAgree, NEW pl, PlansOK(pl), NEW n \in 1 .. Len(pl)
    PROVE  PeersEqual(pl[n])
  <1>1. /\ Len(CaptureDescs) \in Nat /\ DOMAIN CaptureDescs = 1 .. Len(CaptureDescs)
        /\ Len(pl) \in Nat
    BY Inputs, SequenceLen DEF PlansOK
  <1>2. CASE n <= Warmups
    <2>1. n \in 1 .. 2 * Len(CaptureDescs) /\ (n + 1) \div 2 \in DOMAIN CaptureDescs
      BY <1>1, <1>2 DEF Warmups
    <2>2. pl[n] = DescPlan(IF n % 2 = 1 THEN "warmup" ELSE "capture", CaptureDescs[(n + 1) \div 2])
      BY <1>2, <2>1 DEF PlansOK, CapturePlans
    <2> QED BY <2>1, <2>2, DescPeers
  <1>3. CASE n > Warmups
    BY <1>3, ServingPeers DEF PlansOK
  <1> QED BY <1>1, <1>2, <1>3 DEF Warmups

(* An FFN rank that works derives from its payload what its source announced. *)
LEMMA WorksAlike == IInv => ReplayTogether
  <1> SUFFICES ASSUME IInv, NEW j \in Ffn, ~Idle(ffn[j])
               PROVE  LET p == plans[ffn[j].step] IN
                      /\ FFNGraphs => (ffn[j].mode = "replay" <=> p.kind = "replay")
                      /\ ffn[j].batch = BatchSizes(Counts(p, MetadataSource(j)), j)
    BY DEF ReplayTogether
  <1>1. PICK q, op : q = ffn[j] /\ op = OpOf(q)
    OBVIOUS
  <1>2. q.step \in 1 .. Len(plans) /\ FfnOK(plans, j, q)
    <2>1. GoesOn(j, q, op, q.got)
      BY <1>1, FfnGoesOn
    <2> QED BY <1>1, <2>1 DEF GoesOn, IInv, FfnInv
  <1>3. BatchOK(plans[q.step], j, q)
    BY <1>2 DEF FfnOK
  <1>4. MetadataSource(j) = j
    BY SourceOf
  <1> QED BY <1>1, <1>3, <1>4 DEF BatchOK

(* A flagged window has its Attention rank's transfer of the reader's step. *)
LEMMA FfnReads ==
    ASSUME IInv, SplitsAgree, NEW j \in Ffn, At(ffn[j], "recv"), NEW op, op = OpOf(ffn[j]),
           NEW i \in 1 .. Ratio, NEW a, a = Peers(j)[i], Flagged(j, a)
    PROVE  win[a][GroupEp(op.stage)] =
             [from |-> "attention", rank |-> a, step |-> ffn[j].step,
              layer |-> op.layer, stage |-> op.stage,
              rows |-> ffn[j].batch[op.stage] \div Ratio]
  <1>1. PICK q, g, r : q = ffn[j] /\ g = GroupEp(op.stage) /\ r = att[a]
    OBVIOUS
  <1>2. a \in Att /\ Owner(a) = j
    BY PeerOf
  <1>3. At(q, "recv") /\ ~Idle(q) /\ op = OpOf(q)
    BY <1>1 DEF At
  <1>4. /\ g = op.stage + 1 /\ g \in Groups
        /\ op.stage \in Stages(WidthOf(plans[q.step])) /\ q.step \in 1 .. Len(plans)
    <2>1. GoesOn(j, q, op, q.got)
      BY <1>1, <1>3, FfnGoesOn
    <2> QED BY <1>1, <2>1 DEF GoesOn
  <1>5. PICK w, v, p : w = Wd(plans, r.step) /\ v = Wd(plans, q.step) /\ p = PlanAt(plans, r.step)
    OBVIOUS
  <1>6. PICK ma, mf : ma = magic[WorldRank(a)] /\ mf = magic[j]
    OBVIOUS
  <1>7. PICK ta, tf, wn : ta = toFfn[a] /\ tf = toAtt[a] /\ wn = win[a]
    OBVIOUS
  <1>8. Runs(w, v, r, q) /\ Pair(p, w, a, r, q, ma, mf, ta, tf, wn)
    BY <1>1, <1>2, <1>5, <1>6, <1>7, PairAt
  <1>9. ta[g] = mf[g] + 1
    BY <1>1, <1>6, <1>7 DEF Flagged
  <1>10. PICK got, mf2 : /\ got = [k \in 1 .. Ratio |-> wn[g]]
                         /\ mf2 = [h \in Groups |-> IF h = g THEN mf[g] + 1 ELSE mf[h]]
    OBVIOUS
  <1>11. PICK q2 : q2 = Ahead(q, got)
    OBVIOUS
  <1>12. q2.step = q.step /\ q2.ops = q.ops /\ q2.pc = q.pc + 1 /\ q2.got[Place(a)] = wn[g]
    BY <1>2, <1>10, <1>11, OwnerOf DEF Ahead
  <1>13. Put(mf2, mf, g, mf[g] + 1)
    BY <1>4, <1>10 DEF Put
  <1>14. TakenIn(p, w, v, a, r, q, q2, ma, mf2, ta, tf, wn, op, g)
    BY <1>3, <1>4, <1>8, <1>9, <1>12, <1>13, PairTakesIn
  <1>15. /\ q.step = r.step
         /\ wn[g] = [from |-> "attention", rank |-> a, step |-> r.step,
                     layer |-> op.layer, stage |-> op.stage, rows |-> Wire(p, a, op.stage)]
    BY <1>14 DEF TakenIn
  <1>16. p = plans[q.step] /\ RowsOK(p)
    BY <1>2, <1>4, <1>5, <1>15, PairAt
  <1>17. PeersEqual(p)
    BY <1>4, <1>16, PlannedPeers DEF IInv
  <1>18. Wire(p, a, op.stage) = OwnRows(p, op.stage, a)
    BY <1>2, <1>4, <1>16, WireIsOwn
  <1>19. Chunk(p, a, op.stage) = OwnRows(p, op.stage, a)
    BY <1>2, <1>4, <1>16, <1>17, ChunkIsOwn
  <1>20. q.batch = BatchSizes(Counts(p, MetadataSource(Owner(a))), Owner(a))
    BY <1>1, <1>2, <1>3, <1>16, WorksAlike DEF ReplayTogether
  <1> QED BY <1>1, <1>7, <1>15, <1>18, <1>19, <1>20 DEF Chunk

(* And one whose output has come has the FFN rank's answer to it. *)
LEMMA AttentionReads ==
    ASSUME IInv, SplitsAgree, NEW a \in Att, OutputReady(a), NEW op, op = OpOf(att[a])
    PROVE  win[a][GroupEp(op.stage)] =
             [from |-> "ffn", of |-> Transfer(a, op), rows |-> WireRows(a, op.stage)]
  <1>1. PICK q, g, r : q = ffn[Owner(a)] /\ g = GroupEp(op.stage) /\ r = att[a]
    OBVIOUS
  <1>2. At(r, "recv") /\ ~Idle(r) /\ op = OpOf(r)
    BY <1>1 DEF OutputReady, At
  <1>3. PICK w, v, p : w = Wd(plans, r.step) /\ v = Wd(plans, q.step) /\ p = PlanAt(plans, r.step)
    OBVIOUS
  <1>4. PICK ma, mf : ma = magic[WorldRank(a)] /\ mf = magic[Owner(a)]
    OBVIOUS
  <1>5. PICK ta, tf, wn : ta = toFfn[a] /\ tf = toAtt[a] /\ wn = win[a]
    OBVIOUS
  <1>6. Runs(w, v, r, q) /\ Pair(p, w, a, r, q, ma, mf, ta, tf, wn)
    BY <1>1, <1>3, <1>4, <1>5, PairAt
  <1>7. PICK r2 : r2 = [r EXCEPT !.pc = @ + 1]
    OBVIOUS
  <1>8. r2.step = r.step /\ r2.ops = r.ops /\ r2.pc = r.pc + 1
    <2>1. r = [step |-> r.step, ops |-> r.ops, pc |-> r.pc]
      BY <1>1 DEF IInv, AttInv, AttOK
    <2> QED BY <1>7, <2>1
  <1>9. op.stage \in Stages(w) /\ w \in 0 .. NumUbatches /\ w /= 0
    <2>1. PICK s : s = op.stage
      OBVIOUS
    <2>2. PICK x : x = Xs(w, r, s)
      OBVIOUS
    <2>3. s \in Stages(w) /\ w \in 1 .. 2
      BY <1>2, <1>6, <1>8, <2>1, <2>2, AttOpNow
    <2> QED BY <1>6, <2>1, <2>3 DEF Runs
  <1>10. g = op.stage + 1 /\ g \in Groups
    BY <1>1, <1>9, GroupOf
  <1>11. tf[g] = ma[g] + 1
    BY <1>1, <1>4, <1>5 DEF OutputReady
  <1>12. PICK ma2 : ma2 = [h \in Groups |-> IF h = g THEN ma[g] + 1 ELSE ma[h]]
    OBVIOUS
  <1>13. Put(ma2, ma, g, ma[g] + 1)
    BY <1>10, <1>12 DEF Put
  <1>14. Received(p, w, v, a, r, r2, q, ma2, mf, ta, tf, wn, op, g)
    BY <1>2, <1>6, <1>8, <1>10, <1>11, <1>13, PairReceives
  <1>15. wn[g] = [from |-> "ffn", rows |-> Chunk(p, a, op.stage),
                  of |-> [from |-> "attention", rank |-> a, step |-> r.step,
                          layer |-> op.layer, stage |-> op.stage,
                          rows |-> Wire(p, a, op.stage)]]
    BY <1>14 DEF Received
  <1>16. r.step \in 1 .. Len(plans) /\ r.step > 0
    BY <1>1, <1>3, <1>9, PairAt
  <1>17. p = plans[r.step] /\ RowsOK(p) /\ w = WidthOf(p)
    BY <1>1, <1>3, <1>16, PairAt
  <1>18. PeersEqual(p)
    BY <1>16, <1>17, PlannedPeers DEF IInv
  <1>19. Wire(p, a, op.stage) = OwnRows(p, op.stage, a)
    BY <1>9, <1>17, WireIsOwn
  <1>20. Chunk(p, a, op.stage) = OwnRows(p, op.stage, a)
    BY <1>9, <1>17, <1>18, ChunkIsOwn
  <1>21. WireRows(a, op.stage) = Wire(p, a, op.stage)
    BY <1>1, <1>16, <1>17, WireOf
  <1> QED BY <1>1, <1>5, <1>15, <1>19, <1>20, <1>21 DEF Transfer

(* All of it together. *)
LEMMA ReadersMatch == ASSUME SplitsAgree, IInv PROVE PeersAgree
  <1>1. ASSUME NEW j \in Ffn, At(ffn[j], "recv"), NEW i \in 1 .. Ratio, Flagged(j, Peers(j)[i])
        PROVE  win[Peers(j)[i]][GroupEp(OpOf(ffn[j]).stage)] =
                 [from |-> "attention", rank |-> Peers(j)[i], step |-> ffn[j].step,
                  layer |-> OpOf(ffn[j]).layer, stage |-> OpOf(ffn[j]).stage,
                  rows |-> ffn[j].batch[OpOf(ffn[j]).stage] \div Ratio]
    <2>1. PICK a, op : a = Peers(j)[i] /\ op = OpOf(ffn[j])
      OBVIOUS
    <2> QED BY <1>1, <2>1, FfnReads
  <1>2. ASSUME NEW a \in Att, OutputReady(a)
        PROVE  win[a][GroupEp(OpOf(att[a]).stage)] =
                 [from |-> "ffn", of |-> Transfer(a, OpOf(att[a])),
                  rows |-> WireRows(a, OpOf(att[a]).stage)]
    <2>1. PICK op : op = OpOf(att[a])
      OBVIOUS
    <2> QED BY <1>2, <2>1, AttentionReads
  <1>3. WindowsMatch
    BY <1>1, <1>2 DEF WindowsMatch
  <1> QED BY <1>3, WorksAlike DEF PeersAgree

(* The rows that peers put on the wire in a step are as many. *)
LEMMA WiresEqual == ASSUME SplitsAgree, IInv PROVE ChunksEqual
  <1> SUFFICES ASSUME NEW a \in Att, NEW b \in Att, ~Idle(att[a]), att[b].step = att[a].step,
                      Owner(a) = Owner(b), NEW s \in DOMAIN plans[att[a].step].rows
               PROVE  WireRows(a, s) = WireRows(b, s)
    BY DEF ChunksEqual
  <1>1. PICK r, q, p : r = att[a] /\ q = ffn[Owner(a)] /\ p = plans[r.step]
    OBVIOUS
  <1>2. PICK w, v : w = Wd(plans, r.step) /\ v = Wd(plans, q.step)
    OBVIOUS
  <1>3. Runs(w, v, r, q)
    BY <1>1, <1>2, PairAt
  <1>4. w /= 0
    <2> SUFFICES ASSUME w = 0 PROVE FALSE
      OBVIOUS
    <2>1. r.ops = <<>> /\ r.pc \in 1 .. Len(r.ops) + 1
      BY <1>3 DEF Runs, ProgA
    <2> QED BY <1>1, <2>1 DEF Idle
  <1>5. r.step \in 1 .. Len(plans) /\ r.step > 0
    BY <1>1, <1>2, <1>4, PairAt
  <1>6. RowsOK(p) /\ PeersEqual(p)
    BY <1>1, <1>5, PairAt, PlannedPeers DEF IInv
  <1>7. s \in Stages(WidthOf(p))
    BY <1>1, <1>6, WidthIs
  <1>8. WireRows(a, s) = Wire(p, a, s) /\ WireRows(b, s) = Wire(p, b, s)
    BY <1>1, <1>5, WireOf
  <1>9. Wire(p, a, s) = OwnRows(p, s, a) /\ Wire(p, b, s) = OwnRows(p, s, b)
    BY <1>6, <1>7, WireIsOwn
  <1> QED BY <1>6, <1>7, <1>8, <1>9 DEF PeersEqual

(* Every FFN rank replays a graph when Attention does, and the one of the counts
   that the payload announces, even when the DP ranks split by themselves. *)
THEOREM RanksReplayTogether == Spec => []ReplayTogether
  BY StepsMeet, WorksAlike, PTL

(* If no DP rank splits a batch by itself, a window whose flag lets a kernel read
   it holds the transfer of the reader's own step, layer and microbatch, with the
   rows that the reader assumes. *)
THEOREM PeersAlwaysAgree == ASSUME SplitsAgree PROVE Spec => []PeersAgree
  <1>1. IInv => PeersAgree
    BY ReadersMatch
  <1> QED BY <1>1, StepsMeet, PTL

(* ... and the kernels of a strided group get equal chunks, which they do not if
   the ranks split by themselves. *)
THEOREM ChunksAlwaysEqual == ASSUME SplitsAgree PROVE Spec => []ChunksEqual
  <1>1. IInv => ChunksEqual
    BY WiresEqual
  <1> QED BY <1>1, StepsMeet, PTL

=============================================================================
