----------------------------- MODULE DeepEPProofs -----------------------------
(***************************************************************************)
(* Proofs about a DeepEP M2N deployment.  For every set of deployments,    *)
(* ranks that come up plan alike and route to where experts are.  And for  *)
(* every number of ranks, lanes and layers, every stage gets from every    *)
(* FFN rank the experts of what it dispatched itself.                      *)
(***************************************************************************)
EXTENDS DeepEPStartup, TLAPS, FiniteSetTheorems, SequenceTheorems, WellFoundedInduction

(* What a rank in a phase has behind it: phases in which it has adopted the
   handshake, and those in which it has checked the models. *)
AfterHandshake == {"agreed", "exchanged", "checked", "joined", "lanes", "ready"}
AfterModels == {"checked", "joined", "lanes", "ready"}

Infos == [w \in World |-> HandshakeInfo(Of(w))]
Models == [w \in World |-> ModelInfo(Of(w), Of(w).rank)]

(* While a rank reads the reports of a collective, they are those of every
   rank; a rank that has read them has checked them. *)
StartupInv ==
    /\ deployment \in Deployments
    /\ DOMAIN phase = World /\ DOMAIN adopted = World
    /\ \A w \in World :
         /\ phase[w] \notin {"new", "failed"} => ValidLayout(Of(w).l)
         /\ phase[w] = "informed" => reports = Infos
         /\ phase[w] = "exchanged" => reports = Models
         /\ phase[w] \in AfterHandshake =>
              /\ adopted[w] = ValidateHandshake(Infos, Of(w).l, Of(w).c.network)
              /\ adopted[w] /= None
         /\ phase[w] \in AfterModels => ModelsAccepted(Models, Of(w).l, Of(w).c.payload)

(* Ranks have not begun. *)
LEMMA InitStartup == StartupInit => StartupInv
  BY DEF StartupInit, StartupInv, Each, AfterHandshake, AfterModels

(* A step of one rank. *)
LEMMA RankStep ==
    ASSUME StartupInv, NEW w \in World, UNCHANGED deployment,
           \/ Construct(w) \/ LoadModel(w) \/ ReadHandshake(w) \/ ReadModels(w)
           \/ NewLanes(w) \/ TimeOut(w)
    PROVE  StartupInv'
  <1> USE DEF StartupInv, Goes, AfterHandshake, AfterModels, World, Of, Infos, Models
  <1>1. CASE Construct(w) \/ LoadModel(w)
    BY <1>1 DEF Construct, LoadModel
  <1>2. CASE ReadHandshake(w)
    BY <1>2 DEF ReadHandshake
  <1>3. CASE ReadModels(w)
    BY <1>3 DEF ReadModels
  <1>4. CASE NewLanes(w) \/ TimeOut(w)
    BY <1>4 DEF NewLanes, TimeOut
  <1> QED BY <1>1, <1>2, <1>3, <1>4

(* A collective. *)
LEMMA TogetherStep ==
    ASSUME StartupInv, Handshake \/ ExchangeModels \/ JoinControl \/ Precompile
    PROVE  StartupInv'
  <1> USE DEF StartupInv, Together, Each, AfterHandshake, AfterModels, World, Of, Infos, Models
  <1>1. CASE Handshake
    BY <1>1 DEF Handshake
  <1>2. CASE ExchangeModels
    BY <1>2 DEF ExchangeModels
  <1>3. CASE JoinControl \/ Precompile
    BY <1>3 DEF JoinControl, Precompile
  <1> QED BY <1>1, <1>2, <1>3

(* Every step keeps the invariant. *)
LEMMA NextStartup == StartupInv /\ [ServeNext]_allVars => StartupInv'
  <1> SUFFICES ASSUME StartupInv, [ServeNext]_allVars PROVE StartupInv'
    OBVIOUS
  <1>1. CASE UNCHANGED startupVars
    BY <1>1 DEF StartupInv, startupVars, World, Of, Infos, Models
  <1>2. CASE StartupNext
    <2>1. CASE Handshake \/ ExchangeModels \/ JoinControl \/ Precompile
      BY <2>1, TogetherStep
    <2>2. ASSUME NEW w \in World, \/ Construct(w) \/ LoadModel(w) \/ ReadHandshake(w)
                                  \/ ReadModels(w) \/ NewLanes(w) \/ TimeOut(w)
          PROVE  StartupInv'
      <3>1. UNCHANGED deployment
        BY <2>2 DEF Construct, LoadModel, ReadHandshake, ReadModels, NewLanes, TimeOut
      <3> QED BY <2>2, <3>1, RankStep
    <2> QED BY <1>2, <2>1, <2>2 DEF StartupNext
  <1> QED BY <1>1, <1>2 DEF ServeNext, allVars

----------------------------------------------------------------------------
(* The ranks report the roles that a layout of f FFN and a Attention ranks
   has for them. *)
Laid(infos, f, a) ==
    /\ DOMAIN infos = (0 .. f - 1) \cup (f .. (f + a) - 1)
    /\ \A w \in 0 .. f - 1 : infos[w].role = "ffn"
    /\ \A w \in f .. (f + a) - 1 : infos[w].role = "attention"

(* layout.py: they can be laid out in one way only. *)
LEMMA LayoutsAgree ==
    ASSUME NEW infos, NEW f \in Int, NEW a \in Int, NEW g \in Int, NEW b \in Int,
           f > 0, a > 0, g > 0, b > 0, Laid(infos, f, a), Laid(infos, g, b)
    PROVE  f = g /\ a = b /\ DOMAIN infos = 0 .. (f + a) - 1
  <1>1. DOMAIN infos = 0 .. (f + a) - 1
    <2>1. (0 .. f - 1) \cup (f .. (f + a) - 1) = 0 .. (f + a) - 1
      OBVIOUS
    <2> QED BY <2>1, Zenon DEF Laid
  <1>2. DOMAIN infos = 0 .. (g + b) - 1
    <2>1. (0 .. g - 1) \cup (g .. (g + b) - 1) = 0 .. (g + b) - 1
      OBVIOUS
    <2> QED BY <2>1, Zenon DEF Laid
  <1>3. f + a = g + b
    <2>1. (f + a) - 1 \in 0 .. (g + b) - 1 /\ (g + b) - 1 \in 0 .. (f + a) - 1
      BY <1>1, <1>2
    <2> QED BY <2>1
  <1>4. ~(f < g)
    <2>1. f < g => f \in 0 .. g - 1 /\ f \in f .. (f + a) - 1
      OBVIOUS
    <2> QED BY <2>1 DEF Laid
  <1>5. ~(g < f)
    <2>1. g < f => g \in 0 .. f - 1 /\ g \in g .. (g + b) - 1
      OBVIOUS
    <2> QED BY <2>1 DEF Laid
  <1> QED BY <1>1, <1>3, <1>4, <1>5

(* What a handshake that does not raise has checked. *)
LEMMA HandshakeChecks ==
    ASSUME NEW infos, NEW l, NEW network, ValidateHandshake(infos, l, network) /= None
    PROVE  Laid(infos, l.ffn, l.attn) /\ CommonAgreed(infos)
  <1>1. DOMAIN infos = (0 .. l.ffn - 1) \cup (l.ffn .. UnionSize(l) - 1)
    BY SMT DEF ValidateHandshake
  <1>2. \A w \in 0 .. l.ffn - 1 : infos[w].role = "ffn"
    BY Zenon DEF ValidateHandshake
  <1>3. \A w \in l.ffn .. UnionSize(l) - 1 : infos[w].role = "attention"
    BY Zenon DEF ValidateHandshake
  <1>4. CommonAgreed(infos)
    BY Zenon DEF ValidateHandshake
  <1> QED BY <1>1, <1>2, <1>3, <1>4, Zenon DEF UnionSize, Laid

(* A handshake reads the numbers of ranks of a layout, and nothing else. *)
LEMMA HandshakeReads ==
    ASSUME NEW infos, NEW l, NEW m, NEW network, l.ffn = m.ffn, l.attn = m.attn
    PROVE  ValidateHandshake(infos, l, network) = ValidateHandshake(infos, m, network)
  BY DEF ValidateHandshake, UnionSize, RequiredDeployment

(* The reports of a rank hold its own options. *)
LEMMA CommonFields ==
    ASSUME NEW w \in World
    PROVE  LET common == Infos[w].common
           IN  /\ Infos[w].role = Of(w).role
               /\ common.payload = Of(w).c.payload /\ common.experts = Of(w).l.experts
               /\ common.granularity = Of(w).c.granularity
               /\ common.sync_min = Of(w).c.sync_min
               /\ common.lanes = LanesOf(w) /\ common.network = Of(w).c.network
  BY DEF Infos, HandshakeInfo, LanesOf

(* Any two ranks that have come through the handshake agree on the sizes of
   the world, the options they must share, and what they adopted. *)
LEMMA Agreement ==
    ASSUME StartupInv, NEW x \in World, NEW y \in World,
           phase[x] = "ready", phase[y] = "ready"
    PROVE  /\ Of(x).l.ffn = Of(y).l.ffn /\ Of(x).l.attn = Of(y).l.attn
           /\ World = 0 .. (Of(x).l.ffn + Of(x).l.attn) - 1
           /\ \A w \in World : Of(w).role = "ffn" => w \in 0 .. Of(x).l.ffn - 1
           /\ Of(x).l.experts = Of(y).l.experts /\ Of(x).c.payload = Of(y).c.payload
           /\ Of(x).c.granularity = Of(y).c.granularity
           /\ Of(x).c.sync_min = Of(y).c.sync_min
           /\ LanesOf(x) = LanesOf(y)
           /\ adopted[x] = adopted[y]
  <1>1. /\ adopted[x] = ValidateHandshake(Infos, Of(x).l, Of(x).c.network)
        /\ adopted[y] = ValidateHandshake(Infos, Of(y).l, Of(y).c.network)
        /\ adopted[x] /= None /\ adopted[y] /= None
        /\ ValidLayout(Of(x).l) /\ ValidLayout(Of(y).l)
    BY DEF StartupInv, AfterHandshake
  <1>2. {Of(x).l.ffn, Of(x).l.attn, Of(y).l.ffn, Of(y).l.attn} \subseteq Int
    BY DeploymentsAssumption DEF StartupInv, World, Of
  <1>3. PICK f \in Int, a \in Int, g \in Int, b \in Int :
          f = Of(x).l.ffn /\ a = Of(x).l.attn /\ g = Of(y).l.ffn /\ b = Of(y).l.attn
    BY <1>2, Zenon
  <1>4. f > 0 /\ a > 0 /\ g > 0 /\ b > 0
    BY <1>1, <1>3 DEF ValidLayout
  <1>5. Laid(Infos, f, a) /\ Laid(Infos, g, b) /\ CommonAgreed(Infos)
    BY <1>1, <1>3, HandshakeChecks, Zenon
  <1>7. f = g /\ a = b /\ DOMAIN Infos = 0 .. (f + a) - 1
    BY <1>4, <1>5, LayoutsAgree
  <1>8. DOMAIN Infos = World
    BY DEF Infos
  <1>9. World = 0 .. (f + a) - 1
    BY <1>7, <1>8
  <1>10. Infos[x].common = Infos[y].common
    BY <1>5, <1>8 DEF CommonAgreed
  <1>11. /\ Of(x).l.experts = Of(y).l.experts /\ Of(x).c.payload = Of(y).c.payload
         /\ Of(x).c.granularity = Of(y).c.granularity /\ Of(x).c.sync_min = Of(y).c.sync_min
         /\ LanesOf(x) = LanesOf(y) /\ Of(x).c.network = Of(y).c.network
    BY <1>10, CommonFields
  <1>12. adopted[x] = adopted[y]
    <2>1. Of(x).l.ffn = Of(y).l.ffn /\ Of(x).l.attn = Of(y).l.attn
      BY <1>3, <1>7, Zenon
    <2>2. ValidateHandshake(Infos, Of(x).l, Of(x).c.network)
            = ValidateHandshake(Infos, Of(y).l, Of(x).c.network)
      BY <2>1, HandshakeReads, Zenon
    <2> QED BY <1>1, <1>11, <2>2, Zenon
  <1>13. ASSUME NEW w \in World, Of(w).role = "ffn" PROVE w \in 0 .. f - 1
    <2>1. Infos[w].role = "ffn"
      BY <1>13, CommonFields
    <2> QED BY <1>4, <1>5, <1>8, <2>1 DEF Laid
  <1> QED BY <1>3, <1>7, <1>9, <1>11, <1>12, <1>13

(* Ranks that are ready plan alike and hold what is routed to them, whatever
   they were started with (connector.py:308, :481-486, :710-780). *)
LEMMA ReadyAgree == StartupInv => RanksAgree
  <1> SUFFICES ASSUME StartupInv, Ready PROVE PlansAlike /\ RoutedWhereHeld
    BY DEF RanksAgree, PlansAlike, RoutedWhereHeld
  <1>1. \A w \in World : phase[w] = "ready"
    BY DEF Ready
  <1>2. ASSUME NEW w \in World
        PROVE  0 \in World
    <2>1. World = 0 .. (Of(w).l.ffn + Of(w).l.attn) - 1
      BY <1>1, Agreement
    <2>2. \A n \in Int : w \in 0 .. n => 0 \in 0 .. n
      OBVIOUS
    <2>3. (Of(w).l.ffn + Of(w).l.attn) - 1 \in Int
      BY DeploymentsAssumption DEF StartupInv, World, Of
    <2> QED BY <2>1, <2>2, <2>3
  <1>3. PlansAlike
    <2> SUFFICES ASSUME NEW w \in World
                 PROVE  /\ LanesOf(w) = LanesOf(0) /\ adopted[w] = adopted[0]
                        /\ PlansOf(w) = PlansOf(0)
      BY DEF PlansAlike
    <2>1. /\ Of(w).l.attn = Of(0).l.attn /\ Of(w).c.granularity = Of(0).c.granularity
          /\ Of(w).c.sync_min = Of(0).c.sync_min
          /\ LanesOf(w) = LanesOf(0) /\ adopted[w] = adopted[0]
      BY <1>1, <1>2, Agreement
    <2>2. PlansWith(w) = PlansWith(0)
      BY <2>1 DEF PlansWith
    <2>3. PICK attn, g : attn = Of(w).l.attn /\ attn = Of(0).l.attn
                         /\ g = PlansWith(w) /\ g = PlansWith(0)
      BY <2>1, <2>2, Zenon
    <2>4. PlansOf(w) = PlansOf(0)
      BY <2>3 DEF PlansOf
    <2> QED BY <2>1, <2>4, Zenon
  <1>4. RoutedWhereHeld
    <2> SUFFICES ASSUME NEW f \in World, Of(f).role = "ffn", NEW w \in World
                 PROVE  /\ ExpertRange(Of(w).l, Of(f).rank)
                              \subseteq PlacedExperts(Of(f).v, Of(f).rank, Of(f).l.experts)
                        /\ WeightFormat(Of(f).v) = Of(w).c.payload
                        /\ Of(w).layers = Of(f).layers
      BY DEF RoutedWhereHeld
    <2>1. f \in 0 .. Of(w).l.ffn - 1
      BY <1>1, Agreement
    <2>2. ModelsAccepted(Models, Of(w).l, Of(w).c.payload)
      BY <1>1 DEF StartupInv, AfterModels
    <2>3. Of(f).rank = f
      BY DeploymentsAssumption DEF StartupInv, World, Of
    <2>4. /\ Models[f].held = PlacedExperts(Of(f).v, Of(f).rank, Of(f).l.experts)
          /\ Models[f].format = WeightFormat(Of(f).v)
          /\ Models[f].layers = Of(f).layers /\ Models[w].layers = Of(w).layers
      BY DEF Models, ModelInfo
    <2>5. /\ Models[f].held = ExpertRange(Of(w).l, f) /\ Models[f].format = Of(w).c.payload
          /\ Models[f].layers = Models[w].layers
      <3>1. DOMAIN Models = World
        BY DEF Models
      <3> QED BY <2>1, <2>2, <3>1 DEF ModelsAccepted, ExpectedTensors
    <2> QED BY <2>3, <2>4, <2>5
  <1> QED BY <1>3, <1>4

(* Whatever deployments are tried, ranks that come up agree. *)
THEOREM ReadyRanksAgree == ServeSpec => []RanksAgree
  BY InitStartup, NextStartup, ReadyAgree, PTL DEF ServeSpec

----------------------------------------------------------------------------
(***************************************************************************)
(* Sequences of any elements.                                              *)
(***************************************************************************)
(* A sequence, of any elements. *)
IsSequence(s) == \E n \in Nat : s = [i \in 1 .. n |-> s[i]]

(* It is one over some set, with an element of which it can be extended. *)
LEMMA SequenceOf ==
    ASSUME NEW s, IsSequence(s), NEW e
    PROVE  \E T : s \in Seq(T) /\ e \in T
  <1> PICK n \in Nat : s = [i \in 1 .. n |-> s[i]]
    BY DEF IsSequence
  <1> DEFINE T == {s[i] : i \in 1 .. n} \cup {e}
  <1>1. s \in [1 .. n -> T]
    OBVIOUS
  <1>2. s \in Seq(T)
    <2> HIDE DEF T
    <2> QED BY <1>1
  <1> QED BY <1>2

(* A sequence of any elements has a length, and is empty if that is 0. *)
LEMMA SequenceLen ==
    ASSUME NEW s, IsSequence(s)
    PROVE  Len(s) \in Nat /\ DOMAIN s = 1 .. Len(s) /\ (s = <<>> <=> Len(s) = 0)
  <1> PICK T : s \in Seq(T)
    BY SequenceOf
  <1> QED BY LenProperties, EmptySeq

(* The empty sequence, and its length. *)
LEMMA EmptySequence == IsSequence(<<>>) /\ Len(<<>>) = 0
  <1>1. <<>> = [i \in 1 .. 0 |-> <<>>[i]]
    OBVIOUS
  <1> QED BY <1>1 DEF IsSequence

(* A sequence over a set is one of any elements. *)
LEMMA IsSequenceOf == ASSUME NEW T, NEW s \in Seq(T) PROVE IsSequence(s)
  <1> PICK n \in Nat : s \in [1 .. n -> T]
    OBVIOUS
  <1>1. s = [i \in 1 .. n |-> s[i]]
    OBVIOUS
  <1> QED BY <1>1 DEF IsSequence

(* What Append does to a sequence of any elements. *)
LEMMA SequenceAppend ==
    ASSUME NEW s, IsSequence(s), NEW e
    PROVE  /\ IsSequence(Append(s, e)) /\ Len(Append(s, e)) = Len(s) + 1
           /\ \A i \in 1 .. Len(s) : Append(s, e)[i] = s[i]
           /\ Append(s, e)[Len(s) + 1] = e
  <1> PICK T : s \in Seq(T) /\ e \in T
    BY SequenceOf
  <1>1. /\ Append(s, e) \in Seq(T) /\ Len(Append(s, e)) = Len(s) + 1
        /\ Append(s, e)[Len(s) + 1] = e
    BY AppendProperties
  <1>2. \A i \in 1 .. Len(s) : Append(s, e)[i] = s[i]
    BY AppendProperties
  <1>3. IsSequence(Append(s, e))
    BY <1>1, IsSequenceOf
  <1> QED BY <1>1, <1>2, <1>3

(* What Head and Tail return of a non-empty one. *)
LEMMA SequenceTail ==
    ASSUME NEW s, IsSequence(s), s /= <<>>
    PROVE  /\ Len(s) > 0 /\ Head(s) = s[1]
           /\ IsSequence(Tail(s)) /\ Len(Tail(s)) = Len(s) - 1
           /\ \A i \in 1 .. Len(s) - 1 : Tail(s)[i] = s[i + 1]
  <1> PICK T : s \in Seq(T)
    BY SequenceOf
  <1>1. /\ Tail(s) \in Seq(T) /\ Len(Tail(s)) = Len(s) - 1
        /\ \A i \in 1 .. Len(Tail(s)) : Tail(s)[i] = s[i + 1]
    BY HeadTailProperties
  <1>2. Len(s) \in Nat /\ Len(s) > 0 /\ Head(s) = s[1]
    BY SequenceLen
  <1> QED BY <1>1, <1>2, IsSequenceOf

(* Concatenating one or two elements. *)
LEMMA ConcatOne ==
    ASSUME NEW T, NEW p \in Seq(T), NEW x \in T, NEW y \in T
    PROVE  /\ <<>> \o <<x>> = <<x>> /\ <<x>> \o <<>> = <<x>>
           /\ p \o <<x>> = Append(p, x) /\ p \o (<<x>> \o <<y>>) = Append(Append(p, x), y)
  <1>1. <<x>> \in Seq(T) /\ <<y>> \in Seq(T)
    OBVIOUS
  <1>2. <<>> \o <<x>> = <<x>>
    BY <1>1
  <1>3. <<x>> \o <<>> = <<x>>
    BY <1>1, ConcatEmptySeq, Zenon
  <1>4. \A s \in Seq(T), e \in T : s \o <<e>> = Append(s, e)
    OBVIOUS
  <1>5. p \o (<<x>> \o <<y>>) = (p \o <<x>>) \o <<y>>
    BY <1>1, ConcatAssociative
  <1>6. p \o <<x>> = Append(p, x) /\ Append(p, x) \in Seq(T)
    BY <1>4
  <1>7. (p \o <<x>>) \o <<y>> = Append(Append(p, x), y)
    BY <1>4, <1>6
  <1> QED BY <1>2, <1>3, <1>5, <1>6, <1>7

(* f is the function that FlattenSeq recurses to. *)
Flattens(f, s, m) == f = [i \in 1 .. m |-> IF i = 1 THEN s[i] ELSE f[i - 1] \o s[i]]

(* A set of numbers that has 0, and with every number the next one, has all. *)
LEMMA NatLeast ==
    ASSUME NEW T \in SUBSET Nat, 0 \in T, \A n \in Nat : n \in T => n + 1 \in T
    PROVE  T = Nat
  <1> DEFINE R == {ss \in Nat \X Nat : ss[1] < ss[2]}
             B == Nat \ T
  <1>1. IsWellFoundedOn(R, Nat)
    BY NatLessThanWellFounded DEF OpToRel
  <1>2. \A x, y \in Nat : x < y => <<x, y>> \in R
    OBVIOUS
  <1>3. ASSUME B /= {} PROVE FALSE
    <2>1. B \subseteq Nat
      OBVIOUS
    <2> HIDE DEF R, B
    <2>2. PICK b \in B : \A y \in B : ~(<<y, b>> \in R)
      BY <1>1, <1>3, <2>1, WFMin, Zenon
    <2>3. b \in Nat /\ b \notin T
      BY DEF B
    <2>4. b /= 0 /\ b - 1 \in Nat /\ b - 1 < b /\ (b - 1) + 1 = b
      BY <2>3
    <2>5. b - 1 \notin T
      BY <2>3, <2>4
    <2>6. b - 1 \in B
      BY <2>4, <2>5 DEF B
    <2> QED BY <1>2, <2>2, <2>3, <2>4, <2>6
  <1> QED BY <1>3

(* The recursive functions exist. *)
LEMMA FlattensExists ==
    ASSUME NEW s, NEW m \in Nat
    PROVE  \E f : Flattens(f, s, m)
  <1> DEFINE T == {n \in Nat : \E f : Flattens(f, s, n)}
  <1>1. 0 \in T
    <2>1. PICK f : f = [i \in 1 .. 0 |-> IF i = 1 THEN s[i] ELSE s[i]]
      OBVIOUS
    <2>2. 1 .. 0 = {}
      OBVIOUS
    <2>3. f = [i \in 1 .. 0 |-> IF i = 1 THEN s[i] ELSE f[i - 1] \o s[i]]
      BY <2>1, <2>2
    <2> QED BY <2>3 DEF Flattens
  <1>2. ASSUME NEW n \in Nat, n \in T PROVE n + 1 \in T
    <2>1. PICK f : Flattens(f, s, n)
      BY <1>2
    <2>2. PICK g : g = [i \in 1 .. n + 1 |->
                          IF i = 1 THEN s[i]
                          ELSE IF i = n + 1 THEN f[n] \o s[i] ELSE f[i]]
      OBVIOUS
    <2>3. ASSUME NEW i \in 1 .. n PROVE g[i] = f[i]
      <3>1. i \in 1 .. n + 1 /\ i /= n + 1
        OBVIOUS
      <3>2. f[i] = IF i = 1 THEN s[i] ELSE f[i - 1] \o s[i]
        BY <2>1 DEF Flattens
      <3> QED BY <2>2, <3>1, <3>2
    <2>4. ASSUME NEW i \in 1 .. n + 1
          PROVE  g[i] = IF i = 1 THEN s[i] ELSE g[i - 1] \o s[i]
      <3>1. CASE i = 1
        BY <2>2, <3>1
      <3>2. CASE i = n + 1 /\ i /= 1
        <4>1. n \in 1 .. n /\ i - 1 = n
          BY <3>2
        <4>2. g[i - 1] = f[n]
          BY <2>3, <4>1
        <4>3. g[i] = f[n] \o s[i]
          BY <2>2, <3>2
        <4> QED BY <3>2, <4>2, <4>3
      <3>3. CASE i \in 1 .. n /\ i /= 1
        <4>1. i - 1 \in 1 .. n
          BY <3>3
        <4>2. g[i - 1] = f[i - 1] /\ g[i] = f[i]
          BY <2>3, <3>3, <4>1
        <4>3. f[i] = f[i - 1] \o s[i]
          BY <2>1, <3>3 DEF Flattens
        <4> QED BY <3>3, <4>2, <4>3
      <3>4. i \in 1 .. n \/ i = n + 1
        OBVIOUS
      <3> QED BY <3>1, <3>2, <3>3, <3>4
    <2>5. g = [i \in 1 .. n + 1 |-> g[i]]
      BY <2>2
    <2>6. Flattens(g, s, n + 1)
      BY <2>4, <2>5 DEF Flattens
    <2> QED BY <2>6
  <1> HIDE DEF T
  <1>3. T = Nat
    <2>1. T \in SUBSET Nat
      BY DEF T
    <2> QED BY <1>1, <1>2, <2>1, NatLeast
  <1>4. m \in T
    BY <1>3
  <1> QED BY <1>4 DEF T

(* FlattenSeq is what it recurses to. *)
LEMMA FlattenSeqIs ==
    ASSUME NEW N \in Nat \ {0}, NEW s, Len(s) = N
    PROVE  \E f : Flattens(f, s, N) /\ FlattenSeq(s) = f[N]
  <1> DEFINE f == CHOOSE f : f = [i \in 1 .. N |->
                                     IF i = 1 THEN s[i] ELSE f[i - 1] \o s[i]]
  <1>1. FlattenSeq(s) = f[N]
    BY DEF FlattenSeq
  <1>2. \E h : h = [i \in 1 .. N |-> IF i = 1 THEN s[i] ELSE h[i - 1] \o s[i]]
    BY FlattensExists DEF Flattens
  <1>3. f = [i \in 1 .. N |-> IF i = 1 THEN s[i] ELSE f[i - 1] \o s[i]]
    BY <1>2, ZenonT(40)
  <1>4. Flattens(f, s, N)
    BY <1>3 DEF Flattens
  <1> QED BY <1>1, <1>4

(***************************************************************************)
(* The program of a step: each stage goes through its calls in order.      *)
(***************************************************************************)
(* the collectives of a lane, in the order in which a stage needs them, step
   after step *)
Colls == [kind : {"dispatch", "combine"}, layer : 1 .. Layers]
FirstColl == [kind |-> "dispatch", layer |-> 1]
After(c) ==
    IF c.kind = "dispatch" THEN [kind |-> "combine", layer |-> c.layer]
    ELSE IF c.layer = Layers THEN FirstColl ELSE [kind |-> "dispatch", layer |-> c.layer + 1]

CollOf(call) ==
    [kind |-> IF call.call = "forth" THEN "dispatch" ELSE "combine", layer |-> call.layer]

(* m[k][s] is what stage s needs next when the calls from k on are ahead. *)
Calls(n) == [call : {"forth", "back"}, stage : 0 .. n - 1, layer : 1 .. Layers]
Ahead(p, n, m) ==
    /\ p \in Seq(Calls(n))
    /\ m \in [1 .. Len(p) + 1 -> [0 .. n - 1 -> Colls]]
    /\ \A s \in 0 .. n - 1 : m[1][s] = FirstColl
    /\ \A k \in 1 .. Len(p) :
         /\ m[k][p[k].stage] = CollOf(p[k])
         /\ m[k + 1] = [m[k] EXCEPT ![p[k].stage] = After(@)]
Reaches(p, n, w) == \E m : Ahead(p, n, m) /\ m[Len(p) + 1] = w
InOrder(p, n, m) == Ahead(p, n, m) /\ \A s \in 0 .. n - 1 : m[Len(p) + 1][s] = FirstColl
Made(n) == CHOOSE m : InOrder(AttnCalls[n], n, m)

(* What follows a collective is a collective. *)
LEMMA AfterTyped == \A c \in Colls : After(c) \in Colls /\ FirstColl \in Colls
  <1>1. Layers \in Nat /\ Layers >= 1
    BY SizesAssumption
  <1>2. FirstColl \in Colls
    BY <1>1 DEF FirstColl, Colls
  <1>3. ASSUME NEW c \in Colls PROVE After(c) \in Colls
    <2>1. c.kind \in {"dispatch", "combine"} /\ c.layer \in 1 .. Layers
      BY DEF Colls
    <2>2. c.layer /= Layers => c.layer + 1 \in 1 .. Layers
      BY <1>1, <2>1
    <2> QED BY <1>2, <2>1, <2>2 DEF After, Colls
  <1> QED BY <1>2, <1>3

(* One more call, of what its stage needs. *)
LEMMA OneMore ==
    ASSUME NEW n \in Nat \ {0}, NEW p, NEW w, Reaches(p, n, w), NEW c \in Calls(n),
           w[c.stage] = CollOf(c), NEW z, z = Append(p, c),
           NEW u, u = [w EXCEPT ![c.stage] = After(CollOf(c))]
    PROVE  Reaches(z, n, u)
  <1> PICK m : Ahead(p, n, m) /\ m[Len(p) + 1] = w
    BY DEF Reaches
  <1>1. PICK N : N = Len(p)
    OBVIOUS
  <1>2. p \in Seq(Calls(n)) /\ N \in Nat /\ m \in [1 .. N + 1 -> [0 .. n - 1 -> Colls]]
    BY <1>1 DEF Ahead
  <1>3. PICK q : q = z
    OBVIOUS
  <1>4. /\ q \in Seq(Calls(n)) /\ Len(q) = N + 1
        /\ q[N + 1] = c /\ \A k \in 1 .. N : q[k] = p[k]
    BY <1>1, <1>2, <1>3, AppendProperties
  <1>5. u = [w EXCEPT ![c.stage] = After(CollOf(c))]
    OBVIOUS
  <1>6. u \in [0 .. n - 1 -> Colls]
    <2>1. CollOf(c) \in Colls
      BY DEF CollOf, Colls, Calls
    <2>2. After(CollOf(c)) \in Colls
      BY <2>1, AfterTyped
    <2>3. N + 1 \in 1 .. N + 1
      BY <1>2
    <2>4. w \in [0 .. n - 1 -> Colls]
      BY <1>1, <1>2, <2>3
    <2> QED BY <1>5, <2>2, <2>4
  <1>7. PICK h : h = [k \in 1 .. N + 2 |-> IF k = N + 2 THEN u ELSE m[k]]
    OBVIOUS
  <1>8. (\A k \in 1 .. N + 1 : h[k] = m[k]) /\ h[N + 2] = u
    BY <1>2, <1>7
  <1>9. h \in [1 .. Len(q) + 1 -> [0 .. n - 1 -> Colls]]
    <2>1. \A k \in 1 .. N + 2 : k = N + 2 \/ k \in 1 .. N + 1
      BY <1>2
    <2>2. Len(q) + 1 = N + 2
      BY <1>2, <1>4
    <2> QED BY <1>2, <1>6, <1>7, <2>1, <2>2
  <1>10. ASSUME NEW k \in 1 .. Len(q)
         PROVE  /\ h[k][q[k].stage] = CollOf(q[k])
                /\ h[k + 1] = [h[k] EXCEPT ![q[k].stage] = After(@)]
    <2>1. CASE k = N + 1
      <3>1. h[k] = m[N + 1] /\ h[k + 1] = u /\ q[k] = c
        BY <1>2, <1>4, <1>8, <2>1
      <3>2. m[N + 1] = w
        BY <1>1
      <3>3. u = [m[N + 1] EXCEPT ![c.stage] = After(m[N + 1][c.stage])]
        BY <1>5, <3>2
      <3> QED BY <3>1, <3>2, <3>3
    <2>2. CASE k \in 1 .. N
      <3>1. k \in 1 .. N + 1 /\ k + 1 \in 1 .. N + 1
        BY <1>2, <2>2
      <3>2. h[k] = m[k] /\ h[k + 1] = m[k + 1] /\ q[k] = p[k]
        BY <1>4, <1>8, <2>2, <3>1
      <3>3. m[k][p[k].stage] = CollOf(p[k]) /\ m[k + 1] = [m[k] EXCEPT ![p[k].stage] = After(@)]
        BY <1>1, <2>2 DEF Ahead
      <3> QED BY <3>2, <3>3
    <2>3. k = N + 1 \/ k \in 1 .. N
      BY <1>2, <1>4
    <2> QED BY <2>1, <2>2, <2>3
  <1>11. \A s \in 0 .. n - 1 : h[1][s] = FirstColl
    <2>1. 1 \in 1 .. N + 1
      BY <1>2
    <2> QED BY <1>8, <2>1 DEF Ahead
  <1>12. Ahead(q, n, h)
    BY <1>4, <1>9, <1>10, <1>11 DEF Ahead
  <1>13. h[Len(q) + 1] = u
    BY <1>2, <1>4, <1>8
  <1> QED BY <1>1, <1>3, <1>5, <1>12, <1>13 DEF Reaches

(* After i rounds of n stages: the rounds of a stage, and what it needs. *)
Rounds(n, s, i) == IF s < i % n THEN i \div n + 1 ELSE i \div n
Needs(x) == IF x = 0 \/ x = Layers + 1 THEN FirstColl ELSE [kind |-> "combine", layer |-> x]

(* A round. *)
LEMMA OneRound ==
    ASSUME NEW n \in 1 .. 2, NEW i \in 0 .. n * (Layers + 1) - 1, NEW p, NEW w,
           Reaches(p, n, w), w = [s \in 0 .. n - 1 |-> Needs(Rounds(n, s, i))],
           NEW q, q = p \o Round(i % n, i \div n + 1)
    PROVE  Reaches(q, n, [s \in 0 .. n - 1 |-> Needs(Rounds(n, s, i + 1))])
  <1>1. Layers \in Nat /\ Layers >= 1
    BY SizesAssumption
  <1>2. PICK t : t = i % n
    OBVIOUS
  <1>3. PICK l : l = i \div n + 1
    OBVIOUS
  <1>4. n = 1 \/ n = 2
    OBVIOUS
  <1>5. /\ i \in Nat /\ t \in 0 .. n - 1 /\ l \in 1 .. Layers + 1
        /\ Rounds(n, t, i) = l - 1 /\ Rounds(n, t, i + 1) = l
        /\ \A s \in 0 .. n - 1 : s /= t => Rounds(n, s, i + 1) = Rounds(n, s, i)
    <2>1. CASE n = 1
      BY <1>1, <1>2, <1>3, <2>1 DEF Rounds
    <2>2. CASE n = 2
      BY <1>1, <1>2, <1>3, <2>2 DEF Rounds
    <2> QED BY <1>4, <2>1, <2>2
  <1>6. p \in Seq(Calls(n)) /\ n \in Nat \ {0}
    BY <1>4 DEF Ahead, Reaches
  <1>7. w[t] = Needs(l - 1)
    BY <1>5
  <1>8. PICK back : back = [call |-> "back", stage |-> t, layer |-> l - 1]
    OBVIOUS
  <1>9. PICK forth : forth = [call |-> "forth", stage |-> t, layer |-> l]
    OBVIOUS
  <1>10. PICK v : v = [s \in 0 .. n - 1 |-> Needs(Rounds(n, s, i + 1))]
    OBVIOUS
  <1>11. ASSUME NEW c, c = Needs(l) PROVE v = [w EXCEPT ![t] = c]
    BY <1>5, <1>10, <1>11
  <1>12. /\ back.stage = t /\ back.layer = l - 1 /\ forth.stage = t /\ forth.layer = l
         /\ CollOf(back) = [kind |-> "combine", layer |-> l - 1]
         /\ CollOf(forth) = [kind |-> "dispatch", layer |-> l]
    BY <1>8, <1>9 DEF CollOf
  <1>13. CASE l = 1
    <2>1. forth \in Calls(n)
      BY <1>1, <1>5, <1>9, <1>13 DEF Calls
    <2>2. q = Append(p, forth)
      <3>1. Round(t, l) = <<>> \o <<forth>>
        BY <1>1, <1>9, <1>13 DEF Round
      <3>2. q = p \o <<forth>>
        BY <1>2, <1>3, <1>6, <2>1, <3>1, ConcatOne
      <3> QED BY <1>6, <2>1, <3>2, ConcatOne
    <2>3. w[forth.stage] = CollOf(forth)
      <3>1. Needs(l - 1) = FirstColl
        BY <1>13 DEF Needs
      <3> QED BY <1>7, <1>12, <1>13, <3>1 DEF FirstColl
    <2>5. After(CollOf(forth)) = Needs(l)
      BY <1>1, <1>12, <1>13 DEF After, Needs
    <2>4. Reaches(q, n, v)
      <3>1. v = [w EXCEPT ![forth.stage] = After(CollOf(forth))]
        BY <1>11, <1>12, <2>5
      <3> QED BY <1>6, <2>1, <2>2, <2>3, <3>1, OneMore
    <2> QED BY <1>10, <2>4
  <1>14. CASE l = Layers + 1
    <2>1. back \in Calls(n)
      BY <1>1, <1>5, <1>8, <1>14 DEF Calls
    <2>2. q = Append(p, back)
      <3>1. Round(t, l) = <<back>> \o <<>>
        <4>1. l > 1 /\ ~(l <= Layers)
          BY <1>1, <1>14
        <4> QED BY <1>8, <4>1 DEF Round
      <3>2. q = p \o <<back>>
        BY <1>2, <1>3, <1>6, <2>1, <3>1, ConcatOne
      <3> QED BY <1>6, <2>1, <3>2, ConcatOne
    <2>3. w[back.stage] = CollOf(back)
      BY <1>1, <1>7, <1>12, <1>14 DEF Needs
    <2>5. After(CollOf(back)) = Needs(l)
      BY <1>1, <1>12, <1>14 DEF After, Needs
    <2>4. Reaches(q, n, v)
      <3>1. v = [w EXCEPT ![back.stage] = After(CollOf(back))]
        BY <1>11, <1>12, <2>5
      <3> QED BY <1>6, <2>1, <2>2, <2>3, <3>1, OneMore
    <2> QED BY <1>10, <2>4
  <1>15. CASE l \in 2 .. Layers
    <2>1. back \in Calls(n) /\ forth \in Calls(n)
      BY <1>1, <1>5, <1>8, <1>9, <1>15 DEF Calls
    <2>2. PICK r : r = Append(p, back)
      OBVIOUS
    <2>3. q = Append(r, forth)
      <3>1. Round(t, l) = <<back>> \o <<forth>>
        BY <1>1, <1>8, <1>9, <1>15 DEF Round
      <3>2. q = p \o (<<back>> \o <<forth>>)
        BY <1>2, <1>3, <3>1
      <3> QED BY <1>6, <2>1, <2>2, <3>2, ConcatOne
    <2>4. w[back.stage] = CollOf(back)
      BY <1>1, <1>7, <1>12, <1>15 DEF Needs
    <2>5. PICK u : u = [w EXCEPT ![t] = After(CollOf(back))]
      OBVIOUS
    <2>6. Reaches(r, n, u)
      <3>1. u = [w EXCEPT ![back.stage] = After(CollOf(back))]
        BY <1>12, <2>5
      <3> QED BY <1>6, <2>1, <2>2, <2>4, <3>1, OneMore
    <2>7. After(CollOf(back)) = CollOf(forth)
      BY <1>1, <1>12, <1>15 DEF After
    <2>8. u[forth.stage] = CollOf(forth)
      BY <1>5, <1>12, <2>5, <2>7
    <2>9. After(CollOf(forth)) = Needs(l)
      BY <1>1, <1>12, <1>15 DEF After, Needs
    <2>10. v = [u EXCEPT ![forth.stage] = After(CollOf(forth))]
      <3>1. v = [w EXCEPT ![t] = Needs(l)]
        BY <1>11
      <3> QED BY <1>12, <2>5, <2>9, <3>1
    <2>11. Reaches(q, n, v)
      BY <1>6, <2>1, <2>3, <2>6, <2>8, <2>10, OneMore
    <2> QED BY <1>10, <2>11
  <1>16. l = 1 \/ l = Layers + 1 \/ l \in 2 .. Layers
    BY <1>1, <1>5
  <1> QED BY <1>13, <1>14, <1>15, <1>16

(* The calls of a step are in order for every stage, on both sides. *)
LEMMA CallsInOrder ==
    ASSUME NEW n \in 1 .. Lanes
    PROVE  InOrder(AttnCalls[n], n, Made(n)) /\ FfnCalls[n] = AttnCalls[n]
  <1>1. Layers \in Nat /\ Layers >= 1 /\ n \in 1 .. 2
    BY SizesAssumption DEF MaxLanes
  <1>2. PICK N : N = n * (Layers + 1)
    OBVIOUS
  <1>3. n = 1 \/ n = 2
    BY <1>1
  <1>4. N \in Nat \ {0}
    BY <1>1, <1>2, <1>3
  <1>5. PICK z : z = [i \in 1 .. N |-> Round((i - 1) % n, (i - 1) \div n + 1)]
    OBVIOUS
  <1>6. AttnCalls[n] = FlattenSeq(z)
    BY <1>2, <1>5 DEF AttnCalls
  <1>7. Len(z) = N
    BY <1>4, <1>5
  <1>8. PICK f : Flattens(f, z, N) /\ FlattenSeq(z) = f[N]
    BY <1>4, <1>7, FlattenSeqIs
  <1> DEFINE Good(i, p) == Reaches(p, n, [s \in 0 .. n - 1 |-> Needs(Rounds(n, s, i))])
             T == {i \in Nat : i + 1 <= N => Good(i + 1, f[i + 1])}
  <1>9. ASSUME NEW i \in 0 .. N - 1, NEW p, Good(i, p), NEW q, q = p \o z[i + 1]
        PROVE  Good(i + 1, q)
    <2>1. i + 1 \in 1 .. N /\ (i + 1) - 1 = i
      BY <1>4
    <2>2. q = p \o Round(i % n, i \div n + 1)
      BY <1>5, <1>9, <2>1
    <2>3. i \in 0 .. n * (Layers + 1) - 1
      BY <1>2
    <2>4. PICK w : w = [s \in 0 .. n - 1 |-> Needs(Rounds(n, s, i))]
      OBVIOUS
    <2>5. Reaches(p, n, w)
      BY <1>9, <2>4
    <2> QED BY <1>1, <2>2, <2>3, <2>4, <2>5, OneRound
  <1>10. Good(0, <<>>)
    <2>1. PICK w : w = [s \in 0 .. n - 1 |-> FirstColl]
      OBVIOUS
    <2>2. FirstColl \in Colls
      BY <1>1 DEF FirstColl, Colls
    <2>3. <<>> \in Seq(Calls(n)) /\ Len(<<>>) = 0
      OBVIOUS
    <2>4. PICK m : m = [k \in 1 .. 1 |-> w]
      OBVIOUS
    <2>5. m[1] = w
      BY <2>4
    <2>6. Ahead(<<>>, n, m)
      BY <2>1, <2>2, <2>3, <2>4, <2>5 DEF Ahead
    <2>7. Reaches(<<>>, n, w)
      BY <2>3, <2>5, <2>6 DEF Reaches
    <2>8. w = [s \in 0 .. n - 1 |-> Needs(Rounds(n, s, 0))]
      <3>1. \A s \in 0 .. n - 1 : Rounds(n, s, 0) = 0
        BY <1>3 DEF Rounds
      <3>2. \A s \in 0 .. n - 1 : Needs(Rounds(n, s, 0)) = FirstColl
        BY <3>1 DEF Needs
      <3> QED BY <2>1, <3>2
    <2> QED BY <2>7, <2>8
  <1>11. f[1] = z[1] /\ \A i \in 2 .. N : f[i] = f[i - 1] \o z[i]
    <2>1. 1 \in 1 .. N /\ \A i \in 2 .. N : i \in 1 .. N /\ i /= 1
      BY <1>4
    <2> QED BY <1>8, <2>1 DEF Flattens
  <1>12. 0 \in T
    <2>1. z[1] = <<>> \o z[1]
      <3>1. z[1] = Round(0, 1)
        BY <1>3, <1>4, <1>5
      <3> QED BY <1>1, <3>1 DEF Round
    <2>2. 0 \in 0 .. N - 1
      BY <1>4
    <2>3. z[0 + 1] = z[1]
      OBVIOUS
    <2> HIDE DEF Good
    <2>4. Good(0 + 1, f[1])
      BY <1>9, <1>10, <1>11, <2>1, <2>2, <2>3
    <2> QED BY <2>4
  <1>13. ASSUME NEW i \in Nat, i \in T PROVE i + 1 \in T
    <2> SUFFICES ASSUME (i + 1) + 1 <= N PROVE Good((i + 1) + 1, f[(i + 1) + 1])
      OBVIOUS
    <2>1. i + 1 <= N /\ i + 1 \in 0 .. N - 1 /\ (i + 1) + 1 \in 2 .. N /\ ((i + 1) + 1) - 1 = i + 1
      BY <1>4
    <2>2. Good(i + 1, f[i + 1])
      BY <1>13, <2>1
    <2>3. f[(i + 1) + 1] = f[i + 1] \o z[(i + 1) + 1]
      BY <1>11, <2>1
    <2> HIDE DEF Good
    <2> QED BY <1>9, <2>1, <2>2, <2>3
  <1> HIDE DEF T, Good
  <1>14. T = Nat
    <2>1. T \in SUBSET Nat
      BY DEF T
    <2> QED BY <1>12, <1>13, <2>1, NatLeast
  <1>15. Good(N, f[N])
    <2>1. N - 1 \in Nat /\ (N - 1) + 1 = N
      BY <1>4
    <2>2. N - 1 \in T
      BY <1>14, <2>1
    <2> QED BY <2>1, <2>2 DEF T
  <1>16. \A s \in 0 .. n - 1 : Needs(Rounds(n, s, N)) = FirstColl
    <2>1. \A s \in 0 .. n - 1 : Rounds(n, s, N) = Layers + 1
      <3>1. CASE n = 1
        BY <1>1, <1>2, <3>1 DEF Rounds
      <3>2. CASE n = 2
        BY <1>1, <1>2, <3>2 DEF Rounds
      <3> QED BY <1>3, <3>1, <3>2
    <2> QED BY <2>1 DEF Needs
  <1>17. \E m : InOrder(AttnCalls[n], n, m)
    <2>1. PICK w : w = [s \in 0 .. n - 1 |-> Needs(Rounds(n, s, N))]
      OBVIOUS
    <2>2. Reaches(f[N], n, w)
      BY <1>15, <2>1 DEF Good
    <2>3. PICK m : Ahead(f[N], n, m) /\ m[Len(f[N]) + 1] = w
      BY <2>2 DEF Reaches
    <2>4. InOrder(f[N], n, m)
      BY <1>16, <2>1, <2>3 DEF InOrder
    <2> QED BY <1>6, <1>8, <2>4
  <1>18. InOrder(AttnCalls[n], n, Made(n))
    BY <1>17 DEF Made
  <1> QED BY <1>18 DEF AttnCalls, FfnCalls

(***************************************************************************)
(* The k-th collective of a lane.                                          *)
(***************************************************************************)
LayerOf(j) == (j % Layers) + 1
Coll(k) ==
    [kind |-> IF k % 2 = 1 THEN "dispatch" ELSE "combine", layer |-> LayerOf((k - 1) \div 2)]

(* Quotient and remainder. *)
LEMMA DivRemainder ==
    ASSUME NEW j \in Nat, NEW N \in Nat \ {0}
    PROVE  j \div N \in Nat /\ j % N \in 0 .. N - 1 /\ j = N * (j \div N) + (j % N)
  BY Z3

(* No other remainder. *)
LEMMA RemainderUnique ==
    ASSUME NEW N \in Nat \ {0}, NEW q \in Nat, NEW r \in 0 .. N - 1, NEW j \in Nat,
           j = N * q + r
    PROVE  j % N = r
  <1>1. PICK p, s : p = j \div N /\ s = j % N
    OBVIOUS
  <1>2. p \in Nat /\ s \in 0 .. N - 1 /\ N * p + s = N * q + r
    BY <1>1, DivRemainder
  <1>3. ~(p < q)
    <2>1. p < q => N * p + N <= N * q
      <3>1. p < q => p + 1 <= q
        BY <1>2
      <3> QED BY <1>2, <3>1, Z3
    <2>2. N * p \in Nat /\ N * q \in Nat
      BY <1>2, Z3
    <2> QED BY <1>2, <2>1, <2>2
  <1>4. ~(q < p)
    <2>1. q < p => N * q + N <= N * p
      <3>1. q < p => q + 1 <= p
        BY <1>2
      <3> QED BY <1>2, <3>1, Z3
    <2>2. N * p \in Nat /\ N * q \in Nat
      BY <1>2, Z3
    <2> QED BY <1>2, <2>1, <2>2
  <1>5. p = q
    BY <1>2, <1>3, <1>4
  <1>6. N * p \in Nat
    BY <1>2, Z3
  <1> QED BY <1>1, <1>2, <1>5, <1>6

(* The remainder of 0. *)
LEMMA RemainderZero == \A N \in Nat \ {0} : 0 % N = 0
  BY Z3

(* Layers follow one another, step after step. *)
LEMMA LayersInTurn ==
    /\ LayerOf(0) = 1
    /\ \A j \in Nat : /\ LayerOf(j) \in 1 .. Layers
                      /\ LayerOf(j + 1) = IF LayerOf(j) = Layers THEN 1 ELSE LayerOf(j) + 1
  <1>1. Layers \in Nat \ {0}
    BY SizesAssumption
  <1>2. ASSUME NEW N \in Nat \ {0}, NEW j \in Nat
        PROVE  /\ j % N \in 0 .. N - 1 /\ 0 % N = 0
               /\ (j + 1) % N = IF j % N = N - 1 THEN 0 ELSE (j % N) + 1
    <2>1. PICK q, r : q = j \div N /\ r = j % N
      OBVIOUS
    <2>2. q \in Nat /\ r \in 0 .. N - 1 /\ j = N * q + r
      BY <2>1, DivRemainder
    <2>3. CASE r = N - 1
      <3>1. j + 1 = N * (q + 1) + 0
        BY <2>2, <2>3, Z3
      <3>2. (j + 1) % N = 0
        BY <2>2, <3>1, RemainderUnique
      <3> QED BY <2>1, <2>2, <2>3, <3>2, RemainderZero
    <2>4. CASE r /= N - 1
      <3>1. j + 1 = N * q + (r + 1)
        BY <2>2, Z3
      <3>2. r + 1 \in 0 .. N - 1
        BY <2>2, <2>4
      <3>3. (j + 1) % N = r + 1
        BY <2>2, <3>1, <3>2, RemainderUnique
      <3> QED BY <2>1, <2>2, <2>4, <3>3, RemainderZero
    <2> QED BY <2>3, <2>4
  <1>3. ASSUME NEW j \in Nat
        PROVE  /\ LayerOf(j) \in 1 .. Layers
               /\ LayerOf(j + 1) = IF LayerOf(j) = Layers THEN 1 ELSE LayerOf(j) + 1
    <2>1. PICK x : x = j % Layers
      OBVIOUS
    <2>2. PICK y : y = (j + 1) % Layers
      OBVIOUS
    <2>3. x \in 0 .. Layers - 1 /\ y = IF x = Layers - 1 THEN 0 ELSE x + 1
      <3>1. /\ j % Layers \in 0 .. Layers - 1
            /\ (j + 1) % Layers = IF j % Layers = Layers - 1 THEN 0 ELSE (j % Layers) + 1
        BY <1>1, <1>2, Zenon
      <3> QED BY <2>1, <2>2, <3>1
    <2>4. LayerOf(j) = x + 1 /\ LayerOf(j + 1) = y + 1
      BY <2>1, <2>2 DEF LayerOf
    <2> QED BY <1>1, <2>3, <2>4
  <1>4. LayerOf(0) = 1
    BY <1>1, <1>2 DEF LayerOf
  <1> QED BY <1>3, <1>4

(* Collectives follow one another as every stage needs them. *)
LEMMA CollsInTurn ==
    /\ Coll(1) = FirstColl
    /\ \A k \in Nat \ {0} : Coll(k) \in Colls /\ Coll(k + 1) = After(Coll(k))
  <1>1. Coll(1) = FirstColl
    BY LayersInTurn DEF Coll, FirstColl
  <1>2. ASSUME NEW k \in Nat \ {0} PROVE Coll(k) \in Colls /\ Coll(k + 1) = After(Coll(k))
    <2>1. PICK j \in Nat : k = 2 * j + 1 \/ k = 2 * j + 2
      <3>1. (k - 1) \div 2 \in Nat /\ (k = 2 * ((k - 1) \div 2) + 1 \/ k = 2 * ((k - 1) \div 2) + 2)
        OBVIOUS
      <3> QED BY <3>1
    <2>2. PICK l : l = LayerOf(j)
      OBVIOUS
    <2>3. l \in 1 .. Layers /\ LayerOf(j + 1) = IF l = Layers THEN 1 ELSE l + 1
      BY <2>2, LayersInTurn
    <2>4. CASE k = 2 * j + 1
      <3>1. /\ (k - 1) \div 2 = j /\ k % 2 = 1 /\ ((k + 1) - 1) \div 2 = j /\ (k + 1) % 2 /= 1
        BY <2>4
      <3>2. Coll(k) = [kind |-> "dispatch", layer |-> l] /\ Coll(k + 1) = [kind |-> "combine", layer |-> l]
        BY <2>2, <3>1 DEF Coll
      <3> QED BY <2>3, <3>2 DEF After, Colls
    <2>5. CASE k = 2 * j + 2
      <3>1. /\ (k - 1) \div 2 = j /\ k % 2 /= 1 /\ ((k + 1) - 1) \div 2 = j + 1 /\ (k + 1) % 2 = 1
        BY <2>5
      <3>2. Coll(k) = [kind |-> "combine", layer |-> l]
        BY <2>2, <3>1 DEF Coll
      <3>3. Coll(k + 1) = [kind |-> "dispatch", layer |-> IF l = Layers THEN 1 ELSE l + 1]
        BY <2>3, <3>1 DEF Coll
      <3> QED BY <2>3, <3>2, <3>3 DEF After, Colls, FirstColl
    <2> QED BY <2>1, <2>4, <2>5
  <1> QED BY <1>1, <1>2

(* A combine follows the dispatch of its layer. *)
LEMMA CombineFollows ==
    ASSUME NEW k \in Nat \ {0}
    PROVE  /\ Coll(k).kind = "dispatch" => Coll(k + 1) = [kind |-> "combine", layer |-> Coll(k).layer]
           /\ Coll(k).kind = "combine" => Coll(k + 1).kind = "dispatch"
           /\ Coll(k).kind \in {"dispatch", "combine"}
           /\ Coll(k) = [kind |-> Coll(k).kind, layer |-> Coll(k).layer]
  <1>1. Coll(k) \in Colls /\ Coll(k + 1) = After(Coll(k))
    BY CollsInTurn
  <1> QED BY <1>1 DEF After, Colls, FirstColl

(***************************************************************************)
(* What the host of a rank calls next for a stage, when it is at position  *)
(* p of a step of n stages.                                                *)
(***************************************************************************)
NextAt(n, p, s) == IF s < n THEN Made(n)[p][s] ELSE FirstColl

(* A call is what its stage needs next. *)
LEMMA CallIsNext ==
    ASSUME NEW n \in 1 .. Lanes, NEW p \in 1 .. Len(AttnCalls[n]), NEW c, c = AttnCalls[n][p]
    PROVE  /\ c \in Calls(n) /\ NextAt(n, p, c.stage) = CollOf(c)
           /\ \A s \in Nat : NextAt(n, p + 1, s) = IF s = c.stage THEN After(CollOf(c))
                                                   ELSE NextAt(n, p, s)
  <1>1. PICK m, q : m = Made(n) /\ q = AttnCalls[n]
    OBVIOUS
  <1>2. Ahead(q, n, m)
    BY <1>1, CallsInOrder DEF InOrder
  <1>3. p \in 1 .. Len(q) /\ c = q[p] /\ q \in Seq(Calls(n))
    BY <1>1, <1>2 DEF Ahead
  <1>4. c \in Calls(n)
    BY <1>3
  <1>5. c.stage \in 0 .. n - 1
    BY <1>4 DEF Calls
  <1>6. m[p][c.stage] = CollOf(c) /\ m[p + 1] = [m[p] EXCEPT ![c.stage] = After(@)]
    BY <1>2, <1>3 DEF Ahead
  <1>7. m[p] \in [0 .. n - 1 -> Colls]
    BY <1>2, <1>3 DEF Ahead
  <1>8. n \in Nat
    BY SizesAssumption DEF MaxLanes
  <1>9. ASSUME NEW s \in Nat, s < n
        PROVE  m[p + 1][s] = IF s = c.stage THEN After(CollOf(c)) ELSE m[p][s]
    BY <1>5, <1>6, <1>7, <1>8, <1>9
  <1> QED BY <1>1, <1>4, <1>5, <1>6, <1>8, <1>9 DEF NextAt

(* Between steps, at their beginning and at their end, every stage needs the
   dispatch of the first layer. *)
LEMMA AtRest ==
    ASSUME NEW s \in Nat
    PROVE  /\ NextAt(0, 1, s) = FirstColl
           /\ \A n \in 1 .. Lanes : /\ NextAt(n, 1, s) = FirstColl
                                    /\ NextAt(n, Len(AttnCalls[n]) + 1, s) = FirstColl
  <1>1. NextAt(0, 1, s) = FirstColl
    BY DEF NextAt
  <1>2. ASSUME NEW n \in 1 .. Lanes
        PROVE  /\ NextAt(n, 1, s) = FirstColl
               /\ NextAt(n, Len(AttnCalls[n]) + 1, s) = FirstColl
    <2>1. n \in Nat
      BY SizesAssumption DEF MaxLanes
    <2>2. InOrder(AttnCalls[n], n, Made(n))
      BY CallsInOrder
    <2>3. s < n => s \in 0 .. n - 1
      BY <2>1
    <2> QED BY <2>2, <2>3 DEF NextAt, InOrder, Ahead
  <1> QED BY <1>1, <1>2

(***************************************************************************)
(* Operations, and the streams of a rank.  Operations of a stream are      *)
(* numbered from 1, as events are: c[st] are done, t[st] have been         *)
(* enqueued, and o[st][n] is the n-th, for n in between.                   *)
(***************************************************************************)
Key(op) == [kind |-> op.kind, layer |-> op.layer]
On(st, n) == [stream |-> st, n |-> n]
Row(a, s, l) == [rank |-> a, stage |-> s, layer |-> l]

Queues(q) == q = [st \in Streams |-> q[st]] /\ \A st \in Streams : IsSequence(q[st])
Tops(q, c) == [st \in Streams |-> c[st] + Len(q[st])]
Ops(q, c) == [st \in Streams |-> [n \in c[st] + 1 .. c[st] + Len(q[st]) |-> q[st][n - c[st]]]]

View(c, t) ==
    /\ c \in [Streams -> Nat] /\ t \in [Streams -> Nat]
    /\ \A st \in Streams : c[st] <= t[st]

(* one operation more, and one done *)
Pushed(c, t, o, st, op, t2, o2) ==
    /\ t2 = [t EXCEPT ![st] = @ + 1]
    /\ \A x \in Streams : \A n \in c[x] + 1 .. t[x] : o2[x][n] = o[x][n]
    /\ o2[st][t[st] + 1] = op
Popped(c, t, o, st, c2, o2) ==
    /\ c[st] < t[st]
    /\ c2 = [c EXCEPT ![st] = @ + 1]
    /\ \A x \in Streams : \A n \in c2[x] + 1 .. t[x] : o2[x][n] = o[x][n]

(* What the fields of an operation are. *)
LEMMA OpFields ==
    ASSUME NEW kind, NEW st, NEW s, NEW l, NEW after, NEW x, x = Op(kind, st, s, l, after),
           NEW bucket, NEW b, NEW y, y = [x EXCEPT !.block = b],
           NEW w, w = [x EXCEPT !.bucket = bucket], NEW z, z = [w EXCEPT !.block = b]
    PROVE  /\ \A op \in {x, y, z, w} : /\ op.kind = kind /\ op.on = st /\ op.stage = s
                                       /\ op.layer = l /\ op.after = after
           /\ y.block = b /\ z.block = b
  BY DEF Op

(* The streams of a rank, seen so. *)
LEMMA ViewTyped ==
    ASSUME NEW q, Queues(q), NEW c \in [Streams -> Nat]
    PROVE  View(c, Tops(q, c))
  <1>1. ASSUME NEW st \in Streams PROVE Len(q[st]) \in Nat /\ c[st] \in Nat
    BY SequenceLen DEF Queues
  <1>2. ASSUME NEW st \in Streams
        PROVE  Tops(q, c)[st] \in Nat /\ c[st] <= Tops(q, c)[st]
    BY <1>1 DEF Tops
  <1> QED BY <1>2 DEF View, Tops

(* Enqueueing an operation. *)
LEMMA PutView ==
    ASSUME NEW q, Queues(q), NEW c \in [Streams -> Nat], NEW st \in Streams,
           NEW op, op.on = st, NEW q2, q2 = Put(q, op)
    PROVE  Queues(q2) /\ Pushed(c, Tops(q, c), Ops(q, c), st, op, Tops(q2, c), Ops(q2, c))
  <1>1. PICK n : n = Len(q[st])
    OBVIOUS
  <1>2. IsSequence(q[st]) /\ n \in Nat /\ c[st] \in Nat
    BY <1>1, SequenceLen DEF Queues
  <1>3. q2 = [q EXCEPT ![st] = Append(q[st], op)]
    BY DEF Put
  <1>4. /\ \A x \in Streams : x /= st => q2[x] = q[x]
        /\ q2[st] = Append(q[st], op)
        /\ q2 = [x \in Streams |-> q2[x]]
    BY <1>3 DEF Queues
  <1>5. /\ IsSequence(q2[st]) /\ Len(q2[st]) = n + 1
        /\ \A i \in 1 .. n : q2[st][i] = q[st][i]
        /\ q2[st][n + 1] = op
    BY <1>1, <1>2, <1>4, SequenceAppend
  <1>6. Queues(q2)
    BY <1>4, <1>5 DEF Queues
  <1>7. Tops(q2, c) = [Tops(q, c) EXCEPT ![st] = @ + 1]
    <2>1. Tops(q2, c)[st] = (c[st] + n) + 1 /\ Tops(q, c)[st] = c[st] + n
      BY <1>1, <1>2, <1>5 DEF Tops
    <2>2. \A x \in Streams : x /= st => Tops(q2, c)[x] = Tops(q, c)[x]
      BY <1>4 DEF Tops
    <2>3. Tops(q2, c) = [x \in Streams |-> Tops(q2, c)[x]]
      BY DEF Tops
    <2>4. Tops(q, c) = [x \in Streams |-> Tops(q, c)[x]]
      BY DEF Tops
    <2> QED BY <2>1, <2>2, <2>3, <2>4
  <1>8. ASSUME NEW x \in Streams, NEW k \in c[x] + 1 .. Tops(q, c)[x]
        PROVE  Ops(q2, c)[x][k] = Ops(q, c)[x][k]
    <2>1. c[x] \in Nat /\ Len(q[x]) \in Nat /\ Tops(q, c)[x] = c[x] + Len(q[x])
      BY SequenceLen DEF Queues, Tops
    <2>2. CASE x /= st
      BY <1>4, <2>2 DEF Ops
    <2>3. CASE x = st
      <3>1. k - c[st] \in 1 .. n /\ k \in c[st] + 1 .. c[st] + n /\ k \in c[st] + 1 .. c[st] + (n + 1)
        BY <1>1, <1>2, <2>1, <2>3
      <3>2. Ops(q2, c)[st][k] = q2[st][k - c[st]]
        BY <1>5, <3>1 DEF Ops
      <3>3. Ops(q, c)[st][k] = q[st][k - c[st]]
        BY <1>1, <3>1 DEF Ops
      <3> QED BY <1>5, <2>3, <3>1, <3>2, <3>3
    <2> QED BY <2>2, <2>3
  <1>9. Ops(q2, c)[st][Tops(q, c)[st] + 1] = op
    <2>1. Tops(q, c)[st] = c[st] + n
      BY <1>1 DEF Tops
    <2>2. /\ (c[st] + n) + 1 \in c[st] + 1 .. c[st] + (n + 1)
          /\ ((c[st] + n) + 1) - c[st] = n + 1
      BY <1>2
    <2>3. Ops(q2, c)[st][(c[st] + n) + 1] = q2[st][((c[st] + n) + 1) - c[st]]
      BY <1>5, <2>2 DEF Ops
    <2> QED BY <1>5, <2>1, <2>2, <2>3
  <1> QED BY <1>6, <1>7, <1>8, <1>9 DEF Pushed

(* the first operation of a stream is taken off it *)
TakesHead(c, q, st, c2, q2) ==
    q[st] /= <<>> /\ q2 = [q EXCEPT ![st] = Tail(@)] /\ c2 = [c EXCEPT ![st] = @ + 1]

(* Running the first operation of a stream: the others keep their numbers. *)
LEMMA TailView ==
    ASSUME NEW q, Queues(q), NEW c \in [Streams -> Nat], NEW st \in Streams,
           NEW c2, NEW q2, TakesHead(c, q, st, c2, q2)
    PROVE  /\ Queues(q2) /\ Tops(q2, c2) = Tops(q, c)
           /\ Popped(c, Tops(q, c), Ops(q, c), st, c2, Ops(q2, c2))
           /\ Head(q[st]) = Ops(q, c)[st][c[st] + 1]
  <1>1. PICK n : n = Len(q[st])
    OBVIOUS
  <1>0. q[st] /= <<>> /\ q2 = [q EXCEPT ![st] = Tail(@)] /\ c2 = [c EXCEPT ![st] = @ + 1]
    BY DEF TakesHead
  <1>2. /\ IsSequence(q[st]) /\ n \in Nat /\ n > 0 /\ c[st] \in Nat
        /\ Head(q[st]) = q[st][1]
    BY <1>0, <1>1, SequenceLen, SequenceTail DEF Queues
  <1>3. /\ \A x \in Streams : x /= st => q2[x] = q[x] /\ c2[x] = c[x]
        /\ q2[st] = Tail(q[st]) /\ c2[st] = c[st] + 1
        /\ q2 = [x \in Streams |-> q2[x]]
    BY <1>0 DEF Queues
  <1>4. /\ IsSequence(q2[st]) /\ Len(q2[st]) = n - 1
        /\ \A i \in 1 .. n - 1 : q2[st][i] = q[st][i + 1]
    BY <1>1, <1>2, <1>3, SequenceTail
  <1>5. Queues(q2)
    BY <1>3, <1>4 DEF Queues
  <1>6. Tops(q, c)[st] = c[st] + n /\ c2[st] + Len(q2[st]) = c[st] + n
    BY <1>1, <1>2, <1>3, <1>4 DEF Tops
  <1>7. Tops(q2, c2) = Tops(q, c)
    <2>1. \A x \in Streams : c2[x] + Len(q2[x]) = c[x] + Len(q[x])
      BY <1>1, <1>3, <1>6
    <2> QED BY <2>1 DEF Tops
  <1>8. ASSUME NEW x \in Streams, NEW k \in c2[x] + 1 .. Tops(q, c)[x]
        PROVE  Ops(q2, c2)[x][k] = Ops(q, c)[x][k]
    <2>1. CASE x /= st
      BY <1>3, <2>1 DEF Ops
    <2>2. CASE x = st
      <3>1. /\ k \in c2[st] + 1 .. c[st] + n /\ k \in c[st] + 1 .. c[st] + n
            /\ k - c2[st] \in 1 .. n - 1 /\ (k - c2[st]) + 1 = k - c[st]
        BY <1>2, <1>3, <1>6, <2>2
      <3>2. Ops(q2, c2)[st][k] = q2[st][k - c2[st]]
        BY <1>6, <3>1 DEF Ops
      <3>3. Ops(q, c)[st][k] = q[st][k - c[st]]
        BY <1>1, <3>1 DEF Ops
      <3> QED BY <1>4, <2>2, <3>1, <3>2, <3>3
    <2> QED BY <2>1, <2>2
  <1>9. Ops(q, c)[st][c[st] + 1] = q[st][1]
    <2>1. c[st] + 1 \in c[st] + 1 .. c[st] + n /\ (c[st] + 1) - c[st] = 1
      BY <1>2
    <2>2. Ops(q, c)[st][c[st] + 1] = q[st][(c[st] + 1) - c[st]]
      BY <1>1, <2>1 DEF Ops
    <2> QED BY <2>1, <2>2
  <1>10. Popped(c, Tops(q, c), Ops(q, c), st, c2, Ops(q2, c2))
    <2>1. c[st] < Tops(q, c)[st]
      BY <1>2, <1>6
    <2> QED BY <1>0, <1>8, <2>1 DEF Popped
  <1> QED BY <1>2, <1>5, <1>7, <1>9, <1>10

(***************************************************************************)
(* Several lanes, each with a stream of its own.  The k-th operation of a  *)
(* lane is its k-th collective, on every rank.                             *)
(***************************************************************************)
Called(c, t, o) == \A s \in Stages : \A k \in c[s] + 1 .. t[s] : Key(o[s][k]) = Coll(k)

(* Attention rank a.  u, mem and com are its inUse, memory and combined.  A
   layer of a stage fills a block that a dispatch of that lane, which waits
   for it, is to read, and that stays in use until then; a copy waits for a
   combine, before the next one of its lane. *)
AttentionOK(c, t, o, u, n) ==
    LET op == o[Main][n]
    IN  /\ op.stage \in Stages /\ op.block \in Blocks
        /\ \E k \in c[op.stage] + 1 .. t[op.stage] :
             /\ Coll(k) = [kind |-> "dispatch", layer |-> op.layer]
             /\ u[op.block] = On(op.stage, k)
             /\ o[op.stage][k].block = op.block /\ o[op.stage][k].after = {On(Main, n)}
CopyOK(a, c, t, o, com, n) ==
    LET op == o[Main][n]
    IN  /\ op.stage \in Stages
        /\ \E k \in 1 .. t[op.stage] :
             /\ op.after = {On(op.stage, k)} /\ k >= c[op.stage]
             /\ Coll(k) = [kind |-> "combine", layer |-> op.layer]
             /\ k = c[op.stage] => \A f \in Ffns : com[op.stage][f] = Row(a, op.stage, op.layer)
             /\ k < t[op.stage] => \A e \in o[op.stage][k + 1].after : n < e.n
DispatchOK(a, c, t, o, u, mem, s, k) ==
    LET op == o[s][k]
    IN  /\ op.block \in Blocks /\ u[op.block] = On(s, k)
        /\ \E n \in 1 .. t[Main] :
             /\ op.after = {On(Main, n)}
             /\ n <= c[Main] => mem[op.block] = Row(a, s, Coll(k).layer)
             /\ n > c[Main] => o[Main][n].kind = "attention" /\ o[Main][n].block = op.block
LanesAttn(a, c, t, o, u, mem, com) ==
    /\ \A n \in c[Main] + 1 .. t[Main] :
         \/ o[Main][n].kind = "attention" /\ AttentionOK(c, t, o, u, n)
         \/ o[Main][n].kind = "copy" /\ CopyOK(a, c, t, o, com, n)
    /\ \A s \in Stages : \A k \in c[s] + 1 .. t[s] :
         Coll(k).kind = "dispatch" => DispatchOK(a, c, t, o, u, mem, s, k)

(* what a block holds, and what a combine brought to a stage *)
Filled(mem, b, a, s, l) == mem[b] = Row(a, s, l)
Brought(com, a, s, l) == \A f \in Ffns : com[s][f] = Row(a, s, l)

(* FFN rank.  x, row and res are its done.experts, rows and out.  The experts
   of a stage wait for a dispatch of that lane, whose combine, enqueued or
   not, waits for them. *)
Waits(t, o, x, s, k) == IF k <= t[s] THEN o[s][k].after ELSE {x[s]}
ExpertsOK(c, t, o, x, row, n) ==
    LET op == o[Main][n]
    IN  /\ op.stage \in Stages
        /\ \E k \in 1 .. t[op.stage] :
             /\ op.after = {On(op.stage, k)} /\ k >= c[op.stage]
             /\ Coll(k) = [kind |-> "dispatch", layer |-> op.layer]
             /\ k = c[op.stage] => \A a \in Attns : row[op.stage][a] = Row(a, op.stage, op.layer)
             /\ Waits(t, o, x, op.stage, k + 1) = {On(Main, n)}
CombineOK(c, t, o, x, res, s, k) ==
    \E n \in 1 .. t[Main] :
        /\ Waits(t, o, x, s, k) = {On(Main, n)}
        /\ n <= c[Main] => /\ k - 1 <= c[s]
                           /\ \A a \in Attns : res[s][a] = Row(a, s, Coll(k).layer)
        /\ n > c[Main] => /\ o[Main][n].kind = "experts" /\ o[Main][n].stage = s
                          /\ o[Main][n].after = {On(s, k - 1)}
LanesFfn(c, t, o, x, row, res) ==
    /\ \A n \in c[Main] + 1 .. t[Main] :
         \/ o[Main][n].kind = "experts" /\ ExpertsOK(c, t, o, x, row, n)
         \/ o[Main][n].kind = "join"
    /\ \A s \in Stages : \A k \in c[s] + 1 .. t[s] + 1 :
         Coll(k).kind = "combine" => CombineOK(c, t, o, x, res, s, k)

(* operations p and q on two streams *)
PushedTwo(c, t, o, x, p, y, q, t2, o2) ==
    /\ t2[x] = t[x] + 1 /\ t2[y] = t[y] + 1
    /\ \A st \in Streams : st /= x /\ st /= y => t2[st] = t[st]
    /\ \A st \in Streams : \A n \in c[st] + 1 .. t[st] : o2[st][n] = o[st][n]
    /\ o2[x][t[x] + 1] = p /\ o2[y][t[y] + 1] = q

(* Streams, when there are several lanes. *)
LEMMA ManyLanes ==
    ASSUME Lanes > 1
    PROVE  /\ Streams = Stages \cup {Main} /\ Main \notin Stages
           /\ \A s \in Stages : LaneStream(s) = s /\ s \in Nat
           /\ \A e : Wait(e) = {e}
  <1>1. Lanes \in Nat /\ Lanes /= 1
    BY SizesAssumption DEF MaxLanes
  <1>2. \A s \in Stages : LaneStream(s) = s
    BY <1>1 DEF LaneStream
  <1>3. Main \notin Stages /\ \A s \in Stages : s \in Nat
    BY <1>1 DEF Main, Stages
  <1> QED BY <1>1, <1>2, <1>3 DEF Streams, Wait

(* Two operations on two streams. *)
LEMMA PushTwo ==
    ASSUME NEW c, NEW t, View(c, t), NEW o, NEW x \in Streams, NEW y \in Streams, x /= y,
           NEW p, NEW q, NEW t1, NEW o1, NEW t2, NEW o2,
           Pushed(c, t, o, x, p, t1, o1), Pushed(c, t1, o1, y, q, t2, o2)
    PROVE  PushedTwo(c, t, o, x, p, y, q, t2, o2)
  <1>1. \A st \in Streams : c[st] \in Nat /\ t[st] \in Nat /\ c[st] <= t[st]
    BY DEF View
  <1>2. t \in [Streams -> Nat]
    BY DEF View
  <1>3. t1 = [t EXCEPT ![x] = @ + 1] /\ t2 = [t1 EXCEPT ![y] = @ + 1]
    BY DEF Pushed
  <1>4. t1[x] = t[x] + 1 /\ \A st \in Streams : st /= x => t1[st] = t[st]
    BY <1>2, <1>3
  <1>5. DOMAIN t1 = Streams
    BY <1>2, <1>3
  <1>6. t2[y] = t1[y] + 1 /\ \A st \in Streams : st /= y => t2[st] = t1[st]
    BY <1>3, <1>5
  <1>7. ASSUME NEW st \in Streams, NEW n \in c[st] + 1 .. t[st] PROVE o2[st][n] = o[st][n]
    <2>1. n \in c[st] + 1 .. t1[st]
      BY <1>1, <1>4
    <2> QED BY <2>1 DEF Pushed
  <1>8. o2[x][t[x] + 1] = p
    <2>1. t[x] + 1 \in c[x] + 1 .. t1[x]
      BY <1>1, <1>4
    <2>2. o2[x][t[x] + 1] = o1[x][t[x] + 1]
      BY <2>1 DEF Pushed
    <2> QED BY <2>2 DEF Pushed
  <1>9. o2[y][t[y] + 1] = q
    BY <1>4 DEF Pushed
  <1> QED BY <1>4, <1>6, <1>7, <1>8, <1>9 DEF PushedTwo

(* The two operations, in either order. *)
LEMMA PushBoth ==
    ASSUME Lanes > 1, NEW c, NEW t, View(c, t), NEW o, NEW s \in Stages, NEW main, NEW lane,
           NEW t1, NEW o1, NEW t2, NEW o2,
           \/ Pushed(c, t, o, Main, main, t1, o1) /\ Pushed(c, t1, o1, s, lane, t2, o2)
           \/ Pushed(c, t, o, s, lane, t1, o1) /\ Pushed(c, t1, o1, Main, main, t2, o2)
    PROVE  PushedTwo(c, t, o, Main, main, s, lane, t2, o2)
  <1>1. Main \in Streams /\ s \in Streams /\ Main /= s
    BY ManyLanes
  <1>2. CASE Pushed(c, t, o, Main, main, t1, o1) /\ Pushed(c, t1, o1, s, lane, t2, o2)
    BY <1>1, <1>2, PushTwo
  <1>3. CASE Pushed(c, t, o, s, lane, t1, o1) /\ Pushed(c, t1, o1, Main, main, t2, o2)
    <2>1. PushedTwo(c, t, o, s, lane, Main, main, t2, o2)
      BY <1>1, <1>3, PushTwo
    <2> QED BY <2>1 DEF PushedTwo
  <1> QED BY <1>2, <1>3

(* A layer and its dispatch are enqueued, with a free block. *)
LEMMA LanesSend ==
    ASSUME Lanes > 1, NEW a, NEW c, NEW t, View(c, t), NEW o, NEW u, NEW mem, NEW com,
           LanesAttn(a, c, t, o, u, mem, com),
           NEW s \in Stages, NEW main, NEW lane, NEW b \in Blocks, NEW l,
           main.kind = "attention", main.stage = s, main.layer = l, main.block = b,
           lane.block = b, lane.after = {On(Main, t[Main] + 1)},
           Coll(t[s] + 1) = [kind |-> "dispatch", layer |-> l],
           NEW t2, NEW o2, PushedTwo(c, t, o, Main, main, s, lane, t2, o2),
           DOMAIN u = Blocks, c[u[b].stream] >= u[b].n,
           NEW u2, u2 = [u EXCEPT ![b] = On(s, t[s] + 1)]
    PROVE  LanesAttn(a, c, t2, o2, u2, mem, com)
  <1>1. Streams = Stages \cup {Main} /\ Main \notin Stages /\ Main \in Streams /\ s \in Streams
    BY ManyLanes
  <1>2. \A st \in Streams : c[st] \in Nat /\ t[st] \in Nat /\ c[st] <= t[st]
    BY DEF View
  <1>3. /\ t2[Main] = t[Main] + 1 /\ t2[s] = t[s] + 1
        /\ \A st \in Streams : st /= Main /\ st /= s => t2[st] = t[st]
        /\ \A st \in Streams : \A n \in c[st] + 1 .. t[st] : o2[st][n] = o[st][n]
        /\ o2[Main][t[Main] + 1] = main /\ o2[s][t[s] + 1] = lane
    BY DEF PushedTwo
  <1>4. \A st \in Streams : t[st] <= t2[st] /\ t2[st] \in Nat
    BY <1>2, <1>3
  <1>5. u2[b] = On(s, t[s] + 1) /\ \A d \in Blocks : d /= b => u2[d] = u[d]
    OBVIOUS
  <1>6. ASSUME NEW z \in Stages, NEW k, NEW d \in Blocks, u[d] = On(z, k), k \in Nat, k > c[z]
        PROVE  u2[d] = On(z, k)
    <2>1. u[d].stream = z /\ u[d].n = k /\ c[z] \in Nat
      BY <1>1, <1>2, <1>6, SMTT(40) DEF On
    <2>2. d /= b
      BY <1>6, <2>1, SMTT(40)
    <2> QED BY <1>5, <1>6, <2>2
  <1>7. ASSUME NEW n \in c[Main] + 1 .. t[Main], AttentionOK(c, t, o, u, n)
        PROVE  AttentionOK(c, t2, o2, u2, n)
    <2>1. PICK op : op = o[Main][n] /\ op = o2[Main][n]
      BY <1>1, <1>3
    <2>2. PICK z, d : z = op.stage /\ d = op.block
      OBVIOUS
    <2>3. z \in Stages /\ d \in Blocks
      BY <1>7, <2>1, <2>2 DEF AttentionOK
    <2>4. PICK k \in c[z] + 1 .. t[z] :
               /\ Coll(k) = [kind |-> "dispatch", layer |-> op.layer]
               /\ u[d] = On(z, k) /\ o[z][k].block = d /\ o[z][k].after = {On(Main, n)}
      BY <1>7, <2>1, <2>2 DEF AttentionOK
    <2>5. z \in Streams /\ k \in Nat /\ k > c[z] /\ k \in c[z] + 1 .. t2[z]
      BY <1>1, <1>2, <1>4, <2>3
    <2>6. u2[d] = On(z, k) /\ o2[z][k] = o[z][k]
      BY <1>3, <1>6, <2>3, <2>4, <2>5
    <2> QED BY <2>1, <2>2, <2>3, <2>4, <2>5, <2>6 DEF AttentionOK
  <1>8. ASSUME NEW n \in c[Main] + 1 .. t[Main], CopyOK(a, c, t, o, com, n)
        PROVE  CopyOK(a, c, t2, o2, com, n)
    <2>1. PICK op : op = o[Main][n] /\ op = o2[Main][n]
      BY <1>1, <1>3
    <2>2. PICK z : z = op.stage
      OBVIOUS
    <2>3. z \in Stages /\ z \in Streams /\ z /= Main
      BY <1>1, <1>8, <2>1, <2>2 DEF CopyOK
    <2>4. PICK k \in 1 .. t[z] :
             /\ op.after = {On(z, k)} /\ k >= c[z]
             /\ Coll(k) = [kind |-> "combine", layer |-> op.layer]
             /\ k = c[z] => \A f \in Ffns : com[z][f] = Row(a, z, op.layer)
             /\ k < t[z] => \A e \in o[z][k + 1].after : n < e.n
      BY <1>8, <2>1, <2>2 DEF CopyOK
    <2>5. k \in 1 .. t2[z]
      BY <1>2, <1>4, <2>3
    <2>6. ASSUME k < t2[z] PROVE \A e \in o2[z][k + 1].after : n < e.n
      <3>1. CASE k < t[z]
        <4>1. k + 1 \in c[z] + 1 .. t[z]
          BY <1>2, <2>3, <2>4, <3>1
        <4> QED BY <1>3, <2>3, <2>4, <3>1, <4>1
      <3>2. CASE ~(k < t[z])
        <4>1. z = s /\ k = t[s]
          BY <1>2, <1>3, <2>3, <2>6, <3>2
        <4>2. o2[z][k + 1].after = {On(Main, t[Main] + 1)}
          BY <1>3, <4>1
        <4>3. n < t[Main] + 1
          BY <1>1, <1>2
        <4> QED BY <4>2, <4>3 DEF On
      <3> QED BY <3>1, <3>2
    <2> QED BY <2>1, <2>2, <2>3, <2>4, <2>5, <2>6 DEF CopyOK
  <1>9. AttentionOK(c, t2, o2, u2, t[Main] + 1)
    <2>1. t[s] + 1 \in c[s] + 1 .. t2[s]
      BY <1>1, <1>2, <1>3
    <2> QED BY <1>3, <1>5, <2>1 DEF AttentionOK
  <1>10. ASSUME NEW n \in c[Main] + 1 .. t2[Main]
         PROVE  \/ o2[Main][n].kind = "attention" /\ AttentionOK(c, t2, o2, u2, n)
                \/ o2[Main][n].kind = "copy" /\ CopyOK(a, c, t2, o2, com, n)
    <2>1. n = t[Main] + 1 \/ n \in c[Main] + 1 .. t[Main]
      BY <1>1, <1>2, <1>3
    <2>2. CASE n = t[Main] + 1
      BY <1>3, <1>9, <2>2
    <2>3. CASE n \in c[Main] + 1 .. t[Main]
      <3>1. o2[Main][n] = o[Main][n]
        BY <1>1, <1>3, <2>3
      <3> QED BY <1>7, <1>8, <2>3, <3>1 DEF LanesAttn
    <2> QED BY <2>1, <2>2, <2>3
  <1>11. ASSUME NEW z \in Stages, NEW k \in c[z] + 1 .. t2[z], Coll(k).kind = "dispatch"
         PROVE  DispatchOK(a, c, t2, o2, u2, mem, z, k)
    <2>1. CASE k \in c[z] + 1 .. t[z]
      <3>1. z \in Streams /\ k \in Nat /\ k > c[z]
        BY <1>1, <1>2
      <3>2. DispatchOK(a, c, t, o, u, mem, z, k)
        BY <1>11, <2>1 DEF LanesAttn
      <3>3. PICK op : op = o[z][k] /\ op = o2[z][k]
        BY <1>3, <2>1, <3>1
      <3>4. op.block \in Blocks /\ u2[op.block] = On(z, k)
        BY <1>6, <3>1, <3>2, <3>3 DEF DispatchOK
      <3>5. PICK n \in 1 .. t[Main] :
             /\ op.after = {On(Main, n)}
             /\ n <= c[Main] => mem[op.block] = Row(a, z, Coll(k).layer)
             /\ n > c[Main] => o[Main][n].kind = "attention" /\ o[Main][n].block = op.block
        BY <3>2, <3>3 DEF DispatchOK
      <3>6. n \in 1 .. t2[Main] /\ (n > c[Main] => o2[Main][n] = o[Main][n])
        BY <1>1, <1>2, <1>3
      <3> QED BY <3>3, <3>4, <3>5, <3>6 DEF DispatchOK
    <2>2. CASE k \notin c[z] + 1 .. t[z]
      <3>1. z = s /\ k = t[s] + 1
        BY <1>1, <1>2, <1>3, <2>2
      <3>2. t[Main] + 1 \in 1 .. t2[Main] /\ ~(t[Main] + 1 <= c[Main])
        BY <1>1, <1>2, <1>3
      <3> QED BY <1>3, <1>5, <3>1, <3>2 DEF DispatchOK
    <2> QED BY <2>1, <2>2
  <1> QED BY <1>10, <1>11 DEF LanesAttn

(* A combine and the copy of its output are enqueued. *)
LEMMA LanesRecv ==
    ASSUME Lanes > 1, NEW a, NEW c, NEW t, View(c, t), NEW o, NEW u, NEW mem, NEW com,
           LanesAttn(a, c, t, o, u, mem, com),
           NEW s \in Stages, NEW main, NEW lane, NEW l,
           main.kind = "copy", main.stage = s, main.layer = l, main.after = {On(s, t[s] + 1)},
           Coll(t[s] + 1) = [kind |-> "combine", layer |-> l],
           NEW t2, NEW o2, PushedTwo(c, t, o, Main, main, s, lane, t2, o2)
    PROVE  LanesAttn(a, c, t2, o2, u, mem, com)
  <1>1. Streams = Stages \cup {Main} /\ Main \notin Stages /\ Main \in Streams /\ s \in Streams
    BY ManyLanes
  <1>2. \A st \in Streams : c[st] \in Nat /\ t[st] \in Nat /\ c[st] <= t[st]
    BY DEF View
  <1>3. /\ t2[Main] = t[Main] + 1 /\ t2[s] = t[s] + 1
        /\ \A st \in Streams : st /= Main /\ st /= s => t2[st] = t[st]
        /\ \A st \in Streams : \A n \in c[st] + 1 .. t[st] : o2[st][n] = o[st][n]
        /\ o2[Main][t[Main] + 1] = main /\ o2[s][t[s] + 1] = lane
    BY DEF PushedTwo
  <1>4. \A st \in Streams : t[st] <= t2[st] /\ t2[st] \in Nat
    BY <1>2, <1>3
  <1>5. ASSUME NEW n \in c[Main] + 1 .. t[Main], AttentionOK(c, t, o, u, n)
        PROVE  AttentionOK(c, t2, o2, u, n)
    <2>1. PICK op : op = o[Main][n] /\ op = o2[Main][n]
      BY <1>1, <1>3
    <2>2. PICK z, d : z = op.stage /\ d = op.block
      OBVIOUS
    <2>3. z \in Stages /\ d \in Blocks
      BY <1>5, <2>1, <2>2 DEF AttentionOK
    <2>4. PICK k \in c[z] + 1 .. t[z] :
               /\ Coll(k) = [kind |-> "dispatch", layer |-> op.layer]
               /\ u[d] = On(z, k) /\ o[z][k].block = d /\ o[z][k].after = {On(Main, n)}
      BY <1>5, <2>1, <2>2 DEF AttentionOK
    <2>5. k \in c[z] + 1 .. t2[z] /\ o2[z][k] = o[z][k]
      BY <1>1, <1>2, <1>3, <1>4, <2>3
    <2> QED BY <2>1, <2>2, <2>3, <2>4, <2>5 DEF AttentionOK
  <1>6. ASSUME NEW n \in c[Main] + 1 .. t[Main], CopyOK(a, c, t, o, com, n)
        PROVE  CopyOK(a, c, t2, o2, com, n)
    <2>1. PICK op : op = o[Main][n] /\ op = o2[Main][n]
      BY <1>1, <1>3
    <2>2. PICK z : z = op.stage
      OBVIOUS
    <2>3. z \in Stages /\ z \in Streams /\ z /= Main
      BY <1>1, <1>6, <2>1, <2>2 DEF CopyOK
    <2>4. PICK k \in 1 .. t[z] :
             /\ op.after = {On(z, k)} /\ k >= c[z]
             /\ Coll(k) = [kind |-> "combine", layer |-> op.layer]
             /\ k = c[z] => \A f \in Ffns : com[z][f] = Row(a, z, op.layer)
             /\ k < t[z] => \A e \in o[z][k + 1].after : n < e.n
      BY <1>6, <2>1, <2>2 DEF CopyOK
    <2>5. k \in 1 .. t2[z] /\ k \in Nat \ {0}
      BY <1>2, <1>4, <2>3
    <2>6. ASSUME k < t2[z] PROVE \A e \in o2[z][k + 1].after : n < e.n
      <3>1. k < t[z]
        <4>1. ~(k = t[s] /\ z = s)
          BY <2>4, <2>5, CombineFollows
        <4> QED BY <1>2, <1>3, <2>3, <2>6, <4>1
      <3>2. k + 1 \in c[z] + 1 .. t[z]
        BY <1>2, <2>3, <2>4, <3>1
      <3> QED BY <1>3, <2>3, <2>4, <3>1, <3>2
    <2> QED BY <2>1, <2>2, <2>3, <2>4, <2>5, <2>6 DEF CopyOK
  <1>7. CopyOK(a, c, t2, o2, com, t[Main] + 1)
    <2>1. /\ t[s] + 1 \in 1 .. t2[s] /\ t[s] + 1 >= c[s] /\ t[s] + 1 /= c[s]
          /\ ~(t[s] + 1 < t2[s])
      BY <1>1, <1>2, <1>3
    <2> QED BY <1>3, <2>1 DEF CopyOK
  <1>8. ASSUME NEW n \in c[Main] + 1 .. t2[Main]
        PROVE  \/ o2[Main][n].kind = "attention" /\ AttentionOK(c, t2, o2, u, n)
               \/ o2[Main][n].kind = "copy" /\ CopyOK(a, c, t2, o2, com, n)
    <2>1. n = t[Main] + 1 \/ n \in c[Main] + 1 .. t[Main]
      BY <1>1, <1>2, <1>3
    <2>2. CASE n = t[Main] + 1
      BY <1>3, <1>7, <2>2
    <2>3. CASE n \in c[Main] + 1 .. t[Main]
      <3>1. o2[Main][n] = o[Main][n]
        BY <1>1, <1>3, <2>3
      <3> QED BY <1>5, <1>6, <2>3, <3>1 DEF LanesAttn
    <2> QED BY <2>1, <2>2, <2>3
  <1>9. ASSUME NEW z \in Stages, NEW k \in c[z] + 1 .. t2[z], Coll(k).kind = "dispatch"
        PROVE  DispatchOK(a, c, t2, o2, u, mem, z, k)
    <2>1. k \in c[z] + 1 .. t[z] /\ z \in Streams
      <3>1. ~(z = s /\ k = t[s] + 1)
        BY <1>9
      <3> QED BY <1>1, <1>2, <1>3, <3>1
    <2>2. DispatchOK(a, c, t, o, u, mem, z, k)
      BY <1>9, <2>1 DEF LanesAttn
    <2>3. PICK op : op = o[z][k] /\ op = o2[z][k]
      BY <1>3, <2>1
    <2>4. PICK n \in 1 .. t[Main] :
             /\ op.after = {On(Main, n)}
             /\ n <= c[Main] => mem[op.block] = Row(a, z, Coll(k).layer)
             /\ n > c[Main] => o[Main][n].kind = "attention" /\ o[Main][n].block = op.block
      BY <2>2, <2>3 DEF DispatchOK
    <2>5. n \in 1 .. t2[Main] /\ (n > c[Main] => o2[Main][n] = o[Main][n])
      BY <1>1, <1>2, <1>3
    <2> QED BY <2>2, <2>3, <2>4, <2>5 DEF DispatchOK
  <1> QED BY <1>8, <1>9 DEF LanesAttn

(* A layer runs: its dispatch will find its hidden states. *)
LEMMA LanesLayer ==
    ASSUME Lanes > 1, NEW a, NEW c, NEW t, View(c, t), NEW o, NEW u, NEW mem, NEW com,
           LanesAttn(a, c, t, o, u, mem, com), NEW c2, NEW o2, Popped(c, t, o, Main, c2, o2),
           NEW m, m = c[Main] + 1,
           NEW op, op = o[Main][m], op.kind = "attention",
           NEW mem2, mem2[op.block] = Row(a, op.stage, op.layer),
           \A b \in Blocks : b /= op.block => mem2[b] = mem[b]
    PROVE  LanesAttn(a, c2, t, o2, u, mem2, com)
  <1>1. Streams = Stages \cup {Main} /\ Main \notin Stages /\ Main \in Streams
    BY ManyLanes
  <1>2. \A st \in Streams : c[st] \in Nat /\ t[st] \in Nat /\ c[st] <= t[st]
    BY DEF View
  <1>3. /\ c[Main] < t[Main] /\ c2[Main] = c[Main] + 1
        /\ \A z \in Stages : c2[z] = c[z]
        /\ \A n \in c2[Main] + 1 .. t[Main] : o2[Main][n] = o[Main][n]
        /\ \A z \in Stages : \A n \in c[z] + 1 .. t[z] : o2[z][n] = o[z][n]
    <2>1. c2 = [c EXCEPT ![Main] = @ + 1]
      BY DEF Popped
    <2>2. c2[Main] = c[Main] + 1 /\ \A z \in Stages : c2[z] = c[z]
      BY <1>1, <2>1 DEF View
    <2> QED BY <1>1, <2>2 DEF Popped
  <1>5. m \in c[Main] + 1 .. t[Main] /\ m \in Nat
    BY <1>1, <1>2, <1>3, SMTT(40)
  <1>6. AttentionOK(c, t, o, u, m)
    BY <1>5, SMTT(40) DEF LanesAttn
  <1>7. op.stage \in Stages /\ op.block \in Blocks
    BY <1>6, ZenonT(40) DEF AttentionOK
  <1>8. PICK j \in c[op.stage] + 1 .. t[op.stage] :
             /\ Coll(j) = [kind |-> "dispatch", layer |-> op.layer]
             /\ u[op.block] = On(op.stage, j) /\ o[op.stage][j].after = {On(Main, m)}
    BY <1>6 DEF AttentionOK
  <1>9. ASSUME NEW n \in c2[Main] + 1 .. t[Main]
        PROVE  \/ o2[Main][n].kind = "attention" /\ AttentionOK(c2, t, o2, u, n)
               \/ o2[Main][n].kind = "copy" /\ CopyOK(a, c2, t, o2, com, n)
    <2>1. n \in c[Main] + 1 .. t[Main]
      BY <1>1, <1>2, <1>3
    <2>2. o2[Main][n] = o[Main][n]
      BY <1>3, SMTT(40)
    <2>3. ASSUME AttentionOK(c, t, o, u, n) PROVE AttentionOK(c2, t, o2, u, n)
      BY <1>3, <2>2, <2>3 DEF AttentionOK
    <2>4. ASSUME CopyOK(a, c, t, o, com, n) PROVE CopyOK(a, c2, t, o2, com, n)
      <3>1. PICK x : x = o[Main][n] /\ x = o2[Main][n]
        BY <2>2
      <3>2. PICK z : z = x.stage
        OBVIOUS
      <3>3. z \in Stages /\ z \in Streams
        BY <1>1, <2>4, <3>1, <3>2 DEF CopyOK
      <3>4. PICK k \in 1 .. t[z] :
             /\ x.after = {On(z, k)} /\ k >= c[z]
             /\ Coll(k) = [kind |-> "combine", layer |-> x.layer]
             /\ k = c[z] => \A f \in Ffns : com[z][f] = Row(a, z, x.layer)
             /\ k < t[z] => \A e \in o[z][k + 1].after : n < e.n
        BY <2>4, <3>1, <3>2 DEF CopyOK
      <3>5. k < t[z] => o2[z][k + 1] = o[z][k + 1]
        BY <1>2, <1>3, <3>3, <3>4
      <3> QED BY <1>3, <3>1, <3>2, <3>3, <3>4, <3>5 DEF CopyOK
    <2> QED BY <2>1, <2>2, <2>3, <2>4 DEF LanesAttn
  <1>10. ASSUME NEW z \in Stages, NEW k \in c2[z] + 1 .. t[z], Coll(k).kind = "dispatch"
         PROVE  DispatchOK(a, c2, t, o2, u, mem2, z, k)
    <2>1. k \in c[z] + 1 .. t[z]
      BY <1>3
    <2>2. DispatchOK(a, c, t, o, u, mem, z, k)
      BY <1>10, <2>1 DEF LanesAttn
    <2>3. PICK x : x = o[z][k] /\ x = o2[z][k]
      BY <1>3, <2>1
    <2>4. PICK n \in 1 .. t[Main] :
             /\ x.after = {On(Main, n)}
             /\ n <= c[Main] => mem[x.block] = Row(a, z, Coll(k).layer)
             /\ n > c[Main] => o[Main][n].kind = "attention" /\ o[Main][n].block = x.block
      BY <2>2, <2>3 DEF DispatchOK
    <2>5. x.block \in Blocks /\ u[x.block] = On(z, k)
      BY <2>2, <2>3 DEF DispatchOK
    <2>6. ASSUME n <= c2[Main] PROVE mem2[x.block] = Row(a, z, Coll(k).layer)
      <3>1. CASE x.block = op.block
        <4>1. z = op.stage /\ k = j
          BY <1>8, <2>5, <3>1 DEF On
        <4>2. Coll(k).layer = op.layer
          BY <1>8, <4>1
        <4> QED BY <1>7, <3>1, <4>1, <4>2
      <3>2. CASE x.block /= op.block
        <4>1. n /= m
          BY <1>1, <1>2, <2>4, <3>2
        <4>2. n <= c[Main]
          BY <1>1, <1>2, <1>3, <2>6, <4>1
        <4> QED BY <2>4, <2>5, <3>2, <4>2
      <3> QED BY <3>1, <3>2
    <2>7. n > c2[Main] => n > c[Main] /\ o2[Main][n] = o[Main][n]
      BY <1>1, <1>2, <1>3
    <2> QED BY <2>3, <2>4, <2>5, <2>6, <2>7 DEF DispatchOK
  <1> QED BY <1>9, <1>10 DEF LanesAttn

(* A copy runs: what it copies is what the stage has combined. *)
LEMMA LanesCopy ==
    ASSUME Lanes > 1, NEW a, NEW c, NEW t, View(c, t), NEW o, NEW u, NEW mem, NEW com,
           LanesAttn(a, c, t, o, u, mem, com), NEW c2, NEW o2, Popped(c, t, o, Main, c2, o2),
           NEW m, m = c[Main] + 1,
           NEW op, op = o[Main][m], op.kind = "copy",
           \A e \in op.after : c[e.stream] >= e.n
    PROVE  /\ LanesAttn(a, c2, t, o2, u, mem, com)
           /\ op.stage \in Stages
           /\ Brought(com, a, op.stage, op.layer)
  <1>1. Streams = Stages \cup {Main} /\ Main \notin Stages /\ Main \in Streams
    BY ManyLanes
  <1>2. \A st \in Streams : c[st] \in Nat /\ t[st] \in Nat /\ c[st] <= t[st]
    BY DEF View
  <1>3. /\ c[Main] < t[Main] /\ c2[Main] = c[Main] + 1
        /\ \A z \in Stages : c2[z] = c[z]
        /\ \A n \in c2[Main] + 1 .. t[Main] : o2[Main][n] = o[Main][n]
        /\ \A z \in Stages : \A n \in c[z] + 1 .. t[z] : o2[z][n] = o[z][n]
    <2>1. c2 = [c EXCEPT ![Main] = @ + 1]
      BY DEF Popped
    <2>2. c2[Main] = c[Main] + 1 /\ \A z \in Stages : c2[z] = c[z]
      BY <1>1, <2>1, SMTT(40) DEF View
    <2> QED BY <1>1, <2>2 DEF Popped
  <1>5. m \in c[Main] + 1 .. t[Main] /\ m \in Nat /\ m > c[Main]
    BY <1>1, <1>2, <1>3, SMTT(40)
  <1>6. CopyOK(a, c, t, o, com, m)
    BY <1>5, SMTT(40) DEF LanesAttn
  <1>7. op.stage \in Stages
    BY <1>6, SMTT(40) DEF CopyOK
  <1>8. PICK j \in 1 .. t[op.stage] :
             /\ op.after = {On(op.stage, j)} /\ j >= c[op.stage]
             /\ j = c[op.stage] => \A f \in Ffns : com[op.stage][f] = Row(a, op.stage, op.layer)
    BY <1>6, ZenonT(40) DEF CopyOK
  <1>9. \A f \in Ffns : com[op.stage][f] = Row(a, op.stage, op.layer)
    <2>1. c[op.stage] >= j
      BY <1>8 DEF On
    <2>2. j = c[op.stage]
      BY <1>1, <1>2, <1>7, <1>8, <2>1
    <2> QED BY <1>8, <2>2
  <1>10. ASSUME NEW n \in c2[Main] + 1 .. t[Main]
         PROVE  \/ o2[Main][n].kind = "attention" /\ AttentionOK(c2, t, o2, u, n)
                \/ o2[Main][n].kind = "copy" /\ CopyOK(a, c2, t, o2, com, n)
    <2>1. n \in c[Main] + 1 .. t[Main]
      BY <1>1, <1>2, <1>3
    <2>2. o2[Main][n] = o[Main][n]
      BY <1>3
    <2>3. ASSUME AttentionOK(c, t, o, u, n) PROVE AttentionOK(c2, t, o2, u, n)
      BY <1>3, <2>2, <2>3 DEF AttentionOK
    <2>4. ASSUME CopyOK(a, c, t, o, com, n) PROVE CopyOK(a, c2, t, o2, com, n)
      <3>1. PICK x : x = o[Main][n] /\ x = o2[Main][n]
        BY <2>2
      <3>2. PICK z : z = x.stage
        OBVIOUS
      <3>3. z \in Stages /\ z \in Streams
        BY <1>1, <2>4, <3>1, <3>2 DEF CopyOK
      <3>4. PICK k \in 1 .. t[z] :
             /\ x.after = {On(z, k)} /\ k >= c[z]
             /\ Coll(k) = [kind |-> "combine", layer |-> x.layer]
             /\ k = c[z] => \A f \in Ffns : com[z][f] = Row(a, z, x.layer)
             /\ k < t[z] => \A e \in o[z][k + 1].after : n < e.n
        BY <2>4, <3>1, <3>2 DEF CopyOK
      <3>5. k < t[z] => o2[z][k + 1] = o[z][k + 1]
        BY <1>2, <1>3, <3>3, <3>4
      <3> QED BY <1>3, <3>1, <3>2, <3>3, <3>4, <3>5 DEF CopyOK
    <2> QED BY <2>1, <2>2, <2>3, <2>4 DEF LanesAttn
  <1>11. ASSUME NEW z \in Stages, NEW k \in c2[z] + 1 .. t[z], Coll(k).kind = "dispatch"
         PROVE  DispatchOK(a, c2, t, o2, u, mem, z, k)
    <2>1. k \in c[z] + 1 .. t[z]
      BY <1>3
    <2>2. DispatchOK(a, c, t, o, u, mem, z, k)
      BY <1>11, <2>1 DEF LanesAttn
    <2>3. PICK x : x = o[z][k] /\ x = o2[z][k]
      BY <1>3, <2>1
    <2>4. PICK n \in 1 .. t[Main] :
             /\ x.after = {On(Main, n)}
             /\ n <= c[Main] => mem[x.block] = Row(a, z, Coll(k).layer)
             /\ n > c[Main] => o[Main][n].kind = "attention" /\ o[Main][n].block = x.block
      BY <2>2, <2>3 DEF DispatchOK
    <2>5. n /= m
      BY <1>5, <2>4
    <2>6. n <= c2[Main] => n <= c[Main]
      BY <1>1, <1>2, <1>3, <2>5
    <2>7. n > c2[Main] => n > c[Main] /\ o2[Main][n] = o[Main][n]
      BY <1>1, <1>2, <1>3
    <2> QED BY <2>2, <2>3, <2>4, <2>6, <2>7 DEF DispatchOK
  <1>12. Brought(com, a, op.stage, op.layer)
    BY <1>9 DEF Brought
  <1> QED BY <1>7, <1>9, <1>10, <1>11, <1>12 DEF LanesAttn

(* A dispatch runs: it sends what the layer of its stage has computed, and
   the copy of the layer before is done. *)
LEMMA LanesDispatched ==
    ASSUME Lanes > 1, NEW a, NEW c, NEW t, View(c, t), NEW o, NEW u, NEW mem, NEW com,
           LanesAttn(a, c, t, o, u, mem, com), NEW s \in Stages,
           NEW c2, NEW o2, Popped(c, t, o, s, c2, o2), NEW m, m = c[s] + 1,
           Coll(m).kind = "dispatch", NEW op, op = o[s][m],
           \A e \in op.after : c[e.stream] >= e.n
    PROVE  /\ LanesAttn(a, c2, t, o2, u, mem, com)
           /\ Filled(mem, op.block, a, s, Coll(m).layer)
  <1>1. Streams = Stages \cup {Main} /\ Main \notin Stages /\ Main \in Streams /\ s \in Streams
    BY ManyLanes
  <1>2. \A st \in Streams : c[st] \in Nat /\ t[st] \in Nat /\ c[st] <= t[st]
    BY DEF View
  <1>3. /\ c[s] < t[s] /\ c2[s] = m
        /\ \A z \in Streams : z /= s => c2[z] = c[z]
        /\ \A z \in Streams : \A n \in c2[z] + 1 .. t[z] : o2[z][n] = o[z][n]
    <2>1. c2 = [c EXCEPT ![s] = @ + 1]
      BY DEF Popped
    <2>2. c2[s] = m /\ \A z \in Streams : z /= s => c2[z] = c[z]
      BY <1>1, <2>1 DEF View
    <2> QED BY <2>2 DEF Popped
  <1>4. m \in c[s] + 1 .. t[s] /\ m \in Nat \ {0} /\ m > c[s]
    BY <1>1, <1>2, <1>3
  <1>5. DispatchOK(a, c, t, o, u, mem, s, m)
    BY <1>4 DEF LanesAttn
  <1>6. PICK w \in 1 .. t[Main] :
             /\ op.after = {On(Main, w)}
             /\ w <= c[Main] => mem[op.block] = Row(a, s, Coll(m).layer)
    BY <1>5 DEF DispatchOK
  <1>7. w <= c[Main] /\ w \in Nat
    BY <1>1, <1>2, <1>6 DEF On
  <1>8. ASSUME NEW n \in c[Main] + 1 .. t[Main], AttentionOK(c, t, o, u, n),
               o2[Main][n] = o[Main][n]
        PROVE  AttentionOK(c2, t, o2, u, n)
    <2>1. PICK x : x = o[Main][n] /\ x = o2[Main][n]
      BY <1>8
    <2>2. PICK z, d : z = x.stage /\ d = x.block
      OBVIOUS
    <2>3. z \in Stages /\ d \in Blocks /\ z \in Streams
      BY <1>1, <1>8, <2>1, <2>2 DEF AttentionOK
    <2>4. PICK k \in c[z] + 1 .. t[z] :
               /\ Coll(k) = [kind |-> "dispatch", layer |-> x.layer]
               /\ u[d] = On(z, k) /\ o[z][k].block = d /\ o[z][k].after = {On(Main, n)}
      BY <1>8, <2>1, <2>2 DEF AttentionOK
    <2>5. ~(z = s /\ k = m)
      <3>1. n > c[Main] /\ n /= w
        BY <1>1, <1>2, <1>7
      <3>2. ASSUME z = s, k = m PROVE n = w
        <4>1. On(Main, n) \in op.after
          BY <2>4, <3>2
        <4>2. On(Main, n) = On(Main, w)
          BY <1>6, <4>1
        <4> QED BY <4>2 DEF On
      <3> QED BY <3>1, <3>2
    <2>6. k \in c2[z] + 1 .. t[z]
      BY <1>2, <1>3, <2>3, <2>5
    <2>7. o2[z][k] = o[z][k]
      BY <1>3, <2>3, <2>6
    <2> QED BY <2>1, <2>2, <2>3, <2>4, <2>6, <2>7 DEF AttentionOK
  <1>9. ASSUME NEW n \in c[Main] + 1 .. t[Main], CopyOK(a, c, t, o, com, n),
               o2[Main][n] = o[Main][n]
        PROVE  CopyOK(a, c2, t, o2, com, n)
    <2>1. PICK x : x = o[Main][n] /\ x = o2[Main][n]
      BY <1>9
    <2>2. PICK z : z = x.stage
      OBVIOUS
    <2>3. z \in Stages /\ z \in Streams
      BY <1>1, <1>9, <2>1, <2>2 DEF CopyOK
    <2>4. PICK k \in 1 .. t[z] :
             /\ x.after = {On(z, k)} /\ k >= c[z]
             /\ Coll(k) = [kind |-> "combine", layer |-> x.layer]
             /\ k = c[z] => \A f \in Ffns : com[z][f] = Row(a, z, x.layer)
             /\ k < t[z] => \A e \in o[z][k + 1].after : n < e.n
      BY <1>9, <2>1, <2>2 DEF CopyOK
    <2>5. ASSUME z = s PROVE k > m
      <3>1. k /= m
        BY <2>4
      <3>2. k /= c[s]
        <4>1. ASSUME k = c[s] PROVE FALSE
          <5>1. k < t[z] /\ o[z][k + 1] = op
            BY <1>3, <2>5, <4>1
          <5>2. n < w
            <6>1. \A e \in op.after : n < e.n
              BY <2>4, <5>1
            <6>2. On(Main, w) \in op.after /\ On(Main, w).n = w
              BY <1>6 DEF On
            <6> QED BY <6>1, <6>2
          <5> QED BY <1>1, <1>2, <1>7, <5>2
        <4> QED BY <4>1
      <3> QED BY <1>1, <1>2, <2>4, <2>5, <3>1, <3>2
    <2>6. k >= c2[z] /\ (k = c2[z] => k = c[z])
      BY <1>2, <1>3, <2>3, <2>4, <2>5
    <2>7. k < t[z] => o2[z][k + 1] = o[z][k + 1]
      BY <1>2, <1>3, <1>4, <2>3, <2>4, <2>6
    <2> QED BY <2>1, <2>2, <2>3, <2>4, <2>6, <2>7 DEF CopyOK
  <1>10. ASSUME NEW n \in c2[Main] + 1 .. t[Main]
         PROVE  \/ o2[Main][n].kind = "attention" /\ AttentionOK(c2, t, o2, u, n)
                \/ o2[Main][n].kind = "copy" /\ CopyOK(a, c2, t, o2, com, n)
    <2>1. n \in c[Main] + 1 .. t[Main] /\ o2[Main][n] = o[Main][n]
      BY <1>1, <1>3
    <2> QED BY <1>8, <1>9, <2>1 DEF LanesAttn
  <1>11. ASSUME NEW z \in Stages, NEW k \in c2[z] + 1 .. t[z], Coll(k).kind = "dispatch"
         PROVE  DispatchOK(a, c2, t, o2, u, mem, z, k)
    <2>1. k \in c[z] + 1 .. t[z] /\ o2[z][k] = o[z][k] /\ z \in Streams
      BY <1>1, <1>2, <1>3, <1>4
    <2>2. DispatchOK(a, c, t, o, u, mem, z, k)
      BY <1>11, <2>1 DEF LanesAttn
    <2>3. c2[Main] = c[Main] /\ \A n \in c[Main] + 1 .. t[Main] : o2[Main][n] = o[Main][n]
      BY <1>1, <1>3
    <2>4. \A n \in 1 .. t[Main] : n > c[Main] => n \in c[Main] + 1 .. t[Main]
      BY <1>1, <1>2
    <2> QED BY <2>1, <2>2, <2>3, <2>4 DEF DispatchOK
  <1>12. Filled(mem, op.block, a, s, Coll(m).layer)
    BY <1>6, <1>7 DEF Filled
  <1> QED BY <1>10, <1>11, <1>12 DEF LanesAttn

(* A combine runs. *)
LEMMA LanesCombined ==
    ASSUME Lanes > 1, NEW a, NEW c, NEW t, View(c, t), NEW o, NEW u, NEW mem, NEW com,
           LanesAttn(a, c, t, o, u, mem, com), NEW s \in Stages,
           NEW c2, NEW o2, Popped(c, t, o, s, c2, o2), NEW m, m = c[s] + 1,
           Coll(m).kind = "combine",
           NEW com2, \A z \in Stages : z /= s => com2[z] = com[z],
           \A f \in Ffns : com2[s][f] = Row(a, s, Coll(m).layer)
    PROVE  LanesAttn(a, c2, t, o2, u, mem, com2)
  <1>1. Streams = Stages \cup {Main} /\ Main \notin Stages /\ Main \in Streams /\ s \in Streams
    BY ManyLanes
  <1>2. \A st \in Streams : c[st] \in Nat /\ t[st] \in Nat /\ c[st] <= t[st]
    BY DEF View
  <1>3. /\ c[s] < t[s] /\ c2[s] = m
        /\ \A z \in Streams : z /= s => c2[z] = c[z]
        /\ \A z \in Streams : \A n \in c2[z] + 1 .. t[z] : o2[z][n] = o[z][n]
    <2>1. c2 = [c EXCEPT ![s] = @ + 1]
      BY DEF Popped
    <2>2. c2[s] = m /\ \A z \in Streams : z /= s => c2[z] = c[z]
      BY <1>1, <2>1 DEF View
    <2> QED BY <2>2 DEF Popped
  <1>4. m \in c[s] + 1 .. t[s] /\ m \in Nat \ {0} /\ m > c[s]
    BY <1>1, <1>2, <1>3
  <1>5. ASSUME NEW n \in c[Main] + 1 .. t[Main], AttentionOK(c, t, o, u, n),
               o2[Main][n] = o[Main][n]
        PROVE  AttentionOK(c2, t, o2, u, n)
    <2>1. PICK x : x = o[Main][n] /\ x = o2[Main][n]
      BY <1>5
    <2>2. PICK z, d : z = x.stage /\ d = x.block
      OBVIOUS
    <2>3. z \in Stages /\ d \in Blocks /\ z \in Streams
      BY <1>1, <1>5, <2>1, <2>2 DEF AttentionOK
    <2>4. PICK k \in c[z] + 1 .. t[z] :
               /\ Coll(k) = [kind |-> "dispatch", layer |-> x.layer]
               /\ u[d] = On(z, k) /\ o[z][k].block = d /\ o[z][k].after = {On(Main, n)}
      BY <1>5, <2>1, <2>2 DEF AttentionOK
    <2>5. ~(z = s /\ k = m)
      BY <2>4
    <2>6. k \in c2[z] + 1 .. t[z]
      BY <1>2, <1>3, <2>3, <2>5
    <2>7. o2[z][k] = o[z][k]
      BY <1>3, <2>3, <2>6
    <2> QED BY <2>1, <2>2, <2>3, <2>4, <2>6, <2>7 DEF AttentionOK
  <1>6. ASSUME NEW n \in c[Main] + 1 .. t[Main], CopyOK(a, c, t, o, com, n),
               o2[Main][n] = o[Main][n]
        PROVE  CopyOK(a, c2, t, o2, com2, n)
    <2>1. PICK x : x = o[Main][n] /\ x = o2[Main][n]
      BY <1>6
    <2>2. PICK z : z = x.stage
      OBVIOUS
    <2>3. z \in Stages /\ z \in Streams
      BY <1>1, <1>6, <2>1, <2>2 DEF CopyOK
    <2>4. PICK k \in 1 .. t[z] :
             /\ x.after = {On(z, k)} /\ k >= c[z]
             /\ Coll(k) = [kind |-> "combine", layer |-> x.layer]
             /\ k = c[z] => \A f \in Ffns : com[z][f] = Row(a, z, x.layer)
             /\ k < t[z] => \A e \in o[z][k + 1].after : n < e.n
      BY <1>6, <2>1, <2>2 DEF CopyOK
    <2>5. ASSUME z = s PROVE k >= m
      <3>1. k \in Nat \ {0}
        BY <1>2, <2>3
      <3>2. k /= c[s]
        BY <2>4, <3>1, CombineFollows
      <3> QED BY <1>1, <1>2, <2>4, <2>5, <3>1, <3>2
    <2>6. k >= c2[z]
      BY <1>2, <1>3, <2>3, <2>4, <2>5
    <2>7. ASSUME k = c2[z] PROVE \A f \in Ffns : com2[z][f] = Row(a, z, x.layer)
      <3>1. CASE z = s
        <4>1. Coll(m).layer = x.layer
          BY <1>3, <2>4, <2>7, <3>1
        <4> QED BY <3>1, <4>1
      <3>2. CASE z /= s
        BY <1>3, <2>3, <2>4, <2>7, <3>2
      <3> QED BY <3>1, <3>2
    <2>8. k < t[z] => o2[z][k + 1] = o[z][k + 1]
      BY <1>2, <1>3, <1>4, <2>3, <2>4, <2>6
    <2> QED BY <2>1, <2>2, <2>3, <2>4, <2>6, <2>7, <2>8 DEF CopyOK
  <1>7. ASSUME NEW n \in c2[Main] + 1 .. t[Main]
        PROVE  \/ o2[Main][n].kind = "attention" /\ AttentionOK(c2, t, o2, u, n)
               \/ o2[Main][n].kind = "copy" /\ CopyOK(a, c2, t, o2, com2, n)
    <2>1. n \in c[Main] + 1 .. t[Main] /\ o2[Main][n] = o[Main][n]
      BY <1>1, <1>3
    <2> QED BY <1>5, <1>6, <2>1 DEF LanesAttn
  <1>8. ASSUME NEW z \in Stages, NEW k \in c2[z] + 1 .. t[z], Coll(k).kind = "dispatch"
        PROVE  DispatchOK(a, c2, t, o2, u, mem, z, k)
    <2>1. k \in c[z] + 1 .. t[z] /\ o2[z][k] = o[z][k] /\ z \in Streams
      BY <1>1, <1>2, <1>3, <1>4
    <2>2. DispatchOK(a, c, t, o, u, mem, z, k)
      BY <1>8, <2>1 DEF LanesAttn
    <2>3. c2[Main] = c[Main] /\ \A n \in c[Main] + 1 .. t[Main] : o2[Main][n] = o[Main][n]
      BY <1>1, <1>3
    <2>4. \A n \in 1 .. t[Main] : n > c[Main] => n \in c[Main] + 1 .. t[Main]
      BY <1>1, <1>2
    <2> QED BY <2>1, <2>2, <2>3, <2>4 DEF DispatchOK
  <1> QED BY <1>7, <1>8 DEF LanesAttn

(* A dispatch and its experts are enqueued. *)
LEMMA LanesReceive ==
    ASSUME Lanes > 1, NEW c, NEW t, View(c, t), NEW o, NEW x, NEW row, NEW res,
           LanesFfn(c, t, o, x, row, res),
           NEW s \in Stages, NEW main, NEW lane, NEW l,
           main.kind = "experts", main.stage = s, main.layer = l, main.after = {On(s, t[s] + 1)},
           Coll(t[s] + 1) = [kind |-> "dispatch", layer |-> l],
           NEW t2, NEW o2, PushedTwo(c, t, o, Main, main, s, lane, t2, o2),
           NEW x2, x2[s] = On(Main, t[Main] + 1), \A z \in Stages : z /= s => x2[z] = x[z]
    PROVE  LanesFfn(c, t2, o2, x2, row, res)
  <1>1. Streams = Stages \cup {Main} /\ Main \notin Stages /\ Main \in Streams /\ s \in Streams
    BY ManyLanes
  <1>2. \A st \in Streams : c[st] \in Nat /\ t[st] \in Nat /\ c[st] <= t[st]
    BY DEF View
  <1>3. /\ t2[Main] = t[Main] + 1 /\ t2[s] = t[s] + 1
        /\ \A st \in Streams : st /= Main /\ st /= s => t2[st] = t[st]
        /\ \A st \in Streams : \A n \in c[st] + 1 .. t[st] : o2[st][n] = o[st][n]
        /\ o2[Main][t[Main] + 1] = main /\ o2[s][t[s] + 1] = lane
    BY SMTT(40) DEF PushedTwo
  <1>4. \A st \in Streams : t[st] <= t2[st] /\ t2[st] \in Nat
    BY <1>2, <1>3, SMTT(40)
  <1>5. ASSUME NEW z \in Stages, NEW k \in c[z] + 1 .. t[z] + 1, ~(z = s /\ k = t[s] + 1)
        PROVE  Waits(t2, o2, x2, z, k) = Waits(t, o, x, z, k)
    <2>1. k \in c[z] + 1 .. t[z] => k <= t2[z] /\ k <= t[z] /\ o2[z][k] = o[z][k]
      BY <1>1, <1>2, <1>3, <1>4
    <2>2. k \notin c[z] + 1 .. t[z] => z /= s /\ ~(k <= t2[z]) /\ ~(k <= t[z]) /\ x2[z] = x[z]
      BY <1>1, <1>2, <1>3, <1>5
    <2> QED BY <2>1, <2>2 DEF Waits
  <1>6. Waits(t2, o2, x2, s, t2[s] + 1) = {On(Main, t[Main] + 1)}
    BY <1>1, <1>4 DEF Waits
  <1>7. ASSUME NEW n \in c[Main] + 1 .. t[Main], ExpertsOK(c, t, o, x, row, n)
        PROVE  ExpertsOK(c, t2, o2, x2, row, n)
    <2>1. PICK op : op = o[Main][n] /\ op = o2[Main][n]
      BY <1>1, <1>3
    <2>2. PICK z : z = op.stage
      OBVIOUS
    <2>3. z \in Stages /\ z \in Streams /\ z /= Main
      BY <1>1, <1>7, <2>1, <2>2 DEF ExpertsOK
    <2>4. PICK k \in 1 .. t[z] :
             /\ op.after = {On(z, k)} /\ k >= c[z]
             /\ Coll(k) = [kind |-> "dispatch", layer |-> op.layer]
             /\ k = c[z] => \A a \in Attns : row[z][a] = Row(a, z, op.layer)
             /\ Waits(t, o, x, z, k + 1) = {On(Main, n)}
      BY <1>7, <2>1, <2>2 DEF ExpertsOK
    <2>5. k \in 1 .. t2[z] /\ k \in Nat \ {0} /\ k + 1 \in c[z] + 1 .. t[z] + 1
      BY <1>2, <1>4, <2>3, <2>4
    <2>6. ~(z = s /\ k + 1 = t[s] + 1)
      <3>1. Coll(k).kind = "dispatch" /\ k \in Nat \ {0}
        BY <2>4, <2>5
      <3>2. Coll(k + 1) = [kind |-> "combine", layer |-> Coll(k).layer]
        BY <3>1, CombineFollows
      <3>3. Coll(k + 1).kind = "combine"
        BY <3>2
      <3> QED BY <3>3
    <2>7. Waits(t2, o2, x2, z, k + 1) = {On(Main, n)}
      BY <1>5, <2>3, <2>4, <2>5, <2>6
    <2> QED BY <2>1, <2>2, <2>3, <2>4, <2>5, <2>7 DEF ExpertsOK
  <1>8. ExpertsOK(c, t2, o2, x2, row, t[Main] + 1)
    <2>1. t[s] + 1 \in 1 .. t2[s] /\ t[s] + 1 >= c[s] /\ t[s] + 1 /= c[s] /\ t2[s] = t[s] + 1
      BY <1>1, <1>2, <1>3
    <2> QED BY <1>3, <1>6, <2>1 DEF ExpertsOK
  <1>9. ASSUME NEW n \in c[Main] + 1 .. t2[Main]
        PROVE  \/ o2[Main][n].kind = "experts" /\ ExpertsOK(c, t2, o2, x2, row, n)
               \/ o2[Main][n].kind = "join"
    <2>1. n = t[Main] + 1 \/ n \in c[Main] + 1 .. t[Main]
      BY <1>1, <1>2, <1>3
    <2>2. CASE n = t[Main] + 1
      BY <1>3, <1>8, <2>2
    <2>3. CASE n \in c[Main] + 1 .. t[Main]
      <3>1. o2[Main][n] = o[Main][n]
        BY <1>1, <1>3, <2>3
      <3> QED BY <1>7, <2>3, <3>1 DEF LanesFfn
    <2> QED BY <2>1, <2>2, <2>3
  <1>10. ASSUME NEW z \in Stages, NEW k \in c[z] + 1 .. t2[z] + 1, Coll(k).kind = "combine"
         PROVE  CombineOK(c, t2, o2, x2, res, z, k)
    <2>1. CASE k \in c[z] + 1 .. t[z] + 1
      <3>1. CombineOK(c, t, o, x, res, z, k)
        BY <1>10, <2>1 DEF LanesFfn
      <3>2. PICK n \in 1 .. t[Main] :
             /\ Waits(t, o, x, z, k) = {On(Main, n)}
             /\ n <= c[Main] => /\ k - 1 <= c[z]
                                /\ \A a \in Attns : res[z][a] = Row(a, z, Coll(k).layer)
             /\ n > c[Main] => /\ o[Main][n].kind = "experts" /\ o[Main][n].stage = z
                               /\ o[Main][n].after = {On(z, k - 1)}
        BY <3>1 DEF CombineOK
      <3>3. ~(z = s /\ k = t[s] + 1)
        BY <1>10
      <3>4. Waits(t2, o2, x2, z, k) = {On(Main, n)}
        BY <1>5, <2>1, <3>2, <3>3
      <3>5. n \in 1 .. t2[Main] /\ (n > c[Main] => o2[Main][n] = o[Main][n])
        BY <1>1, <1>2, <1>3
      <3> QED BY <3>2, <3>4, <3>5 DEF CombineOK
    <2>2. CASE k \notin c[z] + 1 .. t[z] + 1
      <3>1. z = s /\ k = t2[s] + 1 /\ k - 1 = t[s] + 1
        BY <1>1, <1>2, <1>3, <2>2
      <3>2. t[Main] + 1 \in 1 .. t2[Main] /\ ~(t[Main] + 1 <= c[Main])
        BY <1>1, <1>2, <1>3
      <3> QED BY <1>3, <1>6, <3>1, <3>2 DEF CombineOK
    <2> QED BY <2>1, <2>2
  <1> QED BY <1>9, <1>10 DEF LanesFfn

(* A combine is enqueued. *)
LEMMA LanesReturn ==
    ASSUME Lanes > 1, NEW c, NEW t, View(c, t), NEW o, NEW x, NEW row, NEW res,
           LanesFfn(c, t, o, x, row, res),
           NEW s \in Stages, NEW lane, lane.after = {x[s]}, Coll(t[s] + 1).kind = "combine",
           NEW t2, NEW o2, Pushed(c, t, o, s, lane, t2, o2)
    PROVE  LanesFfn(c, t2, o2, x, row, res)
  <1>1. Streams = Stages \cup {Main} /\ Main \notin Stages /\ Main \in Streams /\ s \in Streams
    BY ManyLanes
  <1>2. \A st \in Streams : c[st] \in Nat /\ t[st] \in Nat /\ c[st] <= t[st]
    BY DEF View
  <1>3. /\ t2[s] = t[s] + 1 /\ \A st \in Streams : st /= s => t2[st] = t[st]
        /\ \A st \in Streams : \A n \in c[st] + 1 .. t[st] : o2[st][n] = o[st][n]
        /\ o2[s][t[s] + 1] = lane
    <2>1. t2 = [t EXCEPT ![s] = @ + 1] /\ DOMAIN t = Streams
      BY DEF Pushed, View
    <2>2. t2[s] = t[s] + 1 /\ \A st \in Streams : st /= s => t2[st] = t[st]
      BY <1>1, <2>1
    <2> QED BY <2>2 DEF Pushed
  <1>4. \A st \in Streams : t[st] <= t2[st] /\ t2[st] \in Nat
    BY <1>1, <1>2, <1>3
  <1>5. ASSUME NEW z \in Stages, NEW k \in c[z] + 1 .. t[z] + 1
        PROVE  Waits(t2, o2, x, z, k) = Waits(t, o, x, z, k)
    <2>1. k \in c[z] + 1 .. t[z] => k <= t2[z] /\ k <= t[z] /\ o2[z][k] = o[z][k]
      BY <1>1, <1>2, <1>3, <1>4
    <2>2. CASE k \notin c[z] + 1 .. t[z] /\ z = s
      <3>1. k = t[s] + 1 /\ k <= t2[s] /\ ~(k <= t[s])
        BY <1>1, <1>2, <1>3, <2>2
      <3> QED BY <1>3, <2>2, <3>1 DEF Waits
    <2>3. CASE k \notin c[z] + 1 .. t[z] /\ z /= s
      <3>1. ~(k <= t2[z]) /\ ~(k <= t[z])
        BY <1>1, <1>2, <1>3, <2>3
      <3> QED BY <3>1 DEF Waits
    <2> QED BY <2>1, <2>2, <2>3 DEF Waits
  <1>6. ASSUME NEW n \in c[Main] + 1 .. t[Main], ExpertsOK(c, t, o, x, row, n)
        PROVE  ExpertsOK(c, t2, o2, x, row, n)
    <2>1. PICK op : op = o[Main][n] /\ op = o2[Main][n]
      BY <1>1, <1>3
    <2>2. PICK z : z = op.stage
      OBVIOUS
    <2>3. z \in Stages /\ z \in Streams /\ z /= Main
      BY <1>1, <1>6, <2>1, <2>2 DEF ExpertsOK
    <2>4. PICK k \in 1 .. t[z] :
             /\ op.after = {On(z, k)} /\ k >= c[z]
             /\ Coll(k) = [kind |-> "dispatch", layer |-> op.layer]
             /\ k = c[z] => \A a \in Attns : row[z][a] = Row(a, z, op.layer)
             /\ Waits(t, o, x, z, k + 1) = {On(Main, n)}
      BY <1>6, <2>1, <2>2 DEF ExpertsOK
    <2>5. k \in 1 .. t2[z] /\ k + 1 \in c[z] + 1 .. t[z] + 1
      BY <1>2, <1>4, <2>3, <2>4
    <2>6. Waits(t2, o2, x, z, k + 1) = {On(Main, n)}
      BY <1>5, <2>3, <2>4, <2>5
    <2> QED BY <2>1, <2>2, <2>3, <2>4, <2>5, <2>6 DEF ExpertsOK
  <1>7. ASSUME NEW n \in c[Main] + 1 .. t2[Main]
        PROVE  \/ o2[Main][n].kind = "experts" /\ ExpertsOK(c, t2, o2, x, row, n)
               \/ o2[Main][n].kind = "join"
    <2>1. n \in c[Main] + 1 .. t[Main] /\ o2[Main][n] = o[Main][n]
      BY <1>1, <1>3
    <2> QED BY <1>6, <2>1 DEF LanesFfn
  <1>8. ASSUME NEW z \in Stages, NEW k \in c[z] + 1 .. t2[z] + 1, Coll(k).kind = "combine"
        PROVE  CombineOK(c, t2, o2, x, res, z, k)
    <2>1. k \in c[z] + 1 .. t[z] + 1
      <3>1. ~(z = s /\ k = (t[s] + 1) + 1)
        <4>1. t[s] + 1 \in Nat \ {0}
          BY <1>1, <1>2
        <4>2. Coll((t[s] + 1) + 1).kind = "dispatch"
          BY <4>1, CombineFollows
        <4> QED BY <1>8, <4>2
      <3> QED BY <1>1, <1>2, <1>3, <3>1
    <2>3. CombineOK(c, t, o, x, res, z, k)
      BY <1>8, <2>1 DEF LanesFfn
    <2>2. PICK n \in 1 .. t[Main] :
             /\ Waits(t, o, x, z, k) = {On(Main, n)}
             /\ n <= c[Main] => /\ k - 1 <= c[z]
                                /\ \A a \in Attns : res[z][a] = Row(a, z, Coll(k).layer)
             /\ n > c[Main] => /\ o[Main][n].kind = "experts" /\ o[Main][n].stage = z
                               /\ o[Main][n].after = {On(z, k - 1)}
      BY <2>3 DEF CombineOK
    <2>4. Waits(t2, o2, x, z, k) = {On(Main, n)}
      BY <1>5, <2>1, <2>2
    <2>5. n \in 1 .. t2[Main] /\ (n > c[Main] => o2[Main][n] = o[Main][n])
      BY <1>1, <1>2, <1>3
    <2> QED BY <2>2, <2>4, <2>5 DEF CombineOK
  <1> QED BY <1>7, <1>8 DEF LanesFfn

(* The end of a step is enqueued. *)
LEMMA LanesJoin ==
    ASSUME Lanes > 1, NEW c, NEW t, View(c, t), NEW o, NEW x, NEW row, NEW res,
           LanesFfn(c, t, o, x, row, res),
           NEW main, main.kind = "join", NEW t2, NEW o2, Pushed(c, t, o, Main, main, t2, o2)
    PROVE  LanesFfn(c, t2, o2, x, row, res)
  <1>1. Streams = Stages \cup {Main} /\ Main \notin Stages /\ Main \in Streams
    BY ManyLanes
  <1>2. \A st \in Streams : c[st] \in Nat /\ t[st] \in Nat /\ c[st] <= t[st]
    BY DEF View
  <1>3. /\ t2[Main] = t[Main] + 1 /\ \A z \in Stages : t2[z] = t[z]
        /\ \A n \in c[Main] + 1 .. t[Main] : o2[Main][n] = o[Main][n]
        /\ \A z \in Stages : \A n \in c[z] + 1 .. t[z] : o2[z][n] = o[z][n]
        /\ o2[Main][t[Main] + 1] = main
    <2>1. t2 = [t EXCEPT ![Main] = @ + 1] /\ DOMAIN t = Streams
      BY DEF Pushed, View
    <2>2. t2[Main] = t[Main] + 1 /\ \A z \in Stages : t2[z] = t[z]
      BY <1>1, <2>1
    <2> QED BY <1>1, <2>2 DEF Pushed
  <1>4. ASSUME NEW z \in Stages, NEW k \in c[z] + 1 .. t[z] + 1
        PROVE  Waits(t2, o2, x, z, k) = Waits(t, o, x, z, k)
    <2>1. k <= t[z] => k \in c[z] + 1 .. t[z]
      BY <1>1, <1>2
    <2> QED BY <1>3, <2>1 DEF Waits
  <1>5. ASSUME NEW n \in c[Main] + 1 .. t[Main], ExpertsOK(c, t, o, x, row, n)
        PROVE  ExpertsOK(c, t2, o2, x, row, n)
    <2>1. PICK op : op = o[Main][n] /\ op = o2[Main][n]
      BY <1>3
    <2>2. PICK z : z = op.stage
      OBVIOUS
    <2>3. z \in Stages /\ z \in Streams /\ z /= Main
      BY <1>1, <1>5, <2>1, <2>2 DEF ExpertsOK
    <2>4. PICK k \in 1 .. t[z] :
             /\ op.after = {On(z, k)} /\ k >= c[z]
             /\ Coll(k) = [kind |-> "dispatch", layer |-> op.layer]
             /\ k = c[z] => \A a \in Attns : row[z][a] = Row(a, z, op.layer)
             /\ Waits(t, o, x, z, k + 1) = {On(Main, n)}
      BY <1>5, <2>1, <2>2 DEF ExpertsOK
    <2>5. t2[z] = t[z] /\ k + 1 \in c[z] + 1 .. t[z] + 1
      BY <1>2, <1>3, <2>3, <2>4
    <2>6. Waits(t2, o2, x, z, k + 1) = {On(Main, n)}
      BY <1>4, <2>3, <2>4, <2>5
    <2> QED BY <2>1, <2>2, <2>3, <2>4, <2>5, <2>6 DEF ExpertsOK
  <1>6. ASSUME NEW n \in c[Main] + 1 .. t2[Main]
        PROVE  \/ o2[Main][n].kind = "experts" /\ ExpertsOK(c, t2, o2, x, row, n)
               \/ o2[Main][n].kind = "join"
    <2>1. n = t[Main] + 1 \/ n \in c[Main] + 1 .. t[Main]
      BY <1>1, <1>2, <1>3
    <2>2. CASE n \in c[Main] + 1 .. t[Main]
      BY <1>3, <1>5, <2>2 DEF LanesFfn
    <2> QED BY <1>3, <2>1, <2>2
  <1>7. ASSUME NEW z \in Stages, NEW k \in c[z] + 1 .. t2[z] + 1, Coll(k).kind = "combine"
        PROVE  CombineOK(c, t2, o2, x, res, z, k)
    <2>1. k \in c[z] + 1 .. t[z] + 1
      BY <1>3
    <2>3. CombineOK(c, t, o, x, res, z, k)
      BY <1>7, <2>1 DEF LanesFfn
    <2>2. PICK n \in 1 .. t[Main] :
             /\ Waits(t, o, x, z, k) = {On(Main, n)}
             /\ n <= c[Main] => /\ k - 1 <= c[z]
                                /\ \A a \in Attns : res[z][a] = Row(a, z, Coll(k).layer)
             /\ n > c[Main] => /\ o[Main][n].kind = "experts" /\ o[Main][n].stage = z
                               /\ o[Main][n].after = {On(z, k - 1)}
      BY <2>3 DEF CombineOK
    <2>4. Waits(t2, o2, x, z, k) = {On(Main, n)}
      BY <1>4, <2>1, <2>2
    <2>5. n \in 1 .. t2[Main] /\ (n > c[Main] => o2[Main][n] = o[Main][n])
      BY <1>1, <1>2, <1>3
    <2> QED BY <2>2, <2>4, <2>5 DEF CombineOK
  <1> QED BY <1>6, <1>7 DEF LanesFfn

(* The experts of a stage run, on what its dispatch has received. *)
LEMMA LanesExperts ==
    ASSUME Lanes > 1, NEW c, NEW t, View(c, t), NEW o, NEW x, NEW row, NEW res,
           LanesFfn(c, t, o, x, row, res),
           NEW c2, NEW o2, Popped(c, t, o, Main, c2, o2), NEW m, m = c[Main] + 1,
           NEW op, op = o[Main][m], op.kind = "experts", \A e \in op.after : c[e.stream] >= e.n,
           NEW res2, res2[op.stage] = row[op.stage],
           \A z \in Stages : z /= op.stage => res2[z] = res[z]
    PROVE  LanesFfn(c2, t, o2, x, row, res2) /\ op.stage \in Stages
  <1>1. Streams = Stages \cup {Main} /\ Main \notin Stages /\ Main \in Streams
    BY ManyLanes
  <1>2. \A st \in Streams : c[st] \in Nat /\ t[st] \in Nat /\ c[st] <= t[st]
    BY DEF View
  <1>3. /\ c[Main] < t[Main] /\ c2[Main] = m
        /\ \A z \in Stages : c2[z] = c[z]
        /\ \A n \in c2[Main] + 1 .. t[Main] : o2[Main][n] = o[Main][n]
        /\ \A z \in Stages : \A n \in c[z] + 1 .. t[z] : o2[z][n] = o[z][n]
    <2>1. c2 = [c EXCEPT ![Main] = @ + 1]
      BY DEF Popped
    <2>2. c2[Main] = m /\ \A z \in Stages : c2[z] = c[z]
      BY <1>1, <2>1 DEF View
    <2> QED BY <1>1, <2>2 DEF Popped
  <1>4. m \in c[Main] + 1 .. t[Main] /\ m \in Nat /\ m > c[Main]
    BY <1>1, <1>2, <1>3, SMTT(40)
  <1>5. ExpertsOK(c, t, o, x, row, m)
    BY <1>4, SMTT(40) DEF LanesFfn
  <1>6. ASSUME NEW z \in Stages, NEW k \in c[z] + 1 .. t[z] + 1
        PROVE  Waits(t, o2, x, z, k) = Waits(t, o, x, z, k)
    <2>1. k <= t[z] => k \in c[z] + 1 .. t[z]
      BY <1>1, <1>2
    <2> QED BY <1>3, <2>1 DEF Waits
  <1>7. ASSUME NEW n \in c2[Main] + 1 .. t[Main]
        PROVE  \/ o2[Main][n].kind = "experts" /\ ExpertsOK(c2, t, o2, x, row, n)
               \/ o2[Main][n].kind = "join"
    <2>1. n \in c[Main] + 1 .. t[Main] /\ o2[Main][n] = o[Main][n]
      BY <1>1, <1>2, <1>3
    <2>2. ASSUME ExpertsOK(c, t, o, x, row, n) PROVE ExpertsOK(c2, t, o2, x, row, n)
      <3>1. PICK y : y = o[Main][n] /\ y = o2[Main][n]
        BY <2>1
      <3>2. PICK z : z = y.stage
        OBVIOUS
      <3>3. z \in Stages /\ z \in Streams
        BY <1>1, <2>2, <3>1, <3>2 DEF ExpertsOK
      <3>4. PICK k \in 1 .. t[z] :
             /\ y.after = {On(z, k)} /\ k >= c[z]
             /\ Coll(k) = [kind |-> "dispatch", layer |-> y.layer]
             /\ k = c[z] => \A a \in Attns : row[z][a] = Row(a, z, y.layer)
             /\ Waits(t, o, x, z, k + 1) = {On(Main, n)}
        BY <2>2, <3>1, <3>2 DEF ExpertsOK
      <3>5. k + 1 \in c[z] + 1 .. t[z] + 1
        BY <1>2, <3>3, <3>4
      <3>6. Waits(t, o2, x, z, k + 1) = {On(Main, n)}
        BY <1>6, <3>3, <3>4, <3>5
      <3> QED BY <1>3, <3>1, <3>2, <3>3, <3>4, <3>6 DEF ExpertsOK
    <2> QED BY <2>1, <2>2 DEF LanesFfn
  <1>8. op.stage \in Stages /\ op.stage \in Streams
    BY <1>1, <1>5 DEF ExpertsOK
  <1>9. PICK d \in 1 .. t[op.stage] :
             /\ op.after = {On(op.stage, d)} /\ d >= c[op.stage]
             /\ Coll(d) = [kind |-> "dispatch", layer |-> op.layer]
             /\ d = c[op.stage] => \A a \in Attns : row[op.stage][a] = Row(a, op.stage, op.layer)
             /\ Waits(t, o, x, op.stage, d + 1) = {On(Main, m)}
    BY <1>5, ZenonT(40) DEF ExpertsOK
  <1>10. d = c[op.stage] /\ d \in Nat \ {0}
    <2>1. On(op.stage, d) \in op.after /\ On(op.stage, d).stream = op.stage /\ On(op.stage, d).n = d
      BY <1>9, SMTT(40) DEF On
    <2>2. c[op.stage] >= d
      BY <2>1, SMTT(40)
    <2> QED BY <1>2, <1>8, <1>9, <2>2
  <1>11. /\ \A a \in Attns : res2[op.stage][a] = Row(a, op.stage, op.layer)
         /\ Coll(d + 1).layer = op.layer
    <2>1. Coll(d).kind = "dispatch" /\ Coll(d).layer = op.layer
      BY <1>9
    <2>2. Coll(d + 1) = [kind |-> "combine", layer |-> Coll(d).layer]
      BY <1>10, <2>1, CombineFollows
    <2>3. Coll(d + 1).layer = op.layer
      BY <2>1, <2>2
    <2> QED BY <1>9, <1>10, <2>3
  <1>12. ASSUME NEW z \in Stages, NEW k \in c2[z] + 1 .. t[z] + 1, Coll(k).kind = "combine"
         PROVE  CombineOK(c2, t, o2, x, res2, z, k)
    <2>1. k \in c[z] + 1 .. t[z] + 1
      BY <1>3
    <2>3. CombineOK(c, t, o, x, res, z, k)
      BY <1>12, <2>1 DEF LanesFfn
    <2>2. PICK n \in 1 .. t[Main] :
             /\ Waits(t, o, x, z, k) = {On(Main, n)}
             /\ n <= c[Main] => /\ k - 1 <= c[z]
                                /\ \A a \in Attns : res[z][a] = Row(a, z, Coll(k).layer)
             /\ n > c[Main] => /\ o[Main][n].kind = "experts" /\ o[Main][n].stage = z
                               /\ o[Main][n].after = {On(z, k - 1)}
      BY <2>3 DEF CombineOK
    <2>4. Waits(t, o2, x, z, k) = {On(Main, n)}
      BY <1>6, <2>1, <2>2
    <2>5. n > c2[Main] => n > c[Main] /\ o2[Main][n] = o[Main][n]
      BY <1>1, <1>2, <1>3
    <2>6. ASSUME n <= c2[Main]
          PROVE  k - 1 <= c2[z] /\ \A a \in Attns : res2[z][a] = Row(a, z, Coll(k).layer)
      <3>1. z \in Streams /\ c2[z] = c[z] /\ k \in Nat /\ c[z] \in Nat /\ k >= c[z] + 1
        BY <1>1, <1>2, <1>3, <2>1
      <3>2. CASE n = m
        <4>1. op.stage = z /\ op.after = {On(z, k - 1)}
          BY <1>4, <2>2, <3>2
        <4>2. On(z, d) = On(z, k - 1)
          BY <1>9, <4>1
        <4>3. d = k - 1
          BY <4>2 DEF On
        <4> QED BY <1>10, <1>11, <3>1, <4>1, <4>3
      <3>3. CASE n /= m
        <4>1. n <= c[Main]
          BY <1>1, <1>2, <1>3, <2>6, <3>3
        <4>2. ~(z = op.stage)
          <5>1. ASSUME z = op.stage PROVE FALSE
            <6>1. k = d + 1
              BY <1>10, <2>2, <3>1, <4>1, <5>1, SMTT(40)
            <6>2. On(Main, n) = On(Main, m)
              BY <1>9, <2>2, <5>1, <6>1
            <6> QED BY <3>3, <6>2 DEF On
          <5> QED BY <5>1
        <4> QED BY <2>2, <3>1, <4>1, <4>2
      <3> QED BY <3>2, <3>3
    <2> QED BY <2>2, <2>4, <2>5, <2>6 DEF CombineOK
  <1> QED BY <1>7, <1>8, <1>12 DEF LanesFfn

(* A join runs. *)
LEMMA LanesJoined ==
    ASSUME Lanes > 1, NEW c, NEW t, View(c, t), NEW o, NEW x, NEW row, NEW res,
           LanesFfn(c, t, o, x, row, res),
           NEW c2, NEW o2, Popped(c, t, o, Main, c2, o2), NEW m, m = c[Main] + 1,
           o[Main][m].kind = "join"
    PROVE  LanesFfn(c2, t, o2, x, row, res)
  <1>1. Streams = Stages \cup {Main} /\ Main \notin Stages /\ Main \in Streams
    BY ManyLanes
  <1>2. \A st \in Streams : c[st] \in Nat /\ t[st] \in Nat /\ c[st] <= t[st]
    BY DEF View
  <1>3. /\ c[Main] < t[Main] /\ c2[Main] = m
        /\ \A z \in Stages : c2[z] = c[z]
        /\ \A n \in c2[Main] + 1 .. t[Main] : o2[Main][n] = o[Main][n]
        /\ \A z \in Stages : \A n \in c[z] + 1 .. t[z] : o2[z][n] = o[z][n]
    <2>1. c2 = [c EXCEPT ![Main] = @ + 1]
      BY DEF Popped
    <2>2. c2[Main] = m /\ \A z \in Stages : c2[z] = c[z]
      BY <1>1, <2>1 DEF View
    <2> QED BY <1>1, <2>2 DEF Popped
  <1>4. m \in c[Main] + 1 .. t[Main] /\ m \in Nat /\ m > c[Main]
    BY <1>1, <1>2, <1>3, SMTT(40)
  <1>6. ASSUME NEW z \in Stages, NEW k \in c[z] + 1 .. t[z] + 1
        PROVE  Waits(t, o2, x, z, k) = Waits(t, o, x, z, k)
    <2>1. k <= t[z] => k \in c[z] + 1 .. t[z]
      BY <1>1, <1>2
    <2> QED BY <1>3, <2>1 DEF Waits
  <1>7. ASSUME NEW n \in c2[Main] + 1 .. t[Main]
        PROVE  \/ o2[Main][n].kind = "experts" /\ ExpertsOK(c2, t, o2, x, row, n)
               \/ o2[Main][n].kind = "join"
    <2>1. n \in c[Main] + 1 .. t[Main] /\ o2[Main][n] = o[Main][n]
      BY <1>1, <1>2, <1>3
    <2>2. ASSUME ExpertsOK(c, t, o, x, row, n) PROVE ExpertsOK(c2, t, o2, x, row, n)
      <3>1. PICK y : y = o[Main][n] /\ y = o2[Main][n]
        BY <2>1
      <3>2. PICK z : z = y.stage
        OBVIOUS
      <3>3. z \in Stages /\ z \in Streams
        BY <1>1, <2>2, <3>1, <3>2 DEF ExpertsOK
      <3>4. PICK k \in 1 .. t[z] :
             /\ y.after = {On(z, k)} /\ k >= c[z]
             /\ Coll(k) = [kind |-> "dispatch", layer |-> y.layer]
             /\ k = c[z] => \A a \in Attns : row[z][a] = Row(a, z, y.layer)
             /\ Waits(t, o, x, z, k + 1) = {On(Main, n)}
        BY <2>2, <3>1, <3>2 DEF ExpertsOK
      <3>5. k + 1 \in c[z] + 1 .. t[z] + 1
        BY <1>2, <3>3, <3>4
      <3>6. Waits(t, o2, x, z, k + 1) = {On(Main, n)}
        BY <1>6, <3>3, <3>4, <3>5
      <3> QED BY <1>3, <3>1, <3>2, <3>3, <3>4, <3>6 DEF ExpertsOK
    <2> QED BY <2>1, <2>2 DEF LanesFfn
  <1>12. ASSUME NEW z \in Stages, NEW k \in c2[z] + 1 .. t[z] + 1, Coll(k).kind = "combine"
         PROVE  CombineOK(c2, t, o2, x, res, z, k)
    <2>1. k \in c[z] + 1 .. t[z] + 1
      BY <1>3
    <2>3. CombineOK(c, t, o, x, res, z, k)
      BY <1>12, <2>1 DEF LanesFfn
    <2>2. PICK n \in 1 .. t[Main] :
             /\ Waits(t, o, x, z, k) = {On(Main, n)}
             /\ n <= c[Main] => /\ k - 1 <= c[z]
                                /\ \A a \in Attns : res[z][a] = Row(a, z, Coll(k).layer)
             /\ n > c[Main] => /\ o[Main][n].kind = "experts" /\ o[Main][n].stage = z
                               /\ o[Main][n].after = {On(z, k - 1)}
      BY <2>3 DEF CombineOK
    <2>4. Waits(t, o2, x, z, k) = {On(Main, n)}
      BY <1>6, <2>1, <2>2
    <2>5. n > c2[Main] => n > c[Main] /\ o2[Main][n] = o[Main][n]
      BY <1>1, <1>2, <1>3
    <2>6. n <= c2[Main] => n <= c[Main]
      <3>1. n /= m
        BY <1>4, <2>2
      <3> QED BY <1>1, <1>2, <1>3, <3>1
    <2>7. c2[z] = c[z]
      BY <1>3
    <2> QED BY <2>2, <2>4, <2>5, <2>6, <2>7 DEF CombineOK
  <1> QED BY <1>7, <1>12 DEF LanesFfn

(* A dispatch runs: the lane receives what its stage was sent. *)
LEMMA LanesReceived ==
    ASSUME Lanes > 1, NEW c, NEW t, View(c, t), NEW o, NEW x, NEW row, NEW res,
           LanesFfn(c, t, o, x, row, res),
           NEW s \in Stages, NEW c2, NEW o2, Popped(c, t, o, s, c2, o2), NEW m, m = c[s] + 1,
           Coll(m).kind = "dispatch", NEW row2, \A z \in Stages : z /= s => row2[z] = row[z],
           \A a \in Attns : row2[s][a] = Row(a, s, Coll(m).layer)
    PROVE  LanesFfn(c2, t, o2, x, row2, res)
  <1>1. Streams = Stages \cup {Main} /\ Main \notin Stages /\ Main \in Streams /\ s \in Streams
    BY ManyLanes
  <1>2. \A st \in Streams : c[st] \in Nat /\ t[st] \in Nat /\ c[st] <= t[st]
    BY DEF View
  <1>3. /\ c[s] < t[s] /\ c2[s] = m
        /\ \A z \in Streams : z /= s => c2[z] = c[z]
        /\ \A z \in Streams : \A n \in c2[z] + 1 .. t[z] : o2[z][n] = o[z][n]
    <2>1. c2 = [c EXCEPT ![s] = @ + 1]
      BY DEF Popped
    <2>2. c2[s] = m /\ \A z \in Streams : z /= s => c2[z] = c[z]
      BY <1>1, <2>1 DEF View
    <2> QED BY <2>2 DEF Popped
  <1>4. m \in c[s] + 1 .. t[s] /\ m \in Nat \ {0} /\ m > c[s]
    BY <1>1, <1>2, <1>3, SMTT(40)
  <1>5. ASSUME NEW z \in Stages, NEW k \in c2[z] + 1 .. t[z] + 1
        PROVE  Waits(t, o2, x, z, k) = Waits(t, o, x, z, k)
    <2>1. k <= t[z] => k \in c2[z] + 1 .. t[z]
      BY <1>1, <1>2
    <2> QED BY <1>1, <1>3, <2>1 DEF Waits
  <1>6. ASSUME NEW n \in c[Main] + 1 .. t[Main], ExpertsOK(c, t, o, x, row, n),
               o2[Main][n] = o[Main][n]
        PROVE  ExpertsOK(c2, t, o2, x, row2, n)
    <2>1. PICK op : op = o[Main][n] /\ op = o2[Main][n]
      BY <1>6
    <2>2. PICK z : z = op.stage
      OBVIOUS
    <2>3. z \in Stages /\ z \in Streams /\ z /= Main
      BY <1>1, <1>6, <2>1, <2>2 DEF ExpertsOK
    <2>4. PICK k \in 1 .. t[z] :
             /\ op.after = {On(z, k)} /\ k >= c[z]
             /\ Coll(k) = [kind |-> "dispatch", layer |-> op.layer]
             /\ k = c[z] => \A a \in Attns : row[z][a] = Row(a, z, op.layer)
             /\ Waits(t, o, x, z, k + 1) = {On(Main, n)}
      BY <1>6, <2>1, <2>2 DEF ExpertsOK
    <2>5. ASSUME z = s PROVE k >= m
      <3>1. k \in Nat \ {0}
        BY <1>2, <2>3
      <3>2. k /= c[s]
        <4>1. Coll(k).kind = "dispatch"
          BY <2>4
        <4>2. Coll(k + 1) = [kind |-> "combine", layer |-> Coll(k).layer]
          BY <3>1, <4>1, CombineFollows
        <4>3. Coll(k + 1).kind = "combine" /\ Coll(m).kind = "dispatch"
          BY <4>2
        <4> QED BY <1>1, <1>2, <4>3
      <3> QED BY <1>1, <1>2, <2>4, <2>5, <3>1, <3>2
    <2>6. k >= c2[z] /\ k + 1 \in c2[z] + 1 .. t[z] + 1
      BY <1>2, <1>3, <1>4, <2>3, <2>4, <2>5
    <2>7. ASSUME k = c2[z] PROVE \A a \in Attns : row2[z][a] = Row(a, z, op.layer)
      <3>1. CASE z = s
        <4>1. Coll(m).layer = op.layer
          BY <1>3, <2>4, <2>7, <3>1
        <4> QED BY <3>1, <4>1
      <3>2. CASE z /= s
        BY <1>3, <2>3, <2>4, <2>7, <3>2
      <3> QED BY <3>1, <3>2
    <2>8. Waits(t, o2, x, z, k + 1) = {On(Main, n)}
      BY <1>5, <2>3, <2>4, <2>6
    <2> QED BY <2>1, <2>2, <2>3, <2>4, <2>6, <2>7, <2>8 DEF ExpertsOK
  <1>7. ASSUME NEW n \in c2[Main] + 1 .. t[Main]
        PROVE  \/ o2[Main][n].kind = "experts" /\ ExpertsOK(c2, t, o2, x, row2, n)
               \/ o2[Main][n].kind = "join"
    <2>1. n \in c[Main] + 1 .. t[Main] /\ o2[Main][n] = o[Main][n]
      BY <1>1, <1>3
    <2> QED BY <1>6, <2>1 DEF LanesFfn
  <1>8. ASSUME NEW z \in Stages, NEW k \in c2[z] + 1 .. t[z] + 1, Coll(k).kind = "combine"
        PROVE  CombineOK(c2, t, o2, x, res, z, k)
    <2>1. /\ k \in c[z] + 1 .. t[z] + 1 /\ c[z] <= c2[z] /\ z \in Streams
          /\ {c[z], c2[z], k} \subseteq Nat
      BY <1>1, <1>2, <1>3, <1>4
    <2>3. CombineOK(c, t, o, x, res, z, k)
      BY <1>8, <2>1 DEF LanesFfn
    <2>2. PICK n \in 1 .. t[Main] :
             /\ Waits(t, o, x, z, k) = {On(Main, n)}
             /\ n <= c[Main] => /\ k - 1 <= c[z]
                                /\ \A a \in Attns : res[z][a] = Row(a, z, Coll(k).layer)
             /\ n > c[Main] => /\ o[Main][n].kind = "experts" /\ o[Main][n].stage = z
                               /\ o[Main][n].after = {On(z, k - 1)}
      BY <2>3 DEF CombineOK
    <2>4. Waits(t, o2, x, z, k) = {On(Main, n)}
      BY <1>5, <2>2
    <2>5. c2[Main] = c[Main] /\ (n > c[Main] => o2[Main][n] = o[Main][n])
      BY <1>1, <1>2, <1>3
    <2>6. k - 1 <= c[z] => k - 1 <= c2[z]
      BY <2>1
    <2> QED BY <2>2, <2>4, <2>5, <2>6 DEF CombineOK
  <1> QED BY <1>7, <1>8 DEF LanesFfn

(* A combine runs: it returns what the experts of its stage have computed. *)
LEMMA LanesReturned ==
    ASSUME Lanes > 1, NEW c, NEW t, View(c, t), NEW o, NEW x, NEW row, NEW res,
           LanesFfn(c, t, o, x, row, res),
           NEW s \in Stages, NEW c2, NEW o2, Popped(c, t, o, s, c2, o2), NEW m, m = c[s] + 1,
           Coll(m).kind = "combine", \A e \in o[s][m].after : c[e.stream] >= e.n
    PROVE  /\ LanesFfn(c2, t, o2, x, row, res)
           /\ \A a \in Attns : res[s][a] = Row(a, s, Coll(m).layer)
  <1>1. Streams = Stages \cup {Main} /\ Main \notin Stages /\ Main \in Streams /\ s \in Streams
    BY ManyLanes
  <1>2. \A st \in Streams : c[st] \in Nat /\ t[st] \in Nat /\ c[st] <= t[st]
    BY DEF View
  <1>3. /\ c[s] < t[s] /\ c2[s] = m
        /\ \A z \in Streams : z /= s => c2[z] = c[z]
        /\ \A z \in Streams : \A n \in c2[z] + 1 .. t[z] : o2[z][n] = o[z][n]
    <2>1. c2 = [c EXCEPT ![s] = @ + 1]
      BY DEF Popped
    <2>2. c2[s] = m /\ \A z \in Streams : z /= s => c2[z] = c[z]
      BY <1>1, <2>1 DEF View
    <2> QED BY <2>2 DEF Popped
  <1>4. m \in c[s] + 1 .. t[s] /\ m \in Nat \ {0} /\ m > c[s]
    BY <1>1, <1>2, <1>3, SMTT(40)
  <1>5. ASSUME NEW z \in Stages, NEW k \in c2[z] + 1 .. t[z] + 1
        PROVE  Waits(t, o2, x, z, k) = Waits(t, o, x, z, k)
    <2>1. k <= t[z] => k \in c2[z] + 1 .. t[z]
      BY <1>1, <1>2
    <2> QED BY <1>1, <1>3, <2>1 DEF Waits
  <1>9. CombineOK(c, t, o, x, res, s, m)
    <2>1. m \in c[s] + 1 .. t[s] + 1
      BY <1>1, <1>2, <1>4
    <2> QED BY <2>1 DEF LanesFfn
  <1>10. PICK w \in 1 .. t[Main] :
             /\ Waits(t, o, x, s, m) = {On(Main, w)}
             /\ w <= c[Main] => \A a \in Attns : res[s][a] = Row(a, s, Coll(m).layer)
    BY <1>9 DEF CombineOK
  <1>11. w <= c[Main] /\ w \in Nat /\ Waits(t, o, x, s, m) = o[s][m].after
    <2>1. m <= t[s]
      BY <1>1, <1>2, <1>4
    <2>2. Waits(t, o, x, s, m) = o[s][m].after
      BY <2>1 DEF Waits
    <2>3. On(Main, w) \in o[s][m].after /\ On(Main, w).stream = Main /\ On(Main, w).n = w
      BY <1>10, <2>2 DEF On
    <2>4. c[Main] >= w
      BY <2>3
    <2> QED BY <1>1, <1>2, <2>2, <2>4
  <1>6. ASSUME NEW n \in c[Main] + 1 .. t[Main], ExpertsOK(c, t, o, x, row, n),
               o2[Main][n] = o[Main][n]
        PROVE  ExpertsOK(c2, t, o2, x, row, n)
    <2>1. PICK op : op = o[Main][n] /\ op = o2[Main][n]
      BY <1>6
    <2>2. PICK z : z = op.stage
      OBVIOUS
    <2>3. z \in Stages /\ z \in Streams /\ z /= Main
      BY <1>1, <1>6, <2>1, <2>2 DEF ExpertsOK
    <2>4. PICK k \in 1 .. t[z] :
             /\ op.after = {On(z, k)} /\ k >= c[z]
             /\ Coll(k) = [kind |-> "dispatch", layer |-> op.layer]
             /\ k = c[z] => \A a \in Attns : row[z][a] = Row(a, z, op.layer)
             /\ Waits(t, o, x, z, k + 1) = {On(Main, n)}
      BY <1>6, <2>1, <2>2 DEF ExpertsOK
    <2>5. ASSUME z = s PROVE k > m
      <3>1. k \in Nat /\ k /= m
        BY <1>2, <2>3, <2>4
      <3>2. k /= c[s]
        <4>1. ASSUME k = c[s] PROVE FALSE
          <5>1. On(Main, n) = On(Main, w)
            BY <1>10, <2>4, <2>5, <4>1
          <5>2. n = w
            BY <5>1 DEF On
          <5> QED BY <1>1, <1>2, <1>11, <5>2
        <4> QED BY <4>1
      <3> QED BY <1>1, <1>2, <2>4, <2>5, <3>1, <3>2
    <2>6. /\ k >= c2[z] /\ k + 1 \in c2[z] + 1 .. t[z] + 1
          /\ (k = c2[z] => k = c[z])
      BY <1>2, <1>3, <1>4, <2>3, <2>4, <2>5
    <2>8. Waits(t, o2, x, z, k + 1) = {On(Main, n)}
      BY <1>5, <2>3, <2>4, <2>6
    <2> QED BY <2>1, <2>2, <2>3, <2>4, <2>6, <2>8 DEF ExpertsOK
  <1>7. ASSUME NEW n \in c2[Main] + 1 .. t[Main]
        PROVE  \/ o2[Main][n].kind = "experts" /\ ExpertsOK(c2, t, o2, x, row, n)
               \/ o2[Main][n].kind = "join"
    <2>1. n \in c[Main] + 1 .. t[Main] /\ o2[Main][n] = o[Main][n]
      BY <1>1, <1>3
    <2> QED BY <1>6, <2>1 DEF LanesFfn
  <1>8. ASSUME NEW z \in Stages, NEW k \in c2[z] + 1 .. t[z] + 1, Coll(k).kind = "combine"
        PROVE  CombineOK(c2, t, o2, x, res, z, k)
    <2>1. /\ k \in c[z] + 1 .. t[z] + 1 /\ c[z] <= c2[z] /\ z \in Streams
          /\ {c[z], c2[z], k} \subseteq Nat
      BY <1>1, <1>2, <1>3, <1>4
    <2>3. CombineOK(c, t, o, x, res, z, k)
      BY <1>8, <2>1 DEF LanesFfn
    <2>2. PICK n \in 1 .. t[Main] :
             /\ Waits(t, o, x, z, k) = {On(Main, n)}
             /\ n <= c[Main] => /\ k - 1 <= c[z]
                                /\ \A a \in Attns : res[z][a] = Row(a, z, Coll(k).layer)
             /\ n > c[Main] => /\ o[Main][n].kind = "experts" /\ o[Main][n].stage = z
                               /\ o[Main][n].after = {On(z, k - 1)}
      BY <2>3 DEF CombineOK
    <2>4. Waits(t, o2, x, z, k) = {On(Main, n)}
      BY <1>5, <2>2
    <2>5. c2[Main] = c[Main] /\ (n > c[Main] => o2[Main][n] = o[Main][n])
      BY <1>1, <1>2, <1>3
    <2>6. k - 1 <= c[z] => k - 1 <= c2[z]
      BY <2>1
    <2> QED BY <2>2, <2>4, <2>5, <2>6 DEF CombineOK
  <1> QED BY <1>7, <1>8, <1>10, <1>11 DEF LanesFfn

(***************************************************************************)
(* One lane.  Everything is on one stream, on which the operations of a    *)
(* layer follow one another: four on an Attention rank, three on an FFN    *)
(* rank, two of which are its collectives.                                 *)
(***************************************************************************)
AttnOp(n) ==
    [kind |-> IF n % 4 = 1 THEN "attention" ELSE IF n % 4 = 2 THEN "dispatch"
              ELSE IF n % 4 = 3 THEN "combine" ELSE "copy",
     layer |-> LayerOf((n - 1) \div 4)]
FfnOp(n) ==
    [kind |-> IF n % 3 = 1 THEN "dispatch" ELSE IF n % 3 = 2 THEN "experts" ELSE "combine",
     layer |-> LayerOf((n - 1) \div 3)]

(* collectives among the first n operations *)
AttnColls(n) == 2 * (n \div 4) + (IF n % 4 = 3 THEN 2 ELSE IF n % 4 = 2 THEN 1 ELSE 0)
FfnColls(n) == 2 * (n \div 3) + (IF n % 3 = 0 THEN 0 ELSE 1)
CollsOf(r, n) == IF r \in Attns THEN AttnColls(n) ELSE FfnColls(n)

(* operations are enqueued two by two, a layer after its dispatch; what was
   computed or combined last is there *)
OneAttn(a, c, t, o, mem, com) ==
    /\ t % 2 = 0
    /\ \A n \in c + 1 .. t : Key(o[n]) = AttnOp(n) /\ o[n].stage = 0
    /\ \A n \in c + 1 .. t - 1 : n % 4 = 1 => o[n].block \in Blocks /\ o[n + 1].block = o[n].block
    /\ c % 4 = 1 => o[c + 1].block \in Blocks /\ mem[o[c + 1].block] = Row(a, 0, LayerOf(c \div 4))
    /\ c % 4 = 3 => \A f \in Ffns : com[0][f] = Row(a, 0, LayerOf(c \div 4))
OneFfn(c, t, o, row, res) ==
    /\ t % 3 /= 1
    /\ \A n \in c + 1 .. t : Key(o[n]) = FfnOp(n) /\ o[n].stage = 0
    /\ c % 3 = 1 => \A a \in Attns : row[0][a] = Row(a, 0, LayerOf(c \div 3))
    /\ c % 3 = 2 => \A a \in Attns : res[0][a] = Row(a, 0, LayerOf(c \div 3))

(* one operation more, two, and one done *)
Added(c, t, o, op, t2, o2) ==
    /\ t2 = t + 1 /\ o2[t + 1] = op
    /\ \A n \in c + 1 .. t : o2[n] = o[n]
AddedTwo(c, t, o, p, q, t2, o2) ==
    /\ t2 = t + 2 /\ o2[t + 1] = p /\ o2[t + 2] = q
    /\ \A n \in c + 1 .. t : o2[n] = o[n]
Ran(c, t, o, c2, o2) ==
    /\ c < t /\ c2 = c + 1
    /\ \A n \in c2 + 1 .. t : o2[n] = o[n]

(* The operation after the first n of an Attention rank, and the next
   collective. *)
LEMMA AttnTurn ==
    ASSUME NEW n \in Nat
    PROVE  /\ n % 4 \in 0 .. 3 /\ AttnColls(n) \in Nat
           /\ n % 4 = 0 => /\ AttnOp(n + 1) = [kind |-> "attention", layer |-> LayerOf(n \div 4)]
                           /\ Coll(AttnColls(n) + 1) = [kind |-> "dispatch", layer |-> LayerOf(n \div 4)]
                           /\ AttnColls(n + 1) = AttnColls(n)
                           /\ (n + 1) % 4 = 1 /\ (n + 1) \div 4 = n \div 4
           /\ n % 4 = 1 => /\ AttnOp(n + 1) = [kind |-> "dispatch", layer |-> LayerOf(n \div 4)]
                           /\ Coll(AttnColls(n) + 1) = [kind |-> "dispatch", layer |-> LayerOf(n \div 4)]
                           /\ AttnColls(n + 1) = AttnColls(n) + 1
                           /\ (n + 1) % 4 = 2 /\ (n + 1) \div 4 = n \div 4
           /\ n % 4 = 2 => /\ AttnOp(n + 1) = [kind |-> "combine", layer |-> LayerOf(n \div 4)]
                           /\ Coll(AttnColls(n) + 1) = [kind |-> "combine", layer |-> LayerOf(n \div 4)]
                           /\ AttnColls(n + 1) = AttnColls(n) + 1
                           /\ (n + 1) % 4 = 3 /\ (n + 1) \div 4 = n \div 4
           /\ n % 4 = 3 => /\ AttnOp(n + 1) = [kind |-> "copy", layer |-> LayerOf(n \div 4)]
                           /\ AttnColls(n + 1) = AttnColls(n)
                           /\ (n + 1) % 4 = 0
  <1>1. PICK m \in Nat, i \in 0 .. 3 : m = n \div 4 /\ i = n % 4 /\ n = 4 * m + i
    OBVIOUS
  <1>2. (n + 1) - 1 = n /\ (i /= 3 => (n + 1) % 4 = i + 1 /\ (n + 1) \div 4 = m)
        /\ (i = 3 => (n + 1) % 4 = 0 /\ (n + 1) \div 4 = m + 1)
    BY <1>1
  <1>3. AttnColls(n) = 2 * m + (IF i = 3 THEN 2 ELSE IF i = 2 THEN 1 ELSE 0)
    BY <1>1 DEF AttnColls
  <1>4. AttnColls(n) \in Nat
    BY <1>1, <1>3
  <1>5. /\ Coll(2 * m + 1) = [kind |-> "dispatch", layer |-> LayerOf(m)]
        /\ Coll((2 * m + 1) + 1) = [kind |-> "combine", layer |-> LayerOf(m)]
    <2>1. (2 * m + 1) % 2 = 1 /\ ((2 * m + 1) - 1) \div 2 = m
      BY <1>1
    <2>2. ((2 * m + 1) + 1) % 2 = 0 /\ (((2 * m + 1) + 1) - 1) \div 2 = m
      BY <1>1
    <2> QED BY <2>1, <2>2 DEF Coll
  <1>6. CASE i = 0
    <2>1. AttnColls(n) = 2 * m /\ AttnColls(n + 1) = 2 * m
      BY <1>1, <1>2, <1>3, <1>6 DEF AttnColls
    <2>2. AttnOp(n + 1) = [kind |-> "attention", layer |-> LayerOf(m)]
      <3>1. (n + 1) % 4 = 1 /\ ((n + 1) - 1) \div 4 = m
        BY <1>1, <1>2, <1>6
      <3> QED BY <3>1 DEF AttnOp
    <2>3. Coll(AttnColls(n) + 1) = [kind |-> "dispatch", layer |-> LayerOf(m)]
      BY <1>5, <2>1
    <2> QED BY <1>1, <1>2, <1>4, <1>6, <2>1, <2>2, <2>3
  <1>7. CASE i = 1
    <2>1. AttnColls(n) = 2 * m /\ AttnColls(n + 1) = 2 * m + 1
      BY <1>1, <1>2, <1>3, <1>7 DEF AttnColls
    <2>2. AttnOp(n + 1) = [kind |-> "dispatch", layer |-> LayerOf(m)]
      <3>1. (n + 1) % 4 = 2 /\ ((n + 1) - 1) \div 4 = m
        BY <1>1, <1>2, <1>7
      <3> QED BY <3>1 DEF AttnOp
    <2>3. Coll(AttnColls(n) + 1) = [kind |-> "dispatch", layer |-> LayerOf(m)]
      BY <1>5, <2>1
    <2> QED BY <1>1, <1>2, <1>4, <1>7, <2>1, <2>2, <2>3
  <1>8. CASE i = 2
    <2>1. AttnColls(n) = 2 * m + 1 /\ AttnColls(n + 1) = (2 * m + 1) + 1
      BY <1>1, <1>2, <1>3, <1>8 DEF AttnColls
    <2>2. AttnOp(n + 1) = [kind |-> "combine", layer |-> LayerOf(m)]
      <3>1. (n + 1) % 4 = 3 /\ ((n + 1) - 1) \div 4 = m
        BY <1>1, <1>2, <1>8
      <3> QED BY <3>1 DEF AttnOp
    <2>3. Coll(AttnColls(n) + 1) = [kind |-> "combine", layer |-> LayerOf(m)]
      BY <1>5, <2>1
    <2> QED BY <1>1, <1>2, <1>4, <1>8, <2>1, <2>2, <2>3
  <1>9. CASE i = 3
    <2>1. AttnColls(n) = 2 * m + 2 /\ AttnColls(n + 1) = 2 * m + 2
      BY <1>1, <1>2, <1>3, <1>9 DEF AttnColls
    <2>2. AttnOp(n + 1) = [kind |-> "copy", layer |-> LayerOf(m)]
      <3>1. (n + 1) % 4 = 0 /\ ((n + 1) - 1) \div 4 = m
        BY <1>1, <1>2, <1>9
      <3> QED BY <3>1 DEF AttnOp
    <2> QED BY <1>1, <1>2, <1>4, <1>9, <2>1, <2>2
  <1> QED BY <1>1, <1>6, <1>7, <1>8, <1>9

(* The operation after the first n of an FFN rank, and the next
   collective. *)
LEMMA FfnTurn ==
    ASSUME NEW n \in Nat
    PROVE  /\ n % 3 \in 0 .. 2 /\ FfnColls(n) \in Nat
           /\ n % 3 = 0 => /\ FfnOp(n + 1) = [kind |-> "dispatch", layer |-> LayerOf(n \div 3)]
                           /\ Coll(FfnColls(n) + 1) = [kind |-> "dispatch", layer |-> LayerOf(n \div 3)]
                           /\ FfnColls(n + 1) = FfnColls(n) + 1
                           /\ (n + 1) % 3 = 1 /\ (n + 1) \div 3 = n \div 3
           /\ n % 3 = 1 => /\ FfnOp(n + 1) = [kind |-> "experts", layer |-> LayerOf(n \div 3)]
                           /\ FfnColls(n + 1) = FfnColls(n)
                           /\ (n + 1) % 3 = 2 /\ (n + 1) \div 3 = n \div 3
           /\ n % 3 = 2 => /\ FfnOp(n + 1) = [kind |-> "combine", layer |-> LayerOf(n \div 3)]
                           /\ Coll(FfnColls(n) + 1) = [kind |-> "combine", layer |-> LayerOf(n \div 3)]
                           /\ FfnColls(n + 1) = FfnColls(n) + 1
                           /\ (n + 1) % 3 = 0
  <1>1. PICK m \in Nat, i \in 0 .. 2 : m = n \div 3 /\ i = n % 3 /\ n = 3 * m + i
    OBVIOUS
  <1>2. (n + 1) - 1 = n /\ (i /= 2 => (n + 1) % 3 = i + 1 /\ (n + 1) \div 3 = m)
        /\ (i = 2 => (n + 1) % 3 = 0 /\ (n + 1) \div 3 = m + 1)
    BY <1>1
  <1>3. FfnColls(n) = 2 * m + (IF i = 0 THEN 0 ELSE 1)
    BY <1>1 DEF FfnColls
  <1>4. FfnColls(n) \in Nat
    BY <1>1, <1>3
  <1>5. /\ Coll(2 * m + 1) = [kind |-> "dispatch", layer |-> LayerOf(m)]
        /\ Coll((2 * m + 1) + 1) = [kind |-> "combine", layer |-> LayerOf(m)]
    <2>1. (2 * m + 1) % 2 = 1 /\ ((2 * m + 1) - 1) \div 2 = m
      BY <1>1
    <2>2. ((2 * m + 1) + 1) % 2 = 0 /\ (((2 * m + 1) + 1) - 1) \div 2 = m
      BY <1>1
    <2> QED BY <2>1, <2>2 DEF Coll
  <1>6. CASE i = 0
    <2>1. FfnColls(n) = 2 * m /\ FfnColls(n + 1) = 2 * m + 1
      BY <1>1, <1>2, <1>3, <1>6 DEF FfnColls
    <2>2. FfnOp(n + 1) = [kind |-> "dispatch", layer |-> LayerOf(m)]
      <3>1. (n + 1) % 3 = 1 /\ ((n + 1) - 1) \div 3 = m
        BY <1>1, <1>2, <1>6
      <3> QED BY <3>1 DEF FfnOp
    <2>3. Coll(FfnColls(n) + 1) = [kind |-> "dispatch", layer |-> LayerOf(m)]
      BY <1>5, <2>1
    <2> QED BY <1>1, <1>2, <1>4, <1>6, <2>1, <2>2, <2>3
  <1>7. CASE i = 1
    <2>1. FfnColls(n) = 2 * m + 1 /\ FfnColls(n + 1) = 2 * m + 1
      BY <1>1, <1>2, <1>3, <1>7 DEF FfnColls
    <2>2. FfnOp(n + 1) = [kind |-> "experts", layer |-> LayerOf(m)]
      <3>1. (n + 1) % 3 = 2 /\ ((n + 1) - 1) \div 3 = m
        BY <1>1, <1>2, <1>7
      <3> QED BY <3>1 DEF FfnOp
    <2> QED BY <1>1, <1>2, <1>4, <1>7, <2>1, <2>2
  <1>8. CASE i = 2
    <2>1. FfnColls(n) = 2 * m + 1 /\ FfnColls(n + 1) = (2 * m + 1) + 1
      BY <1>1, <1>2, <1>3, <1>8 DEF FfnColls
    <2>2. FfnOp(n + 1) = [kind |-> "combine", layer |-> LayerOf(m)]
      <3>1. (n + 1) % 3 = 0 /\ ((n + 1) - 1) \div 3 = m
        BY <1>1, <1>2, <1>8
      <3> QED BY <3>1 DEF FfnOp
    <2>3. Coll(FfnColls(n) + 1) = [kind |-> "combine", layer |-> LayerOf(m)]
      BY <1>5, <2>1
    <2> QED BY <1>1, <1>2, <1>4, <1>8, <2>1, <2>2, <2>3
  <1> QED BY <1>1, <1>6, <1>7, <1>8

(* The stream of one lane. *)
LEMMA OneLane ==
    ASSUME Lanes = 1
    PROVE  /\ Main = 1 /\ Streams = {Main} /\ Stages = {0}
           /\ \A s \in Stages : LaneStream(s) = Main
           /\ \A e : Wait(e) = {}
  <1>1. Main = 1 /\ Stages = {0} /\ \A s : LaneStream(s) = Main
    BY DEF Main, Stages, LaneStream
  <1> QED BY <1>1 DEF Streams, Wait

(* What is enqueued on it when one operation is. *)
LEMMA AddOne ==
    ASSUME NEW c, NEW t, View(c, t), NEW o, NEW st \in Streams, NEW p,
           NEW t1, NEW o1, Pushed(c, t, o, st, p, t1, o1)
    PROVE  Added(c[st], t[st], o[st], p, t1[st], o1[st])
  BY DEF Pushed, View, Added

(* What is enqueued on it when two operations are. *)
LEMMA AddTwo ==
    ASSUME NEW c, NEW t, View(c, t), NEW o, NEW st \in Streams, NEW p, NEW q,
           NEW t1, NEW o1, NEW t2, NEW o2,
           Pushed(c, t, o, st, p, t1, o1), Pushed(c, t1, o1, st, q, t2, o2)
    PROVE  AddedTwo(c[st], t[st], o[st], p, q, t2[st], o2[st])
  <1>1. c[st] \in Nat /\ t[st] \in Nat /\ c[st] <= t[st] /\ t \in [Streams -> Nat]
    BY DEF View
  <1>2. t1 = [t EXCEPT ![st] = @ + 1] /\ t2 = [t1 EXCEPT ![st] = @ + 1]
    BY DEF Pushed
  <1>3. t1[st] = t[st] + 1
    BY <1>1, <1>2
  <1>4. DOMAIN t1 = Streams
    BY <1>1, <1>2
  <1>5. t2[st] = t1[st] + 1
    BY <1>2, <1>4
  <1>6. \A n \in c[st] + 1 .. t1[st] : o2[st][n] = o1[st][n]
    BY DEF Pushed
  <1>7. \A n \in c[st] + 1 .. t[st] : o1[st][n] = o[st][n]
    BY DEF Pushed
  <1>8. o1[st][t[st] + 1] = p /\ o2[st][t1[st] + 1] = q
    BY DEF Pushed
  <1>9. ASSUME NEW n \in c[st] + 1 .. t[st] PROVE o2[st][n] = o[st][n]
    <2>1. n \in c[st] + 1 .. t1[st]
      BY <1>1, <1>3
    <2> QED BY <1>6, <1>7, <2>1
  <1>10. o2[st][t[st] + 1] = p
    <2>1. t[st] + 1 \in c[st] + 1 .. t1[st]
      BY <1>1, <1>3
    <2> QED BY <1>6, <1>8, <2>1
  <1>11. t2[st] = t[st] + 2 /\ t1[st] + 1 = t[st] + 2
    BY <1>1, <1>3, <1>5
  <1> QED BY <1>8, <1>9, <1>10, <1>11 DEF AddedTwo

(* What is left of it when its first operation has run. *)
LEMMA RunOne ==
    ASSUME NEW c, NEW t, View(c, t), NEW o, NEW st \in Streams,
           NEW c2, NEW o2, Popped(c, t, o, st, c2, o2)
    PROVE  Ran(c[st], t[st], o[st], c2[st], o2[st])
  BY DEF Popped, View, Ran

(* A layer and its dispatch are enqueued. *)
LEMMA OneSend ==
    ASSUME NEW a, NEW c \in Nat, NEW t \in Nat, c <= t, NEW o, NEW mem, NEW com,
           OneAttn(a, c, t, o, mem, com), NEW main, NEW lane, NEW l, NEW b \in Blocks,
           main.kind = "attention", main.stage = 0, main.layer = l, main.block = b,
           lane.kind = "dispatch", lane.stage = 0, lane.layer = l, lane.block = b,
           Coll(AttnColls(t) + 1) = [kind |-> "dispatch", layer |-> l],
           NEW t2, NEW o2, AddedTwo(c, t, o, main, lane, t2, o2)
    PROVE  OneAttn(a, c, t2, o2, mem, com) /\ AttnColls(t2) = AttnColls(t) + 1
  <1>1. /\ t2 = (t + 1) + 1 /\ o2[t + 1] = main /\ o2[(t + 1) + 1] = lane
        /\ \A n \in c + 1 .. t : o2[n] = o[n]
    BY DEF AddedTwo
  <1>2. /\ t % 2 = 0
        /\ \A n \in c + 1 .. t : Key(o[n]) = AttnOp(n) /\ o[n].stage = 0
        /\ \A n \in c + 1 .. t - 1 : n % 4 = 1 => o[n].block \in Blocks /\ o[n + 1].block = o[n].block
        /\ c % 4 = 1 => o[c + 1].block \in Blocks /\ mem[o[c + 1].block] = Row(a, 0, LayerOf(c \div 4))
        /\ c % 4 = 3 => \A f \in Ffns : com[0][f] = Row(a, 0, LayerOf(c \div 4))
    BY DEF OneAttn
  <1>3. t % 4 = 0 /\ l = LayerOf(t \div 4)
    <2>1. t % 4 = 0 \/ t % 4 = 2
      BY <1>2
    <2>2. t % 4 = 2 => Coll(AttnColls(t) + 1) = [kind |-> "combine", layer |-> LayerOf(t \div 4)]
      BY AttnTurn
    <2>3. t % 4 = 0
      BY <2>1, <2>2
    <2>4. Coll(AttnColls(t) + 1) = [kind |-> "dispatch", layer |-> LayerOf(t \div 4)]
      BY <2>3, AttnTurn
    <2> QED BY <2>3, <2>4
  <1>4. /\ AttnOp(t + 1) = [kind |-> "attention", layer |-> l]
        /\ AttnColls(t + 1) = AttnColls(t) /\ (t + 1) % 4 = 1 /\ (t + 1) \div 4 = t \div 4
    BY <1>3, AttnTurn
  <1>5. /\ AttnOp((t + 1) + 1) = [kind |-> "dispatch", layer |-> l]
        /\ AttnColls((t + 1) + 1) = AttnColls(t + 1) + 1 /\ ((t + 1) + 1) % 4 = 2
    <2>1. PICK x \in Nat : x = t + 1
      OBVIOUS
    <2>2. /\ AttnOp(x + 1) = [kind |-> "dispatch", layer |-> LayerOf(x \div 4)]
          /\ AttnColls(x + 1) = AttnColls(x) + 1 /\ (x + 1) % 4 = 2
      BY <1>4, <2>1, AttnTurn
    <2> QED BY <1>3, <1>4, <2>1, <2>2
  <1>6. AttnColls(t2) = AttnColls(t) + 1 /\ t2 % 2 = 0
    BY <1>1, <1>2, <1>4, <1>5
  <1>7. ASSUME NEW n \in c + 1 .. t2 PROVE Key(o2[n]) = AttnOp(n) /\ o2[n].stage = 0
    <2>1. n \in c + 1 .. t \/ n = t + 1 \/ n = (t + 1) + 1
      BY <1>1
    <2>2. CASE n \in c + 1 .. t
      BY <1>1, <1>2, <2>2
    <2>3. CASE n = t + 1
      BY <1>1, <1>4, <2>3 DEF Key
    <2>4. CASE n = (t + 1) + 1
      BY <1>1, <1>5, <2>4 DEF Key
    <2> QED BY <2>1, <2>2, <2>3, <2>4
  <1>8. ASSUME NEW n \in c + 1 .. t2 - 1, n % 4 = 1
        PROVE  o2[n].block \in Blocks /\ o2[n + 1].block = o2[n].block
    <2>1. n \in c + 1 .. t - 1 \/ n = t \/ n = t + 1
      BY <1>1
    <2>2. CASE n \in c + 1 .. t - 1
      <3>1. n \in c + 1 .. t /\ n + 1 \in c + 1 .. t
        BY <2>2
      <3> QED BY <1>1, <1>2, <1>8, <2>2, <3>1
    <2>3. CASE n = t + 1
      BY <1>1, <2>3
    <2> QED BY <1>3, <1>8, <2>1, <2>2, <2>3
  <1>9. ASSUME c % 4 = 1 \/ c % 4 = 3 PROVE o2[c + 1] = o[c + 1]
    <2>1. c + 1 \in c + 1 .. t
      BY <1>3, <1>9
    <2> QED BY <1>1, <2>1
  <1> QED BY <1>2, <1>6, <1>7, <1>8, <1>9 DEF OneAttn

(* A combine and its copy are enqueued. *)
LEMMA OneRecv ==
    ASSUME NEW a, NEW c \in Nat, NEW t \in Nat, c <= t, NEW o, NEW mem, NEW com,
           OneAttn(a, c, t, o, mem, com), NEW main, NEW lane, NEW l,
           lane.kind = "combine", lane.stage = 0, lane.layer = l,
           main.kind = "copy", main.stage = 0, main.layer = l,
           Coll(AttnColls(t) + 1) = [kind |-> "combine", layer |-> l],
           NEW t2, NEW o2, AddedTwo(c, t, o, lane, main, t2, o2)
    PROVE  OneAttn(a, c, t2, o2, mem, com) /\ AttnColls(t2) = AttnColls(t) + 1
  <1>1. /\ t2 = (t + 1) + 1 /\ o2[t + 1] = lane /\ o2[(t + 1) + 1] = main
        /\ \A n \in c + 1 .. t : o2[n] = o[n]
    BY DEF AddedTwo
  <1>2. /\ t % 2 = 0
        /\ \A n \in c + 1 .. t : Key(o[n]) = AttnOp(n) /\ o[n].stage = 0
        /\ \A n \in c + 1 .. t - 1 : n % 4 = 1 => o[n].block \in Blocks /\ o[n + 1].block = o[n].block
        /\ c % 4 = 1 => o[c + 1].block \in Blocks /\ mem[o[c + 1].block] = Row(a, 0, LayerOf(c \div 4))
        /\ c % 4 = 3 => \A f \in Ffns : com[0][f] = Row(a, 0, LayerOf(c \div 4))
    BY DEF OneAttn
  <1>3. t % 4 = 2 /\ l = LayerOf(t \div 4)
    <2>1. t % 4 = 0 \/ t % 4 = 2
      BY <1>2
    <2>2. t % 4 = 0 => Coll(AttnColls(t) + 1) = [kind |-> "dispatch", layer |-> LayerOf(t \div 4)]
      BY AttnTurn
    <2>3. t % 4 = 2
      BY <2>1, <2>2
    <2>4. Coll(AttnColls(t) + 1) = [kind |-> "combine", layer |-> LayerOf(t \div 4)]
      BY <2>3, AttnTurn
    <2> QED BY <2>3, <2>4
  <1>4. /\ AttnOp(t + 1) = [kind |-> "combine", layer |-> l]
        /\ AttnColls(t + 1) = AttnColls(t) + 1 /\ (t + 1) % 4 = 3 /\ (t + 1) \div 4 = t \div 4
    BY <1>3, AttnTurn
  <1>5. /\ AttnOp((t + 1) + 1) = [kind |-> "copy", layer |-> l]
        /\ AttnColls((t + 1) + 1) = AttnColls(t + 1) /\ ((t + 1) + 1) % 4 = 0
    <2>1. PICK x \in Nat : x = t + 1
      OBVIOUS
    <2>2. /\ AttnOp(x + 1) = [kind |-> "copy", layer |-> LayerOf(x \div 4)]
          /\ AttnColls(x + 1) = AttnColls(x) /\ (x + 1) % 4 = 0
      BY <1>4, <2>1, AttnTurn
    <2> QED BY <1>3, <1>4, <2>1, <2>2
  <1>6. AttnColls(t2) = AttnColls(t) + 1 /\ t2 % 2 = 0
    BY <1>1, <1>2, <1>4, <1>5
  <1>7. ASSUME NEW n \in c + 1 .. t2 PROVE Key(o2[n]) = AttnOp(n) /\ o2[n].stage = 0
    <2>1. n \in c + 1 .. t \/ n = t + 1 \/ n = (t + 1) + 1
      BY <1>1
    <2>2. CASE n \in c + 1 .. t
      BY <1>1, <1>2, <2>2
    <2>3. CASE n = t + 1
      BY <1>1, <1>4, <2>3 DEF Key
    <2>4. CASE n = (t + 1) + 1
      BY <1>1, <1>5, <2>4 DEF Key
    <2> QED BY <2>1, <2>2, <2>3, <2>4
  <1>8. ASSUME NEW n \in c + 1 .. t2 - 1, n % 4 = 1
        PROVE  o2[n].block \in Blocks /\ o2[n + 1].block = o2[n].block
    <2>1. n \in c + 1 .. t - 1 \/ n = t \/ n = t + 1
      BY <1>1
    <2>2. CASE n \in c + 1 .. t - 1
      <3>1. n \in c + 1 .. t /\ n + 1 \in c + 1 .. t
        BY <2>2
      <3> QED BY <1>1, <1>2, <1>8, <2>2, <3>1
    <2> QED BY <1>3, <1>4, <1>8, <2>1, <2>2
  <1>9. ASSUME c % 4 = 1 \/ c % 4 = 3 PROVE o2[c + 1] = o[c + 1]
    <2>1. c + 1 \in c + 1 .. t
      BY <1>3, <1>9
    <2> QED BY <1>1, <2>1
  <1> QED BY <1>2, <1>6, <1>7, <1>8, <1>9 DEF OneAttn

(* A layer runs. *)
LEMMA OneLayer ==
    ASSUME NEW a, NEW c \in Nat, NEW t \in Nat, NEW o, NEW mem, NEW com,
           OneAttn(a, c, t, o, mem, com), NEW c2, NEW o2, Ran(c, t, o, c2, o2),
           NEW op, op = o[c + 1], op.kind = "attention",
           NEW mem2, op.block \in Blocks => mem2[op.block] = Row(a, op.stage, op.layer)
    PROVE  /\ OneAttn(a, c2, t, o2, mem2, com)
           /\ AttnColls(c2) = AttnColls(c) /\ op.stage = 0 /\ op.block \in Blocks
  <1>1. c < t /\ c2 = c + 1 /\ c2 \in Nat /\ \A n \in c2 + 1 .. t : o2[n] = o[n]
    BY DEF Ran
  <1>2. /\ t % 2 = 0
        /\ \A n \in c + 1 .. t : Key(o[n]) = AttnOp(n) /\ o[n].stage = 0
        /\ \A n \in c + 1 .. t - 1 : n % 4 = 1 => o[n].block \in Blocks /\ o[n + 1].block = o[n].block
        /\ c % 4 = 1 => o[c + 1].block \in Blocks /\ mem[o[c + 1].block] = Row(a, 0, LayerOf(c \div 4))
        /\ c % 4 = 3 => \A f \in Ffns : com[0][f] = Row(a, 0, LayerOf(c \div 4))
    BY DEF OneAttn
  <1>3. Key(op) = AttnOp(c + 1) /\ op.stage = 0
    <2>1. c + 1 \in c + 1 .. t
      BY <1>1
    <2> QED BY <1>2, <2>1
  <1>4. c % 4 = 0 /\ op.layer = LayerOf(c \div 4)
    <2>1. op.kind = AttnOp(c + 1).kind /\ op.layer = AttnOp(c + 1).layer
      BY <1>3 DEF Key
    <2>2. c % 4 \in 0 .. 3
      BY AttnTurn
    <2>3. /\ c % 4 = 0 => AttnOp(c + 1) = [kind |-> "attention", layer |-> LayerOf(c \div 4)]
          /\ c % 4 = 1 => AttnOp(c + 1) = [kind |-> "dispatch", layer |-> LayerOf(c \div 4)]
          /\ c % 4 = 2 => AttnOp(c + 1) = [kind |-> "combine", layer |-> LayerOf(c \div 4)]
          /\ c % 4 = 3 => AttnOp(c + 1) = [kind |-> "copy", layer |-> LayerOf(c \div 4)]
      BY AttnTurn
    <2>4. c % 4 = 0 \/ c % 4 = 1 \/ c % 4 = 2 \/ c % 4 = 3
      BY <2>2
    <2> QED BY <2>1, <2>3, <2>4
  <1>5. AttnColls(c2) = AttnColls(c) /\ c2 % 4 = 1 /\ c2 \div 4 = c \div 4
    BY <1>1, <1>4, AttnTurn
  <1>6. ASSUME NEW n \in c2 + 1 .. t PROVE Key(o2[n]) = AttnOp(n) /\ o2[n].stage = 0
    <2>1. n \in c + 1 .. t
      BY <1>1
    <2> QED BY <1>1, <1>2, <2>1
  <1>7. ASSUME NEW n \in c2 + 1 .. t - 1, n % 4 = 1
        PROVE  o2[n].block \in Blocks /\ o2[n + 1].block = o2[n].block
    <2>1. n \in c + 1 .. t - 1 /\ n \in c2 + 1 .. t /\ n + 1 \in c2 + 1 .. t
      BY <1>1, <1>2
    <2> QED BY <1>1, <1>2, <1>7, <2>1
  <1>8. op.block \in Blocks /\ o2[c2 + 1].block = op.block
    <2>1. c + 1 < t /\ (c + 1) % 4 = 1
      <3>1. c + 1 /= t
        BY <1>1, <1>2, <1>5
      <3> QED BY <1>1, <1>5, <3>1
    <2>2. c + 1 \in c + 1 .. t - 1 /\ c2 + 1 \in c2 + 1 .. t
      BY <1>1, <2>1
    <2>3. o[c + 1].block \in Blocks /\ o[(c + 1) + 1].block = o[c + 1].block
      BY <1>2, <2>1, <2>2
    <2> QED BY <1>1, <2>2, <2>3
  <1>9. c2 % 4 = 1 => o2[c2 + 1].block \in Blocks /\ mem2[o2[c2 + 1].block] = Row(a, 0, LayerOf(c2 \div 4))
    BY <1>3, <1>4, <1>5, <1>8
  <1>10. c2 % 4 /= 3
    BY <1>5
  <1> QED BY <1>2, <1>3, <1>5, <1>6, <1>7, <1>8, <1>9, <1>10 DEF OneAttn

(* A copy runs. *)
LEMMA OneCopy ==
    ASSUME NEW a, NEW c \in Nat, NEW t \in Nat, NEW o, NEW mem, NEW com,
           OneAttn(a, c, t, o, mem, com), NEW c2, NEW o2, Ran(c, t, o, c2, o2),
           NEW op, op = o[c + 1], op.kind = "copy"
    PROVE  /\ OneAttn(a, c2, t, o2, mem, com)
           /\ AttnColls(c2) = AttnColls(c) /\ op.stage = 0
           /\ Brought(com, a, 0, op.layer)
  <1>1. c < t /\ c2 = c + 1 /\ c2 \in Nat /\ \A n \in c2 + 1 .. t : o2[n] = o[n]
    BY DEF Ran
  <1>2. /\ t % 2 = 0
        /\ \A n \in c + 1 .. t : Key(o[n]) = AttnOp(n) /\ o[n].stage = 0
        /\ \A n \in c + 1 .. t - 1 : n % 4 = 1 => o[n].block \in Blocks /\ o[n + 1].block = o[n].block
        /\ c % 4 = 1 => o[c + 1].block \in Blocks /\ mem[o[c + 1].block] = Row(a, 0, LayerOf(c \div 4))
        /\ c % 4 = 3 => \A f \in Ffns : com[0][f] = Row(a, 0, LayerOf(c \div 4))
    BY DEF OneAttn
  <1>3. Key(op) = AttnOp(c + 1) /\ op.stage = 0
    <2>1. c + 1 \in c + 1 .. t
      BY <1>1
    <2> QED BY <1>2, <2>1
  <1>4. c % 4 = 3 /\ op.layer = LayerOf(c \div 4)
    <2>1. op.kind = AttnOp(c + 1).kind /\ op.layer = AttnOp(c + 1).layer
      BY <1>3 DEF Key
    <2>2. c % 4 \in 0 .. 3
      BY AttnTurn
    <2>3. /\ c % 4 = 0 => AttnOp(c + 1) = [kind |-> "attention", layer |-> LayerOf(c \div 4)]
          /\ c % 4 = 1 => AttnOp(c + 1) = [kind |-> "dispatch", layer |-> LayerOf(c \div 4)]
          /\ c % 4 = 2 => AttnOp(c + 1) = [kind |-> "combine", layer |-> LayerOf(c \div 4)]
          /\ c % 4 = 3 => AttnOp(c + 1) = [kind |-> "copy", layer |-> LayerOf(c \div 4)]
      BY AttnTurn
    <2>4. c % 4 = 0 \/ c % 4 = 1 \/ c % 4 = 2 \/ c % 4 = 3
      BY <2>2
    <2> QED BY <2>1, <2>3, <2>4
  <1>5. AttnColls(c2) = AttnColls(c) /\ c2 % 4 = 0
    BY <1>1, <1>4, AttnTurn
  <1>6. ASSUME NEW n \in c2 + 1 .. t PROVE Key(o2[n]) = AttnOp(n) /\ o2[n].stage = 0
    <2>1. n \in c + 1 .. t
      BY <1>1
    <2> QED BY <1>1, <1>2, <2>1
  <1>7. ASSUME NEW n \in c2 + 1 .. t - 1, n % 4 = 1
        PROVE  o2[n].block \in Blocks /\ o2[n + 1].block = o2[n].block
    <2>1. n \in c + 1 .. t - 1 /\ n \in c2 + 1 .. t /\ n + 1 \in c2 + 1 .. t
      BY <1>1, <1>2
    <2> QED BY <1>1, <1>2, <1>7, <2>1
  <1>8. Brought(com, a, 0, op.layer)
    BY <1>2, <1>4 DEF Brought
  <1>9. c2 % 4 /= 1 /\ c2 % 4 /= 3
    BY <1>5
  <1> QED BY <1>2, <1>3, <1>5, <1>6, <1>7, <1>8, <1>9 DEF OneAttn

(* A dispatch runs: it reads what the layer computed. *)
LEMMA OneDispatched ==
    ASSUME NEW a, NEW c \in Nat, NEW t \in Nat, NEW o, NEW mem, NEW com,
           OneAttn(a, c, t, o, mem, com), NEW c2, NEW o2, Ran(c, t, o, c2, o2),
           NEW op, op = o[c + 1], op.kind = "dispatch"
    PROVE  /\ OneAttn(a, c2, t, o2, mem, com)
           /\ AttnColls(c2) = AttnColls(c) + 1 /\ Coll(AttnColls(c) + 1).kind = "dispatch"
           /\ Filled(mem, op.block, a, 0, Coll(AttnColls(c) + 1).layer)
  <1>1. c < t /\ c2 = c + 1 /\ c2 \in Nat /\ \A n \in c2 + 1 .. t : o2[n] = o[n]
    BY DEF Ran
  <1>2. /\ t % 2 = 0
        /\ \A n \in c + 1 .. t : Key(o[n]) = AttnOp(n) /\ o[n].stage = 0
        /\ \A n \in c + 1 .. t - 1 : n % 4 = 1 => o[n].block \in Blocks /\ o[n + 1].block = o[n].block
        /\ c % 4 = 1 => o[c + 1].block \in Blocks /\ mem[o[c + 1].block] = Row(a, 0, LayerOf(c \div 4))
        /\ c % 4 = 3 => \A f \in Ffns : com[0][f] = Row(a, 0, LayerOf(c \div 4))
    BY DEF OneAttn
  <1>3. Key(op) = AttnOp(c + 1) /\ op.stage = 0
    <2>1. c + 1 \in c + 1 .. t
      BY <1>1
    <2> QED BY <1>2, <2>1
  <1>4. c % 4 = 1 /\ op.layer = LayerOf(c \div 4)
    <2>1. op.kind = AttnOp(c + 1).kind /\ op.layer = AttnOp(c + 1).layer
      BY <1>3 DEF Key
    <2>2. c % 4 \in 0 .. 3
      BY AttnTurn
    <2>3. /\ c % 4 = 0 => AttnOp(c + 1) = [kind |-> "attention", layer |-> LayerOf(c \div 4)]
          /\ c % 4 = 1 => AttnOp(c + 1) = [kind |-> "dispatch", layer |-> LayerOf(c \div 4)]
          /\ c % 4 = 2 => AttnOp(c + 1) = [kind |-> "combine", layer |-> LayerOf(c \div 4)]
          /\ c % 4 = 3 => AttnOp(c + 1) = [kind |-> "copy", layer |-> LayerOf(c \div 4)]
      BY AttnTurn
    <2>4. c % 4 = 0 \/ c % 4 = 1 \/ c % 4 = 2 \/ c % 4 = 3
      BY <2>2
    <2> QED BY <2>1, <2>3, <2>4
  <1>5. /\ AttnColls(c2) = AttnColls(c) + 1 /\ c2 % 4 = 2
        /\ Coll(AttnColls(c) + 1) = [kind |-> "dispatch", layer |-> LayerOf(c \div 4)]
    BY <1>1, <1>4, AttnTurn
  <1>6. ASSUME NEW n \in c2 + 1 .. t PROVE Key(o2[n]) = AttnOp(n) /\ o2[n].stage = 0
    <2>1. n \in c + 1 .. t
      BY <1>1
    <2> QED BY <1>1, <1>2, <2>1
  <1>7. ASSUME NEW n \in c2 + 1 .. t - 1, n % 4 = 1
        PROVE  o2[n].block \in Blocks /\ o2[n + 1].block = o2[n].block
    <2>1. n \in c + 1 .. t - 1 /\ n \in c2 + 1 .. t /\ n + 1 \in c2 + 1 .. t
      BY <1>1, <1>2
    <2> QED BY <1>1, <1>2, <1>7, <2>1
  <1>8. Filled(mem, op.block, a, 0, Coll(AttnColls(c) + 1).layer) /\ Coll(AttnColls(c) + 1).kind = "dispatch"
    <2>1. Coll(AttnColls(c) + 1).layer = LayerOf(c \div 4) /\ Coll(AttnColls(c) + 1).kind = "dispatch"
      BY <1>5
    <2>2. mem[o[c + 1].block] = Row(a, 0, LayerOf(c \div 4))
      BY <1>2, <1>4
    <2> QED BY <2>1, <2>2 DEF Filled
  <1>9. c2 % 4 /= 1 /\ c2 % 4 /= 3
    BY <1>5
  <1> QED BY <1>2, <1>5, <1>6, <1>7, <1>8, <1>9 DEF OneAttn

(* A combine runs: it brings what the FFN ranks computed. *)
LEMMA OneCombined ==
    ASSUME NEW a, NEW c \in Nat, NEW t \in Nat, NEW o, NEW mem, NEW com,
           OneAttn(a, c, t, o, mem, com), NEW c2, NEW o2, Ran(c, t, o, c2, o2),
           NEW op, op = o[c + 1], op.kind = "combine",
           NEW com2, \A f \in Ffns : com2[0][f] = Row(a, 0, Coll(AttnColls(c) + 1).layer)
    PROVE  /\ OneAttn(a, c2, t, o2, mem, com2)
           /\ AttnColls(c2) = AttnColls(c) + 1 /\ Coll(AttnColls(c) + 1).kind = "combine"
  <1>1. c < t /\ c2 = c + 1 /\ c2 \in Nat /\ \A n \in c2 + 1 .. t : o2[n] = o[n]
    BY DEF Ran
  <1>2. /\ t % 2 = 0
        /\ \A n \in c + 1 .. t : Key(o[n]) = AttnOp(n) /\ o[n].stage = 0
        /\ \A n \in c + 1 .. t - 1 : n % 4 = 1 => o[n].block \in Blocks /\ o[n + 1].block = o[n].block
        /\ c % 4 = 1 => o[c + 1].block \in Blocks /\ mem[o[c + 1].block] = Row(a, 0, LayerOf(c \div 4))
        /\ c % 4 = 3 => \A f \in Ffns : com[0][f] = Row(a, 0, LayerOf(c \div 4))
    BY DEF OneAttn
  <1>3. Key(op) = AttnOp(c + 1) /\ op.stage = 0
    <2>1. c + 1 \in c + 1 .. t
      BY <1>1
    <2> QED BY <1>2, <2>1
  <1>4. c % 4 = 2 /\ op.layer = LayerOf(c \div 4)
    <2>1. op.kind = AttnOp(c + 1).kind /\ op.layer = AttnOp(c + 1).layer
      BY <1>3 DEF Key
    <2>2. c % 4 \in 0 .. 3
      BY AttnTurn
    <2>3. /\ c % 4 = 0 => AttnOp(c + 1) = [kind |-> "attention", layer |-> LayerOf(c \div 4)]
          /\ c % 4 = 1 => AttnOp(c + 1) = [kind |-> "dispatch", layer |-> LayerOf(c \div 4)]
          /\ c % 4 = 2 => AttnOp(c + 1) = [kind |-> "combine", layer |-> LayerOf(c \div 4)]
          /\ c % 4 = 3 => AttnOp(c + 1) = [kind |-> "copy", layer |-> LayerOf(c \div 4)]
      BY AttnTurn
    <2>4. c % 4 = 0 \/ c % 4 = 1 \/ c % 4 = 2 \/ c % 4 = 3
      BY <2>2
    <2> QED BY <2>1, <2>3, <2>4
  <1>5. /\ AttnColls(c2) = AttnColls(c) + 1 /\ c2 % 4 = 3 /\ c2 \div 4 = c \div 4
        /\ Coll(AttnColls(c) + 1) = [kind |-> "combine", layer |-> LayerOf(c \div 4)]
    BY <1>1, <1>4, AttnTurn
  <1>6. ASSUME NEW n \in c2 + 1 .. t PROVE Key(o2[n]) = AttnOp(n) /\ o2[n].stage = 0
    <2>1. n \in c + 1 .. t
      BY <1>1
    <2> QED BY <1>1, <1>2, <2>1
  <1>7. ASSUME NEW n \in c2 + 1 .. t - 1, n % 4 = 1
        PROVE  o2[n].block \in Blocks /\ o2[n + 1].block = o2[n].block
    <2>1. n \in c + 1 .. t - 1 /\ n \in c2 + 1 .. t /\ n + 1 \in c2 + 1 .. t
      BY <1>1, <1>2
    <2> QED BY <1>1, <1>2, <1>7, <2>1
  <1>8. \A f \in Ffns : com2[0][f] = Row(a, 0, LayerOf(c2 \div 4))
    <2>1. Coll(AttnColls(c) + 1).layer = LayerOf(c2 \div 4)
      BY <1>5
    <2> QED BY <2>1
  <1>9. c2 % 4 /= 1 /\ Coll(AttnColls(c) + 1).kind = "combine"
    <2>1. c2 % 4 /= 1
      BY <1>5
    <2>2. Coll(AttnColls(c) + 1).kind = "combine"
      BY <1>5
    <2> QED BY <2>1, <2>2
  <1> QED BY <1>2, <1>5, <1>6, <1>7, <1>8, <1>9 DEF OneAttn

(* A dispatch and its experts are enqueued. *)
LEMMA OneReceive ==
    ASSUME NEW c \in Nat, NEW t \in Nat, c <= t, NEW o, NEW row, NEW res,
           OneFfn(c, t, o, row, res), NEW main, NEW lane, NEW l,
           lane.kind = "dispatch", lane.stage = 0, lane.layer = l,
           main.kind = "experts", main.stage = 0, main.layer = l,
           Coll(FfnColls(t) + 1) = [kind |-> "dispatch", layer |-> l],
           NEW t2, NEW o2, AddedTwo(c, t, o, lane, main, t2, o2)
    PROVE  OneFfn(c, t2, o2, row, res) /\ FfnColls(t2) = FfnColls(t) + 1
  <1>1. /\ t2 = (t + 1) + 1 /\ o2[t + 1] = lane /\ o2[(t + 1) + 1] = main
        /\ \A n \in c + 1 .. t : o2[n] = o[n]
    BY DEF AddedTwo
  <1>2. /\ t % 3 /= 1
        /\ \A n \in c + 1 .. t : Key(o[n]) = FfnOp(n) /\ o[n].stage = 0
        /\ c % 3 = 1 => \A a \in Attns : row[0][a] = Row(a, 0, LayerOf(c \div 3))
        /\ c % 3 = 2 => \A a \in Attns : res[0][a] = Row(a, 0, LayerOf(c \div 3))
    BY DEF OneFfn
  <1>3. t % 3 = 0 /\ l = LayerOf(t \div 3)
    <2>1. t % 3 = 0 \/ t % 3 = 2
      <3>1. t % 3 \in 0 .. 2
        BY FfnTurn
      <3> QED BY <1>2, <3>1
    <2>2. t % 3 = 2 => Coll(FfnColls(t) + 1) = [kind |-> "combine", layer |-> LayerOf(t \div 3)]
      BY FfnTurn
    <2>3. t % 3 = 0
      BY <2>1, <2>2
    <2>4. Coll(FfnColls(t) + 1) = [kind |-> "dispatch", layer |-> LayerOf(t \div 3)]
      BY <2>3, FfnTurn
    <2> QED BY <2>3, <2>4
  <1>4. /\ FfnOp(t + 1) = [kind |-> "dispatch", layer |-> l]
        /\ FfnColls(t + 1) = FfnColls(t) + 1 /\ (t + 1) % 3 = 1 /\ (t + 1) \div 3 = t \div 3
    BY <1>3, FfnTurn
  <1>5. /\ FfnOp((t + 1) + 1) = [kind |-> "experts", layer |-> l]
        /\ FfnColls((t + 1) + 1) = FfnColls(t + 1) /\ ((t + 1) + 1) % 3 = 2
    <2>1. PICK x \in Nat : x = t + 1
      OBVIOUS
    <2>2. /\ FfnOp(x + 1) = [kind |-> "experts", layer |-> LayerOf(x \div 3)]
          /\ FfnColls(x + 1) = FfnColls(x) /\ (x + 1) % 3 = 2
      BY <1>4, <2>1, FfnTurn
    <2> QED BY <1>3, <1>4, <2>1, <2>2
  <1>6. FfnColls(t2) = FfnColls(t) + 1 /\ t2 % 3 /= 1
    BY <1>1, <1>4, <1>5
  <1>7. ASSUME NEW n \in c + 1 .. t2 PROVE Key(o2[n]) = FfnOp(n) /\ o2[n].stage = 0
    <2>1. n \in c + 1 .. t \/ n = t + 1 \/ n = (t + 1) + 1
      BY <1>1
    <2>2. CASE n \in c + 1 .. t
      BY <1>1, <1>2, <2>2
    <2>3. CASE n = t + 1
      BY <1>1, <1>4, <2>3 DEF Key
    <2>4. CASE n = (t + 1) + 1
      BY <1>1, <1>5, <2>4 DEF Key
    <2> QED BY <2>1, <2>2, <2>3, <2>4
  <1> QED BY <1>2, <1>6, <1>7 DEF OneFfn

(* A combine is enqueued. *)
LEMMA OneReturn ==
    ASSUME NEW c \in Nat, NEW t \in Nat, c <= t, NEW o, NEW row, NEW res,
           OneFfn(c, t, o, row, res), NEW lane, NEW l,
           lane.kind = "combine", lane.stage = 0, lane.layer = l,
           Coll(FfnColls(t) + 1) = [kind |-> "combine", layer |-> l],
           NEW t2, NEW o2, Added(c, t, o, lane, t2, o2)
    PROVE  OneFfn(c, t2, o2, row, res) /\ FfnColls(t2) = FfnColls(t) + 1
  <1>1. t2 = t + 1 /\ o2[t + 1] = lane /\ \A n \in c + 1 .. t : o2[n] = o[n]
    BY DEF Added
  <1>2. /\ t % 3 /= 1
        /\ \A n \in c + 1 .. t : Key(o[n]) = FfnOp(n) /\ o[n].stage = 0
        /\ c % 3 = 1 => \A a \in Attns : row[0][a] = Row(a, 0, LayerOf(c \div 3))
        /\ c % 3 = 2 => \A a \in Attns : res[0][a] = Row(a, 0, LayerOf(c \div 3))
    BY DEF OneFfn
  <1>3. t % 3 = 2 /\ l = LayerOf(t \div 3)
    <2>1. t % 3 = 0 \/ t % 3 = 2
      <3>1. t % 3 \in 0 .. 2
        BY FfnTurn
      <3> QED BY <1>2, <3>1
    <2>2. t % 3 = 0 => Coll(FfnColls(t) + 1) = [kind |-> "dispatch", layer |-> LayerOf(t \div 3)]
      BY FfnTurn
    <2>3. t % 3 = 2
      BY <2>1, <2>2
    <2>4. Coll(FfnColls(t) + 1) = [kind |-> "combine", layer |-> LayerOf(t \div 3)]
      BY <2>3, FfnTurn
    <2> QED BY <2>3, <2>4
  <1>4. /\ FfnOp(t + 1) = [kind |-> "combine", layer |-> l]
        /\ FfnColls(t + 1) = FfnColls(t) + 1 /\ (t + 1) % 3 = 0
    BY <1>3, FfnTurn
  <1>5. FfnColls(t2) = FfnColls(t) + 1 /\ t2 % 3 /= 1
    BY <1>1, <1>4
  <1>6. ASSUME NEW n \in c + 1 .. t2 PROVE Key(o2[n]) = FfnOp(n) /\ o2[n].stage = 0
    <2>1. n \in c + 1 .. t \/ n = t + 1
      BY <1>1
    <2>2. CASE n \in c + 1 .. t
      BY <1>1, <1>2, <2>2
    <2>3. CASE n = t + 1
      BY <1>1, <1>4, <2>3 DEF Key
    <2> QED BY <2>1, <2>2, <2>3
  <1> QED BY <1>2, <1>5, <1>6 DEF OneFfn

(* A dispatch runs: the lane receives what every Attention rank computed. *)
LEMMA OneReceived ==
    ASSUME NEW c \in Nat, NEW t \in Nat, NEW o, NEW row, NEW res,
           OneFfn(c, t, o, row, res), NEW c2, NEW o2, Ran(c, t, o, c2, o2),
           NEW op, op = o[c + 1], op.kind = "dispatch",
           NEW row2, \A a \in Attns : row2[0][a] = Row(a, 0, Coll(FfnColls(c) + 1).layer)
    PROVE  /\ OneFfn(c2, t, o2, row2, res)
           /\ FfnColls(c2) = FfnColls(c) + 1 /\ Coll(FfnColls(c) + 1).kind = "dispatch"
  <1>1. c < t /\ c2 = c + 1 /\ c2 \in Nat /\ \A n \in c2 + 1 .. t : o2[n] = o[n]
    BY DEF Ran
  <1>2. /\ t % 3 /= 1
        /\ \A n \in c + 1 .. t : Key(o[n]) = FfnOp(n) /\ o[n].stage = 0
        /\ c % 3 = 1 => \A a \in Attns : row[0][a] = Row(a, 0, LayerOf(c \div 3))
        /\ c % 3 = 2 => \A a \in Attns : res[0][a] = Row(a, 0, LayerOf(c \div 3))
    BY DEF OneFfn
  <1>3. Key(op) = FfnOp(c + 1) /\ op.stage = 0
    <2>1. c + 1 \in c + 1 .. t
      BY <1>1
    <2> QED BY <1>2, <2>1
  <1>4. c % 3 = 0 /\ op.layer = LayerOf(c \div 3)
    <2>1. op.kind = FfnOp(c + 1).kind /\ op.layer = FfnOp(c + 1).layer
      BY <1>3 DEF Key
    <2>2. c % 3 \in 0 .. 2
      BY FfnTurn
    <2>3. /\ c % 3 = 0 => FfnOp(c + 1) = [kind |-> "dispatch", layer |-> LayerOf(c \div 3)]
          /\ c % 3 = 1 => FfnOp(c + 1) = [kind |-> "experts", layer |-> LayerOf(c \div 3)]
          /\ c % 3 = 2 => FfnOp(c + 1) = [kind |-> "combine", layer |-> LayerOf(c \div 3)]
      BY FfnTurn
    <2>4. c % 3 = 0 \/ c % 3 = 1 \/ c % 3 = 2
      BY <2>2
    <2> QED BY <2>1, <2>3, <2>4
  <1>5. /\ FfnColls(c2) = FfnColls(c) + 1 /\ c2 % 3 = 1 /\ c2 \div 3 = c \div 3
        /\ Coll(FfnColls(c) + 1) = [kind |-> "dispatch", layer |-> LayerOf(c \div 3)]
    BY <1>1, <1>4, FfnTurn
  <1>6. ASSUME NEW n \in c2 + 1 .. t PROVE Key(o2[n]) = FfnOp(n) /\ o2[n].stage = 0
    <2>1. n \in c + 1 .. t
      BY <1>1
    <2> QED BY <1>1, <1>2, <2>1
  <1>7. \A a \in Attns : row2[0][a] = Row(a, 0, LayerOf(c2 \div 3))
    <2>1. Coll(FfnColls(c) + 1).layer = LayerOf(c2 \div 3)
      BY <1>5
    <2> QED BY <2>1
  <1>8. c2 % 3 /= 2 /\ Coll(FfnColls(c) + 1).kind = "dispatch"
    <2>1. c2 % 3 /= 2
      BY <1>5
    <2>2. Coll(FfnColls(c) + 1).kind = "dispatch"
      BY <1>5
    <2> QED BY <2>1, <2>2
  <1> QED BY <1>2, <1>5, <1>6, <1>7, <1>8 DEF OneFfn

(* The experts run. *)
LEMMA OneExperts ==
    ASSUME NEW c \in Nat, NEW t \in Nat, NEW o, NEW row, NEW res,
           OneFfn(c, t, o, row, res), NEW c2, NEW o2, Ran(c, t, o, c2, o2),
           NEW op, op = o[c + 1], op.kind = "experts",
           NEW res2, res2[0] = row[0]
    PROVE  /\ OneFfn(c2, t, o2, row, res2)
           /\ FfnColls(c2) = FfnColls(c) /\ op.stage = 0
  <1>1. c < t /\ c2 = c + 1 /\ c2 \in Nat /\ \A n \in c2 + 1 .. t : o2[n] = o[n]
    BY DEF Ran
  <1>2. /\ t % 3 /= 1
        /\ \A n \in c + 1 .. t : Key(o[n]) = FfnOp(n) /\ o[n].stage = 0
        /\ c % 3 = 1 => \A a \in Attns : row[0][a] = Row(a, 0, LayerOf(c \div 3))
        /\ c % 3 = 2 => \A a \in Attns : res[0][a] = Row(a, 0, LayerOf(c \div 3))
    BY DEF OneFfn
  <1>3. Key(op) = FfnOp(c + 1) /\ op.stage = 0
    <2>1. c + 1 \in c + 1 .. t
      BY <1>1
    <2> QED BY <1>2, <2>1
  <1>4. c % 3 = 1 /\ op.layer = LayerOf(c \div 3)
    <2>1. op.kind = FfnOp(c + 1).kind /\ op.layer = FfnOp(c + 1).layer
      BY <1>3 DEF Key
    <2>2. c % 3 \in 0 .. 2
      BY FfnTurn
    <2>3. /\ c % 3 = 0 => FfnOp(c + 1) = [kind |-> "dispatch", layer |-> LayerOf(c \div 3)]
          /\ c % 3 = 1 => FfnOp(c + 1) = [kind |-> "experts", layer |-> LayerOf(c \div 3)]
          /\ c % 3 = 2 => FfnOp(c + 1) = [kind |-> "combine", layer |-> LayerOf(c \div 3)]
      BY FfnTurn
    <2>4. c % 3 = 0 \/ c % 3 = 1 \/ c % 3 = 2
      BY <2>2
    <2> QED BY <2>1, <2>3, <2>4
  <1>5. FfnColls(c2) = FfnColls(c) /\ c2 % 3 = 2 /\ c2 \div 3 = c \div 3
    BY <1>1, <1>4, FfnTurn
  <1>6. ASSUME NEW n \in c2 + 1 .. t PROVE Key(o2[n]) = FfnOp(n) /\ o2[n].stage = 0
    <2>1. n \in c + 1 .. t
      BY <1>1
    <2> QED BY <1>1, <1>2, <2>1
  <1>7. \A a \in Attns : res2[0][a] = Row(a, 0, LayerOf(c2 \div 3))
    BY <1>2, <1>4, <1>5
  <1>8. c2 % 3 /= 1
    BY <1>5
  <1> QED BY <1>2, <1>3, <1>5, <1>6, <1>7, <1>8 DEF OneFfn

(* A combine runs: it returns what the experts computed. *)
LEMMA OneReturned ==
    ASSUME NEW c \in Nat, NEW t \in Nat, NEW o, NEW row, NEW res,
           OneFfn(c, t, o, row, res), NEW c2, NEW o2, Ran(c, t, o, c2, o2),
           NEW op, op = o[c + 1], op.kind = "combine"
    PROVE  /\ OneFfn(c2, t, o2, row, res)
           /\ FfnColls(c2) = FfnColls(c) + 1 /\ Coll(FfnColls(c) + 1).kind = "combine"
           /\ \A a \in Attns : res[0][a] = Row(a, 0, Coll(FfnColls(c) + 1).layer)
  <1>1. c < t /\ c2 = c + 1 /\ c2 \in Nat /\ \A n \in c2 + 1 .. t : o2[n] = o[n]
    BY DEF Ran
  <1>2. /\ t % 3 /= 1
        /\ \A n \in c + 1 .. t : Key(o[n]) = FfnOp(n) /\ o[n].stage = 0
        /\ c % 3 = 1 => \A a \in Attns : row[0][a] = Row(a, 0, LayerOf(c \div 3))
        /\ c % 3 = 2 => \A a \in Attns : res[0][a] = Row(a, 0, LayerOf(c \div 3))
    BY DEF OneFfn
  <1>3. Key(op) = FfnOp(c + 1) /\ op.stage = 0
    <2>1. c + 1 \in c + 1 .. t
      BY <1>1
    <2> QED BY <1>2, <2>1
  <1>4. c % 3 = 2 /\ op.layer = LayerOf(c \div 3)
    <2>1. op.kind = FfnOp(c + 1).kind /\ op.layer = FfnOp(c + 1).layer
      BY <1>3 DEF Key
    <2>2. c % 3 \in 0 .. 2
      BY FfnTurn
    <2>3. /\ c % 3 = 0 => FfnOp(c + 1) = [kind |-> "dispatch", layer |-> LayerOf(c \div 3)]
          /\ c % 3 = 1 => FfnOp(c + 1) = [kind |-> "experts", layer |-> LayerOf(c \div 3)]
          /\ c % 3 = 2 => FfnOp(c + 1) = [kind |-> "combine", layer |-> LayerOf(c \div 3)]
      BY FfnTurn
    <2>4. c % 3 = 0 \/ c % 3 = 1 \/ c % 3 = 2
      BY <2>2
    <2> QED BY <2>1, <2>3, <2>4
  <1>5. /\ FfnColls(c2) = FfnColls(c) + 1 /\ c2 % 3 = 0
        /\ Coll(FfnColls(c) + 1) = [kind |-> "combine", layer |-> LayerOf(c \div 3)]
    BY <1>1, <1>4, FfnTurn
  <1>6. ASSUME NEW n \in c2 + 1 .. t PROVE Key(o2[n]) = FfnOp(n) /\ o2[n].stage = 0
    <2>1. n \in c + 1 .. t
      BY <1>1
    <2> QED BY <1>1, <1>2, <2>1
  <1>7. /\ \A a \in Attns : res[0][a] = Row(a, 0, Coll(FfnColls(c) + 1).layer)
        /\ Coll(FfnColls(c) + 1).kind = "combine"
    <2>1. Coll(FfnColls(c) + 1).layer = LayerOf(c \div 3) /\ Coll(FfnColls(c) + 1).kind = "combine"
      BY <1>5
    <2> QED BY <1>2, <1>4, <2>1
  <1>8. c2 % 3 /= 1 /\ c2 % 3 /= 2
    BY <1>5
  <1> QED BY <1>2, <1>5, <1>6, <1>7, <1>8 DEF OneFfn

(***************************************************************************)
(* A rank, with one lane or several: c are its counts and q its queues.    *)
(***************************************************************************)
(* what holds of an Attention rank, and of an FFN rank *)
AttnHolds(a, c, q, u, mem, com) ==
    LET t == Tops(q, c)
        o == Ops(q, c)
    IN  /\ Lanes = 1 => OneAttn(a, c[Main], t[Main], o[Main], mem, com)
        /\ Lanes > 1 => Called(c, t, o) /\ LanesAttn(a, c, t, o, u, mem, com)
FfnHolds(c, q, x, row, res) ==
    LET t == Tops(q, c)
        o == Ops(q, c)
    IN  /\ Lanes = 1 => OneFfn(c[Main], t[Main], o[Main], row, res)
        /\ Lanes > 1 => Called(c, t, o) /\ LanesFfn(c, t, o, x, row, res)

(* collectives of a lane among the first t[st] operations of each stream *)
LaneColls(r, t, s) == IF Lanes = 1 THEN CollsOf(r, t[Main]) ELSE t[s]
OneMoreColl(r, t, t2, s) ==
    \A z \in Stages : LaneColls(r, t2, z) = IF z = s THEN LaneColls(r, t, z) + 1
                                            ELSE LaneColls(r, t, z)

(* Lanes are one or more. *)
LEMMA LanesAre == (Lanes = 1 /\ ~(Lanes > 1)) \/ (Lanes > 1 /\ Lanes /= 1)
  <1>1. Lanes \in 1 .. 2
    BY SizesAssumption DEF MaxLanes
  <1> QED BY <1>1

(* Streams, with one lane or several. *)
LEMMA StreamsAre ==
    /\ Main \in Streams /\ \A s \in Stages : LaneStream(s) \in Streams
    /\ \A s \in Stages : s \in Nat
    /\ \A a \in Attns : a \notin Ffns
  <1>1. CASE Lanes > 1
    <2>1. /\ Streams = Stages \cup {Main} /\ \A s \in Stages : LaneStream(s) = s /\ s \in Nat
      BY <1>1, ManyLanes
    <2> QED BY <2>1 DEF Attns, Ffns
  <1>2. CASE Lanes = 1
    <2>1. Streams = {Main} /\ Stages = {0} /\ \A s \in Stages : LaneStream(s) = Main
      BY <1>2, OneLane
    <2> QED BY <2>1 DEF Attns, Ffns
  <1> QED BY <1>1, <1>2, LanesAre

(* Numbers of collectives are numbers. *)
LEMMA LaneCollsTyped ==
    ASSUME NEW r, NEW t \in [Streams -> Nat], NEW s \in Stages
    PROVE  LaneColls(r, t, s) \in Nat
  <1>1. CASE Lanes > 1
    <2>1. s \in Streams
      BY <1>1, ManyLanes
    <2> QED BY <1>1, <2>1 DEF LaneColls
  <1>2. CASE Lanes = 1
    <2>1. t[Main] \in Nat
      BY StreamsAre
    <2>2. AttnColls(t[Main]) \in Nat /\ FfnColls(t[Main]) \in Nat
      BY <2>1, AttnTurn, FfnTurn
    <2> QED BY <1>2, <2>2 DEF LaneColls, CollsOf
  <1> QED BY <1>1, <1>2, LanesAre

(* Operations stay in the order of their lane when two are enqueued. *)
LEMMA CalledTwo ==
    ASSUME Lanes > 1, NEW c, NEW t, View(c, t), NEW o, Called(c, t, o),
           NEW s \in Stages, NEW main, NEW lane, Key(lane) = Coll(t[s] + 1),
           NEW t2, NEW o2, PushedTwo(c, t, o, Main, main, s, lane, t2, o2)
    PROVE  Called(c, t2, o2)
  <1>1. Streams = Stages \cup {Main} /\ Main \notin Stages
    BY ManyLanes
  <1>2. \A st \in Streams : c[st] \in Nat /\ t[st] \in Nat /\ c[st] <= t[st]
    BY DEF View
  <1>3. /\ t2[s] = t[s] + 1 /\ o2[s][t[s] + 1] = lane
        /\ \A z \in Stages : z /= s => t2[z] = t[z]
        /\ \A z \in Stages : \A n \in c[z] + 1 .. t[z] : o2[z][n] = o[z][n]
    BY <1>1 DEF PushedTwo
  <1>4. ASSUME NEW z \in Stages, NEW k \in c[z] + 1 .. t2[z] PROVE Key(o2[z][k]) = Coll(k)
    <2>1. CASE k \in c[z] + 1 .. t[z]
      BY <1>3, <2>1 DEF Called
    <2>2. CASE k \notin c[z] + 1 .. t[z]
      <3>1. z = s /\ k = t[s] + 1
        BY <1>1, <1>2, <1>3, <2>2
      <3> QED BY <1>3, <3>1
    <2> QED BY <2>1, <2>2
  <1> QED BY <1>4 DEF Called

(* The same when one operation is enqueued. *)
LEMMA CalledOne ==
    ASSUME Lanes > 1, NEW c, NEW t, View(c, t), NEW o, Called(c, t, o),
           NEW st \in Streams, NEW op, st = Main \/ Key(op) = Coll(t[st] + 1),
           NEW t2, NEW o2, Pushed(c, t, o, st, op, t2, o2)
    PROVE  Called(c, t2, o2)
  <1>1. Streams = Stages \cup {Main} /\ Main \notin Stages
    BY ManyLanes
  <1>2. \A z \in Streams : c[z] \in Nat /\ t[z] \in Nat /\ c[z] <= t[z]
    BY DEF View
  <1>3. /\ t2[st] = t[st] + 1 /\ o2[st][t[st] + 1] = op
        /\ \A z \in Streams : z /= st => t2[z] = t[z]
        /\ \A z \in Streams : \A n \in c[z] + 1 .. t[z] : o2[z][n] = o[z][n]
    BY DEF Pushed, View
  <1>4. ASSUME NEW z \in Stages, NEW k \in c[z] + 1 .. t2[z] PROVE Key(o2[z][k]) = Coll(k)
    <2>1. CASE k \in c[z] + 1 .. t[z]
      BY <1>1, <1>3, <2>1 DEF Called
    <2>2. CASE k \notin c[z] + 1 .. t[z]
      <3>1. z = st /\ k = t[st] + 1
        BY <1>1, <1>2, <1>3, <2>2
      <3> QED BY <1>1, <1>3, <3>1
    <2> QED BY <2>1, <2>2
  <1> QED BY <1>4 DEF Called

(* The same when one has run. *)
LEMMA CalledRan ==
    ASSUME Lanes > 1, NEW c, NEW t, View(c, t), NEW o, Called(c, t, o),
           NEW st \in Streams, NEW c2, NEW o2, Popped(c, t, o, st, c2, o2)
    PROVE  Called(c2, t, o2)
  <1>1. Streams = Stages \cup {Main}
    BY ManyLanes
  <1>2. \A z \in Streams : c[z] \in Nat /\ t[z] \in Nat
    BY DEF View
  <1>3. /\ \A z \in Streams : c2[z] = c[z] \/ c2[z] = c[z] + 1
        /\ \A z \in Streams : \A n \in c2[z] + 1 .. t[z] : o2[z][n] = o[z][n]
    BY DEF Popped, View
  <1>4. ASSUME NEW z \in Stages, NEW k \in c2[z] + 1 .. t[z] PROVE Key(o2[z][k]) = Coll(k)
    <2>1. k \in c[z] + 1 .. t[z]
      BY <1>1, <1>2, <1>3
    <2> QED BY <1>1, <1>3, <2>1 DEF Called
  <1> QED BY <1>4 DEF Called

(* What a host calls next, after a call. *)
NextIs(r, t, n, p) == \A s \in Stages : NextAt(n, p, s) = Coll(LaneColls(r, t, s) + 1)

(* A call is the next collective of its stage, and makes another one that. *)
LEMMA NextKept ==
    ASSUME NEW r, NEW n \in 1 .. Lanes, NEW p \in 1 .. Len(AttnCalls[n]), NEW call,
           call = AttnCalls[n][p], NEW t \in [Streams -> Nat], NextIs(r, t, n, p)
    PROVE  /\ call.stage \in Stages /\ call.stage \in 0 .. n - 1
           /\ Coll(LaneColls(r, t, call.stage) + 1) = CollOf(call)
           /\ \A t2 : OneMoreColl(r, t, t2, call.stage) => NextIs(r, t2, n, p + 1)
  <1>1. PICK s : s = call.stage
    OBVIOUS
  <1>2. call \in Calls(n) /\ NextAt(n, p, s) = CollOf(call)
    BY <1>1, CallIsNext
  <1>3. \A z \in Nat : NextAt(n, p + 1, z) = IF z = s THEN After(CollOf(call)) ELSE NextAt(n, p, z)
    BY <1>1, CallIsNext
  <1>4. s \in Stages /\ s \in 0 .. n - 1
    <2>1. Lanes \in Nat
      BY SizesAssumption DEF MaxLanes
    <2> QED BY <1>1, <1>2, <2>1 DEF Calls, Stages
  <1>5. PICK k \in Nat \ {0} : k = LaneColls(r, t, s) + 1
    BY <1>4, LaneCollsTyped
  <1>6. Coll(k) = CollOf(call)
    BY <1>2, <1>4, <1>5 DEF NextIs
  <1>7. Coll(k + 1) = After(CollOf(call))
    BY <1>6, CollsInTurn
  <1>8. ASSUME NEW t2, OneMoreColl(r, t, t2, s) PROVE NextIs(r, t2, n, p + 1)
    <2> SUFFICES ASSUME NEW z \in Stages PROVE NextAt(n, p + 1, z) = Coll(LaneColls(r, t2, z) + 1)
      BY DEF NextIs
    <2>1. z \in Nat
      BY StreamsAre
    <2>2. CASE z = s
      BY <1>3, <1>5, <1>7, <1>8, <2>1, <2>2 DEF OneMoreColl
    <2>3. CASE z /= s
      <3>1. LaneColls(r, t2, z) = LaneColls(r, t, z)
        BY <1>8, <2>3 DEF OneMoreColl
      <3> QED BY <1>3, <2>1, <2>3, <3>1 DEF NextIs
    <2> QED BY <2>2, <2>3
  <1> QED BY <1>1, <1>4, <1>5, <1>6, <1>8

(* One collective more, of one lane or of several. *)
LEMMA OneMoreOf ==
    ASSUME NEW r, NEW t, NEW t2, NEW s \in Stages,
           Lanes = 1 => CollsOf(r, t2[Main]) = CollsOf(r, t[Main]) + 1,
           Lanes > 1 => t2[s] = t[s] + 1 /\ \A z \in Stages : z /= s => t2[z] = t[z]
    PROVE  OneMoreColl(r, t, t2, s)
  <1>1. CASE Lanes = 1
    <2>1. \A z \in Stages : z = s
      BY <1>1, OneLane
    <2> QED BY <1>1, <2>1 DEF OneMoreColl, LaneColls
  <1>2. CASE Lanes > 1
    <2>1. Lanes /= 1
      BY <1>2, LanesAre
    <2> QED BY <1>2, <2>1 DEF OneMoreColl, LaneColls
  <1> QED BY <1>1, <1>2, LanesAre

(* A layer and its dispatch are enqueued (send_attn_output). *)
LEMMA AttnSends ==
    ASSUME NEW a \in Attns, NEW c \in [Streams -> Nat], NEW q, Queues(q), NEW u, NEW mem, NEW com,
           AttnHolds(a, c, q, u, mem, com), NEW t, t = Tops(q, c),
           NEW s \in Stages, NEW l, NEW b \in Blocks,
           Coll(LaneColls(a, t, s) + 1) = [kind |-> "dispatch", layer |-> l],
           NEW main, main.kind = "attention", main.on = Main, main.stage = s, main.layer = l,
           main.block = b,
           NEW lane, lane.kind = "dispatch", lane.on = LaneStream(s), lane.stage = s,
           lane.layer = l, lane.block = b, lane.after = Wait(On(Main, t[Main] + 1)),
           NEW q2, q2 = Put(Put(q, main), lane),
           DOMAIN u = Blocks, c[u[b].stream] >= u[b].n,
           NEW u2, Lanes > 1 => u2 = [u EXCEPT ![b] = On(s, t[s] + 1)]
    PROVE  /\ Queues(q2) /\ AttnHolds(a, c, q2, u2, mem, com)
           /\ OneMoreColl(a, t, Tops(q2, c), s)
  <1>1. PICK q1, t1, o, o1, t2, o2 : /\ q1 = Put(q, main) /\ t1 = Tops(q1, c) /\ o = Ops(q, c)
                                     /\ o1 = Ops(q1, c) /\ t2 = Tops(q2, c) /\ o2 = Ops(q2, c)
    OBVIOUS
  <1>2. LaneStream(s) \in Streams /\ Main \in Streams
    BY StreamsAre
  <1>3. Queues(q1) /\ Pushed(c, t, o, Main, main, t1, o1)
    BY <1>1, <1>2, PutView
  <1>4. Queues(q2) /\ Pushed(c, t1, o1, LaneStream(s), lane, t2, o2)
    BY <1>1, <1>2, <1>3, PutView
  <1>5. View(c, t)
    BY ViewTyped
  <1>6. /\ Lanes = 1 => OneAttn(a, c[Main], t[Main], o[Main], mem, com)
        /\ Lanes > 1 => Called(c, t, o) /\ LanesAttn(a, c, t, o, u, mem, com)
    BY <1>1 DEF AttnHolds
  <1>7. CASE Lanes = 1
    <2>1. s = 0 /\ LaneStream(s) = Main /\ Wait(On(Main, t[Main] + 1)) = {}
      BY <1>7, OneLane
    <2>2. AddedTwo(c[Main], t[Main], o[Main], main, lane, t2[Main], o2[Main])
      BY <1>2, <1>3, <1>4, <1>5, <2>1, AddTwo
    <2>3. c[Main] \in Nat /\ t[Main] \in Nat /\ c[Main] <= t[Main]
      BY <1>2, <1>5 DEF View
    <2>4. Coll(AttnColls(t[Main]) + 1) = [kind |-> "dispatch", layer |-> l]
      BY <1>7 DEF LaneColls, CollsOf
    <2>5. OneAttn(a, c[Main], t2[Main], o2[Main], mem, com) /\ AttnColls(t2[Main]) = AttnColls(t[Main]) + 1
      BY <1>6, <1>7, <2>1, <2>2, <2>3, <2>4, OneSend
    <2>6. OneMoreColl(a, t, t2, s)
      <3>1. CollsOf(a, t2[Main]) = CollsOf(a, t[Main]) + 1
        BY <2>5 DEF CollsOf
      <3> QED BY <1>7, <3>1, LanesAre, OneMoreOf
    <2> QED BY <1>1, <1>4, <1>7, <2>5, <2>6, LanesAre DEF AttnHolds
  <1>8. CASE Lanes > 1
    <2>1. /\ s \in Streams /\ LaneStream(s) = s /\ Main \notin Stages
          /\ lane.after = {On(Main, t[Main] + 1)}
      BY <1>8, ManyLanes
    <2>2. PushedTwo(c, t, o, Main, main, s, lane, t2, o2)
      BY <1>3, <1>4, <1>5, <1>8, <2>1, PushBoth
    <2>3. Coll(t[s] + 1) = [kind |-> "dispatch", layer |-> l] /\ Lanes /= 1
      BY <1>8, LanesAre DEF LaneColls
    <2>4. Called(c, t2, o2)
      <3>1. Key(lane) = Coll(t[s] + 1)
        BY <2>3 DEF Key
      <3> QED BY <1>5, <1>6, <1>8, <2>2, <3>1, CalledTwo
    <2>5. LanesAttn(a, c, t2, o2, u2, mem, com)
      BY <1>5, <1>6, <1>8, <2>1, <2>2, <2>3, LanesSend
    <2>6. OneMoreColl(a, t, t2, s)
      <3>1. t2[s] = t[s] + 1 /\ \A z \in Stages : z /= s => t2[z] = t[z]
        BY <1>8, <2>1, <2>2, ManyLanes DEF PushedTwo
      <3> QED BY <1>8, <2>3, <3>1, OneMoreOf
    <2> QED BY <1>1, <1>4, <1>8, <2>3, <2>4, <2>5, <2>6 DEF AttnHolds
  <1> QED BY <1>7, <1>8, LanesAre

(* A combine and its copy are enqueued (recv_ffn_output). *)
LEMMA AttnReceives ==
    ASSUME NEW a \in Attns, NEW c \in [Streams -> Nat], NEW q, Queues(q), NEW u, NEW mem, NEW com,
           AttnHolds(a, c, q, u, mem, com), NEW t, t = Tops(q, c), NEW s \in Stages, NEW l,
           Coll(LaneColls(a, t, s) + 1) = [kind |-> "combine", layer |-> l],
           NEW lane, lane.kind = "combine", lane.on = LaneStream(s), lane.stage = s,
           lane.layer = l,
           NEW main, main.kind = "copy", main.on = Main, main.stage = s, main.layer = l,
           main.after = Wait(On(LaneStream(s), t[LaneStream(s)] + 1)),
           NEW q2, q2 = Put(Put(q, lane), main)
    PROVE  /\ Queues(q2) /\ AttnHolds(a, c, q2, u, mem, com)
           /\ OneMoreColl(a, t, Tops(q2, c), s)
  <1>1. PICK q1, t1, o, o1, t2, o2 : /\ q1 = Put(q, lane) /\ t1 = Tops(q1, c) /\ o = Ops(q, c)
                                     /\ o1 = Ops(q1, c) /\ t2 = Tops(q2, c) /\ o2 = Ops(q2, c)
    OBVIOUS
  <1>2. LaneStream(s) \in Streams /\ Main \in Streams
    BY StreamsAre
  <1>3. Queues(q1) /\ Pushed(c, t, o, LaneStream(s), lane, t1, o1)
    BY <1>1, <1>2, PutView
  <1>4. Queues(q2) /\ Pushed(c, t1, o1, Main, main, t2, o2)
    BY <1>1, <1>2, <1>3, PutView
  <1>5. View(c, t)
    BY ViewTyped
  <1>6. /\ Lanes = 1 => OneAttn(a, c[Main], t[Main], o[Main], mem, com)
        /\ Lanes > 1 => Called(c, t, o) /\ LanesAttn(a, c, t, o, u, mem, com)
    BY <1>1 DEF AttnHolds
  <1>7. CASE Lanes = 1
    <2>1. s = 0 /\ LaneStream(s) = Main
      BY <1>7, OneLane
    <2>2. AddedTwo(c[Main], t[Main], o[Main], lane, main, t2[Main], o2[Main])
      BY <1>2, <1>3, <1>4, <1>5, <2>1, AddTwo
    <2>3. c[Main] \in Nat /\ t[Main] \in Nat /\ c[Main] <= t[Main]
      BY <1>2, <1>5 DEF View
    <2>4. Coll(AttnColls(t[Main]) + 1) = [kind |-> "combine", layer |-> l]
      BY <1>7 DEF LaneColls, CollsOf
    <2>5. OneAttn(a, c[Main], t2[Main], o2[Main], mem, com) /\ AttnColls(t2[Main]) = AttnColls(t[Main]) + 1
      <3>1. OneAttn(a, c[Main], t[Main], o[Main], mem, com) /\ lane.stage = 0 /\ main.stage = 0
        BY <1>6, <1>7, <2>1
      <3>2. PICK x, y, m, n, w : x = c[Main] /\ y = t[Main] /\ m = o[Main] /\ n = t2[Main] /\ w = o2[Main]
        OBVIOUS
      <3>3. OneAttn(a, x, n, w, mem, com) /\ AttnColls(n) = AttnColls(y) + 1
        BY <2>2, <2>3, <2>4, <3>1, <3>2, OneRecv
      <3> QED BY <3>2, <3>3
    <2>6. OneMoreColl(a, t, t2, s)
      <3>1. CollsOf(a, t2[Main]) = CollsOf(a, t[Main]) + 1
        BY <2>5 DEF CollsOf
      <3> QED BY <1>7, <3>1, LanesAre, OneMoreOf
    <2> QED BY <1>1, <1>4, <1>7, <2>5, <2>6, LanesAre DEF AttnHolds
  <1>8. CASE Lanes > 1
    <2>1. /\ s \in Streams /\ LaneStream(s) = s /\ Main \notin Stages
          /\ main.after = {On(s, t[s] + 1)}
      BY <1>8, ManyLanes
    <2>2. PushedTwo(c, t, o, Main, main, s, lane, t2, o2)
      BY <1>3, <1>4, <1>5, <1>8, <2>1, PushBoth
    <2>3. Coll(t[s] + 1) = [kind |-> "combine", layer |-> l] /\ Lanes /= 1
      BY <1>8, LanesAre DEF LaneColls
    <2>4. Called(c, t2, o2)
      <3>1. Key(lane) = Coll(t[s] + 1)
        BY <2>3 DEF Key
      <3> QED BY <1>5, <1>6, <1>8, <2>2, <3>1, CalledTwo
    <2>5. LanesAttn(a, c, t2, o2, u, mem, com)
      BY <1>5, <1>6, <1>8, <2>1, <2>2, <2>3, LanesRecv
    <2>6. OneMoreColl(a, t, t2, s)
      <3>1. t2[s] = t[s] + 1 /\ \A z \in Stages : z /= s => t2[z] = t[z]
        BY <1>8, <2>1, <2>2, ManyLanes DEF PushedTwo
      <3> QED BY <1>8, <2>3, <3>1, OneMoreOf
    <2> QED BY <1>1, <1>4, <1>8, <2>3, <2>4, <2>5, <2>6 DEF AttnHolds
  <1> QED BY <1>7, <1>8, LanesAre

(* A dispatch and its experts are enqueued (recv_attn_output). *)
LEMMA FfnReceives ==
    ASSUME NEW f \in Ffns, NEW c \in [Streams -> Nat], NEW q, Queues(q), NEW x, NEW row, NEW res,
           FfnHolds(c, q, x, row, res), NEW t, t = Tops(q, c), NEW s \in Stages, NEW l,
           Coll(LaneColls(f, t, s) + 1) = [kind |-> "dispatch", layer |-> l],
           NEW lane, lane.kind = "dispatch", lane.on = LaneStream(s), lane.stage = s,
           lane.layer = l,
           NEW main, main.kind = "experts", main.on = Main, main.stage = s, main.layer = l,
           main.after = Wait(On(LaneStream(s), t[LaneStream(s)] + 1)),
           NEW q2, q2 = Put(Put(q, lane), main),
           NEW x2, Lanes > 1 => x2[s] = On(Main, t[Main] + 1),
           \A z \in Stages : z /= s => x2[z] = x[z]
    PROVE  /\ Queues(q2) /\ FfnHolds(c, q2, x2, row, res)
           /\ OneMoreColl(f, t, Tops(q2, c), s)
  <1>1. PICK q1, t1, o, o1, t2, o2 : /\ q1 = Put(q, lane) /\ t1 = Tops(q1, c) /\ o = Ops(q, c)
                                     /\ o1 = Ops(q1, c) /\ t2 = Tops(q2, c) /\ o2 = Ops(q2, c)
    OBVIOUS
  <1>2. LaneStream(s) \in Streams /\ Main \in Streams /\ f \notin Attns
    BY StreamsAre
  <1>3. Queues(q1) /\ Pushed(c, t, o, LaneStream(s), lane, t1, o1)
    BY <1>1, <1>2, PutView
  <1>4. Queues(q2) /\ Pushed(c, t1, o1, Main, main, t2, o2)
    BY <1>1, <1>2, <1>3, PutView
  <1>5. View(c, t)
    BY ViewTyped
  <1>6. /\ Lanes = 1 => OneFfn(c[Main], t[Main], o[Main], row, res)
        /\ Lanes > 1 => Called(c, t, o) /\ LanesFfn(c, t, o, x, row, res)
    BY <1>1 DEF FfnHolds
  <1>7. CASE Lanes = 1
    <2>1. s = 0 /\ LaneStream(s) = Main
      BY <1>7, OneLane
    <2>2. AddedTwo(c[Main], t[Main], o[Main], lane, main, t2[Main], o2[Main])
      BY <1>2, <1>3, <1>4, <1>5, <2>1, AddTwo
    <2>3. c[Main] \in Nat /\ t[Main] \in Nat /\ c[Main] <= t[Main]
      BY <1>2, <1>5 DEF View
    <2>4. Coll(FfnColls(t[Main]) + 1) = [kind |-> "dispatch", layer |-> l]
      BY <1>2, <1>7 DEF LaneColls, CollsOf
    <2>5. OneFfn(c[Main], t2[Main], o2[Main], row, res) /\ FfnColls(t2[Main]) = FfnColls(t[Main]) + 1
      <3>1. OneFfn(c[Main], t[Main], o[Main], row, res) /\ lane.stage = 0 /\ main.stage = 0
        BY <1>6, <1>7, <2>1
      <3>2. PICK y, z, m, n, w : y = c[Main] /\ z = t[Main] /\ m = o[Main] /\ n = t2[Main] /\ w = o2[Main]
        OBVIOUS
      <3>3. OneFfn(y, n, w, row, res) /\ FfnColls(n) = FfnColls(z) + 1
        BY <2>2, <2>3, <2>4, <3>1, <3>2, OneReceive
      <3> QED BY <3>2, <3>3
    <2>6. OneMoreColl(f, t, t2, s)
      <3>1. CollsOf(f, t2[Main]) = CollsOf(f, t[Main]) + 1
        BY <1>2, <2>5 DEF CollsOf
      <3> QED BY <1>7, <3>1, LanesAre, OneMoreOf
    <2> QED BY <1>1, <1>4, <1>7, <2>5, <2>6, LanesAre DEF FfnHolds
  <1>8. CASE Lanes > 1
    <2>1. /\ s \in Streams /\ LaneStream(s) = s /\ Main \notin Stages
          /\ main.after = {On(s, t[s] + 1)}
      BY <1>8, ManyLanes
    <2>2. PushedTwo(c, t, o, Main, main, s, lane, t2, o2)
      BY <1>3, <1>4, <1>5, <1>8, <2>1, PushBoth
    <2>3. Coll(t[s] + 1) = [kind |-> "dispatch", layer |-> l] /\ Lanes /= 1
      BY <1>8, LanesAre DEF LaneColls
    <2>4. Called(c, t2, o2)
      <3>1. Key(lane) = Coll(t[s] + 1)
        BY <2>3 DEF Key
      <3> QED BY <1>5, <1>6, <1>8, <2>2, <3>1, CalledTwo
    <2>5. LanesFfn(c, t2, o2, x2, row, res)
      BY <1>5, <1>6, <1>8, <2>1, <2>2, <2>3, LanesReceive
    <2>6. OneMoreColl(f, t, t2, s)
      <3>1. t2[s] = t[s] + 1 /\ \A z \in Stages : z /= s => t2[z] = t[z]
        BY <1>8, <2>1, <2>2, ManyLanes DEF PushedTwo
      <3> QED BY <1>8, <2>3, <3>1, OneMoreOf
    <2> QED BY <1>1, <1>4, <1>8, <2>3, <2>4, <2>5, <2>6 DEF FfnHolds
  <1> QED BY <1>7, <1>8, LanesAre

(* A combine is enqueued (send_ffn_output). *)
LEMMA FfnReturns ==
    ASSUME NEW f \in Ffns, NEW c \in [Streams -> Nat], NEW q, Queues(q), NEW x, NEW row, NEW res,
           FfnHolds(c, q, x, row, res), NEW t, t = Tops(q, c), NEW s \in Stages, NEW l,
           Coll(LaneColls(f, t, s) + 1) = [kind |-> "combine", layer |-> l],
           NEW lane, lane.kind = "combine", lane.on = LaneStream(s), lane.stage = s,
           lane.layer = l, lane.after = Wait(x[s]),
           NEW q2, q2 = Put(q, lane)
    PROVE  /\ Queues(q2) /\ FfnHolds(c, q2, x, row, res)
           /\ OneMoreColl(f, t, Tops(q2, c), s)
  <1>1. PICK o, t2, o2 : o = Ops(q, c) /\ t2 = Tops(q2, c) /\ o2 = Ops(q2, c)
    OBVIOUS
  <1>2. LaneStream(s) \in Streams /\ Main \in Streams /\ f \notin Attns
    BY StreamsAre
  <1>3. Queues(q2) /\ Pushed(c, t, o, LaneStream(s), lane, t2, o2)
    BY <1>1, <1>2, PutView
  <1>5. View(c, t)
    BY ViewTyped
  <1>6. /\ Lanes = 1 => OneFfn(c[Main], t[Main], o[Main], row, res)
        /\ Lanes > 1 => Called(c, t, o) /\ LanesFfn(c, t, o, x, row, res)
    BY <1>1 DEF FfnHolds
  <1>7. CASE Lanes = 1
    <2>1. s = 0 /\ LaneStream(s) = Main
      BY <1>7, OneLane
    <2>2. Added(c[Main], t[Main], o[Main], lane, t2[Main], o2[Main])
      BY <1>2, <1>3, <1>5, <2>1, AddOne
    <2>3. c[Main] \in Nat /\ t[Main] \in Nat /\ c[Main] <= t[Main]
      BY <1>2, <1>5 DEF View
    <2>4. Coll(FfnColls(t[Main]) + 1) = [kind |-> "combine", layer |-> l]
      BY <1>2, <1>7 DEF LaneColls, CollsOf
    <2>5. OneFfn(c[Main], t2[Main], o2[Main], row, res) /\ FfnColls(t2[Main]) = FfnColls(t[Main]) + 1
      <3>1. OneFfn(c[Main], t[Main], o[Main], row, res) /\ lane.stage = 0
        BY <1>6, <1>7, <2>1
      <3>2. PICK y, z, m, n, w : y = c[Main] /\ z = t[Main] /\ m = o[Main] /\ n = t2[Main] /\ w = o2[Main]
        OBVIOUS
      <3>3. OneFfn(y, n, w, row, res) /\ FfnColls(n) = FfnColls(z) + 1
        BY <2>2, <2>3, <2>4, <3>1, <3>2, OneReturn
      <3> QED BY <3>2, <3>3
    <2>6. OneMoreColl(f, t, t2, s)
      <3>1. CollsOf(f, t2[Main]) = CollsOf(f, t[Main]) + 1
        BY <1>2, <2>5 DEF CollsOf
      <3> QED BY <1>7, <3>1, LanesAre, OneMoreOf
    <2> QED BY <1>1, <1>3, <1>7, <2>5, <2>6, LanesAre DEF FfnHolds
  <1>8. CASE Lanes > 1
    <2>1. s \in Streams /\ LaneStream(s) = s /\ s /= Main /\ lane.after = {x[s]}
      BY <1>8, ManyLanes
    <2>2. Pushed(c, t, o, s, lane, t2, o2)
      BY <1>3, <2>1
    <2>3. Coll(t[s] + 1) = [kind |-> "combine", layer |-> l] /\ Lanes /= 1
      BY <1>8, LanesAre DEF LaneColls
    <2>4. Called(c, t2, o2)
      <3>1. Key(lane) = Coll(t[s] + 1)
        BY <2>3 DEF Key
      <3> QED BY <1>5, <1>6, <1>8, <2>1, <2>2, <3>1, CalledOne
    <2>5. LanesFfn(c, t2, o2, x, row, res)
      <3>1. Coll(t[s] + 1).kind = "combine"
        BY <2>3
      <3> QED BY <1>5, <1>6, <1>8, <2>1, <2>2, <3>1, LanesReturn
    <2>6. OneMoreColl(f, t, t2, s)
      <3>1. t2 = [t EXCEPT ![s] = @ + 1] /\ t \in [Streams -> Nat]
        BY <1>5, <2>2 DEF Pushed, View
      <3>2. t2[s] = t[s] + 1 /\ \A z \in Stages : z /= s => t2[z] = t[z]
        BY <1>8, <2>1, <3>1, ManyLanes
      <3> QED BY <1>8, <2>3, <3>2, OneMoreOf
    <2> QED BY <1>1, <1>3, <1>8, <2>3, <2>4, <2>5, <2>6 DEF FfnHolds
  <1> QED BY <1>7, <1>8, LanesAre

(* The lanes are joined (synchronize_lanes). *)
LEMMA FfnJoins ==
    ASSUME Lanes > 1, NEW f \in Ffns, NEW c \in [Streams -> Nat], NEW q, Queues(q),
           NEW x, NEW row, NEW res, FfnHolds(c, q, x, row, res), NEW t, t = Tops(q, c),
           NEW main, main.kind = "join", main.on = Main, NEW q2, q2 = Put(q, main)
    PROVE  /\ Queues(q2) /\ FfnHolds(c, q2, x, row, res)
           /\ \A s \in Stages : LaneColls(f, Tops(q2, c), s) = LaneColls(f, t, s)
  <1>1. PICK o, t2, o2 : o = Ops(q, c) /\ t2 = Tops(q2, c) /\ o2 = Ops(q2, c)
    OBVIOUS
  <1>2. Main \in Streams /\ Main \notin Stages /\ Lanes /= 1
    BY LanesAre, StreamsAre, ManyLanes
  <1>3. Queues(q2) /\ Pushed(c, t, o, Main, main, t2, o2)
    BY <1>1, <1>2, PutView
  <1>4. View(c, t)
    BY ViewTyped
  <1>5. Called(c, t, o) /\ LanesFfn(c, t, o, x, row, res)
    BY <1>1 DEF FfnHolds
  <1>6. Called(c, t2, o2) /\ LanesFfn(c, t2, o2, x, row, res)
    BY <1>2, <1>3, <1>4, <1>5, CalledOne, LanesJoin
  <1>7. t2 = [t EXCEPT ![Main] = @ + 1] /\ t \in [Streams -> Nat] /\ Stages \subseteq Streams
    BY <1>3, <1>4, ManyLanes DEF Pushed, View
  <1>8. \A s \in Stages : LaneColls(f, t2, s) = LaneColls(f, t, s)
    BY <1>2, <1>7 DEF LaneColls
  <1> QED BY <1>1, <1>2, <1>3, <1>6, <1>8 DEF FfnHolds

(* the first operation of a stream runs *)
HeadRuns(c, q, st, op, c2, q2) ==
    TakesHead(c, q, st, c2, q2) /\ op = Head(q[st]) /\ \A e \in op.after : c[e.stream] >= e.n

(* What that is in terms of the numbered operations. *)
LEMMA HeadView ==
    ASSUME NEW c \in [Streams -> Nat], NEW q, Queues(q), NEW st \in Streams, NEW op,
           NEW c2, NEW q2, HeadRuns(c, q, st, op, c2, q2), NEW t, t = Tops(q, c),
           NEW o, o = Ops(q, c), NEW o2, o2 = Ops(q2, c2)
    PROVE  /\ View(c, t) /\ Popped(c, t, o, st, c2, o2) /\ op = o[st][c[st] + 1]
           /\ Queues(q2) /\ Tops(q2, c2) = t
           /\ c[st] + 1 \in c[st] + 1 .. t[st]
           /\ \A e \in op.after : c[e.stream] >= e.n
           /\ c2[st] = c[st] + 1 /\ \A z \in Streams : z /= st => c2[z] = c[z]
  <1>1. View(c, t)
    BY ViewTyped
  <1>2. TakesHead(c, q, st, c2, q2) /\ c2 = [c EXCEPT ![st] = @ + 1]
    BY DEF HeadRuns, TakesHead
  <1>3. /\ Queues(q2) /\ Tops(q2, c2) = Tops(q, c)
        /\ Popped(c, Tops(q, c), Ops(q, c), st, c2, Ops(q2, c2))
        /\ Head(q[st]) = Ops(q, c)[st][c[st] + 1]
    BY <1>2, TailView
  <1>4. c[st] < t[st] /\ c[st] \in Nat /\ t[st] \in Nat
    BY <1>1, <1>3 DEF Popped, View
  <1>5. c[st] + 1 \in c[st] + 1 .. t[st]
    BY <1>4
  <1>6. op = Head(q[st]) /\ \A e \in op.after : c[e.stream] >= e.n
    BY DEF HeadRuns
  <1>7. c2[st] = c[st] + 1 /\ \A z \in Streams : z /= st => c2[z] = c[z]
    BY <1>2
  <1> QED BY <1>1, <1>3, <1>5, <1>6, <1>7

(* On a lane of several, it is the next collective. *)
LEMMA HeadCalled ==
    ASSUME Lanes > 1, NEW c, NEW t, NEW o, Called(c, t, o), NEW s \in Stages,
           c[s] + 1 \in c[s] + 1 .. t[s], NEW op, op = o[s][c[s] + 1]
    PROVE  op.kind = Coll(c[s] + 1).kind /\ op.layer = Coll(c[s] + 1).layer
  <1>1. Key(op) = Coll(c[s] + 1)
    BY DEF Called
  <1> QED BY <1>1 DEF Key

(* A layer or a copy runs on an Attention rank. *)
LEMMA AttnComputes ==
    ASSUME NEW a \in Attns, NEW c \in [Streams -> Nat], NEW q, Queues(q), NEW u, NEW mem, NEW com,
           AttnHolds(a, c, q, u, mem, com), NEW st \in Streams, NEW op, op.kind \notin Collectives,
           NEW c2, NEW q2, HeadRuns(c, q, st, op, c2, q2),
           NEW mem2, op.kind /= "attention" => mem2 = mem,
           op.kind = "attention" /\ op.block \in Blocks =>
               mem2[op.block] = Row(a, op.stage, op.layer),
           op.kind = "attention" => \A b \in Blocks : b /= op.block => mem2[b] = mem[b]
    PROVE  /\ Queues(q2) /\ AttnHolds(a, c2, q2, u, mem2, com) /\ Tops(q2, c2) = Tops(q, c)
           /\ \A s \in Stages : LaneColls(a, c2, s) = LaneColls(a, c, s)
           /\ op.kind \in {"attention", "copy"}
           /\ op.kind = "copy" => /\ op.stage \in Stages
                                  /\ Brought(com, a, op.stage, op.layer)
  <1>1. PICK t, o, o2 : t = Tops(q, c) /\ o = Ops(q, c) /\ o2 = Ops(q2, c2)
    OBVIOUS
  <1>2. /\ View(c, t) /\ Popped(c, t, o, st, c2, o2) /\ op = o[st][c[st] + 1]
        /\ Queues(q2) /\ Tops(q2, c2) = t /\ c[st] + 1 \in c[st] + 1 .. t[st]
        /\ \A e \in op.after : c[e.stream] >= e.n
        /\ c2[st] = c[st] + 1 /\ \A z \in Streams : z /= st => c2[z] = c[z]
    BY <1>1, HeadView
  <1>3. /\ Lanes = 1 => OneAttn(a, c[Main], t[Main], o[Main], mem, com)
        /\ Lanes > 1 => Called(c, t, o) /\ LanesAttn(a, c, t, o, u, mem, com)
    BY <1>1 DEF AttnHolds
  <1>4. CASE Lanes = 1
    <2>1. st = Main /\ Stages = {0}
      BY <1>4, OneLane
    <2>2. PICK x, y, m, x2, m2 : /\ x = c[Main] /\ y = t[Main] /\ m = o[Main] /\ x2 = c2[Main]
                                 /\ m2 = o2[Main]
      OBVIOUS
    <2>3. Ran(x, y, m, x2, m2)
      BY <1>2, <2>1, <2>2, RunOne
    <2>4. x \in Nat /\ y \in Nat /\ OneAttn(a, x, y, m, mem, com) /\ op = m[x + 1]
      BY <1>2, <1>3, <1>4, <2>1, <2>2 DEF View
    <2>5. op.kind \in {"attention", "copy"}
      <3>1. x + 1 \in x + 1 .. y
        BY <1>2, <2>1, <2>2
      <3>2. Key(op) = AttnOp(x + 1)
        BY <2>4, <3>1 DEF OneAttn
      <3>3. op.kind = AttnOp(x + 1).kind
        BY <3>2 DEF Key
      <3>4. AttnOp(x + 1).kind \in {"attention", "dispatch", "combine", "copy"}
        BY DEF AttnOp
      <3> QED BY <3>3, <3>4 DEF Collectives
    <2>6. CASE op.kind = "attention"
      <3>1. op.block \in Blocks => mem2[op.block] = Row(a, op.stage, op.layer)
        BY <2>6
      <3>2. OneAttn(a, x2, y, m2, mem2, com) /\ AttnColls(x2) = AttnColls(x)
        BY <2>3, <2>4, <2>6, <3>1, OneLayer
      <3> QED BY <1>1, <1>2, <1>4, <2>2, <2>6, <3>2, LanesAre DEF AttnHolds, LaneColls, CollsOf
    <2>7. CASE op.kind = "copy"
      <3>1. /\ OneAttn(a, x2, y, m2, mem, com) /\ AttnColls(x2) = AttnColls(x) /\ op.stage = 0
            /\ Brought(com, a, 0, op.layer)
        <4>1. op = m[x + 1] /\ op.kind = "copy"
          BY <2>4, <2>7
        <4>2. OneAttn(a, x2, y, m2, mem, com) /\ AttnColls(x2) = AttnColls(x)
          BY <2>3, <2>4, <4>1, OneCopy
        <4>3. op.stage = 0
          <5>1. x + 1 \in x + 1 .. y
            BY <1>2, <2>1, <2>2
          <5> QED BY <2>4, <5>1 DEF OneAttn
        <4>4. Brought(com, a, 0, op.layer)
          BY <2>3, <2>4, <4>1, OneCopy
        <4> QED BY <4>2, <4>3, <4>4
      <3>2. mem2 = mem
        BY <2>7
      <3> QED BY <1>1, <1>2, <1>4, <2>1, <2>2, <2>7, <3>1, <3>2, LanesAre
            DEF AttnHolds, LaneColls, CollsOf
    <2> QED BY <2>5, <2>6, <2>7
  <1>5. CASE Lanes > 1
    <2>1. Streams = Stages \cup {Main} /\ Main \notin Stages /\ Lanes /= 1
      BY <1>5, ManyLanes, LanesAre
    <2>2. st = Main
      <3>1. ASSUME st \in Stages PROVE FALSE
        <4>1. op.kind = Coll(c[st] + 1).kind
          BY <1>2, <1>3, <1>5, <3>1, HeadCalled
        <4> QED BY <4>1 DEF Coll, Collectives
      <3> QED BY <2>1, <3>1
    <2>3. Called(c2, t, o2)
      BY <1>2, <1>3, <1>5, CalledRan
    <2>4. \A s \in Stages : LaneColls(a, c2, s) = LaneColls(a, c, s)
      BY <1>2, <2>1, <2>2 DEF LaneColls
    <2>5. \/ op.kind = "attention" /\ AttentionOK(c, t, o, u, c[Main] + 1)
          \/ op.kind = "copy"
      BY <1>2, <1>3, <1>5, <2>2 DEF LanesAttn
    <2>6. CASE op.kind = "attention" /\ AttentionOK(c, t, o, u, c[Main] + 1)
      <3>1. op.block \in Blocks
        BY <1>2, <2>2, <2>6 DEF AttentionOK
      <3>2. LanesAttn(a, c2, t, o2, u, mem2, com)
        BY <1>2, <1>3, <1>5, <2>2, <2>6, <3>1, LanesLayer
      <3> QED BY <1>1, <1>2, <1>5, <2>1, <2>3, <2>4, <2>6, <3>2, SMTT(40) DEF AttnHolds
    <2>7. CASE op.kind = "copy"
      <3>1. /\ LanesAttn(a, c2, t, o2, u, mem, com) /\ op.stage \in Stages
            /\ Brought(com, a, op.stage, op.layer)
        BY <1>2, <1>3, <1>5, <2>2, <2>7, LanesCopy
      <3>2. mem2 = mem
        BY <2>7
      <3> QED BY <1>1, <1>2, <1>5, <2>1, <2>3, <2>4, <2>7, <3>1, <3>2 DEF AttnHolds
    <2> QED BY <2>5, <2>6, <2>7
  <1> QED BY <1>4, <1>5, LanesAre

(* what the experts compute, when it is they that run *)
ExpertsRun(op, row, res, res2) ==
    /\ op.kind /= "experts" => res2 = res
    /\ op.kind = "experts" /\ op.stage \in Stages => res2[op.stage] = row[op.stage]
    /\ op.kind = "experts" => \A z \in Stages : z /= op.stage => res2[z] = res[z]

(* The experts or a join run on an FFN rank. *)
LEMMA FfnComputes ==
    ASSUME NEW f \in Ffns, NEW c \in [Streams -> Nat], NEW q, Queues(q), NEW x, NEW row, NEW res,
           FfnHolds(c, q, x, row, res), NEW st \in Streams, NEW op, op.kind \notin Collectives,
           NEW c2, NEW q2, HeadRuns(c, q, st, op, c2, q2),
           NEW res2, ExpertsRun(op, row, res, res2)
    PROVE  /\ Queues(q2) /\ FfnHolds(c2, q2, x, row, res2) /\ Tops(q2, c2) = Tops(q, c)
           /\ \A s \in Stages : LaneColls(f, c2, s) = LaneColls(f, c, s)
           /\ op.kind \in {"experts", "join"}
  <1>0. /\ op.kind /= "experts" => res2 = res
        /\ op.kind = "experts" /\ op.stage \in Stages => res2[op.stage] = row[op.stage]
        /\ op.kind = "experts" => \A z \in Stages : z /= op.stage => res2[z] = res[z]
    BY DEF ExpertsRun
  <1>1. PICK t, o, o2 : t = Tops(q, c) /\ o = Ops(q, c) /\ o2 = Ops(q2, c2)
    OBVIOUS
  <1>2. /\ View(c, t) /\ Popped(c, t, o, st, c2, o2) /\ op = o[st][c[st] + 1]
        /\ Queues(q2) /\ Tops(q2, c2) = t /\ c[st] + 1 \in c[st] + 1 .. t[st]
        /\ \A e \in op.after : c[e.stream] >= e.n
        /\ c2[st] = c[st] + 1 /\ \A z \in Streams : z /= st => c2[z] = c[z]
    BY <1>1, HeadView
  <1>3. /\ Lanes = 1 => OneFfn(c[Main], t[Main], o[Main], row, res)
        /\ Lanes > 1 => Called(c, t, o) /\ LanesFfn(c, t, o, x, row, res)
    BY <1>1 DEF FfnHolds
  <1>4. CASE Lanes = 1
    <2>1. st = Main /\ Stages = {0} /\ f \notin Attns
      BY <1>4, OneLane, StreamsAre
    <2>2. PICK w, y, m, w2, m2 : /\ w = c[Main] /\ y = t[Main] /\ m = o[Main] /\ w2 = c2[Main]
                                 /\ m2 = o2[Main]
      OBVIOUS
    <2>3. Ran(w, y, m, w2, m2)
      BY <1>2, <2>1, <2>2, RunOne
    <2>4. w \in Nat /\ y \in Nat /\ OneFfn(w, y, m, row, res) /\ op = m[w + 1]
      BY <1>2, <1>3, <1>4, <2>1, <2>2 DEF View
    <2>5. op.kind = "experts" /\ op.stage = 0
      <3>1. w + 1 \in w + 1 .. y
        BY <1>2, <2>1, <2>2
      <3>2. Key(op) = FfnOp(w + 1) /\ op.stage = 0
        BY <2>4, <3>1 DEF OneFfn
      <3>3. op.kind = FfnOp(w + 1).kind
        BY <3>2 DEF Key
      <3>4. FfnOp(w + 1).kind \in {"dispatch", "experts", "combine"}
        BY DEF FfnOp
      <3> QED BY <3>2, <3>3, <3>4 DEF Collectives
    <2>6. OneFfn(w2, y, m2, row, res2) /\ FfnColls(w2) = FfnColls(w)
      <3>1. res2[0] = row[0]
        BY <1>0, <2>1, <2>5
      <3> QED BY <2>3, <2>4, <2>5, <3>1, OneExperts
    <2> QED BY <1>1, <1>2, <1>4, <2>1, <2>2, <2>5, <2>6, LanesAre DEF FfnHolds, LaneColls, CollsOf
  <1>5. CASE Lanes > 1
    <2>1. Streams = Stages \cup {Main} /\ Main \notin Stages /\ Lanes /= 1
      BY <1>5, ManyLanes, LanesAre
    <2>2. st = Main
      <3>1. ASSUME st \in Stages PROVE FALSE
        <4>1. op.kind = Coll(c[st] + 1).kind
          BY <1>2, <1>3, <1>5, <3>1, HeadCalled
        <4> QED BY <4>1 DEF Coll, Collectives
      <3> QED BY <2>1, <3>1
    <2>3. Called(c2, t, o2)
      BY <1>2, <1>3, <1>5, CalledRan
    <2>4. \A s \in Stages : LaneColls(f, c2, s) = LaneColls(f, c, s)
      BY <1>2, <2>1, <2>2 DEF LaneColls
    <2>5. \/ op.kind = "experts" /\ ExpertsOK(c, t, o, x, row, c[Main] + 1)
          \/ op.kind = "join"
      BY <1>2, <1>3, <1>5, <2>2 DEF LanesFfn
    <2>6. CASE op.kind = "experts" /\ ExpertsOK(c, t, o, x, row, c[Main] + 1)
      <3>1. op.stage \in Stages
        BY <1>2, <2>2, <2>6 DEF ExpertsOK
      <3>2. LanesFfn(c2, t, o2, x, row, res2)
        BY <1>0, <1>2, <1>3, <1>5, <2>2, <2>6, <3>1, LanesExperts
      <3> QED BY <1>1, <1>2, <1>5, <2>1, <2>3, <2>4, <2>6, <3>2 DEF FfnHolds
    <2>7. CASE op.kind = "join"
      <3>1. LanesFfn(c2, t, o2, x, row, res)
        BY <1>2, <1>3, <1>5, <2>2, <2>7, LanesJoined
      <3>2. res2 = res
        BY <1>0, <2>7
      <3> QED BY <1>1, <1>2, <1>5, <2>1, <2>3, <2>4, <2>7, <3>1, <3>2 DEF FfnHolds
    <2> QED BY <2>5, <2>6, <2>7
  <1> QED BY <1>4, <1>5, LanesAre

(* One collective more is done, of one lane or of several. *)
LEMMA OneMoreDone ==
    ASSUME NEW r, NEW c, NEW c2, NEW s \in Stages,
           \A z \in Streams : z /= LaneStream(s) => c2[z] = c[z],
           c2[LaneStream(s)] = c[LaneStream(s)] + 1,
           Lanes = 1 => CollsOf(r, c2[Main]) = CollsOf(r, c[Main]) + 1
    PROVE  OneMoreColl(r, c, c2, s)
  <1>1. CASE Lanes = 1
    BY <1>1, LanesAre, OneMoreOf
  <1>2. CASE Lanes > 1
    <2>1. LaneStream(s) = s /\ Stages \subseteq Streams /\ Lanes /= 1
      BY <1>2, ManyLanes, LanesAre
    <2>2. c2[s] = c[s] + 1 /\ \A z \in Stages : z /= s => c2[z] = c[z]
      BY <2>1
    <2> QED BY <1>2, <2>1, <2>2, OneMoreOf
  <1> QED BY <1>1, <1>2, LanesAre

(* A dispatch runs on an Attention rank. *)
LEMMA AttnDispatches ==
    ASSUME NEW a \in Attns, NEW c \in [Streams -> Nat], NEW q, Queues(q), NEW u, NEW mem, NEW com,
           AttnHolds(a, c, q, u, mem, com), NEW s \in Stages, NEW op, op.kind = "dispatch",
           NEW c2, NEW q2, HeadRuns(c, q, LaneStream(s), op, c2, q2),
           NEW k, k = LaneColls(a, c, s) + 1
    PROVE  /\ Queues(q2) /\ AttnHolds(a, c2, q2, u, mem, com) /\ Tops(q2, c2) = Tops(q, c)
           /\ OneMoreColl(a, c, c2, s) /\ Coll(k).kind = "dispatch"
           /\ Filled(mem, op.block, a, s, Coll(k).layer)
  <1>1. PICK t, o, o2, st : t = Tops(q, c) /\ o = Ops(q, c) /\ o2 = Ops(q2, c2) /\ st = LaneStream(s)
    OBVIOUS
  <1>2. st \in Streams /\ Main \in Streams /\ HeadRuns(c, q, st, op, c2, q2)
    BY <1>1, StreamsAre
  <1>3. /\ View(c, t) /\ Popped(c, t, o, st, c2, o2) /\ op = o[st][c[st] + 1]
        /\ Queues(q2) /\ Tops(q2, c2) = t /\ c[st] + 1 \in c[st] + 1 .. t[st]
        /\ \A e \in op.after : c[e.stream] >= e.n
        /\ c2[st] = c[st] + 1 /\ \A z \in Streams : z /= st => c2[z] = c[z]
    BY <1>1, <1>2, HeadView
  <1>4. /\ Lanes = 1 => OneAttn(a, c[Main], t[Main], o[Main], mem, com)
        /\ Lanes > 1 => Called(c, t, o) /\ LanesAttn(a, c, t, o, u, mem, com)
    BY <1>1 DEF AttnHolds
  <1>5. CASE Lanes = 1
    <2>1. st = Main /\ Stages = {0} /\ s = 0
      BY <1>1, <1>5, OneLane
    <2>2. PICK x, y, m, x2, m2 : /\ x = c[Main] /\ y = t[Main] /\ m = o[Main] /\ x2 = c2[Main]
                                 /\ m2 = o2[Main]
      OBVIOUS
    <2>3. Ran(x, y, m, x2, m2)
      BY <1>2, <1>3, <2>1, <2>2, RunOne
    <2>4. x \in Nat /\ y \in Nat /\ OneAttn(a, x, y, m, mem, com) /\ op = m[x + 1]
      BY <1>2, <1>3, <1>4, <1>5, <2>1, <2>2 DEF View
    <2>5. k = AttnColls(x) + 1
      BY <1>5, <2>2, StreamsAre DEF LaneColls, CollsOf
    <2>6. /\ OneAttn(a, x2, y, m2, mem, com) /\ AttnColls(x2) = AttnColls(x) + 1
          /\ Coll(AttnColls(x) + 1).kind = "dispatch"
          /\ Filled(mem, op.block, a, 0, Coll(AttnColls(x) + 1).layer)
      <3>1. /\ OneAttn(a, x2, y, m2, mem, com) /\ AttnColls(x2) = AttnColls(x) + 1
            /\ Coll(AttnColls(x) + 1).kind = "dispatch"
        BY <2>3, <2>4, OneDispatched
      <3>2. Filled(mem, op.block, a, 0, Coll(AttnColls(x) + 1).layer)
        BY <2>3, <2>4, OneDispatched
      <3> QED BY <3>1, <3>2
    <2>7. OneMoreColl(a, c, c2, s)
      <3>1. CollsOf(a, c2[Main]) = CollsOf(a, c[Main]) + 1
        BY <2>2, <2>6, StreamsAre DEF CollsOf
      <3> QED BY <1>1, <1>3, <3>1, OneMoreDone
    <2> QED BY <1>1, <1>3, <1>5, <2>1, <2>2, <2>5, <2>6, <2>7, LanesAre DEF AttnHolds
  <1>6. CASE Lanes > 1
    <2>1. st = s /\ s \in Streams /\ Lanes /= 1
      BY <1>1, <1>6, ManyLanes, LanesAre
    <2>2. k = c[s] + 1 /\ op = o[s][k]
      BY <1>3, <2>1 DEF LaneColls
    <2>3. Coll(k).kind = "dispatch"
      BY <1>3, <1>4, <1>6, <2>1, <2>2, HeadCalled
    <2>4. Called(c2, t, o2)
      BY <1>2, <1>3, <1>4, <1>6, CalledRan
    <2>5. OneMoreColl(a, c, c2, s)
      BY <1>1, <1>3, <2>1, OneMoreDone
    <2>6. LanesAttn(a, c2, t, o2, u, mem, com) /\ Filled(mem, op.block, a, s, Coll(k).layer)
      <3>1. LanesAttn(a, c2, t, o2, u, mem, com)
        BY <1>3, <1>4, <1>6, <2>1, <2>2, <2>3, LanesDispatched
      <3>2. Filled(mem, op.block, a, s, Coll(k).layer)
        BY <1>3, <1>4, <1>6, <2>1, <2>2, <2>3, LanesDispatched
      <3> QED BY <3>1, <3>2
    <2> QED BY <1>1, <1>3, <2>1, <2>3, <2>4, <2>5, <2>6 DEF AttnHolds
  <1> QED BY <1>5, <1>6, LanesAre

(* A combine runs on an Attention rank. *)
LEMMA AttnCombines ==
    ASSUME NEW a \in Attns, NEW c \in [Streams -> Nat], NEW q, Queues(q), NEW u, NEW mem, NEW com,
           AttnHolds(a, c, q, u, mem, com), NEW s \in Stages, NEW op, op.kind = "combine",
           NEW c2, NEW q2, HeadRuns(c, q, LaneStream(s), op, c2, q2),
           NEW k, k = LaneColls(a, c, s) + 1,
           NEW com2, Brought(com2, a, s, Coll(k).layer),
           \A z \in Stages : z /= s => com2[z] = com[z]
    PROVE  /\ Queues(q2) /\ AttnHolds(a, c2, q2, u, mem, com2) /\ Tops(q2, c2) = Tops(q, c)
           /\ OneMoreColl(a, c, c2, s) /\ Coll(k).kind = "combine"
  <1>1. PICK t, o, o2, st : t = Tops(q, c) /\ o = Ops(q, c) /\ o2 = Ops(q2, c2) /\ st = LaneStream(s)
    OBVIOUS
  <1>2. st \in Streams /\ Main \in Streams /\ HeadRuns(c, q, st, op, c2, q2)
    BY <1>1, StreamsAre
  <1>3. /\ View(c, t) /\ Popped(c, t, o, st, c2, o2) /\ op = o[st][c[st] + 1]
        /\ Queues(q2) /\ Tops(q2, c2) = t /\ c[st] + 1 \in c[st] + 1 .. t[st]
        /\ \A e \in op.after : c[e.stream] >= e.n
        /\ c2[st] = c[st] + 1 /\ \A z \in Streams : z /= st => c2[z] = c[z]
    BY <1>1, <1>2, HeadView
  <1>4. /\ Lanes = 1 => OneAttn(a, c[Main], t[Main], o[Main], mem, com)
        /\ Lanes > 1 => Called(c, t, o) /\ LanesAttn(a, c, t, o, u, mem, com)
    BY <1>1 DEF AttnHolds
  <1>5. CASE Lanes = 1
    <2>1. st = Main /\ Stages = {0} /\ s = 0
      BY <1>1, <1>5, OneLane
    <2>2. PICK x, y, m, x2, m2 : /\ x = c[Main] /\ y = t[Main] /\ m = o[Main] /\ x2 = c2[Main]
                                 /\ m2 = o2[Main]
      OBVIOUS
    <2>3. Ran(x, y, m, x2, m2)
      BY <1>2, <1>3, <2>1, <2>2, RunOne
    <2>4. x \in Nat /\ y \in Nat /\ OneAttn(a, x, y, m, mem, com) /\ op = m[x + 1]
      BY <1>2, <1>3, <1>4, <1>5, <2>1, <2>2 DEF View
    <2>5. k = AttnColls(x) + 1
      BY <1>5, <2>2, StreamsAre DEF LaneColls, CollsOf
    <2>6. /\ OneAttn(a, x2, y, m2, mem, com2) /\ AttnColls(x2) = AttnColls(x) + 1
          /\ Coll(AttnColls(x) + 1).kind = "combine"
      <3>1. \A f \in Ffns : com2[0][f] = Row(a, 0, Coll(AttnColls(x) + 1).layer)
        BY <2>1, <2>5 DEF Brought
      <3> QED BY <2>3, <2>4, <3>1, OneCombined
    <2>7. OneMoreColl(a, c, c2, s)
      <3>1. CollsOf(a, c2[Main]) = CollsOf(a, c[Main]) + 1
        BY <2>2, <2>6, StreamsAre DEF CollsOf
      <3> QED BY <1>1, <1>3, <3>1, OneMoreDone
    <2> QED BY <1>1, <1>3, <1>5, <2>1, <2>2, <2>5, <2>6, <2>7, LanesAre DEF AttnHolds
  <1>6. CASE Lanes > 1
    <2>1. st = s /\ s \in Streams /\ Lanes /= 1
      BY <1>1, <1>6, ManyLanes, LanesAre
    <2>2. k = c[s] + 1 /\ op = o[s][k]
      BY <1>3, <2>1 DEF LaneColls
    <2>3. Coll(k).kind = "combine"
      BY <1>3, <1>4, <1>6, <2>1, <2>2, HeadCalled
    <2>4. Called(c2, t, o2)
      BY <1>2, <1>3, <1>4, <1>6, CalledRan
    <2>5. OneMoreColl(a, c, c2, s)
      BY <1>1, <1>3, <2>1, OneMoreDone
    <2>6. LanesAttn(a, c2, t, o2, u, mem, com2)
      <3>1. \A f \in Ffns : com2[s][f] = Row(a, s, Coll(k).layer)
        BY DEF Brought
      <3> QED BY <1>3, <1>4, <1>6, <2>1, <2>2, <2>3, <3>1, LanesCombined
    <2> QED BY <1>1, <1>3, <2>1, <2>3, <2>4, <2>5, <2>6 DEF AttnHolds
  <1> QED BY <1>5, <1>6, LanesAre

(* what a dispatch brought to a lane, or its experts computed *)
Arrived(row, s, l) == \A a \in Attns : row[s][a] = Row(a, s, l)

(* A dispatch runs on an FFN rank. *)
LEMMA FfnDispatches ==
    ASSUME NEW f \in Ffns, NEW c \in [Streams -> Nat], NEW q, Queues(q), NEW x, NEW row, NEW res,
           FfnHolds(c, q, x, row, res), NEW s \in Stages, NEW op, op.kind = "dispatch",
           NEW c2, NEW q2, HeadRuns(c, q, LaneStream(s), op, c2, q2),
           NEW k, k = LaneColls(f, c, s) + 1,
           NEW row2, Arrived(row2, s, Coll(k).layer), \A z \in Stages : z /= s => row2[z] = row[z]
    PROVE  /\ Queues(q2) /\ FfnHolds(c2, q2, x, row2, res) /\ Tops(q2, c2) = Tops(q, c)
           /\ OneMoreColl(f, c, c2, s) /\ Coll(k).kind = "dispatch"
  <1>1. PICK t, o, o2, st : t = Tops(q, c) /\ o = Ops(q, c) /\ o2 = Ops(q2, c2) /\ st = LaneStream(s)
    OBVIOUS
  <1>2. st \in Streams /\ Main \in Streams /\ HeadRuns(c, q, st, op, c2, q2)
    BY <1>1, StreamsAre
  <1>3. /\ View(c, t) /\ Popped(c, t, o, st, c2, o2) /\ op = o[st][c[st] + 1]
        /\ Queues(q2) /\ Tops(q2, c2) = t /\ c[st] + 1 \in c[st] + 1 .. t[st]
        /\ \A e \in op.after : c[e.stream] >= e.n
        /\ c2[st] = c[st] + 1 /\ \A z \in Streams : z /= st => c2[z] = c[z]
    BY <1>1, <1>2, HeadView
  <1>4. /\ Lanes = 1 => OneFfn(c[Main], t[Main], o[Main], row, res)
        /\ Lanes > 1 => Called(c, t, o) /\ LanesFfn(c, t, o, x, row, res)
    BY <1>1 DEF FfnHolds
  <1>5. CASE Lanes = 1
    <2>1. st = Main /\ Stages = {0} /\ s = 0
      BY <1>1, <1>5, OneLane
    <2>2. PICK w, y, m, w2, m2 : /\ w = c[Main] /\ y = t[Main] /\ m = o[Main] /\ w2 = c2[Main]
                                 /\ m2 = o2[Main]
      OBVIOUS
    <2>3. Ran(w, y, m, w2, m2)
      BY <1>2, <1>3, <2>1, <2>2, RunOne
    <2>4. w \in Nat /\ y \in Nat /\ OneFfn(w, y, m, row, res) /\ op = m[w + 1]
      BY <1>2, <1>3, <1>4, <1>5, <2>1, <2>2 DEF View
    <2>5. k = FfnColls(w) + 1
      BY <1>5, <2>2, StreamsAre DEF LaneColls, CollsOf
    <2>6. /\ OneFfn(w2, y, m2, row2, res) /\ FfnColls(w2) = FfnColls(w) + 1
          /\ Coll(FfnColls(w) + 1).kind = "dispatch"
      <3>1. \A a \in Attns : row2[0][a] = Row(a, 0, Coll(FfnColls(w) + 1).layer)
        BY <2>1, <2>5 DEF Arrived
      <3> QED BY <2>3, <2>4, <3>1, OneReceived
    <2>7. OneMoreColl(f, c, c2, s)
      <3>1. CollsOf(f, c2[Main]) = CollsOf(f, c[Main]) + 1
        BY <2>2, <2>6, StreamsAre DEF CollsOf
      <3> QED BY <1>1, <1>3, <3>1, OneMoreDone
    <2> QED BY <1>1, <1>3, <1>5, <2>1, <2>2, <2>5, <2>6, <2>7, LanesAre DEF FfnHolds
  <1>6. CASE Lanes > 1
    <2>1. st = s /\ s \in Streams /\ Lanes /= 1
      BY <1>1, <1>6, ManyLanes, LanesAre
    <2>2. k = c[s] + 1 /\ op = o[s][k]
      BY <1>3, <2>1 DEF LaneColls
    <2>3. Coll(k).kind = "dispatch"
      BY <1>3, <1>4, <1>6, <2>1, <2>2, HeadCalled
    <2>4. Called(c2, t, o2)
      BY <1>2, <1>3, <1>4, <1>6, CalledRan
    <2>5. OneMoreColl(f, c, c2, s)
      BY <1>1, <1>3, <2>1, OneMoreDone
    <2>6. LanesFfn(c2, t, o2, x, row2, res)
      <3>1. \A a \in Attns : row2[s][a] = Row(a, s, Coll(k).layer)
        BY DEF Arrived
      <3> QED BY <1>3, <1>4, <1>6, <2>1, <2>2, <2>3, <3>1, LanesReceived
    <2> QED BY <1>1, <1>3, <2>1, <2>3, <2>4, <2>5, <2>6 DEF FfnHolds
  <1> QED BY <1>5, <1>6, LanesAre

(* A combine runs on an FFN rank. *)
LEMMA FfnCombines ==
    ASSUME NEW f \in Ffns, NEW c \in [Streams -> Nat], NEW q, Queues(q), NEW x, NEW row, NEW res,
           FfnHolds(c, q, x, row, res), NEW s \in Stages, NEW op, op.kind = "combine",
           NEW c2, NEW q2, HeadRuns(c, q, LaneStream(s), op, c2, q2),
           NEW k, k = LaneColls(f, c, s) + 1
    PROVE  /\ Queues(q2) /\ FfnHolds(c2, q2, x, row, res) /\ Tops(q2, c2) = Tops(q, c)
           /\ OneMoreColl(f, c, c2, s) /\ Coll(k).kind = "combine"
           /\ Arrived(res, s, Coll(k).layer)
  <1>1. PICK t, o, o2, st : t = Tops(q, c) /\ o = Ops(q, c) /\ o2 = Ops(q2, c2) /\ st = LaneStream(s)
    OBVIOUS
  <1>2. st \in Streams /\ Main \in Streams /\ HeadRuns(c, q, st, op, c2, q2)
    BY <1>1, StreamsAre
  <1>3. /\ View(c, t) /\ Popped(c, t, o, st, c2, o2) /\ op = o[st][c[st] + 1]
        /\ Queues(q2) /\ Tops(q2, c2) = t /\ c[st] + 1 \in c[st] + 1 .. t[st]
        /\ \A e \in op.after : c[e.stream] >= e.n
        /\ c2[st] = c[st] + 1 /\ \A z \in Streams : z /= st => c2[z] = c[z]
    BY <1>1, <1>2, HeadView
  <1>4. /\ Lanes = 1 => OneFfn(c[Main], t[Main], o[Main], row, res)
        /\ Lanes > 1 => Called(c, t, o) /\ LanesFfn(c, t, o, x, row, res)
    BY <1>1 DEF FfnHolds
  <1>5. CASE Lanes = 1
    <2>1. st = Main /\ Stages = {0} /\ s = 0
      BY <1>1, <1>5, OneLane
    <2>2. PICK w, y, m, w2, m2 : /\ w = c[Main] /\ y = t[Main] /\ m = o[Main] /\ w2 = c2[Main]
                                 /\ m2 = o2[Main]
      OBVIOUS
    <2>3. Ran(w, y, m, w2, m2)
      BY <1>2, <1>3, <2>1, <2>2, RunOne
    <2>4. w \in Nat /\ y \in Nat /\ OneFfn(w, y, m, row, res) /\ op = m[w + 1]
      BY <1>2, <1>3, <1>4, <1>5, <2>1, <2>2 DEF View
    <2>5. k = FfnColls(w) + 1
      BY <1>5, <2>2, StreamsAre DEF LaneColls, CollsOf
    <2>6. /\ OneFfn(w2, y, m2, row, res) /\ FfnColls(w2) = FfnColls(w) + 1
          /\ Coll(FfnColls(w) + 1).kind = "combine" /\ Arrived(res, s, Coll(k).layer)
      <3>1. /\ OneFfn(w2, y, m2, row, res) /\ FfnColls(w2) = FfnColls(w) + 1
            /\ Coll(FfnColls(w) + 1).kind = "combine"
        BY <2>3, <2>4, OneReturned
      <3>2. \A a \in Attns : res[0][a] = Row(a, 0, Coll(FfnColls(w) + 1).layer)
        BY <2>3, <2>4, OneReturned
      <3> QED BY <2>1, <2>5, <3>1, <3>2 DEF Arrived
    <2>7. OneMoreColl(f, c, c2, s)
      <3>1. CollsOf(f, c2[Main]) = CollsOf(f, c[Main]) + 1
        BY <2>2, <2>6, StreamsAre DEF CollsOf
      <3> QED BY <1>1, <1>3, <3>1, OneMoreDone
    <2> QED BY <1>1, <1>3, <1>5, <2>1, <2>2, <2>5, <2>6, <2>7, LanesAre DEF FfnHolds
  <1>6. CASE Lanes > 1
    <2>1. st = s /\ s \in Streams /\ Lanes /= 1
      BY <1>1, <1>6, ManyLanes, LanesAre
    <2>2. k = c[s] + 1 /\ op = o[s][k]
      BY <1>3, <2>1 DEF LaneColls
    <2>3. Coll(k).kind = "combine"
      BY <1>3, <1>4, <1>6, <2>1, <2>2, HeadCalled
    <2>4. Called(c2, t, o2)
      BY <1>2, <1>3, <1>4, <1>6, CalledRan
    <2>5. OneMoreColl(f, c, c2, s)
      BY <1>1, <1>3, <2>1, OneMoreDone
    <2>6. LanesFfn(c2, t, o2, x, row, res) /\ Arrived(res, s, Coll(k).layer)
      <3>1. LanesFfn(c2, t, o2, x, row, res)
        BY <1>3, <1>4, <1>6, <2>1, <2>2, <2>3, LanesReturned
      <3>2. \A a \in Attns : res[s][a] = Row(a, s, Coll(k).layer)
        BY <1>3, <1>4, <1>6, <2>1, <2>2, <2>3, LanesReturned
      <3> QED BY <3>1, <3>2 DEF Arrived
    <2> QED BY <1>1, <1>3, <2>1, <2>3, <2>4, <2>5, <2>6 DEF FfnHolds
  <1> QED BY <1>5, <1>6, LanesAre

(***************************************************************************)
(* The inductive invariant.                                                *)
(***************************************************************************)
Events == [stream : Streams, n : Nat]
Payloads == UNION {[counts : [1 .. n -> Counts], graph : BOOLEAN] : n \in 1 .. Lanes}
Table(f, S, T) == f = [x \in S |-> [y \in T |-> f[x][y]]]

HostsTyped ==
    /\ stages \in [Ranks -> 0 .. Lanes] /\ pc \in [Ranks -> Nat]
    /\ control \in [Ffns -> Seq(Payloads)]
    /\ inUse \in [Attns -> [Blocks -> Events]]
    /\ done \in [Ffns -> [experts : [Stages -> Events], lanes : SUBSET Events]]
StreamsTyped ==
    /\ count \in [Ranks -> [Streams -> Nat]]
    /\ queue = [r \in Ranks |-> queue[r]] /\ \A r \in Ranks : Queues(queue[r])
DataTyped ==
    /\ Table(memory, Attns, Blocks) /\ Table(rows, Ffns, Stages) /\ Table(out, Ffns, Stages)
    /\ Table(combined, Attns, Stages) /\ Table(result, Attns, Stages)

(* where a host is: at rest, or in a step of n stages *)
HostAt(n, p) == (n = 0 /\ p = 1) \/ (n \in 1 .. Lanes /\ p \in 1 .. Len(AttnCalls[n]) + 1)
Top(r) == Tops(queue[r], count[r])
Hosts == \A r \in Ranks : HostAt(stages[r], pc[r]) /\ NextIs(r, Top(r), stages[r], pc[r])

(* all ranks have done as many collectives of each lane *)
Level == \A r, v \in Ranks, s \in Stages : LaneColls(r, count[r], s) = LaneColls(v, count[v], s)

AttnsHold == \A a \in Attns : AttnHolds(a, count[a], queue[a], inUse[a], memory[a], combined[a])
FfnsHold == \A f \in Ffns : FfnHolds(count[f], queue[f], done[f].experts, rows[f], out[f])

OwnInv ==
    /\ HostsTyped /\ StreamsTyped /\ DataTyped
    /\ Hosts /\ Level /\ AttnsHold /\ FfnsHold /\ OwnOutput

(* The least of some numbers is one of them. *)
LEMMA LeastIs ==
    ASSUME NEW B \in SUBSET Nat, B /= {}
    PROVE  Min(B) \in B
  <1> DEFINE R == {ss \in Nat \X Nat : ss[1] < ss[2]}
  <1>1. IsWellFoundedOn(R, Nat)
    BY NatLessThanWellFounded DEF OpToRel
  <1>2. \A x, y \in Nat : x < y => <<x, y>> \in R
    OBVIOUS
  <1> HIDE DEF R
  <1>3. PICK b \in B : \A y \in B : ~(<<y, b>> \in R)
    BY <1>1, WFMin, Zenon
  <1>4. \A y \in B : b =< y
    <2>1. ASSUME NEW y \in B PROVE b =< y
      <3>1. b \in Nat /\ y \in Nat /\ ~(y < b)
        BY <1>2, <1>3
      <3> QED BY <3>1
    <2> QED BY <2>1
  <1> QED BY <1>4 DEF Min

(* The block a layer is given is one that no operation uses. *)
LEMMA AllocateIs ==
    ASSUME NEW a, Allocate(a) \in Blocks
    PROVE  Reached(a, inUse[a][Allocate(a)])
  <1>1. Blocks \subseteq Nat \ {0}
    BY SizesAssumption
  <1>2. Free(a) /= {}
    <2>1. Free(a) = {} => Allocate(a) = 0
      BY DEF Allocate
    <2> QED BY <1>1, <2>1
  <1>3. Allocate(a) = Min(Free(a)) /\ Free(a) \in SUBSET Nat
    BY <1>1, <1>2 DEF Allocate, Free
  <1>4. Allocate(a) \in Free(a)
    BY <1>2, <1>3, LeastIs
  <1> QED BY <1>4 DEF Free

(* The queues of a rank, and the number its next event gets. *)
LEMMA RankTyped ==
    ASSUME StreamsTyped, NEW r \in Ranks
    PROVE  /\ count[r] \in [Streams -> Nat] /\ Queues(queue[r])
           /\ Top(r) \in [Streams -> Nat] /\ Top(r) = Tops(queue[r], count[r])
           /\ \A st \in Streams, k \in Nat : /\ EventOf(r, st, k) = On(st, Top(r)[st] + k)
                                             /\ EventOf(r, st, k) \in Events
  <1>1. count[r] \in [Streams -> Nat] /\ Queues(queue[r])
    BY DEF StreamsTyped
  <1>2. Top(r) \in [Streams -> Nat]
    BY <1>1, ViewTyped DEF Top, View
  <1>3. ASSUME NEW st \in Streams, NEW k \in Nat
        PROVE  /\ EventOf(r, st, k) = On(st, Top(r)[st] + k)
               /\ EventOf(r, st, k) \in Events
    <2>1. count[r][st] + Len(queue[r][st]) = Top(r)[st]
      BY DEF Top, Tops
    <2>2. EventOf(r, st, k) = On(st, Top(r)[st] + k)
      BY <2>1 DEF EventOf, On
    <2>3. Top(r)[st] + k \in Nat
      BY <1>2
    <2> QED BY <2>2, <2>3 DEF Events, On
  <1> QED BY <1>1, <1>2, <1>3 DEF Top

(* A call of a host. *)
LEMMA AtCall ==
    ASSUME HostsTyped, StreamsTyped, Hosts, NEW r \in Ranks, NEW k, At(r, k)
    PROVE  /\ stages[r] \in 1 .. Lanes /\ pc[r] \in 1 .. Len(AttnCalls[stages[r]])
           /\ Call(r) = AttnCalls[stages[r]][pc[r]] /\ Call(r).call = k
           /\ Call(r).stage \in Stages /\ LiveStage(r, Call(r).stage) = Call(r).stage
           /\ Coll(LaneColls(r, Top(r), Call(r).stage) + 1) = CollOf(Call(r))
           /\ \A t2 : OneMoreColl(r, Top(r), t2, Call(r).stage) => NextIs(r, t2, stages[r], pc[r] + 1)
  <1>1. PICK n, p : n = stages[r] /\ p = pc[r]
    OBVIOUS
  <1>2. Lanes \in 1 .. 2
    BY SizesAssumption DEF MaxLanes
  <1>3. n \in 1 .. Lanes
    BY <1>1, <1>2 DEF HostsTyped, At, Running
  <1>4. Program(r) = AttnCalls[n]
    <2>1. FfnCalls[n] = AttnCalls[n]
      BY <1>3, CallsInOrder
    <2> QED BY <1>1, <2>1 DEF Program
  <1>5. p <= Len(AttnCalls[n])
    BY <1>1, <1>4 DEF At
  <1>6. HostAt(n, p) /\ NextIs(r, Top(r), n, p)
    BY <1>1 DEF Hosts
  <1>7. Len(AttnCalls[n]) \in Nat
    <2>1. AttnCalls[n] \in Seq(Calls(n))
      BY <1>3, CallsInOrder DEF InOrder, Ahead
    <2> QED BY <2>1
  <1>8. p \in 1 .. Len(AttnCalls[n])
    <2>1. p \in 1 .. Len(AttnCalls[n]) + 1
      BY <1>3, <1>6 DEF HostAt
    <2> QED BY <1>5, <1>7, <2>1
  <1>9. PICK call : call = AttnCalls[n][p] /\ call = Call(r)
    BY <1>1, <1>4 DEF Call
  <1>10. call.call = k
    BY <1>1, <1>4, <1>9 DEF At
  <1>11. Top(r) \in [Streams -> Nat]
    BY RankTyped
  <1>12. /\ call.stage \in Stages /\ call.stage \in 0 .. n - 1
         /\ Coll(LaneColls(r, Top(r), call.stage) + 1) = CollOf(call)
         /\ \A t2 : OneMoreColl(r, Top(r), t2, call.stage) => NextIs(r, t2, n, p + 1)
    BY <1>3, <1>6, <1>8, <1>9, <1>11, NextKept
  <1>13. LiveStage(r, call.stage) = call.stage
    <2>1. n > 1 \/ call.stage = 0
      BY <1>2, <1>3, <1>12
    <2> QED BY <1>1, <2>1 DEF LiveStage
  <1> QED BY <1>1, <1>3, <1>8, <1>9, <1>10, <1>12, <1>13

(* The host of a rank has made a call: the hosts and the streams. *)
LEMMA CallMade ==
    ASSUME HostsTyped, StreamsTyped, Hosts, Level, NEW r \in Ranks, NEW k, At(r, k),
           NEW q, Queues(q), queue' = [queue EXCEPT ![r] = q],
           OneMoreColl(r, Top(r), Tops(q, count[r]), Call(r).stage),
           pc' = [pc EXCEPT ![r] = @ + 1], UNCHANGED <<stages, count>>
    PROVE  /\ StreamsTyped' /\ Hosts' /\ Level' /\ pc' \in [Ranks -> Nat]
           /\ queue'[r] = q /\ \A v \in Ranks : v /= r => queue'[v] = queue[v]
  <1>1. /\ queue'[r] = q /\ \A v \in Ranks : v /= r => queue'[v] = queue[v]
        /\ queue' = [v \in Ranks |-> queue'[v]]
    BY DEF StreamsTyped
  <1>2. StreamsTyped'
    BY <1>1 DEF StreamsTyped
  <1>3. Level'
    BY DEF Level
  <1>4. /\ pc' \in [Ranks -> Nat] /\ pc'[r] = pc[r] + 1
        /\ \A v \in Ranks : v /= r => pc'[v] = pc[v]
    BY DEF HostsTyped
  <1>5. ASSUME NEW v \in Ranks
        PROVE HostAt(stages[v], pc'[v]) /\ NextIs(v, Top(v)', stages[v], pc'[v])
    <2>1. CASE v = r
      <3>1. /\ stages[r] \in 1 .. Lanes /\ pc[r] \in 1 .. Len(AttnCalls[stages[r]])
            /\ NextIs(r, Tops(q, count[r]), stages[r], pc[r] + 1)
        BY AtCall
      <3>2. Top(r)' = Tops(q, count[r])
        BY <1>1 DEF Top
      <3>3. HostAt(stages[r], pc[r] + 1)
        <4>1. Len(AttnCalls[stages[r]]) \in Nat
          <5>1. AttnCalls[stages[r]] \in Seq(Calls(stages[r]))
            BY <3>1, CallsInOrder DEF InOrder, Ahead
          <5> QED BY <5>1
        <4>2. pc[r] + 1 \in 1 .. Len(AttnCalls[stages[r]]) + 1
          BY <3>1, <4>1
        <4> QED BY <3>1, <4>2 DEF HostAt
      <3> QED BY <1>4, <2>1, <3>1, <3>2, <3>3
    <2>2. CASE v /= r
      <3>1. Top(v)' = Top(v) /\ pc'[v] = pc[v]
        BY <1>1, <1>4, <2>2 DEF Top
      <3> QED BY <3>1 DEF Hosts
    <2> QED BY <2>1, <2>2
  <1>6. Hosts'
    BY <1>5 DEF Hosts
  <1> QED BY <1>1, <1>2, <1>3, <1>4, <1>6

(* A layer and its dispatch (send_attn_output). *)
LEMMA SendKeeps ==
    ASSUME OwnInv, NEW a \in Attns, SendAttnOutput(a)
    PROVE  OwnInv'
  <1>1. HostsTyped /\ StreamsTyped /\ DataTyped /\ Hosts /\ Level /\ AttnsHold /\ FfnsHold /\ OwnOutput
    BY DEF OwnInv
  <1>2. PICK l, s, b, c, q, t : /\ l = Call(a).layer /\ s = Call(a).stage /\ b = Allocate(a)
                                /\ c = count[a] /\ q = queue[a] /\ t = Top(a)
    OBVIOUS
  <1>3. /\ At(a, "forth") /\ a \in Ranks /\ a \notin Ffns
        /\ Main \in Streams /\ LaneStream(s) \in Streams
    <2>1. s \in Stages
      BY <1>1, <1>2, AtCall DEF SendAttnOutput, Ranks
    <2> QED BY <2>1, StreamsAre DEF SendAttnOutput, Ranks
  <1>4. /\ Call(a).call = "forth" /\ s \in Stages /\ LiveStage(a, s) = s
        /\ Coll(LaneColls(a, t, s) + 1) = CollOf(Call(a))
    BY <1>1, <1>2, <1>3, AtCall
  <1>5. /\ c \in [Streams -> Nat] /\ Queues(q) /\ t = Tops(q, c)
        /\ \A st \in Streams, k \in Nat : /\ EventOf(a, st, k) = On(st, t[st] + k)
                                          /\ EventOf(a, st, k) \in Events
    BY <1>1, <1>2, <1>3, RankTyped
  <1>6. PICK main, lane : /\ main = [Op("attention", Main, s, l, {}) EXCEPT !.block = b]
                          /\ lane = DispatchAttention(a, s, l, b)
    OBVIOUS
  <1>7. PICK q2 : q2 = Put(Put(q, main), lane)
    OBVIOUS
  <1>8. /\ b \in Blocks /\ EnqueueBoth(a, main, lane)
        /\ inUse' = [inUse EXCEPT ![a][b] = KeepAlive(a, s)]
        /\ pc' = [pc EXCEPT ![a] = @ + 1]
        /\ UNCHANGED <<steps, control, blocking, plan, stages, fork, joined, done, count, dataVars>>
    BY <1>2, <1>4, <1>6 DEF SendAttnOutput, Advance
  <1>9. queue' = [queue EXCEPT ![a] = q2]
    BY <1>2, <1>7, <1>8 DEF EnqueueBoth
  <1>10. /\ main.kind = "attention" /\ main.on = Main /\ main.stage = s /\ main.layer = l
         /\ main.block = b
    BY <1>6 DEF Op
  <1>11. /\ lane.kind = "dispatch" /\ lane.on = LaneStream(s) /\ lane.stage = s /\ lane.layer = l
         /\ lane.block = b /\ lane.after = Wait(On(Main, t[Main] + 1))
    <2>1. EventOf(a, Main, 1) = On(Main, t[Main] + 1)
      BY <1>3, <1>5
    <2> QED BY <1>6, <2>1 DEF DispatchAttention, DispatchOf, Op
  <1>12. c[inUse[a][b].stream] >= inUse[a][b].n
    BY <1>2, <1>8, AllocateIs DEF Reached
  <1>13. PICK u, u2 : u = inUse[a] /\ u2 = [u EXCEPT ![b] = KeepAlive(a, s)]
    OBVIOUS
  <1>14. DOMAIN u = Blocks /\ c[u[b].stream] >= u[b].n /\ u \in [Blocks -> Events]
    BY <1>1, <1>12, <1>13 DEF HostsTyped
  <1>15. /\ KeepAlive(a, s) \in Events
         /\ Lanes > 1 => u2 = [u EXCEPT ![b] = On(s, t[s] + 1)]
    <2>1. CASE Lanes = 1
      <3>1. Main \in Streams /\ 0 \in Nat
        BY <1>3
      <3> QED BY <2>1, <3>1, LanesAre DEF KeepAlive, NoEvent, Events
    <2>2. CASE Lanes > 1
      <3>1. LaneStream(s) = s /\ Lanes /= 1
        BY <1>4, <2>2, ManyLanes, LanesAre
      <3>2. KeepAlive(a, s) = EventOf(a, s, 1)
        BY <3>1 DEF KeepAlive
      <3>3. EventOf(a, s, 1) = On(s, t[s] + 1) /\ EventOf(a, s, 1) \in Events
        BY <1>3, <1>5, <3>1
      <3> QED BY <1>13, <3>2, <3>3
    <2> QED BY <2>1, <2>2, LanesAre
  <1>16. AttnHolds(a, c, q, u, memory[a], combined[a])
    BY <1>1, <1>2, <1>13 DEF AttnsHold
  <1>17. Coll(LaneColls(a, t, s) + 1) = [kind |-> "dispatch", layer |-> l]
    BY <1>2, <1>4 DEF CollOf
  <1>18. PICK mem, com : mem = memory[a] /\ com = combined[a]
    OBVIOUS
  <1>19. /\ Queues(q2) /\ AttnHolds(a, c, q2, u2, mem, com)
         /\ OneMoreColl(a, t, Tops(q2, c), s)
    BY <1>4, <1>5, <1>7, <1>8, <1>10, <1>11, <1>14, <1>15, <1>16, <1>17, <1>18, AttnSends
  <1>20. /\ StreamsTyped' /\ Hosts' /\ Level' /\ pc' \in [Ranks -> Nat]
         /\ queue'[a] = q2 /\ \A v \in Ranks : v /= a => queue'[v] = queue[v]
    <2>1. UNCHANGED <<stages, count>>
      BY <1>8
    <2> QED BY <1>1, <1>2, <1>3, <1>8, <1>9, <1>19, <2>1, CallMade
  <1>21. /\ inUse' \in [Attns -> [Blocks -> Events]] /\ inUse'[a] = u2
         /\ \A v \in Attns : v /= a => inUse'[v] = inUse[v]
    <2>1. inUse' = [inUse EXCEPT ![a] = u2]
      BY <1>8, <1>13
    <2>2. u2 \in [Blocks -> Events]
      BY <1>13, <1>14, <1>15
    <2> QED BY <1>1, <2>1, <2>2 DEF HostsTyped
  <1>22. HostsTyped'
    BY <1>1, <1>8, <1>20, <1>21 DEF HostsTyped
  <1>23. UNCHANGED <<memory, rows, out, combined, result, count, done>>
    BY <1>8 DEF dataVars
  <1>24. DataTyped' /\ OwnOutput'
    BY <1>1, <1>23 DEF DataTyped, Table, OwnOutput
  <1>25. AttnsHold'
    <2> SUFFICES ASSUME NEW v \in Attns
                 PROVE  AttnHolds(v, count[v], queue'[v], inUse'[v], memory[v], combined[v])
      BY <1>23 DEF AttnsHold
    <2>1. CASE v = a
      BY <1>2, <1>18, <1>19, <1>20, <1>21, <2>1
    <2>2. CASE v /= a
      <3>1. queue'[v] = queue[v] /\ inUse'[v] = inUse[v]
        BY <1>20, <1>21, <2>2 DEF Ranks
      <3> QED BY <1>1, <3>1 DEF AttnsHold
    <2> QED BY <2>1, <2>2
  <1>26. FfnsHold'
    <2> SUFFICES ASSUME NEW f \in Ffns
                 PROVE  FfnHolds(count[f], queue'[f], done[f].experts, rows[f], out[f])
      BY <1>23 DEF FfnsHold
    <2>1. queue'[f] = queue[f]
      BY <1>3, <1>20 DEF Ranks
    <2> QED BY <1>1, <2>1 DEF FfnsHold
  <1> QED BY <1>20, <1>22, <1>24, <1>25, <1>26 DEF OwnInv

(* A combine and its copy (recv_ffn_output). *)
LEMMA RecvKeeps ==
    ASSUME OwnInv, NEW a \in Attns, RecvFfnOutput(a)
    PROVE  OwnInv'
  <1>1. HostsTyped /\ StreamsTyped /\ DataTyped /\ Hosts /\ Level /\ AttnsHold /\ FfnsHold /\ OwnOutput
    BY DEF OwnInv
  <1>2. PICK l, s, c, q, t : /\ l = Call(a).layer /\ s = Call(a).stage
                             /\ c = count[a] /\ q = queue[a] /\ t = Top(a)
    OBVIOUS
  <1>3. At(a, "back") /\ a \in Ranks /\ a \notin Ffns
    BY StreamsAre DEF RecvFfnOutput, Ranks
  <1>4. /\ Call(a).call = "back" /\ s \in Stages /\ LiveStage(a, s) = s
        /\ Coll(LaneColls(a, t, s) + 1) = CollOf(Call(a))
    BY <1>1, <1>2, <1>3, AtCall
  <1>5. /\ c \in [Streams -> Nat] /\ Queues(q) /\ t = Tops(q, c)
        /\ \A st \in Streams, k \in Nat : /\ EventOf(a, st, k) = On(st, t[st] + k)
                                          /\ EventOf(a, st, k) \in Events
    BY <1>1, <1>2, <1>3, RankTyped
  <1>6. PICK lane, main : /\ lane = Op("combine", LaneStream(s), s, l, {})
                          /\ main = Op("copy", Main, s, l, Wait(EventOf(a, LaneStream(s), 1)))
    OBVIOUS
  <1>7. PICK q2 : q2 = Put(Put(q, lane), main)
    OBVIOUS
  <1>8. /\ EnqueueBoth(a, lane, main)
        /\ pc' = [pc EXCEPT ![a] = @ + 1]
        /\ UNCHANGED <<steps, control, blocking, plan, stages, inUse, fork, joined, done, count,
                       dataVars>>
    BY <1>2, <1>4, <1>6 DEF RecvFfnOutput, CombineAttention, Advance
  <1>9. queue' = [queue EXCEPT ![a] = q2]
    BY <1>2, <1>7, <1>8 DEF EnqueueBoth
  <1>10. lane.kind = "combine" /\ lane.on = LaneStream(s) /\ lane.stage = s /\ lane.layer = l
    BY <1>6 DEF Op
  <1>11. /\ main.kind = "copy" /\ main.on = Main /\ main.stage = s /\ main.layer = l
         /\ main.after = Wait(On(LaneStream(s), t[LaneStream(s)] + 1))
    <2>1. EventOf(a, LaneStream(s), 1) = On(LaneStream(s), t[LaneStream(s)] + 1)
      BY <1>4, <1>5, StreamsAre
    <2> QED BY <1>6, <2>1 DEF Op
  <1>12. AttnHolds(a, c, q, inUse[a], memory[a], combined[a])
    BY <1>1, <1>2 DEF AttnsHold
  <1>13. Coll(LaneColls(a, t, s) + 1) = [kind |-> "combine", layer |-> l]
    BY <1>2, <1>4 DEF CollOf
  <1>14. PICK u, mem, com : u = inUse[a] /\ mem = memory[a] /\ com = combined[a]
    OBVIOUS
  <1>15. /\ Queues(q2) /\ AttnHolds(a, c, q2, u, mem, com)
         /\ OneMoreColl(a, t, Tops(q2, c), s)
    BY <1>4, <1>5, <1>7, <1>10, <1>11, <1>12, <1>13, <1>14, AttnReceives
  <1>16. /\ StreamsTyped' /\ Hosts' /\ Level' /\ pc' \in [Ranks -> Nat]
         /\ queue'[a] = q2 /\ \A v \in Ranks : v /= a => queue'[v] = queue[v]
    <2>1. UNCHANGED <<stages, count>>
      BY <1>8
    <2> QED BY <1>1, <1>2, <1>3, <1>8, <1>9, <1>15, <2>1, CallMade
  <1>17. HostsTyped'
    BY <1>1, <1>8, <1>16 DEF HostsTyped
  <1>18. UNCHANGED <<memory, rows, out, combined, result, count, done, inUse>>
    BY <1>8 DEF dataVars
  <1>19. DataTyped' /\ OwnOutput'
    BY <1>1, <1>18 DEF DataTyped, Table, OwnOutput
  <1>20. AttnsHold'
    <2> SUFFICES ASSUME NEW v \in Attns
                 PROVE  AttnHolds(v, count[v], queue'[v], inUse[v], memory[v], combined[v])
      BY <1>18 DEF AttnsHold
    <2>1. CASE v = a
      BY <1>2, <1>14, <1>15, <1>16, <2>1
    <2>2. CASE v /= a
      <3>1. queue'[v] = queue[v]
        BY <1>16, <2>2 DEF Ranks
      <3> QED BY <1>1, <3>1 DEF AttnsHold
    <2> QED BY <2>1, <2>2
  <1>21. FfnsHold'
    <2> SUFFICES ASSUME NEW f \in Ffns
                 PROVE  FfnHolds(count[f], queue'[f], done[f].experts, rows[f], out[f])
      BY <1>18 DEF FfnsHold
    <2>1. queue'[f] = queue[f]
      BY <1>3, <1>16 DEF Ranks
    <2> QED BY <1>1, <2>1 DEF FfnsHold
  <1> QED BY <1>16, <1>17, <1>19, <1>20, <1>21 DEF OwnInv

(* A host has called: what the FFN ranks and the data keep. *)
LEMMA FfnCalled ==
    ASSUME OwnInv, NEW f \in Ffns, StreamsTyped', Hosts', Level', pc' \in [Ranks -> Nat],
           \A v \in Ranks : v /= f => queue'[v] = queue[v],
           done' \in [Ffns -> [experts : [Stages -> Events], lanes : SUBSET Events]],
           \A v \in Ffns : v /= f => done'[v] = done[v],
           FfnHolds(count[f], queue'[f], done'[f].experts, rows[f], out[f]),
           UNCHANGED <<control, stages, inUse, count, memory, rows, out, combined, result>>
    PROVE  OwnInv'
  <1>1. HostsTyped /\ DataTyped /\ AttnsHold /\ FfnsHold /\ OwnOutput
    BY DEF OwnInv
  <1>2. HostsTyped'
    BY <1>1 DEF HostsTyped
  <1>3. DataTyped' /\ OwnOutput'
    BY <1>1 DEF DataTyped, Table, OwnOutput
  <1>4. AttnsHold'
    <2> SUFFICES ASSUME NEW a \in Attns
                 PROVE  AttnHolds(a, count[a], queue'[a], inUse[a], memory[a], combined[a])
      BY DEF AttnsHold
    <2>1. queue'[a] = queue[a]
      BY StreamsAre DEF Ranks
    <2> QED BY <1>1, <2>1 DEF AttnsHold
  <1>5. FfnsHold'
    <2> SUFFICES ASSUME NEW v \in Ffns
                 PROVE  FfnHolds(count[v], queue'[v], done'[v].experts, rows[v], out[v])
      BY DEF FfnsHold
    <2>1. CASE v = f
      BY <2>1
    <2>2. CASE v /= f
      <3>1. queue'[v] = queue[v] /\ done'[v] = done[v]
        BY <2>2 DEF Ranks
      <3> QED BY <1>1, <3>1 DEF FfnsHold
    <2> QED BY <2>1, <2>2
  <1> QED BY <1>2, <1>3, <1>4, <1>5 DEF OwnInv

(* A dispatch and its experts (recv_attn_output and run_experts). *)
LEMMA RowsKeep ==
    ASSUME OwnInv, NEW f \in Ffns, RecvAttnOutput(f)
    PROVE  OwnInv'
  <1>1. HostsTyped /\ StreamsTyped /\ DataTyped /\ Hosts /\ Level /\ AttnsHold /\ FfnsHold /\ OwnOutput
    BY DEF OwnInv
  <1>2. PICK l, s, c, q, t : /\ l = Call(f).layer /\ s = Call(f).stage
                             /\ c = count[f] /\ q = queue[f] /\ t = Top(f)
    OBVIOUS
  <1>3. At(f, "forth") /\ f \in Ranks /\ Main \in Streams
    BY StreamsAre DEF RecvAttnOutput, Ranks
  <1>4. /\ Call(f).call = "forth" /\ s \in Stages
        /\ Coll(LaneColls(f, t, s) + 1) = CollOf(Call(f))
    BY <1>1, <1>2, <1>3, AtCall
  <1>5. /\ c \in [Streams -> Nat] /\ Queues(q) /\ t = Tops(q, c)
        /\ \A st \in Streams, k \in Nat : /\ EventOf(f, st, k) = On(st, t[st] + k)
                                          /\ EventOf(f, st, k) \in Events
    BY <1>1, <1>2, <1>3, RankTyped
  <1>6. PICK lane, main : /\ lane = DispatchOf(f, s, l, Join(f, s))
                          /\ main = RunExperts(s, l, EventOf(f, LaneStream(s), 1))
    OBVIOUS
  <1>7. PICK q2 : q2 = Put(Put(q, lane), main)
    OBVIOUS
  <1>8. PICK e : e = EventOf(f, Main, IF Lanes = 1 THEN 2 ELSE 1)
    OBVIOUS
  <1>9. /\ EnqueueBoth(f, lane, main)
        /\ done' = [done EXCEPT ![f].experts[s] = e]
        /\ pc' = [pc EXCEPT ![f] = @ + 1]
        /\ UNCHANGED <<steps, control, blocking, plan, stages, pending, inUse, count, dataVars>>
    BY <1>2, <1>6, <1>8 DEF RecvAttnOutput, Advance
  <1>10. queue' = [queue EXCEPT ![f] = q2]
    BY <1>2, <1>7, <1>9 DEF EnqueueBoth
  <1>11. lane.kind = "dispatch" /\ lane.on = LaneStream(s) /\ lane.stage = s /\ lane.layer = l
    BY <1>6 DEF DispatchOf, Op
  <1>12. /\ main.kind = "experts" /\ main.on = Main /\ main.stage = s /\ main.layer = l
         /\ main.after = Wait(On(LaneStream(s), t[LaneStream(s)] + 1))
    <2>1. EventOf(f, LaneStream(s), 1) = On(LaneStream(s), t[LaneStream(s)] + 1)
      BY <1>4, <1>5, StreamsAre
    <2> QED BY <1>6, <2>1 DEF RunExperts, Op
  <1>13. e \in Events /\ (Lanes > 1 => e = On(Main, t[Main] + 1))
    <2>1. CASE Lanes = 1
      <3>1. e = EventOf(f, Main, 2) /\ 2 \in Nat
        BY <1>8, <2>1
      <3> QED BY <1>3, <1>5, <2>1, <3>1, LanesAre
    <2>2. CASE Lanes > 1
      <3>1. e = EventOf(f, Main, 1) /\ 1 \in Nat
        BY <1>8, <2>2, LanesAre
      <3> QED BY <1>3, <1>5, <3>1
    <2> QED BY <2>1, <2>2, LanesAre
  <1>14. PICK x, x2 : x = done[f].experts /\ x2 = [x EXCEPT ![s] = e]
    OBVIOUS
  <1>15. /\ x \in [Stages -> Events] /\ x2 \in [Stages -> Events] /\ x2[s] = e
         /\ \A z \in Stages : z /= s => x2[z] = x[z]
    <2>1. x \in [Stages -> Events]
      BY <1>1, <1>14 DEF HostsTyped
    <2> QED BY <1>4, <1>13, <1>14, <2>1
  <1>16. /\ done' \in [Ffns -> [experts : [Stages -> Events], lanes : SUBSET Events]]
         /\ done'[f].experts = x2 /\ \A v \in Ffns : v /= f => done'[v] = done[v]
    <2>1. PICK d : d = [done[f] EXCEPT !.experts = x2]
      OBVIOUS
    <2>2. done' = [done EXCEPT ![f] = d]
      BY <1>9, <1>14, <2>1
    <2>3. done \in [Ffns -> [experts : [Stages -> Events], lanes : SUBSET Events]]
      BY <1>1 DEF HostsTyped
    <2>4. d \in [experts : [Stages -> Events], lanes : SUBSET Events] /\ d.experts = x2
      BY <1>15, <2>1, <2>3
    <2> QED BY <2>2, <2>3, <2>4
  <1>17. FfnHolds(c, q, x, rows[f], out[f])
    BY <1>1, <1>2, <1>14 DEF FfnsHold
  <1>18. Coll(LaneColls(f, t, s) + 1) = [kind |-> "dispatch", layer |-> l]
    BY <1>2, <1>4 DEF CollOf
  <1>19. PICK row, res : row = rows[f] /\ res = out[f]
    OBVIOUS
  <1>20. /\ Queues(q2) /\ FfnHolds(c, q2, x2, row, res)
         /\ OneMoreColl(f, t, Tops(q2, c), s)
    <2>1. Lanes > 1 => x2[s] = On(Main, t[Main] + 1)
      BY <1>13, <1>15
    <2>2. FfnHolds(c, q, x, row, res)
      BY <1>17, <1>19
    <2> QED BY <1>4, <1>5, <1>7, <1>11, <1>12, <1>15, <1>18, <2>1, <2>2, FfnReceives
  <1>21. /\ StreamsTyped' /\ Hosts' /\ Level' /\ pc' \in [Ranks -> Nat]
         /\ queue'[f] = q2 /\ \A v \in Ranks : v /= f => queue'[v] = queue[v]
    <2>1. UNCHANGED <<stages, count>>
      BY <1>9
    <2> QED BY <1>1, <1>2, <1>3, <1>9, <1>10, <1>20, <2>1, CallMade
  <1>22. UNCHANGED <<control, stages, inUse, count, memory, rows, out, combined, result>>
    BY <1>9 DEF dataVars
  <1>23. FfnHolds(count[f], queue'[f], done'[f].experts, rows[f], out[f])
    BY <1>2, <1>16, <1>19, <1>20, <1>21
  <1> QED BY <1>16, <1>21, <1>22, <1>23, FfnCalled

(* A combine of an FFN rank (send_ffn_output). *)
LEMMA OutputKeeps ==
    ASSUME OwnInv, NEW f \in Ffns, SendFfnOutput(f)
    PROVE  OwnInv'
  <1>1. HostsTyped /\ StreamsTyped /\ DataTyped /\ Hosts /\ Level /\ AttnsHold /\ FfnsHold /\ OwnOutput
    BY DEF OwnInv
  <1>2. PICK l, s, c, q, t : /\ l = Call(f).layer /\ s = Call(f).stage
                             /\ c = count[f] /\ q = queue[f] /\ t = Top(f)
    OBVIOUS
  <1>3. At(f, "back") /\ f \in Ranks
    BY DEF SendFfnOutput, Ranks
  <1>4. /\ Call(f).call = "back" /\ s \in Stages
        /\ Coll(LaneColls(f, t, s) + 1) = CollOf(Call(f))
    BY <1>1, <1>2, <1>3, AtCall
  <1>5. /\ c \in [Streams -> Nat] /\ Queues(q) /\ t = Tops(q, c)
        /\ \A st \in Streams, k \in Nat : /\ EventOf(f, st, k) = On(st, t[st] + k)
                                          /\ EventOf(f, st, k) \in Events
    BY <1>1, <1>2, <1>3, RankTyped
  <1>6. PICK lane, e : /\ lane = Op("combine", LaneStream(s), s, l, ExpertsDone(f, s))
                       /\ e = EventOf(f, LaneStream(s), 1)
    OBVIOUS
  <1>7. PICK q2 : q2 = Put(q, lane)
    OBVIOUS
  <1>8. /\ Enqueue(f, lane)
        /\ done' = [done EXCEPT ![f].lanes = {y \in @ : y.stream /= e.stream} \cup {e}]
        /\ pc' = [pc EXCEPT ![f] = @ + 1]
        /\ UNCHANGED <<steps, control, blocking, plan, stages, pending, inUse, count, dataVars>>
    BY <1>2, <1>6 DEF SendFfnOutput, Advance
  <1>9. queue' = [queue EXCEPT ![f] = q2]
    BY <1>2, <1>7, <1>8 DEF Enqueue
  <1>10. PICK x : x = done[f].experts
    OBVIOUS
  <1>11. /\ lane.kind = "combine" /\ lane.on = LaneStream(s) /\ lane.stage = s /\ lane.layer = l
         /\ lane.after = Wait(x[s])
    BY <1>6, <1>10 DEF Op, ExpertsDone
  <1>12. e \in Events
    BY <1>4, <1>5, <1>6, StreamsAre
  <1>13. /\ done' \in [Ffns -> [experts : [Stages -> Events], lanes : SUBSET Events]]
         /\ done'[f].experts = x /\ \A v \in Ffns : v /= f => done'[v] = done[v]
    <2>1. PICK m : m = {y \in done[f].lanes : y.stream /= e.stream} \cup {e}
      OBVIOUS
    <2>2. PICK d : d = [done[f] EXCEPT !.lanes = m]
      OBVIOUS
    <2>3. done' = [done EXCEPT ![f] = d]
      BY <1>8, <2>1, <2>2
    <2>4. done \in [Ffns -> [experts : [Stages -> Events], lanes : SUBSET Events]]
      BY <1>1 DEF HostsTyped
    <2>5. m \in SUBSET Events
      <3>1. done[f].lanes \in SUBSET Events
        BY <2>4
      <3> QED BY <1>12, <2>1, <3>1
    <2>6. d \in [experts : [Stages -> Events], lanes : SUBSET Events] /\ d.experts = x
      BY <1>10, <2>2, <2>4, <2>5
    <2> QED BY <2>3, <2>4, <2>6
  <1>14. FfnHolds(c, q, x, rows[f], out[f])
    BY <1>1, <1>2, <1>10 DEF FfnsHold
  <1>15. Coll(LaneColls(f, t, s) + 1) = [kind |-> "combine", layer |-> l]
    BY <1>2, <1>4 DEF CollOf
  <1>16. PICK row, res : row = rows[f] /\ res = out[f]
    OBVIOUS
  <1>17. /\ Queues(q2) /\ FfnHolds(c, q2, x, row, res)
         /\ OneMoreColl(f, t, Tops(q2, c), s)
    <2>1. FfnHolds(c, q, x, row, res)
      BY <1>14, <1>16
    <2> QED BY <1>4, <1>5, <1>7, <1>11, <1>15, <2>1, FfnReturns
  <1>18. /\ StreamsTyped' /\ Hosts' /\ Level' /\ pc' \in [Ranks -> Nat]
         /\ queue'[f] = q2 /\ \A v \in Ranks : v /= f => queue'[v] = queue[v]
    <2>1. UNCHANGED <<stages, count>>
      BY <1>8
    <2> QED BY <1>1, <1>2, <1>3, <1>8, <1>9, <1>17, <2>1, CallMade
  <1>19. UNCHANGED <<control, stages, inUse, count, memory, rows, out, combined, result>>
    BY <1>8 DEF dataVars
  <1>20. FfnHolds(count[f], queue'[f], done'[f].experts, rows[f], out[f])
    BY <1>2, <1>10, <1>13, <1>16, <1>17, <1>18
  <1> QED BY <1>13, <1>18, <1>19, <1>20, FfnCalled

(* an entry of a function, and of a table, is set *)
IsSet(f, x, v, g) == g = [f EXCEPT ![x] = v]
IsSetAt(f, x, y, v, g) == g = [f EXCEPT ![x][y] = v]
SameColls(r, t, t2) == \A s \in Stages : LaneColls(r, t2, s) = LaneColls(r, t, s)

(* An entry of a table is set. *)
LEMMA TableSet ==
    ASSUME NEW f, NEW A, NEW B, Table(f, A, B), NEW x \in A, NEW y, NEW v,
           NEW g, IsSetAt(f, x, y, v, g)
    PROVE  /\ Table(g, A, B) /\ (y \in B => g[x][y] = v)
           /\ \A z \in B : z /= y => g[x][z] = f[x][z]
           /\ \A w \in A : w /= x => g[w] = f[w]
  <1>1. PICK h : h = [f[x] EXCEPT ![y] = v]
    OBVIOUS
  <1>2. g = [f EXCEPT ![x] = h]
    BY <1>1 DEF IsSetAt
  <1>3. DOMAIN f = A /\ f = [w \in A |-> f[w]] /\ \A w \in A : f[w] = [z \in B |-> f[w][z]]
    BY DEF Table
  <1>4. /\ g = [w \in A |-> g[w]] /\ g[x] = h /\ \A w \in A : w /= x => g[w] = f[w]
    BY <1>2, <1>3
  <1>5. DOMAIN f[x] = B
    BY <1>3
  <1>6. /\ h = [z \in B |-> h[z]] /\ (y \in B => h[y] = v)
        /\ \A z \in B : z /= y => h[z] = f[x][z]
    BY <1>1, <1>5
  <1>7. \A w \in A : g[w] = [z \in B |-> g[w][z]]
    BY <1>3, <1>4, <1>6
  <1> QED BY <1>4, <1>6, <1>7 DEF Table

(* An operation of a rank alone has run: the hosts and the streams. *)
LEMMA StreamRan ==
    ASSUME HostsTyped, StreamsTyped, Hosts, Level, NEW r \in Ranks, NEW c2, NEW q2,
           IsSet(queue, r, q2, queue'), IsSet(count, r, c2, count'),
           Queues(q2), c2 \in [Streams -> Nat], Tops(q2, c2) = Tops(queue[r], count[r]),
           SameColls(r, count[r], c2),
           UNCHANGED <<control, stages, pc, inUse, done>>
    PROVE  /\ HostsTyped' /\ StreamsTyped' /\ Hosts' /\ Level'
           /\ queue'[r] = q2 /\ \A v \in Ranks : v /= r => queue'[v] = queue[v]
           /\ count'[r] = c2 /\ \A v \in Ranks : v /= r => count'[v] = count[v]
  <1>1. /\ queue'[r] = q2 /\ \A v \in Ranks : v /= r => queue'[v] = queue[v]
        /\ queue' = [v \in Ranks |-> queue'[v]]
    BY DEF StreamsTyped, IsSet
  <1>2. /\ count'[r] = c2 /\ \A v \in Ranks : v /= r => count'[v] = count[v]
        /\ count' \in [Ranks -> [Streams -> Nat]]
    BY DEF StreamsTyped, IsSet
  <1>3. StreamsTyped'
    <2>1. \A v \in Ranks : Queues(queue'[v])
      BY <1>1 DEF StreamsTyped
    <2> QED BY <1>1, <1>2, <2>1 DEF StreamsTyped
  <1>4. HostsTyped'
    BY DEF HostsTyped
  <1>5. ASSUME NEW v \in Ranks
        PROVE  /\ Tops(queue'[v], count'[v]) = Tops(queue[v], count[v])
               /\ \A s \in Stages : LaneColls(v, count'[v], s) = LaneColls(v, count[v], s)
    <2>1. CASE v = r
      BY <1>1, <1>2, <2>1 DEF SameColls
    <2>2. CASE v /= r
      BY <1>1, <1>2, <2>2
    <2> QED BY <2>1, <2>2
  <1>6. Level'
    BY <1>5 DEF Level
  <1>7. Hosts'
    <2> SUFFICES ASSUME NEW v \in Ranks
                 PROVE HostAt(stages[v], pc[v]) /\ NextIs(v, Top(v)', stages[v], pc[v])
      BY DEF Hosts
    <2>1. Top(v)' = Top(v)
      BY <1>5 DEF Top
    <2> QED BY <2>1 DEF Hosts
  <1> QED BY <1>1, <1>2, <1>3, <1>4, <1>6, <1>7

(* An operation at the head of a stream that runs. *)
LEMMA HeadOf ==
    ASSUME StreamsTyped, NEW r \in Ranks, NEW st \in Streams, Runnable(r, st),
           NEW c2, c2 = [count[r] EXCEPT ![st] = @ + 1],
           NEW q2, q2 = [queue[r] EXCEPT ![st] = Tail(@)]
    PROVE  /\ HeadRuns(count[r], queue[r], st, Head(queue[r][st]), c2, q2)
           /\ c2 \in [Streams -> Nat]
  <1>1. TakesHead(count[r], queue[r], st, c2, q2)
    BY DEF TakesHead, Runnable
  <1>2. \A e \in Head(queue[r][st]).after : count[r][e.stream] >= e.n
    BY DEF Runnable, Reached
  <1>3. c2 \in [Streams -> Nat]
    BY DEF StreamsTyped
  <1> QED BY <1>1, <1>2, <1>3 DEF HeadRuns

(* A layer or a copy of an Attention rank. *)
LEMMA AttnRuns ==
    ASSUME OwnInv, NEW a \in Attns, NEW st \in Streams, Compute(a, st)
    PROVE  OwnInv'
  <1>1. HostsTyped /\ StreamsTyped /\ DataTyped /\ Hosts /\ Level /\ AttnsHold /\ FfnsHold /\ OwnOutput
    BY DEF OwnInv
  <1>2. PICK c, q, c2, q2, op : /\ c = count[a] /\ q = queue[a] /\ op = Head(q[st])
                                /\ c2 = [c EXCEPT ![st] = @ + 1]
                                /\ q2 = [q EXCEPT ![st] = Tail(@)]
    OBVIOUS
  <1>3. /\ Runnable(a, st) /\ op.kind \notin Collectives
        /\ op.kind /= "attention" => memory' = memory
        /\ op.kind = "attention" =>
             memory' = [memory EXCEPT ![a][op.block] = Row(a, op.stage, op.layer)]
        /\ op.kind /= "experts" => out' = out
        /\ op.kind /= "copy" => result' = result
        /\ op.kind = "copy" =>
             result' = [result EXCEPT ![a][op.stage] =
                           [layer |-> op.layer, parts |-> combined[a][op.stage]]]
        /\ queue' = [queue EXCEPT ![a] = q2] /\ count' = [count EXCEPT ![a] = c2]
        /\ UNCHANGED <<steps, control, blocking, hostVars, rows, combined>>
    BY <1>2 DEF Compute, Row
  <1>4. a \in Ranks /\ a \notin Ffns
    BY StreamsAre DEF Ranks
  <1>5. HeadRuns(c, q, st, op, c2, q2) /\ c2 \in [Streams -> Nat]
    BY <1>1, <1>2, <1>3, <1>4, HeadOf
  <1>6. c \in [Streams -> Nat] /\ Queues(q)
    BY <1>1, <1>2, <1>4 DEF StreamsTyped
  <1>7. PICK u, mem, com, mem2 : u = inUse[a] /\ mem = memory[a] /\ com = combined[a] /\ mem2 = memory'[a]
    OBVIOUS
  <1>8. AttnHolds(a, c, q, u, mem, com)
    BY <1>1, <1>2, <1>7 DEF AttnsHold
  <1>9. /\ Table(memory', Attns, Blocks)
        /\ \A v \in Attns : v /= a => memory'[v] = memory[v]
        /\ op.kind /= "attention" => mem2 = mem
        /\ op.kind = "attention" /\ op.block \in Blocks => mem2[op.block] = Row(a, op.stage, op.layer)
        /\ op.kind = "attention" => \A b \in Blocks : b /= op.block => mem2[b] = mem[b]
    <2>1. Table(memory, Attns, Blocks)
      BY <1>1 DEF DataTyped
    <2>2. CASE op.kind /= "attention"
      BY <1>3, <1>7, <2>1, <2>2
    <2>3. CASE op.kind = "attention"
      <3>1. PICK y, v : y = op.block /\ v = Row(a, op.stage, op.layer)
        OBVIOUS
      <3>2. IsSetAt(memory, a, y, v, memory')
        BY <1>3, <2>3, <3>1 DEF IsSetAt
      <3>3. /\ Table(memory', Attns, Blocks) /\ (y \in Blocks => memory'[a][y] = v)
            /\ \A z \in Blocks : z /= y => memory'[a][z] = memory[a][z]
            /\ \A w \in Attns : w /= a => memory'[w] = memory[w]
        BY <2>1, <3>2, TableSet
      <3> QED BY <1>7, <2>3, <3>1, <3>3
    <2> QED BY <2>2, <2>3
  <1>10. /\ Queues(q2) /\ AttnHolds(a, c2, q2, u, mem2, com) /\ Tops(q2, c2) = Tops(q, c)
         /\ \A s \in Stages : LaneColls(a, c2, s) = LaneColls(a, c, s)
         /\ op.kind \in {"attention", "copy"}
         /\ op.kind = "copy" => op.stage \in Stages /\ Brought(com, a, op.stage, op.layer)
    BY <1>3, <1>5, <1>6, <1>8, <1>9, AttnComputes
  <1>11. UNCHANGED <<control, stages, pc, inUse, done, rows, combined>>
    BY <1>3 DEF hostVars
  <1>12. /\ HostsTyped' /\ StreamsTyped' /\ Hosts' /\ Level'
         /\ queue'[a] = q2 /\ \A v \in Ranks : v /= a => queue'[v] = queue[v]
         /\ count'[a] = c2 /\ \A v \in Ranks : v /= a => count'[v] = count[v]
    <2>1. IsSet(queue, a, q2, queue') /\ IsSet(count, a, c2, count')
      BY <1>3 DEF IsSet
    <2>2. SameColls(a, c, c2)
      BY <1>10 DEF SameColls
    <2>3. Tops(q2, c2) = Tops(queue[a], count[a]) /\ SameColls(a, count[a], c2) /\ Queues(q2)
      BY <1>2, <1>10, <2>2
    <2>4. UNCHANGED <<control, stages, pc, inUse, done>>
      BY <1>11
    <2> QED BY <1>1, <1>4, <1>5, <2>1, <2>3, <2>4, StreamRan
  <1>13. out' = out
    BY <1>3, <1>10
  <1>14. /\ Table(result', Attns, Stages)
         /\ \A v \in Attns, s \in Stages :
              \/ result'[v][s] = result[v][s]
              \/ /\ v = a /\ s = op.stage /\ op.kind = "copy"
                 /\ result'[v][s] = [layer |-> op.layer, parts |-> com[s]]
    <2>1. Table(result, Attns, Stages)
      BY <1>1 DEF DataTyped
    <2>2. CASE op.kind /= "copy"
      BY <1>3, <2>1, <2>2
    <2>3. CASE op.kind = "copy"
      <3>1. PICK y, rec : y = op.stage /\ rec = [layer |-> op.layer, parts |-> combined[a][op.stage]]
        OBVIOUS
      <3>2. IsSetAt(result, a, y, rec, result')
        BY <1>3, <2>3, <3>1 DEF IsSetAt
      <3>3. /\ Table(result', Attns, Stages)
            /\ y \in Stages => result'[a][y] = rec
            /\ \A s \in Stages : s /= y => result'[a][s] = result[a][s]
            /\ \A v \in Attns : v /= a => result'[v] = result[v]
        BY <2>1, <3>2, TableSet
      <3>4. rec = [layer |-> op.layer, parts |-> com[y]]
        BY <1>7, <3>1
      <3> QED BY <2>3, <3>1, <3>3, <3>4
    <2> QED BY <2>2, <2>3
  <1>15. OwnOutput'
    <2> SUFFICES ASSUME NEW v \in Attns, NEW s \in Stages, result'[v][s] /= None, NEW f \in Ffns
                 PROVE  result'[v][s].parts[f] = [rank |-> v, stage |-> s, layer |-> result'[v][s].layer]
      BY DEF OwnOutput
    <2>1. CASE result'[v][s] = result[v][s]
      BY <1>1, <2>1 DEF OwnOutput
    <2>2. CASE /\ v = a /\ s = op.stage /\ op.kind = "copy"
               /\ result'[v][s] = [layer |-> op.layer, parts |-> com[s]]
      <3>1. com[s][f] = Row(v, s, op.layer)
        BY <1>10, <2>2 DEF Brought
      <3> QED BY <2>2, <3>1 DEF Row
    <2> QED BY <1>14, <2>1, <2>2
  <1>16. DataTyped'
    BY <1>1, <1>9, <1>11, <1>13, <1>14 DEF DataTyped, Table
  <1>17. AttnsHold'
    <2> SUFFICES ASSUME NEW v \in Attns
                 PROVE  AttnHolds(v, count'[v], queue'[v], inUse[v], memory'[v], combined[v])
      BY <1>11 DEF AttnsHold
    <2>1. CASE v = a
      BY <1>7, <1>10, <1>12, <2>1
    <2>2. CASE v /= a
      <3>1. queue'[v] = queue[v] /\ count'[v] = count[v] /\ memory'[v] = memory[v]
        BY <1>9, <1>12, <2>2 DEF Ranks
      <3> QED BY <1>1, <3>1 DEF AttnsHold
    <2> QED BY <2>1, <2>2
  <1>18. FfnsHold'
    <2> SUFFICES ASSUME NEW f \in Ffns
                 PROVE  FfnHolds(count'[f], queue'[f], done[f].experts, rows[f], out[f])
      BY <1>11, <1>13, SMTT(40) DEF FfnsHold
    <2>1. queue'[f] = queue[f] /\ count'[f] = count[f]
      BY <1>4, <1>12 DEF Ranks
    <2> QED BY <1>1, <2>1 DEF FfnsHold
  <1> QED BY <1>12, <1>15, <1>16, <1>17, <1>18 DEF OwnInv

(* The experts or a join of an FFN rank. *)
LEMMA FfnRuns ==
    ASSUME OwnInv, NEW f \in Ffns, NEW st \in Streams, Compute(f, st)
    PROVE  OwnInv'
  <1>1. HostsTyped /\ StreamsTyped /\ DataTyped /\ Hosts /\ Level /\ AttnsHold /\ FfnsHold /\ OwnOutput
    BY DEF OwnInv
  <1>2. PICK c, q, c2, q2, op : /\ c = count[f] /\ q = queue[f] /\ op = Head(q[st])
                                /\ c2 = [c EXCEPT ![st] = @ + 1]
                                /\ q2 = [q EXCEPT ![st] = Tail(@)]
    OBVIOUS
  <1>3. /\ Runnable(f, st) /\ op.kind \notin Collectives
        /\ op.kind /= "attention" => memory' = memory
        /\ op.kind /= "experts" => out' = out
        /\ op.kind = "experts" => out' = [out EXCEPT ![f][op.stage] = rows[f][op.stage]]
        /\ op.kind /= "copy" => result' = result
        /\ queue' = [queue EXCEPT ![f] = q2] /\ count' = [count EXCEPT ![f] = c2]
        /\ UNCHANGED <<steps, control, blocking, hostVars, rows, combined>>
    BY <1>2 DEF Compute
  <1>4. f \in Ranks
    BY DEF Ranks
  <1>5. HeadRuns(c, q, st, op, c2, q2) /\ c2 \in [Streams -> Nat]
    BY <1>1, <1>2, <1>3, <1>4, HeadOf
  <1>6. c \in [Streams -> Nat] /\ Queues(q)
    BY <1>1, <1>2, <1>4 DEF StreamsTyped
  <1>7. PICK x, row, res, res2 : x = done[f].experts /\ row = rows[f] /\ res = out[f] /\ res2 = out'[f]
    OBVIOUS
  <1>8. FfnHolds(c, q, x, row, res)
    BY <1>1, <1>2, <1>7 DEF FfnsHold
  <1>9. /\ Table(out', Ffns, Stages)
        /\ \A v \in Ffns : v /= f => out'[v] = out[v]
        /\ op.kind /= "experts" => res2 = res
        /\ op.kind = "experts" /\ op.stage \in Stages => res2[op.stage] = row[op.stage]
        /\ op.kind = "experts" => \A z \in Stages : z /= op.stage => res2[z] = res[z]
    <2>1. Table(out, Ffns, Stages)
      BY <1>1 DEF DataTyped
    <2>2. CASE op.kind /= "experts"
      BY <1>3, <1>7, <2>1, <2>2
    <2>3. CASE op.kind = "experts"
      <3>1. PICK y, v : y = op.stage /\ v = rows[f][op.stage]
        OBVIOUS
      <3>2. IsSetAt(out, f, y, v, out')
        BY <1>3, <2>3, <3>1 DEF IsSetAt
      <3>3. /\ Table(out', Ffns, Stages) /\ (y \in Stages => out'[f][y] = v)
            /\ \A z \in Stages : z /= y => out'[f][z] = out[f][z]
            /\ \A w \in Ffns : w /= f => out'[w] = out[w]
        BY <2>1, <3>2, TableSet
      <3> QED BY <1>7, <2>3, <3>1, <3>3
    <2> QED BY <2>2, <2>3
  <1>10. /\ Queues(q2) /\ FfnHolds(c2, q2, x, row, res2) /\ Tops(q2, c2) = Tops(q, c)
         /\ \A s \in Stages : LaneColls(f, c2, s) = LaneColls(f, c, s)
         /\ op.kind \in {"experts", "join"}
    <2>1. op.kind \notin Collectives
      BY <1>3
    <2>2. ExpertsRun(op, row, res, res2)
      BY <1>9 DEF ExpertsRun
    <2> QED BY <1>5, <1>6, <1>8, <2>1, <2>2, FfnComputes
  <1>11. UNCHANGED <<control, stages, pc, inUse, done, rows, combined>>
    BY <1>3 DEF hostVars
  <1>12. /\ HostsTyped' /\ StreamsTyped' /\ Hosts' /\ Level'
         /\ queue'[f] = q2 /\ \A v \in Ranks : v /= f => queue'[v] = queue[v]
         /\ count'[f] = c2 /\ \A v \in Ranks : v /= f => count'[v] = count[v]
    <2>1. IsSet(queue, f, q2, queue') /\ IsSet(count, f, c2, count')
      BY <1>3 DEF IsSet
    <2>2. SameColls(f, c, c2)
      BY <1>10 DEF SameColls
    <2>3. Tops(q2, c2) = Tops(queue[f], count[f]) /\ SameColls(f, count[f], c2) /\ Queues(q2)
      BY <1>2, <1>10, <2>2
    <2>4. UNCHANGED <<control, stages, pc, inUse, done>>
      BY <1>11
    <2> QED BY <1>1, <1>4, <1>5, <2>1, <2>3, <2>4, StreamRan
  <1>13. memory' = memory /\ result' = result
    BY <1>3, <1>10
  <1>14. DataTyped' /\ OwnOutput'
    BY <1>1, <1>9, <1>11, <1>13 DEF DataTyped, Table, OwnOutput
  <1>15. AttnsHold'
    <2> SUFFICES ASSUME NEW v \in Attns
                 PROVE  AttnHolds(v, count'[v], queue'[v], inUse[v], memory[v], combined[v])
      BY <1>11, <1>13 DEF AttnsHold
    <2>1. queue'[v] = queue[v] /\ count'[v] = count[v]
      BY <1>12, StreamsAre DEF Ranks
    <2> QED BY <1>1, <2>1 DEF AttnsHold
  <1>16. FfnsHold'
    <2> SUFFICES ASSUME NEW v \in Ffns
                 PROVE  FfnHolds(count'[v], queue'[v], done[v].experts, rows[v], out'[v])
      BY <1>11 DEF FfnsHold
    <2>1. CASE v = f
      BY <1>7, <1>10, <1>12, <2>1
    <2>2. CASE v /= f
      <3>1. queue'[v] = queue[v] /\ count'[v] = count[v] /\ out'[v] = out[v]
        BY <1>9, <1>12, <2>2 DEF Ranks
      <3> QED BY <1>1, <3>1 DEF FfnsHold
    <2> QED BY <2>1, <2>2
  <1> QED BY <1>12, <1>14, <1>15, <1>16 DEF OwnInv

(* A collective has run: the hosts and the streams. *)
LEMMA StreamsRan ==
    ASSUME HostsTyped, StreamsTyped, Hosts, Level, NEW s \in Stages,
           queue' = [r \in Ranks |-> queue'[r]], count' \in [Ranks -> [Streams -> Nat]],
           \A r \in Ranks : Queues(queue'[r]) /\ Tops(queue'[r], count'[r]) = Tops(queue[r], count[r]),
           \A r \in Ranks : OneMoreColl(r, count[r], count'[r], s),
           UNCHANGED <<control, stages, pc, inUse, done>>
    PROVE  HostsTyped' /\ StreamsTyped' /\ Hosts' /\ Level'
  <1>1. StreamsTyped' /\ HostsTyped'
    BY DEF StreamsTyped, HostsTyped
  <1>2. Level'
    <2> SUFFICES ASSUME NEW r \in Ranks, NEW v \in Ranks, NEW z \in Stages
                 PROVE  LaneColls(r, count'[r], z) = LaneColls(v, count'[v], z)
      BY DEF Level
    <2>1. LaneColls(r, count[r], z) = LaneColls(v, count[v], z)
      BY DEF Level
    <2>2. /\ LaneColls(r, count'[r], z) = IF z = s THEN LaneColls(r, count[r], z) + 1
                                          ELSE LaneColls(r, count[r], z)
          /\ LaneColls(v, count'[v], z) = IF z = s THEN LaneColls(v, count[v], z) + 1
                                          ELSE LaneColls(v, count[v], z)
      BY DEF OneMoreColl
    <2> QED BY <2>1, <2>2
  <1>3. Hosts'
    <2> SUFFICES ASSUME NEW v \in Ranks
                 PROVE HostAt(stages[v], pc[v]) /\ NextIs(v, Top(v)', stages[v], pc[v])
      BY DEF Hosts
    <2>1. Top(v)' = Top(v)
      BY DEF Top
    <2> QED BY <2>1 DEF Hosts
  <1> QED BY <1>1, <1>2, <1>3

(* what runs on the lane of a stage *)
LaneOp(r, s) == Head(queue[r][LaneStream(s)])

(* A collective, on every rank. *)
LEMMA CollectiveIs ==
    ASSUME OwnInv, NEW s \in Stages, Collective(s)
    PROVE  /\ \A r \in Ranks :
                 /\ HeadRuns(count[r], queue[r], LaneStream(s), LaneOp(r, s), count'[r], queue'[r])
                 /\ count[r] \in [Streams -> Nat] /\ Queues(queue[r])
                 /\ LaneColls(r, count[r], s) = LaneColls(Sender, count[Sender], s)
           /\ queue' = [r \in Ranks |-> queue'[r]] /\ count' \in [Ranks -> [Streams -> Nat]]
           /\ \/ /\ \A r \in Ranks : LaneOp(r, s).kind = "dispatch"
                 /\ rows' = [f \in Ffns |-> [rows[f] EXCEPT ![s] =
                                [a \in Attns |-> memory[a][LaneOp(a, s).block]]]]
                 /\ combined' = combined
              \/ /\ \A r \in Ranks : LaneOp(r, s).kind = "combine"
                 /\ combined' = [a \in Attns |-> [combined[a] EXCEPT ![s] =
                                    [f \in Ffns |-> out[f][s][a]]]]
                 /\ rows' = rows
           /\ UNCHANGED <<control, stages, pc, inUse, done, memory, out, result>>
  <1>1. StreamsTyped /\ Level
    BY DEF OwnInv
  <1>2. LaneStream(s) \in Streams
    BY StreamsAre
  <1>3. Sender \in Ranks
    <2>1. Attn \in Nat \ {0}
      BY SizesAssumption
    <2>2. 0 \in 0 .. Attn - 1
      BY <2>1
    <2> QED BY <2>2 DEF Sender, Ranks, Attns
  <1>4. /\ \A r \in Ranks : Runnable(r, LaneStream(s)) /\ LaneOp(r, s).kind \in Collectives
        /\ \A r \in Ranks : LaneOp(r, s).kind = LaneOp(Sender, s).kind
        /\ queue' = [r \in Ranks |-> [queue[r] EXCEPT ![LaneStream(s)] = Tail(@)]]
        /\ count' = [r \in Ranks |-> [count[r] EXCEPT ![LaneStream(s)] = @ + 1]]
        /\ UNCHANGED <<control, stages, pc, inUse, done, memory, out, result>>
    BY DEF Collective, LaneOp, hostVars
  <1>5. /\ rows' = IF LaneOp(Sender, s).kind = "combine" THEN rows
                   ELSE [f \in Ffns |-> [rows[f] EXCEPT ![s] =
                            [a \in Attns |-> memory[a][LaneOp(a, s).block]]]]
        /\ combined' = IF LaneOp(Sender, s).kind = "dispatch" THEN combined
                       ELSE [a \in Attns |-> [combined[a] EXCEPT ![s] =
                                [f \in Ffns |-> out[f][s][a]]]]
    BY DEF Collective, LaneOp
  <1>6. queue' = [r \in Ranks |-> queue'[r]] /\ count' \in [Ranks -> [Streams -> Nat]]
    <2>1. \A r \in Ranks : count[r] \in [Streams -> Nat]
      BY <1>1 DEF StreamsTyped
    <2> QED BY <1>2, <1>4, <2>1
  <1>7. ASSUME NEW r \in Ranks
        PROVE  /\ HeadRuns(count[r], queue[r], LaneStream(s), LaneOp(r, s), count'[r], queue'[r])
               /\ count[r] \in [Streams -> Nat] /\ Queues(queue[r])
               /\ LaneColls(r, count[r], s) = LaneColls(Sender, count[Sender], s)
    <2>1. PICK c2, q2 : /\ c2 = [count[r] EXCEPT ![LaneStream(s)] = @ + 1]
                        /\ q2 = [queue[r] EXCEPT ![LaneStream(s)] = Tail(@)]
      OBVIOUS
    <2>2. count'[r] = c2 /\ queue'[r] = q2
      BY <1>4, <2>1
    <2>3. HeadRuns(count[r], queue[r], LaneStream(s), LaneOp(r, s), c2, q2)
      BY <1>1, <1>2, <1>4, <2>1, HeadOf DEF LaneOp
    <2>4. count[r] \in [Streams -> Nat] /\ Queues(queue[r])
      BY <1>1 DEF StreamsTyped
    <2> QED BY <1>1, <1>3, <2>2, <2>3, <2>4 DEF Level
  <1>8. CASE LaneOp(Sender, s).kind = "dispatch"
    BY <1>4, <1>5, <1>6, <1>7, <1>8
  <1>9. CASE LaneOp(Sender, s).kind = "combine"
    BY <1>4, <1>5, <1>6, <1>7, <1>9
  <1> QED BY <1>3, <1>4, <1>8, <1>9 DEF Collectives

(* A dispatch of all ranks. *)
LEMMA DispatchKeeps ==
    ASSUME OwnInv, NEW s \in Stages, Collective(s), LaneOp(Sender, s).kind = "dispatch",
           Sender \in Ranks
    PROVE  OwnInv'
  <1>1. HostsTyped /\ StreamsTyped /\ DataTyped /\ Hosts /\ Level /\ AttnsHold /\ FfnsHold /\ OwnOutput
    BY DEF OwnInv
  <1>2. /\ \A r \in Ranks : LaneOp(r, s).kind = "dispatch"
        /\ rows' = [f \in Ffns |-> [rows[f] EXCEPT ![s] =
                       [a \in Attns |-> memory[a][LaneOp(a, s).block]]]]
        /\ queue' = [r \in Ranks |-> queue'[r]] /\ count' \in [Ranks -> [Streams -> Nat]]
        /\ UNCHANGED <<control, stages, pc, inUse, done, memory, out, result, combined>>
    BY CollectiveIs
  <1>3. PICK k : k = LaneColls(Sender, count[Sender], s) + 1
    OBVIOUS
  <1>4. ASSUME NEW r \in Ranks
        PROVE  /\ HeadRuns(count[r], queue[r], LaneStream(s), LaneOp(r, s), count'[r], queue'[r])
               /\ count[r] \in [Streams -> Nat] /\ Queues(queue[r])
               /\ k = LaneColls(r, count[r], s) + 1 /\ LaneOp(r, s).kind = "dispatch"
    BY <1>2, <1>3, CollectiveIs
  <1>5. ASSUME NEW a \in Attns
        PROVE  /\ Queues(queue'[a])
               /\ AttnHolds(a, count'[a], queue'[a], inUse[a], memory[a], combined[a])
               /\ Tops(queue'[a], count'[a]) = Tops(queue[a], count[a])
               /\ OneMoreColl(a, count[a], count'[a], s)
               /\ Filled(memory[a], LaneOp(a, s).block, a, s, Coll(k).layer)
    <2>1. PICK c, q, c2, q2, op, u, mem, com :
             /\ c = count[a] /\ q = queue[a] /\ c2 = count'[a] /\ q2 = queue'[a]
             /\ op = LaneOp(a, s) /\ u = inUse[a] /\ mem = memory[a] /\ com = combined[a]
      OBVIOUS
    <2>2. /\ HeadRuns(c, q, LaneStream(s), op, c2, q2) /\ c \in [Streams -> Nat] /\ Queues(q)
          /\ k = LaneColls(a, c, s) + 1 /\ op.kind = "dispatch"
      BY <1>4, <2>1 DEF Ranks
    <2>3. AttnHolds(a, c, q, u, mem, com)
      BY <1>1, <2>1 DEF AttnsHold
    <2>4. /\ Queues(q2) /\ AttnHolds(a, c2, q2, u, mem, com) /\ Tops(q2, c2) = Tops(q, c)
          /\ OneMoreColl(a, c, c2, s) /\ Filled(mem, op.block, a, s, Coll(k).layer)
      BY <2>2, <2>3, AttnDispatches
    <2> QED BY <2>1, <2>4
  <1>6. ASSUME NEW f \in Ffns
        PROVE  /\ Arrived(rows'[f], s, Coll(k).layer)
               /\ \A z \in Stages : z /= s => rows'[f][z] = rows[f][z]
               /\ rows'[f] = [z \in Stages |-> rows'[f][z]]
    <2>1. PICK new : new = [a \in Attns |-> memory[a][LaneOp(a, s).block]]
      OBVIOUS
    <2>2. rows'[f] = [rows[f] EXCEPT ![s] = new]
      BY <1>2, <2>1
    <2>3. DOMAIN rows[f] = Stages
      BY <1>1 DEF DataTyped, Table
    <2>4. \A a \in Attns : new[a] = Row(a, s, Coll(k).layer)
      <3>1. ASSUME NEW a \in Attns PROVE new[a] = Row(a, s, Coll(k).layer)
        <4>1. Filled(memory[a], LaneOp(a, s).block, a, s, Coll(k).layer)
          BY <1>5
        <4> QED BY <2>1, <4>1 DEF Filled
      <3> QED BY <3>1
    <2>5. rows'[f][s] = new
      BY <2>2, <2>3
    <2> QED BY <2>2, <2>3, <2>4, <2>5 DEF Arrived
  <1>7. ASSUME NEW f \in Ffns
        PROVE  /\ Queues(queue'[f])
               /\ FfnHolds(count'[f], queue'[f], done[f].experts, rows'[f], out[f])
               /\ Tops(queue'[f], count'[f]) = Tops(queue[f], count[f])
               /\ OneMoreColl(f, count[f], count'[f], s)
    <2>1. PICK c, q, c2, q2, op, x, row, res, row2 :
             /\ c = count[f] /\ q = queue[f] /\ c2 = count'[f] /\ q2 = queue'[f]
             /\ op = LaneOp(f, s) /\ x = done[f].experts /\ row = rows[f] /\ res = out[f]
             /\ row2 = rows'[f]
      OBVIOUS
    <2>2. /\ HeadRuns(c, q, LaneStream(s), op, c2, q2) /\ c \in [Streams -> Nat] /\ Queues(q)
          /\ k = LaneColls(f, c, s) + 1 /\ op.kind = "dispatch"
      BY <1>4, <2>1 DEF Ranks
    <2>3. FfnHolds(c, q, x, row, res)
      BY <1>1, <2>1 DEF FfnsHold
    <2>4. Arrived(row2, s, Coll(k).layer) /\ \A z \in Stages : z /= s => row2[z] = row[z]
      BY <1>6, <2>1
    <2>5. /\ Queues(q2) /\ FfnHolds(c2, q2, x, row2, res) /\ Tops(q2, c2) = Tops(q, c)
          /\ OneMoreColl(f, c, c2, s)
      BY <2>2, <2>3, <2>4, FfnDispatches
    <2> QED BY <2>1, <2>5
  <1>8. HostsTyped' /\ StreamsTyped' /\ Hosts' /\ Level'
    <2>1. ASSUME NEW r \in Ranks
          PROVE  /\ Queues(queue'[r]) /\ Tops(queue'[r], count'[r]) = Tops(queue[r], count[r])
                 /\ OneMoreColl(r, count[r], count'[r], s)
      BY <1>5, <1>7 DEF Ranks
    <2> QED BY <1>1, <1>2, <2>1, StreamsRan
  <1>9. DataTyped'
    <2>1. Table(rows', Ffns, Stages)
      BY <1>2, <1>6 DEF Table
    <2> QED BY <1>1, <1>2, <2>1 DEF DataTyped, Table
  <1>10. AttnsHold' /\ FfnsHold' /\ OwnOutput'
    BY <1>1, <1>2, <1>5, <1>7 DEF AttnsHold, FfnsHold, OwnOutput
  <1> QED BY <1>8, <1>9, <1>10 DEF OwnInv

(* A combine of all ranks. *)
LEMMA CombineKeeps ==
    ASSUME OwnInv, NEW s \in Stages, Collective(s), LaneOp(Sender, s).kind /= "dispatch",
           Sender \in Ranks
    PROVE  OwnInv'
  <1>1. HostsTyped /\ StreamsTyped /\ DataTyped /\ Hosts /\ Level /\ AttnsHold /\ FfnsHold /\ OwnOutput
    BY DEF OwnInv
  <1>2. /\ \A r \in Ranks : LaneOp(r, s).kind = "combine"
        /\ combined' = [a \in Attns |-> [combined[a] EXCEPT ![s] = [f \in Ffns |-> out[f][s][a]]]]
        /\ queue' = [r \in Ranks |-> queue'[r]] /\ count' \in [Ranks -> [Streams -> Nat]]
        /\ UNCHANGED <<control, stages, pc, inUse, done, memory, out, result, rows>>
    BY CollectiveIs
  <1>3. PICK k : k = LaneColls(Sender, count[Sender], s) + 1
    OBVIOUS
  <1>4. ASSUME NEW r \in Ranks
        PROVE  /\ HeadRuns(count[r], queue[r], LaneStream(s), LaneOp(r, s), count'[r], queue'[r])
               /\ count[r] \in [Streams -> Nat] /\ Queues(queue[r])
               /\ k = LaneColls(r, count[r], s) + 1 /\ LaneOp(r, s).kind = "combine"
    BY <1>2, <1>3, CollectiveIs
  <1>5. ASSUME NEW f \in Ffns
        PROVE  /\ Queues(queue'[f])
               /\ FfnHolds(count'[f], queue'[f], done[f].experts, rows[f], out[f])
               /\ Tops(queue'[f], count'[f]) = Tops(queue[f], count[f])
               /\ OneMoreColl(f, count[f], count'[f], s)
               /\ Arrived(out[f], s, Coll(k).layer)
    <2>1. PICK c, q, c2, q2, op, x, row, res :
             /\ c = count[f] /\ q = queue[f] /\ c2 = count'[f] /\ q2 = queue'[f]
             /\ op = LaneOp(f, s) /\ x = done[f].experts /\ row = rows[f] /\ res = out[f]
      OBVIOUS
    <2>2. /\ HeadRuns(c, q, LaneStream(s), op, c2, q2) /\ c \in [Streams -> Nat] /\ Queues(q)
          /\ k = LaneColls(f, c, s) + 1 /\ op.kind = "combine"
      BY <1>4, <2>1 DEF Ranks
    <2>3. FfnHolds(c, q, x, row, res)
      BY <1>1, <2>1 DEF FfnsHold
    <2>4. /\ Queues(q2) /\ FfnHolds(c2, q2, x, row, res) /\ Tops(q2, c2) = Tops(q, c)
          /\ OneMoreColl(f, c, c2, s) /\ Arrived(res, s, Coll(k).layer)
      BY <2>2, <2>3, FfnCombines
    <2> QED BY <2>1, <2>4
  <1>6. ASSUME NEW a \in Attns
        PROVE  /\ Brought(combined'[a], a, s, Coll(k).layer)
               /\ \A z \in Stages : z /= s => combined'[a][z] = combined[a][z]
               /\ combined'[a] = [z \in Stages |-> combined'[a][z]]
    <2>1. PICK new : new = [f \in Ffns |-> out[f][s][a]]
      OBVIOUS
    <2>2. combined'[a] = [combined[a] EXCEPT ![s] = new]
      BY <1>2, <2>1
    <2>3. DOMAIN combined[a] = Stages
      BY <1>1 DEF DataTyped, Table
    <2>4. \A f \in Ffns : new[f] = Row(a, s, Coll(k).layer)
      <3>1. ASSUME NEW f \in Ffns PROVE new[f] = Row(a, s, Coll(k).layer)
        <4>1. Arrived(out[f], s, Coll(k).layer)
          BY <1>5
        <4> QED BY <2>1, <4>1 DEF Arrived
      <3> QED BY <3>1
    <2>5. combined'[a][s] = new
      BY <2>2, <2>3
    <2> QED BY <2>2, <2>3, <2>4, <2>5 DEF Brought
  <1>7. ASSUME NEW a \in Attns
        PROVE  /\ Queues(queue'[a])
               /\ AttnHolds(a, count'[a], queue'[a], inUse[a], memory[a], combined'[a])
               /\ Tops(queue'[a], count'[a]) = Tops(queue[a], count[a])
               /\ OneMoreColl(a, count[a], count'[a], s)
    <2>1. PICK c, q, c2, q2, op, u, mem, com, com2 :
             /\ c = count[a] /\ q = queue[a] /\ c2 = count'[a] /\ q2 = queue'[a]
             /\ op = LaneOp(a, s) /\ u = inUse[a] /\ mem = memory[a] /\ com = combined[a]
             /\ com2 = combined'[a]
      OBVIOUS
    <2>2. /\ HeadRuns(c, q, LaneStream(s), op, c2, q2) /\ c \in [Streams -> Nat] /\ Queues(q)
          /\ k = LaneColls(a, c, s) + 1 /\ op.kind = "combine"
      BY <1>4, <2>1 DEF Ranks
    <2>3. AttnHolds(a, c, q, u, mem, com)
      BY <1>1, <2>1 DEF AttnsHold
    <2>4. Brought(com2, a, s, Coll(k).layer) /\ \A z \in Stages : z /= s => com2[z] = com[z]
      BY <1>6, <2>1
    <2>5. /\ Queues(q2) /\ AttnHolds(a, c2, q2, u, mem, com2) /\ Tops(q2, c2) = Tops(q, c)
          /\ OneMoreColl(a, c, c2, s)
      BY <2>2, <2>3, <2>4, AttnCombines
    <2> QED BY <2>1, <2>5
  <1>8. HostsTyped' /\ StreamsTyped' /\ Hosts' /\ Level'
    <2>1. ASSUME NEW r \in Ranks
          PROVE  /\ Queues(queue'[r]) /\ Tops(queue'[r], count'[r]) = Tops(queue[r], count[r])
                 /\ OneMoreColl(r, count[r], count'[r], s)
      BY <1>5, <1>7 DEF Ranks
    <2> QED BY <1>1, <1>2, <2>1, StreamsRan
  <1>9. DataTyped'
    <2>1. Table(combined', Attns, Stages)
      BY <1>2, <1>6 DEF Table
    <2> QED BY <1>1, <1>2, <2>1 DEF DataTyped, Table
  <1>10. AttnsHold' /\ FfnsHold' /\ OwnOutput'
    BY <1>1, <1>2, <1>5, <1>7 DEF AttnsHold, FfnsHold, OwnOutput
  <1> QED BY <1>8, <1>9, <1>10 DEF OwnInv

(* Between steps a host calls next what it calls next when one begins, and
   when one has ended. *)
LEMMA NextAtRest ==
    ASSUME NEW r, NEW t, NEW n \in 1 .. Lanes
    PROVE  /\ NextIs(r, t, 0, 1) <=> NextIs(r, t, n, 1)
           /\ NextIs(r, t, n, Len(AttnCalls[n]) + 1) <=> NextIs(r, t, 0, 1)
  <1>1. ASSUME NEW s \in Stages
        PROVE  /\ NextAt(0, 1, s) = NextAt(n, 1, s)
               /\ NextAt(n, Len(AttnCalls[n]) + 1, s) = NextAt(0, 1, s)
    BY AtRest, StreamsAre
  <1> QED BY <1>1 DEF NextIs

(* A step begins on Attention: whatever the number of its stages. *)
LEMMA BeginKeeps ==
    ASSUME OwnInv, BeginStep
    PROVE  OwnInv'
  <1>1. HostsTyped /\ StreamsTyped /\ DataTyped /\ Hosts /\ Level /\ AttnsHold /\ FfnsHold /\ OwnOutput
    BY DEF OwnInv
  <1>2. PICK n \in 1 .. Lanes, graph \in BOOLEAN : \E counts \in [1 .. n -> Counts] :
           /\ control' = [f \in Ffns |-> Append(control[f], [counts |-> counts, graph |-> graph])]
           /\ stages' = [r \in Ranks |-> IF r \in Attns THEN n ELSE stages[r]]
    BY DEF BeginStep
  <1>3. PICK counts \in [1 .. n -> Counts] :
           /\ control' = [f \in Ffns |-> Append(control[f], [counts |-> counts, graph |-> graph])]
           /\ stages' = [r \in Ranks |-> IF r \in Attns THEN n ELSE stages[r]]
    BY <1>2
  <1>4. /\ \A a \in Attns : stages[a] = 0
        /\ UNCHANGED <<pc, inUse, done, queue, count, memory, rows, out, combined, result>>
    BY DEF BeginStep, dataVars
  <1>5. PICK p : p = [counts |-> counts, graph |-> graph]
    OBVIOUS
  <1>6. p \in Payloads
    BY <1>5 DEF Payloads
  <1>7. control' \in [Ffns -> Seq(Payloads)]
    <2>1. control' = [f \in Ffns |-> Append(control[f], p)]
      BY <1>3, <1>5
    <2>2. \A f \in Ffns : control[f] \in Seq(Payloads)
      BY <1>1 DEF HostsTyped
    <2> QED BY <1>6, <2>1, <2>2, AppendProperties
  <1>8. Lanes \in 1 .. 2
    BY SizesAssumption DEF MaxLanes
  <1>9. stages' \in [Ranks -> 0 .. Lanes]
    <2>1. n \in 0 .. Lanes
      BY <1>8
    <2> QED BY <1>1, <1>3, <2>1 DEF HostsTyped
  <1>10. HostsTyped'
    BY <1>1, <1>4, <1>7, <1>9 DEF HostsTyped
  <1>11. Hosts'
    <2> SUFFICES ASSUME NEW r \in Ranks
                 PROVE  HostAt(stages'[r], pc[r]) /\ NextIs(r, Top(r), stages'[r], pc[r])
      BY <1>4 DEF Hosts, Top
    <2>1. HostAt(stages[r], pc[r]) /\ NextIs(r, Top(r), stages[r], pc[r])
      BY <1>1 DEF Hosts
    <2>2. CASE r \in Attns
      <3>1. stages[r] = 0 /\ pc[r] = 1 /\ stages'[r] = n
        BY <1>3, <1>4, <1>8, <2>1, <2>2 DEF HostAt
      <3>2. Len(AttnCalls[n]) \in Nat
        <4>1. AttnCalls[n] \in Seq(Calls(n))
          BY CallsInOrder DEF InOrder, Ahead
        <4> QED BY <4>1
      <3>3. HostAt(n, 1)
        BY <3>2 DEF HostAt
      <3>4. NextIs(r, Top(r), 0, 1)
        BY <2>1, <3>1
      <3> QED BY <3>1, <3>3, <3>4, NextAtRest
    <2>3. CASE r \notin Attns
      <3>1. stages'[r] = stages[r]
        BY <1>3, <2>3
      <3> QED BY <2>1, <3>1
    <2> QED BY <2>2, <2>3
  <1>12. StreamsTyped' /\ DataTyped' /\ Level' /\ OwnOutput'
    BY <1>1, <1>4 DEF StreamsTyped, DataTyped, Table, Level, OwnOutput
  <1>13. AttnsHold' /\ FfnsHold'
    BY <1>1, <1>4 DEF AttnsHold, FfnsHold
  <1> QED BY <1>10, <1>11, <1>12, <1>13 DEF OwnInv

(* The control plane brings the step to an FFN rank. *)
LEMMA ControlKeeps ==
    ASSUME OwnInv, NEW f \in Ffns, ReceiveControl(f)
    PROVE  OwnInv'
  <1>1. HostsTyped /\ StreamsTyped /\ DataTyped /\ Hosts /\ Level /\ AttnsHold /\ FfnsHold /\ OwnOutput
    BY DEF OwnInv
  <1>2. PICK n : n = Len(Head(control[f]).counts)
    OBVIOUS
  <1>3. /\ stages[f] = 0 /\ control[f] /= <<>>
        /\ stages' = [stages EXCEPT ![f] = n]
        /\ control' = [control EXCEPT ![f] = Tail(@)]
        /\ UNCHANGED <<pc, inUse, done, queue, count, memory, rows, out, combined, result>>
    BY <1>2 DEF ReceiveControl, dataVars
  <1>4. control[f] \in Seq(Payloads) /\ f \in Ranks
    BY <1>1 DEF HostsTyped, Ranks
  <1>5. Lanes \in 1 .. 2
    BY SizesAssumption DEF MaxLanes
  <1>6. n \in 1 .. Lanes
    <2>1. Head(control[f]) \in Payloads
      BY <1>3, <1>4, HeadTailProperties
    <2>2. PICK m \in 1 .. Lanes : Head(control[f]) \in [counts : [1 .. m -> Counts], graph : BOOLEAN]
      BY <2>1 DEF Payloads
    <2>3. Head(control[f]).counts \in [1 .. m -> Counts] /\ m \in Nat
      BY <1>5, <2>2
    <2>4. Len(Head(control[f]).counts) = m
      BY <2>3, LenProperties, SeqDef
    <2> QED BY <1>2, <2>4
  <1>7. control' \in [Ffns -> Seq(Payloads)]
    <2>1. Tail(control[f]) \in Seq(Payloads)
      BY <1>3, <1>4, HeadTailProperties
    <2> QED BY <1>1, <1>3, <2>1 DEF HostsTyped
  <1>8. HostsTyped'
    <2>1. n \in 0 .. Lanes
      BY <1>5, <1>6
    <2>2. stages' \in [Ranks -> 0 .. Lanes]
      BY <1>1, <1>3, <2>1 DEF HostsTyped
    <2> QED BY <1>1, <1>3, <1>7, <2>2 DEF HostsTyped
  <1>9. Hosts'
    <2> SUFFICES ASSUME NEW r \in Ranks
                 PROVE  HostAt(stages'[r], pc[r]) /\ NextIs(r, Top(r), stages'[r], pc[r])
      BY <1>3 DEF Hosts, Top
    <2>1. HostAt(stages[r], pc[r]) /\ NextIs(r, Top(r), stages[r], pc[r])
      BY <1>1 DEF Hosts
    <2>2. CASE r = f
      <3>1. pc[f] = 1 /\ stages'[f] = n
        BY <1>1, <1>3, <1>4, <1>5, <2>1, <2>2 DEF HostAt, HostsTyped
      <3>2. Len(AttnCalls[n]) \in Nat
        <4>1. AttnCalls[n] \in Seq(Calls(n))
          BY <1>6, CallsInOrder DEF InOrder, Ahead
        <4> QED BY <4>1
      <3>3. HostAt(n, 1)
        BY <1>6, <3>2 DEF HostAt
      <3>4. NextIs(r, Top(r), 0, 1)
        BY <1>3, <2>1, <2>2, <3>1
      <3> QED BY <1>6, <2>2, <3>1, <3>3, <3>4, NextAtRest
    <2>3. CASE r /= f
      <3>1. stages'[r] = stages[r]
        BY <1>1, <1>3, <2>3 DEF HostsTyped
      <3> QED BY <2>1, <3>1
    <2> QED BY <2>2, <2>3
  <1>10. StreamsTyped' /\ DataTyped' /\ Level' /\ OwnOutput'
    BY <1>1, <1>3 DEF StreamsTyped, DataTyped, Table, Level, OwnOutput
  <1>11. AttnsHold' /\ FfnsHold'
    BY <1>1, <1>3 DEF AttnsHold, FfnsHold
  <1> QED BY <1>8, <1>9, <1>10, <1>11 DEF OwnInv

(* What the streams of a rank are when its step ends. *)
LEMMA LastQueue ==
    ASSUME OwnInv, NEW r \in Ranks, EndStep(r)
    PROVE  \E q2 : /\ IsSet(queue, r, q2, queue') /\ Queues(q2)
                   /\ \A s \in Stages : LaneColls(r, Tops(q2, count[r]), s) = LaneColls(r, Top(r), s)
                   /\ r \in Attns =>
                        AttnHolds(r, count[r], q2, inUse[r], memory[r], combined[r])
                   /\ r \in Ffns => FfnHolds(count[r], q2, done[r].experts, rows[r], out[r])
  <1>1. StreamsTyped /\ AttnsHold /\ FfnsHold
    BY DEF OwnInv
  <1>2. PICK c, q : c = count[r] /\ q = queue[r] /\ c \in [Streams -> Nat] /\ Queues(q)
    BY <1>1 DEF StreamsTyped
  <1>3. CASE queue' = queue
    <2>1. IsSet(queue, r, q, queue')
      BY <1>1, <1>2, <1>3 DEF StreamsTyped, IsSet
    <2> QED BY <1>1, <1>2, <2>1 DEF AttnsHold, FfnsHold, Top
  <1>4. CASE queue' /= queue
    <2>1. r \in Ffns /\ r \notin Attns /\ Lanes > 1
      BY <1>4, LanesAre DEF EndStep, Ranks
    <2>2. PICK main : main = Op("join", Main, 0, 0, done[r].lanes)
      OBVIOUS
    <2>3. PICK q2 : q2 = Put(q, main)
      OBVIOUS
    <2>4. IsSet(queue, r, q2, queue')
      BY <1>2, <1>4, <2>1, <2>2, <2>3 DEF EndStep, Enqueue, IsSet
    <2>5. main.kind = "join" /\ main.on = Main
      BY <2>2 DEF Op
    <2>6. PICK x, row, res, t : x = done[r].experts /\ row = rows[r] /\ res = out[r] /\ t = Tops(q, c)
      OBVIOUS
    <2>7. FfnHolds(c, q, x, row, res)
      BY <1>1, <1>2, <2>1, <2>6 DEF FfnsHold
    <2>8. /\ Queues(q2) /\ FfnHolds(c, q2, x, row, res)
          /\ \A s \in Stages : LaneColls(r, Tops(q2, c), s) = LaneColls(r, t, s)
      BY <1>2, <2>1, <2>3, <2>5, <2>6, <2>7, FfnJoins
    <2> QED BY <1>2, <2>1, <2>4, <2>6, <2>8 DEF Top
  <1> QED BY <1>3, <1>4

(* The step of a rank ends. *)
LEMMA EndKeeps ==
    ASSUME OwnInv, NEW r \in Ranks, EndStep(r)
    PROVE  OwnInv'
  <1>1. HostsTyped /\ StreamsTyped /\ DataTyped /\ Hosts /\ Level /\ AttnsHold /\ FfnsHold /\ OwnOutput
    BY DEF OwnInv
  <1>2. PICK q2 : /\ IsSet(queue, r, q2, queue') /\ Queues(q2)
                  /\ \A s \in Stages : LaneColls(r, Tops(q2, count[r]), s) = LaneColls(r, Top(r), s)
                  /\ r \in Attns => AttnHolds(r, count[r], q2, inUse[r], memory[r], combined[r])
                  /\ r \in Ffns => FfnHolds(count[r], q2, done[r].experts, rows[r], out[r])
    BY LastQueue
  <1>3. /\ Ended(r) /\ pc' = [pc EXCEPT ![r] = 1] /\ stages' = [stages EXCEPT ![r] = 0]
        /\ done' = done \/ done' = [done EXCEPT ![r].lanes = {}]
        /\ r \in Attns => done' = done
        /\ UNCHANGED <<control, inUse, count, memory, rows, out, combined, result>>
    BY DEF EndStep, dataVars
  <1>4. /\ queue'[r] = q2 /\ \A v \in Ranks : v /= r => queue'[v] = queue[v]
        /\ queue' = [v \in Ranks |-> queue'[v]]
    BY <1>1, <1>2 DEF StreamsTyped, IsSet
  <1>5. StreamsTyped'
    BY <1>1, <1>2, <1>3, <1>4 DEF StreamsTyped
  <1>6. /\ done' \in [Ffns -> [experts : [Stages -> Events], lanes : SUBSET Events]]
        /\ \A f \in Ffns : done'[f].experts = done[f].experts
    <2>1. done \in [Ffns -> [experts : [Stages -> Events], lanes : SUBSET Events]]
      BY <1>1 DEF HostsTyped
    <2>2. CASE done' = done
      BY <2>1, <2>2
    <2>3. CASE done' = [done EXCEPT ![r].lanes = {}]
      <3>1. PICK d : d = [done[r] EXCEPT !.lanes = {}]
        OBVIOUS
      <3>2. done' = [done EXCEPT ![r] = d]
        BY <2>3, <3>1
      <3>3. r \in Ffns => /\ d \in [experts : [Stages -> Events], lanes : SUBSET Events]
                          /\ d.experts = done[r].experts
        BY <2>1, <3>1
      <3> QED BY <2>1, <3>2, <3>3
    <2> QED BY <1>3, <2>2, <2>3
  <1>7. HostsTyped'
    <2>1. Lanes \in 1 .. 2
      BY SizesAssumption DEF MaxLanes
    <2>2. stages' \in [Ranks -> 0 .. Lanes] /\ pc' \in [Ranks -> Nat]
      BY <1>1, <1>3, <2>1 DEF HostsTyped
    <2> QED BY <1>1, <1>3, <1>6, <2>2 DEF HostsTyped
  <1>8. Level' /\ DataTyped' /\ OwnOutput'
    BY <1>1, <1>3 DEF Level, DataTyped, Table, OwnOutput
  <1>9. Hosts'
    <2> SUFFICES ASSUME NEW v \in Ranks
                 PROVE  HostAt(stages'[v], pc'[v]) /\ NextIs(v, Top(v)', stages'[v], pc'[v])
      BY DEF Hosts
    <2>1. HostAt(stages[v], pc[v]) /\ NextIs(v, Top(v), stages[v], pc[v])
      BY <1>1 DEF Hosts
    <2>2. CASE v = r
      <3>1. PICK n : n = stages[r]
        OBVIOUS
      <3>2. Lanes \in 1 .. 2 /\ n \in 0 .. Lanes /\ n > 0
        BY <1>1, <1>3, <3>1, SizesAssumption DEF MaxLanes, HostsTyped, Ended, Running
      <3>3. n \in 1 .. Lanes
        BY <3>2
      <3>4. Len(AttnCalls[n]) \in Nat
        <4>1. AttnCalls[n] \in Seq(Calls(n))
          BY <3>3, CallsInOrder DEF InOrder, Ahead
        <4> QED BY <4>1
      <3>5. pc[r] = Len(AttnCalls[n]) + 1
        <4>1. FfnCalls[n] = AttnCalls[n]
          BY <3>3, CallsInOrder
        <4>2. pc[r] > Len(AttnCalls[n])
          BY <1>3, <3>1, <4>1 DEF Ended, Program
        <4>3. pc[r] \in 1 .. Len(AttnCalls[n]) + 1
          BY <2>1, <2>2, <3>1, <3>2 DEF HostAt
        <4> QED BY <3>4, <4>2, <4>3
      <3>6. NextIs(r, Top(r), 0, 1)
        BY <2>1, <2>2, <3>1, <3>3, <3>5, NextAtRest
      <3>7. Top(r)' = Tops(q2, count[r])
        BY <1>3, <1>4 DEF Top
      <3>8. NextIs(r, Tops(q2, count[r]), 0, 1)
        BY <1>2, <3>6 DEF NextIs
      <3>9. stages'[r] = 0 /\ pc'[r] = 1
        BY <1>1, <1>3 DEF HostsTyped
      <3> QED BY <2>2, <3>7, <3>8, <3>9 DEF HostAt
    <2>3. CASE v /= r
      <3>1. Top(v)' = Top(v) /\ stages'[v] = stages[v] /\ pc'[v] = pc[v]
        BY <1>1, <1>3, <1>4, <2>3 DEF Top, HostsTyped
      <3> QED BY <2>1, <3>1
    <2> QED BY <2>2, <2>3
  <1>10. AttnsHold'
    <2> SUFFICES ASSUME NEW a \in Attns
                 PROVE  AttnHolds(a, count[a], queue'[a], inUse[a], memory[a], combined[a])
      BY <1>3 DEF AttnsHold
    <2>1. CASE a = r
      BY <1>2, <1>4, <2>1
    <2>2. CASE a /= r
      <3>1. queue'[a] = queue[a]
        BY <1>4, <2>2 DEF Ranks
      <3> QED BY <1>1, <3>1 DEF AttnsHold
    <2> QED BY <2>1, <2>2
  <1>11. FfnsHold'
    <2> SUFFICES ASSUME NEW f \in Ffns
                 PROVE  FfnHolds(count[f], queue'[f], done[f].experts, rows[f], out[f])
      BY <1>3, <1>6 DEF FfnsHold
    <2>1. CASE f = r
      BY <1>2, <1>4, <2>1
    <2>2. CASE f /= r
      <3>1. queue'[f] = queue[f]
        BY <1>4, <2>2 DEF Ranks
      <3> QED BY <1>1, <3>1 DEF FfnsHold
    <2> QED BY <2>1, <2>2
  <1> QED BY <1>5, <1>7, <1>8, <1>9, <1>10, <1>11 DEF OwnInv

----------------------------------------------------------------------------
(* Nothing is enqueued yet. *)
LEMMA EmptyHolds ==
    ASSUME NEW c, NEW q, c = Each(Streams, 0), q = Each(Streams, <<>>)
    PROVE  /\ c \in [Streams -> Nat] /\ Queues(q)
           /\ \A r \in Ranks, s \in Stages : LaneColls(r, c, s) = 0 /\ LaneColls(r, Tops(q, c), s) = 0
           /\ \A r : NextIs(r, Tops(q, c), 0, 1) \/ r \notin Ranks
           /\ \A a \in Attns : \A u, mem, com : AttnHolds(a, c, q, u, mem, com)
           /\ \A x, row, res : FfnHolds(c, q, x, row, res)
  <1>1. c \in [Streams -> Nat] /\ Queues(q)
    BY EmptySequence DEF Each, Queues
  <1>2. PICK t, o : t = Tops(q, c) /\ o = Ops(q, c)
    OBVIOUS
  <1>3. \A st \in Streams : t[st] = 0 /\ c[st] = 0
    BY <1>2, EmptySequence DEF Each, Tops
  <1>4. Main \in Streams /\ (Lanes > 1 => \A s \in Stages : s \in Streams)
    BY StreamsAre, ManyLanes
  <1>5. AttnColls(0) = 0 /\ FfnColls(0) = 0
    BY DEF AttnColls, FfnColls
  <1>6. ASSUME NEW r \in Ranks, NEW s \in Stages
        PROVE  LaneColls(r, c, s) = 0 /\ LaneColls(r, t, s) = 0
    BY <1>3, <1>4, <1>5, LanesAre DEF LaneColls, CollsOf
  <1>7. ASSUME NEW r \in Ranks PROVE NextIs(r, t, 0, 1)
    <2> SUFFICES ASSUME NEW s \in Stages PROVE NextAt(0, 1, s) = Coll(LaneColls(r, t, s) + 1)
      BY DEF NextIs
    <2>1. NextAt(0, 1, s) = FirstColl
      BY AtRest, StreamsAre
    <2>2. LaneColls(r, t, s) + 1 = 1
      BY <1>6
    <2> QED BY <2>1, <2>2, CollsInTurn
  <1>8. Lanes > 1 => Called(c, t, o)
    BY <1>3, <1>4 DEF Called
  <1>9. ASSUME NEW a \in Attns, NEW u, NEW mem, NEW com PROVE AttnHolds(a, c, q, u, mem, com)
    <2>1. CASE Lanes = 1
      <3>1. PICK x, y, m : x = c[Main] /\ y = t[Main] /\ m = o[Main] /\ x = 0 /\ y = 0
        BY <1>3, <1>4
      <3>2. OneAttn(a, x, y, m, mem, com)
        BY <3>1 DEF OneAttn
      <3> QED BY <1>2, <2>1, <3>1, <3>2, LanesAre DEF AttnHolds
    <2>2. CASE Lanes > 1
      <3>1. LanesAttn(a, c, t, o, u, mem, com)
        BY <1>3, <1>4, <2>2 DEF LanesAttn
      <3> QED BY <1>2, <1>8, <2>2, <3>1, LanesAre DEF AttnHolds
    <2> QED BY <2>1, <2>2, LanesAre
  <1>10. ASSUME NEW x, NEW row, NEW res PROVE FfnHolds(c, q, x, row, res)
    <2>1. CASE Lanes = 1
      <3>1. PICK w, y, m : w = c[Main] /\ y = t[Main] /\ m = o[Main] /\ w = 0 /\ y = 0
        BY <1>3, <1>4
      <3>2. OneFfn(w, y, m, row, res)
        BY <3>1 DEF OneFfn
      <3> QED BY <1>2, <2>1, <3>1, <3>2, LanesAre DEF FfnHolds
    <2>2. CASE Lanes > 1
      <3>1. Coll(1).kind = "dispatch"
        BY CollsInTurn DEF FirstColl
      <3>2. \A s \in Stages : \A k \in c[s] + 1 .. t[s] + 1 : k = 1
        BY <1>3, <1>4, <2>2
      <3>3. LanesFfn(c, t, o, x, row, res)
        BY <1>3, <1>4, <3>1, <3>2 DEF LanesFfn
      <3> QED BY <1>2, <1>8, <2>2, <3>3, LanesAre DEF FfnHolds
    <2> QED BY <2>1, <2>2, LanesAre
  <1> QED BY <1>1, <1>2, <1>6, <1>7, <1>9, <1>10

(* The first state. *)
LEMMA InitOwn == Init => OwnInv
  <1> SUFFICES ASSUME Init PROVE OwnInv
    OBVIOUS
  <1>1. PICK c, q : c = Each(Streams, 0) /\ q = Each(Streams, <<>>)
    OBVIOUS
  <1>2. /\ c \in [Streams -> Nat] /\ Queues(q)
        /\ \A r \in Ranks, s \in Stages : LaneColls(r, c, s) = 0 /\ LaneColls(r, Tops(q, c), s) = 0
        /\ \A r \in Ranks : NextIs(r, Tops(q, c), 0, 1)
        /\ \A a \in Attns : \A u, mem, com : AttnHolds(a, c, q, u, mem, com)
        /\ \A x, row, res : FfnHolds(c, q, x, row, res)
    BY <1>1, EmptyHolds
  <1>3. \A r \in Ranks : queue[r] = q /\ count[r] = c
    BY <1>1 DEF Init, Each
  <1>4. NoEvent \in Events
    BY StreamsAre DEF NoEvent, Events
  <1>5. HostsTyped
    <2>1. Lanes \in 1 .. 2
      BY SizesAssumption DEF MaxLanes
    <2>2. stages \in [Ranks -> 0 .. Lanes] /\ pc \in [Ranks -> Nat]
      BY <2>1 DEF Init, Each
    <2>3. control \in [Ffns -> Seq(Payloads)]
      BY DEF Init, Each
    <2>4. inUse \in [Attns -> [Blocks -> Events]]
      BY <1>4 DEF Init, Each
    <2>5. done \in [Ffns -> [experts : [Stages -> Events], lanes : SUBSET Events]]
      BY <1>4 DEF Init, Each
    <2> QED BY <2>2, <2>3, <2>4, <2>5 DEF HostsTyped
  <1>6. StreamsTyped
    <2>1. queue = [r \in Ranks |-> q] /\ count = [r \in Ranks |-> c]
      BY <1>1 DEF Init, Each
    <2> QED BY <1>2, <2>1 DEF StreamsTyped
  <1>7. DataTyped
    BY DEF Init, Each, DataTyped, Table
  <1>8. Hosts
    <2> SUFFICES ASSUME NEW r \in Ranks
                 PROVE HostAt(stages[r], pc[r]) /\ NextIs(r, Top(r), stages[r], pc[r])
      BY DEF Hosts
    <2>1. stages[r] = 0 /\ pc[r] = 1
      BY DEF Init, Each
    <2>2. Top(r) = Tops(q, c)
      BY <1>3 DEF Top
    <2> QED BY <1>2, <2>1, <2>2 DEF HostAt
  <1>9. Level
    BY <1>2, <1>3 DEF Level
  <1>10. AttnsHold /\ FfnsHold
    BY <1>2, <1>3 DEF AttnsHold, FfnsHold, Ranks
  <1>11. OwnOutput
    BY DEF Init, Each, OwnOutput
  <1> QED BY <1>5, <1>6, <1>7, <1>8, <1>9, <1>10, <1>11 DEF OwnInv

(* Every step keeps the invariant. *)
LEMMA NextOwn == OwnInv /\ [Next]_vars => OwnInv'
  <1> SUFFICES ASSUME OwnInv, [Next]_vars PROVE OwnInv'
    OBVIOUS
  <1>1. CASE BeginStep
    BY <1>1, BeginKeeps
  <1>2. ASSUME NEW f \in Ffns, ReceiveControl(f) PROVE OwnInv'
    BY <1>2, ControlKeeps
  <1>3. ASSUME NEW f \in Ffns, RecvAttnOutput(f) PROVE OwnInv'
    BY <1>3, RowsKeep
  <1>4. ASSUME NEW f \in Ffns, SendFfnOutput(f) PROVE OwnInv'
    BY <1>4, OutputKeeps
  <1>5. ASSUME NEW a \in Attns, SendAttnOutput(a) PROVE OwnInv'
    BY <1>5, SendKeeps
  <1>6. ASSUME NEW a \in Attns, RecvFfnOutput(a) PROVE OwnInv'
    BY <1>6, RecvKeeps
  <1>7. ASSUME NEW r \in Ranks, EndStep(r) PROVE OwnInv'
    BY <1>7, EndKeeps
  <1>8. ASSUME NEW r \in Ranks, NEW st \in Streams, Compute(r, st) PROVE OwnInv'
    <2>1. CASE r \in Attns
      BY <1>8, <2>1, AttnRuns
    <2>2. CASE r \in Ffns
      BY <1>8, <2>2, FfnRuns
    <2> QED BY <2>1, <2>2 DEF Ranks
  <1>9. ASSUME NEW s \in Stages, Collective(s) PROVE OwnInv'
    <2>1. Sender \in Ranks
      <3>1. Attn \in Nat \ {0}
        BY SizesAssumption
      <3>2. 0 \in 0 .. Attn - 1
        BY <3>1
      <3> QED BY <3>2 DEF Sender, Ranks, Attns
    <2> QED BY <1>9, <2>1, DispatchKeeps, CombineKeeps
  <1>10. CASE UNCHANGED vars
    <2>1. UNCHANGED <<stages, pc, control, inUse, done, count, queue, memory, rows, out, combined,
                      result>>
      BY <1>10 DEF vars, hostVars, dataVars
    <2>2. HostsTyped' /\ StreamsTyped' /\ DataTyped'
      BY <2>1 DEF OwnInv, HostsTyped, StreamsTyped, DataTyped, Table
    <2>3. Hosts' /\ Level'
      BY <2>1 DEF OwnInv, Hosts, Level, Top
    <2>4. AttnsHold' /\ FfnsHold' /\ OwnOutput'
      BY <2>1 DEF OwnInv, AttnsHold, FfnsHold, OwnOutput
    <2> QED BY <2>2, <2>3, <2>4 DEF OwnInv
  <1> QED BY <1>1, <1>2, <1>3, <1>4, <1>5, <1>6, <1>7, <1>8, <1>9, <1>10 DEF Next

(* Whatever has come up, and however its hosts, lanes and devices take turns,
   a stage gets back its own output (connector.py:900-909, 1393-1404). *)
THEOREM OwnOutputs == ServeSpec => []OwnOutput
  <1>1. StartupInit => OwnInv
    BY InitOwn DEF StartupInit
  <1>2. OwnInv /\ [ServeNext]_allVars => OwnInv'
    <2>1. [ServeNext]_allVars => [Next]_vars
      BY DEF ServeNext, allVars
    <2> QED BY <2>1, NextOwn
  <1>3. OwnInv => OwnOutput
    BY DEF OwnInv
  <1> QED BY <1>1, <1>2, <1>3, PTL DEF ServeSpec
=============================================================================
