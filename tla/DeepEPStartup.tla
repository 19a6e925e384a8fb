---------------------------- MODULE DeepEPStartup ----------------------------
(***************************************************************************)
(* The startup of a DeepEP M2N deployment, followed by its steps.  Every   *)
(* rank builds its connector from its own command line, loads its model,   *)
(* and takes part in four collectives: the handshake, the exchange of what *)
(* was loaded, the control group, and a dispatch and combine per lane and  *)
(* bucket (DeepEPM2NAFDConnector.init_afd_connector).  A rank that raises  *)
(* leaves the others waiting until they time out.                          *)
(***************************************************************************)
EXTENDS DeepEPStep

CONSTANTS
    Deployments,    \* a record of settings for every world rank, FFN ranks first
    Served          \* bound: those of them whose steps are run

(* An FFN rank is its own world rank (DeepEPM2NLayout.world_rank). *)
ASSUME DeploymentsAssumption ==
    \A d \in Deployments : \A w \in DOMAIN d :
        /\ {d[w].l.ffn, d[w].l.attn} \subseteq Int
        /\ d[w].role = "ffn" => d[w].rank = w

VARIABLES
    deployment,
    phase,      \* how far a rank is
    reports,    \* what the ranks report in a collective, while they read it
    adopted     \* what a rank took from the handshake

startupVars == <<deployment, phase, reports, adopted>>
allVars == <<startupVars, vars>>

World == DOMAIN deployment
Of(w) == deployment[w]

StartupInit ==
    /\ Init
    /\ deployment \in Deployments
    /\ phase = Each(World, "new") /\ reports = None
    /\ adopted = Each(World, None)

(* a step of one rank, which raises unless ok *)
Goes(w, from, to, ok) ==
    /\ phase[w] = from
    /\ phase' = [phase EXCEPT ![w] = IF ok THEN to ELSE "failed"]

(* a collective: every rank has come to it *)
Together(from, to) ==
    /\ \A w \in World : phase[w] = from
    /\ phase' = Each(World, to)

(* __init__: options, layout, capacity, ladder and lanes of this rank *)
Construct(w) ==
    /\ Goes(w, "new", "built",
            /\ Of(w).role = "ffn" => RoutedBackend(Of(w).v) /= None
            /\ ValidOptions(Of(w).c) /\ ValidLayout(Of(w).l)
            /\ NumLanes(Of(w).c, Of(w).v) /= None)
    /\ UNCHANGED <<deployment, reports, adopted>>

(* vLLM loads the weights, or fails to *)
LoadModel(w) ==
    /\ \E ok \in BOOLEAN : Goes(w, "built", "loaded", ok)
    /\ UNCHANGED <<deployment, reports, adopted>>

(* _handshake: the gloo group and its all-gather *)
Handshake ==
    /\ Together("loaded", "informed")
    /\ reports' = [w \in World |-> HandshakeInfo(Of(w))]
    /\ UNCHANGED <<deployment, adopted>>

(* validate_handshake, on every rank with its own layout and options *)
ReadHandshake(w) ==
    /\ LET agreement == ValidateHandshake(reports, Of(w).l, Of(w).c.network)
       IN  /\ Goes(w, "informed", "agreed", agreement /= None)
           /\ adopted' = [adopted EXCEPT ![w] = agreement]
    /\ UNCHANGED <<deployment, reports>>

(* init_afd_connector: what every rank loaded *)
ExchangeModels ==
    /\ Together("agreed", "exchanged")
    /\ reports' = [w \in World |-> ModelInfo(Of(w), Of(w).rank)]
    /\ UNCHANGED <<deployment, adopted>>

ReadModels(w) ==
    /\ Goes(w, "exchanged", "checked", ModelsAccepted(reports, Of(w).l, Of(w).c.payload))
    /\ UNCHANGED <<deployment, reports, adopted>>

(* the NCCL group of the control plane *)
JoinControl ==
    /\ Together("checked", "joined")
    /\ reports' = None
    /\ UNCHANGED <<deployment, adopted>>

(* _new_lane, once per lane: buffers may not fit, and then the rank closes *)
NewLanes(w) ==
    /\ \E ok \in BOOLEAN : Goes(w, "joined", "lanes", ok)
    /\ UNCHANGED <<deployment, reports, adopted>>

(* what a rank plans its stages with: the adopted values and its own options *)
PlansWith(w) ==
    [tp |-> adopted[w].tp, capacity |-> adopted[w].capacity, ladder |-> adopted[w].ladder,
     granularity |-> Of(w).c.granularity, sync_min |-> Of(w).c.sync_min]
LanesOf(w) == NumLanes(Of(w).c, Of(w).v)
PrecompiledBy(w) == [lanes |-> LanesOf(w), buckets |-> PrecompileBuckets(PlansWith(w))]

(* _precompile_dispatch_kernels: collectives of all ranks, in one order *)
Precompile ==
    /\ Together("lanes", "ready")
    /\ \A w \in World : PrecompiledBy(w) = PrecompiledBy(0)
    /\ UNCHANGED <<deployment, reports, adopted>>

(* A rank in a collective that another has not come to gives up in the end:
   the timeouts of the groups, and of afdEP. *)
TimeOut(w) ==
    /\ phase[w] \in {"loaded", "agreed", "checked", "lanes"}
    /\ \/ \E v \in World : phase[v] /= phase[w]
       \/ phase[w] = "lanes" /\ \E v \in World : PrecompiledBy(v) /= PrecompiledBy(w)
    /\ phase' = [phase EXCEPT ![w] = "failed"]
    /\ UNCHANGED <<deployment, reports, adopted>>

StartupNext ==
    \/ Handshake \/ ExchangeModels \/ JoinControl \/ Precompile
    \/ \E w \in World :
         \/ Construct(w) \/ LoadModel(w) \/ ReadHandshake(w) \/ ReadModels(w)
         \/ NewLanes(w) \/ TimeOut(w)

Ready == \A w \in World : phase[w] = "ready"

(* the constants of the steps are what the ranks of a served deployment
   have come to *)
Runs ==
    /\ Ready /\ deployment \in Served
    /\ \A w \in World : PlansWith(w) = Agreed /\ LanesOf(w) = Lanes

ServeNext ==
    \/ ~Ready /\ StartupNext /\ UNCHANGED vars
    \/ Runs /\ Next /\ UNCHANGED startupVars

ServeSpec == StartupInit /\ [][ServeNext]_allVars /\ WF_allVars(ServeNext)

----------------------------------------------------------------------------
(***************************************************************************)
(* Properties.                                                             *)
(***************************************************************************)
(* Ranks that are ready plan every stage alike, from their own options and
   what they adopted: a dispatch is one collective only when all of them
   choose its bucket and its host synchronisation alike (connector.py:308). *)
PlansOf(w) ==
    [counts \in Counts, graph \in BOOLEAN |->
        LET attn == Of(w).l.attn
            each == [r \in 0 .. attn - 1 |-> counts[0]]
        IN  <<Refused(PlansWith(w), each, attn), PlanStage(PlansWith(w), each, attn, graph)>>]
PlansAlike ==
    Ready =>
        \A w \in World :
            /\ LanesOf(w) = LanesOf(0)
            /\ adopted[w].network = adopted[0].network
            /\ adopted[w].alignment = adopted[0].alignment
            /\ PlansOf(w) = PlansOf(0)

(* Every expert is held, in the format of the payload, by the FFN rank that
   rows for it are routed to, and every rank runs the same MoE layers
   (connector.py:481-486, 710-780). *)
RoutedWhereHeld ==
    Ready =>
        \A f \in World : Of(f).role = "ffn" =>
            /\ \A w \in World : ExpertRange(Of(w).l, Of(f).rank)
                                  \subseteq PlacedExperts(Of(f).v, Of(f).rank, Of(f).l.experts)
            /\ \A w \in World : /\ WeightFormat(Of(f).v) = Of(w).c.payload
                                /\ Of(w).layers = Of(f).layers

RanksAgree == PlansAlike /\ RoutedWhereHeld

(* A startup ends on every rank, for all of them alike, and every step of a
   deployment that came up ends, on every host and in every stream. *)
StepsEnd ==
    <>(\/ \A w \in World : phase[w] = "failed"
       \/ Ready /\ (Runs => Finished))
=============================================================================
