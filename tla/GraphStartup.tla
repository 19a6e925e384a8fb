---------------------------- MODULE GraphStartup ----------------------------
(***************************************************************************)
(* How the Attention and FFN ranks of an Async CAM world agree, over the   *)
(* rendezvous Store, on the FFN execution mode before they create the HCCL *)
(* group, and then bring a FULL world into service: paired warmup, graph   *)
(* capture, receive loops.  afd_plugin/async_cam_startup.py and its        *)
(* callers in connectors/npu/async_cam.py and                              *)
(* v1/worker/npu/async_ffn_model_runner.py.                                *)
(*                                                                         *)
(* A step is one operation on the Store, or local work between two.  The   *)
(* Store and the HCCL group are external: the Store is linearizable and    *)
(* outlives every rank, the group forms when every rank has asked for it.  *)
(***************************************************************************)
EXTENDS Naturals

CONSTANTS
  AttnSize, FFNSize, \* the Attention ranks come first in the world
  Plans,             \* plans an FFN rank may come with
  Transports,        \* transport signatures a rank may come with
  Fragile            \* ranks whose process may die

WorldSize == AttnSize + FFNSize
Ranks     == 0..WorldSize - 1
Attention == 0..AttnSize - 1
FFN       == AttnSize..WorldSize - 1

\* A plan: requested mode, two-stream signature or "", whether building the
\* two-stream executor or the layered executor failed, the layered executor's
\* signature or "", and the layer table or "".
Plan == [requested : {"eager", "full"}, stream : STRING, streamError : BOOLEAN,
         graphError : BOOLEAN, signature : STRING, layers : STRING]

ASSUME SizeAssumption  == AttnSize \in Nat \ {0} /\ FFNSize \in Nat \ {0}
ASSUME PlansAssumption == Plans \subseteq Plan
\* Rank 0 hosts the Store: without it there is no world.
ASSUME FragileAssumption == Fragile \subseteq Ranks \ {0}

VARIABLES
  plan,      \* self.plan of an FFN rank
  transport, \* the transport signature of a rank
  nonce,     \* ffn_graph/nonce is set
  stage,     \* the phase a rank is in, or failed in
  step,      \* where it is inside the phase
  mode,      \* self.mode
  expired,   \* the deadline of the rank's current wait has passed
  published, \* the ranks that published a phase
  errors     \* the ranks that published an error

storeVars == <<nonce, published, errors>>
rankVars  == <<stage, step, mode, expired>>
startupVars == <<plan, transport, storeVars, rankVars>>

Barriers == {"plan", "streams", "validated", "warmup", "captured"}
Phases   == Barriers \cup {"boot", "hccl", "service", "serving"}

\* The order in which a rank goes through the phases.
Index(p) == CASE p = "boot" -> 0 [] p = "plan" -> 1 [] p = "streams" -> 2
              [] p = "validated" -> 3 [] p = "hccl" -> 4 [] p = "warmup" -> 5
              [] p = "captured" -> 6 [] p = "service" -> 7 [] p = "serving" -> 8

(* One type invariant. *)
StartupTypeOK ==
  /\ plan \in [FFN -> Plans] /\ transport \in [Ranks -> Transports]
  /\ nonce \in BOOLEAN
  /\ stage \in [Ranks -> Phases]
  /\ step \in [Ranks -> {"prepare", "publish", "look", "keys", "raised", "failed"}]
  /\ mode \in [Ranks -> {"eager", "full"}]
  /\ expired \in [Ranks -> BOOLEAN]
  /\ published \in [Phases -> SUBSET Ranks]
  /\ errors \in SUBSET Ranks

StartupInit ==
  /\ plan \in [FFN -> Plans] /\ transport \in [Ranks -> Transports]
  /\ nonce = FALSE
  /\ stage = [r \in Ranks |-> "boot"] /\ step = [r \in Ranks |-> "prepare"]
  /\ mode = [r \in Ranks |-> "eager"]
  /\ expired = [r \in Ranks |-> FALSE]
  /\ published = [p \in Phases |-> {}] /\ errors = {}

-----------------------------------------------------------------------------
(* resolve_ffn_mode and the rest of the negotiation. *)

First == AttnSize
Differ(S) == \E x, y \in S : x # y

TwoStream == plan[First].stream # ""
UsesExecutor == plan[First].requested = "full" \/ TwoStream

\* Mutant: the executor signatures are not compared.
ModeRefused_NoSignature ==
  \/ Differ({plan[f].requested : f \in FFN})
  \/ Differ({plan[f].stream : f \in FFN})
  \/ \E f \in FFN : plan[f].streamError
  \/ /\ UsesExecutor
     /\ \/ \E f \in FFN : plan[f].graphError
        \/ plan[First].signature = "" \/ plan[First].layers = ""
        \/ Differ({plan[f].layers : f \in FFN})

ModeRefused ==
  \/ Differ({plan[f].requested : f \in FFN})
  \/ Differ({plan[f].stream : f \in FFN})
  \/ \E f \in FFN : plan[f].streamError
  \/ /\ UsesExecutor
     /\ \/ \E f \in FFN : plan[f].graphError
        \/ Differ({plan[f].signature : f \in {g \in FFN : ~plan[g].graphError}})
        \/ plan[First].signature = "" \/ plan[First].layers = ""
        \/ Differ({plan[f].layers : f \in FFN})

TransportRefused == UsesExecutor /\ Differ({transport[r] : r \in Ranks})

\* The phases a world goes through, and which of them comes after p.
Route ==
  {"boot", "plan", "hccl", "serving"}
  \cup {p \in {"streams"} : TwoStream}
  \cup {p \in {"validated", "warmup", "captured"} : plan[First].requested = "full"}
  \cup {p \in {"service"} : UsesExecutor}

Follows(q, p) ==
  /\ q \in Route /\ Index(q) > Index(p)
  /\ \A o \in Route : Index(o) > Index(p) => Index(q) <= Index(o)

-----------------------------------------------------------------------------
(* The steps of a phase. *)

At(r, p, s) == stage[r] = p /\ step[r] = s

GoTo(r, s) == step' = [step EXCEPT ![r] = s] /\ UNCHANGED <<stage, mode>>

\* A rank goes on to the next phase with mode m.
Advance(r, m) ==
  /\ \E p \in Phases : Follows(p, stage[r]) /\ stage' = [stage EXCEPT ![r] = p]
  /\ step' = [step EXCEPT ![r] = "prepare"]
  /\ mode' = [mode EXCEPT ![r] = m]

\* initialize: rank 0 sets the nonce, the others block until it is there.
Join(r) ==
  /\ At(r, "boot", "prepare")
  /\ r = 0 \/ nonce
  /\ nonce' = TRUE
  /\ Advance(r, mode[r])
  /\ UNCHANGED <<plan, transport, published, errors, expired>>

\* The work a rank does before it publishes a phase: nothing for the plan, the
\* static checks, the paired warmup that needs every rank, the capture.
Prepare(r) ==
  /\ step[r] = "prepare" /\ stage[r] \in Barriers
  /\ stage[r] = "warmup" => \A q \in Ranks : Index(stage[q]) >= Index("warmup")
  /\ GoTo(r, "publish")
  /\ UNCHANGED <<plan, transport, storeVars, expired>>

\* Any of it may raise; the warmup also when its device wait sees a failure or
\* runs out of time.
PrepareRaises(r) ==
  /\ step[r] = "prepare" /\ stage[r] \in Barriers
  /\ GoTo(r, "raised")
  /\ UNCHANGED <<plan, transport, storeVars, expired>>

\* _publish, then _wait sets its deadline.
Publish(r) ==
  /\ step[r] = "publish"
  /\ published' = [published EXCEPT ![stage[r]] = @ \cup {r}]
  /\ GoTo(r, "look")
  /\ expired' = [expired EXCEPT ![r] = FALSE]
  /\ UNCHANGED <<plan, transport, nonce, errors>>

\* Mutant: failures are not looked for.
Look_Blind(r) ==
  /\ step[r] = "look"
  /\ GoTo(r, "keys")
  /\ UNCHANGED <<plan, transport, storeVars, expired>>

\* check_failure, in _wait and in service_ready.
Look(r) ==
  /\ step[r] = "look"
  /\ GoTo(r, IF errors = {} THEN "keys" ELSE "raised")
  /\ UNCHANGED <<plan, transport, storeVars, expired>>

\* Mutant: a wait is for the FFN ranks only.
Awaited_FFN(p) == FFN

\* The ranks whose key a wait is for.
Awaited(p) == IF p = "service" THEN FFN ELSE Ranks

\* The keys are all there.  Past the plan, the rank resolves the mode.
PassBarrier(r) ==
  /\ step[r] = "keys" /\ ~(stage[r] = "service" /\ r \in FFN)
  /\ Awaited(stage[r]) \subseteq published[stage[r]]
  /\ IF stage[r] = "plan"
       THEN IF ModeRefused \/ TransportRefused
              THEN GoTo(r, "raised")
              ELSE Advance(r, plan[First].requested)
       ELSE Advance(r, mode[r])
  /\ UNCHANGED <<plan, transport, storeVars, expired>>

\* Mutant: a wait without a deadline.
WaitMore_ForEver(r) ==
  /\ step[r] = "keys" /\ ~(stage[r] = "service" /\ r \in FFN)
  /\ ~(Awaited(stage[r]) \subseteq published[stage[r]])
  /\ GoTo(r, "look")
  /\ UNCHANGED <<plan, transport, storeVars, expired>>

\* They are not: look again, or give up at the deadline.
WaitMore(r) ==
  /\ step[r] = "keys" /\ ~(stage[r] = "service" /\ r \in FFN)
  /\ ~(Awaited(stage[r]) \subseteq published[stage[r]])
  /\ GoTo(r, IF expired[r] THEN "raised" ELSE "look")
  /\ UNCHANGED <<plan, transport, storeVars, expired>>

Tick(r) ==
  /\ step[r] \in {"look", "keys"} /\ ~expired[r]
  /\ expired' = [expired EXCEPT ![r] = TRUE]
  /\ UNCHANGED <<plan, transport, storeVars, stage, step, mode>>

\* The HCCL group forms when everyone has asked for it.
CreateGroup(r) ==
  /\ At(r, "hccl", "prepare")
  /\ \A q \in Ranks : Index(stage[q]) >= Index("hccl")
  /\ Advance(r, mode[r])
  /\ UNCHANGED <<plan, transport, storeVars, expired>>

\* The FFN runner publishes that its group failed; an Attention rank does not.
CreateGroupRaises(r) ==
  /\ At(r, "hccl", "prepare")
  /\ GoTo(r, IF r \in FFN THEN "raised" ELSE "failed")
  /\ UNCHANGED <<plan, transport, storeVars, expired>>

\* Mutant: no wait for the FFN receive loops.
AwaitService_NoWait(r) ==
  /\ r \in Attention /\ At(r, "service", "prepare")
  /\ Advance(r, mode[r])
  /\ expired' = [expired EXCEPT ![r] = FALSE]
  /\ UNCHANGED <<plan, transport, storeVars>>

\* The last phase: an Attention rank of a FULL world waits for every FFN rank,
\* one of an eager world serves at once.
AwaitService(r) ==
  /\ r \in Attention /\ At(r, "service", "prepare")
  /\ IF mode[r] = "full" THEN GoTo(r, "look") ELSE Advance(r, mode[r])
  /\ expired' = [expired EXCEPT ![r] = FALSE]
  /\ UNCHANGED <<plan, transport, storeVars>>

\* service_ready, in the receive thread of an FFN rank.
BeginService(r) ==
  /\ r \in FFN /\ At(r, "service", "prepare")
  /\ GoTo(r, "look")
  /\ UNCHANGED <<plan, transport, storeVars, expired>>

AnnounceService(r) ==
  /\ r \in FFN /\ At(r, "service", "keys")
  /\ published' = [published EXCEPT !["service"] = @ \cup {r}]
  /\ Advance(r, mode[r])
  /\ UNCHANGED <<plan, transport, nonce, errors, expired>>

\* fail: the handler publishes the error and raises on.  A receive thread has
\* no such handler.
Fail(r) ==
  /\ step[r] = "raised"
  /\ errors' = IF r \in FFN /\ stage[r] = "service" THEN errors ELSE errors \cup {r}
  /\ GoTo(r, "failed")
  /\ UNCHANGED <<plan, transport, nonce, published, expired>>

Ended(r) == stage[r] = "serving" \/ step[r] = "failed"

\* The process of a rank dies without a word.
Crash(r) ==
  /\ r \in Fragile /\ ~Ended(r)
  /\ GoTo(r, "failed")
  /\ UNCHANGED <<plan, transport, storeVars, expired>>

-----------------------------------------------------------------------------

Done == (\A r \in Ranks : Ended(r)) /\ UNCHANGED startupVars

RankStep(r) ==
  \/ Join(r) \/ Prepare(r) \/ PrepareRaises(r) \/ Publish(r) \/ Look(r)
  \/ PassBarrier(r) \/ WaitMore(r) \/ CreateGroup(r) \/ CreateGroupRaises(r)
  \/ AwaitService(r) \/ BeginService(r) \/ AnnounceService(r) \/ Fail(r)

StartupNext == (\E r \in Ranks : RankStep(r) \/ Tick(r) \/ Crash(r)) \/ Done

\* Every rank's thread runs and its clock advances.
StartupFairness == \A r \in Ranks : WF_startupVars(RankStep(r)) /\ WF_startupVars(Tick(r))

StartupSpec == StartupInit /\ [][StartupNext]_startupVars
FairStartupSpec == StartupSpec /\ StartupFairness

-----------------------------------------------------------------------------
(* Properties. *)

\* What agreement means, stated without the order of the code's checks.
Compatible ==
  /\ \A f, g \in FFN : /\ plan[f].requested = plan[g].requested
                       /\ plan[f].stream = plan[g].stream
  /\ \A f \in FFN : ~plan[f].streamError
  /\ UsesExecutor =>
       /\ \A f, g \in FFN : /\ plan[f].signature = plan[g].signature
                            /\ plan[f].layers = plan[g].layers
       /\ \A f \in FFN : /\ ~plan[f].graphError
                         /\ plan[f].signature # "" /\ plan[f].layers # ""
       /\ \A q, r \in Ranks : transport[q] = transport[r]

\* "All F ranks must agree on execution mode and static executor layout through
\* the rendezvous Store before HCCL creation": nobody gets as far as the group
\* in an incompatible world, with another mode than the one requested, or before
\* every rank has shown its plan and passed the static checks of that mode
\* (async_cam_startup.py:145-151, connectors/npu/async_cam.py:403-415).
AgreedBeforeGroup ==
  \A r \in Ranks :
    /\ Index(stage[r]) > Index("plan") =>
         Compatible /\ \A f \in FFN : mode[r] = plan[f].requested
    /\ \A p \in {"plan", "streams", "validated"} \cap Route :
         Index(stage[r]) > Index(p) => published[p] = Ranks

\* An Attention rank of a FULL world serves only when every FFN rank has
\* captured its graph and its receive thread has announced itself.
ServesOnlyReadyWorld ==
  \A a \in Attention : stage[a] = "serving" /\ mode[a] = "full" =>
    /\ published["captured"] = Ranks
    /\ \A f \in FFN : stage[f] = "serving" /\ f \in published["service"]

\* No rank is past a phase that some rank has not published.
BarrierHolds ==
  \A r \in Ranks, p \in Barriers \cap Route :
    Index(stage[r]) > Index(p) => published[p] = Ranks

(***************************************************************************)
(* The inductive strengthening behind the safety properties above.         *)
(***************************************************************************)

\* A rank stays on the route of its world, and knows its mode past the plan.
RouteInv ==
  \A r \in Ranks :
    /\ stage[r] \in Route
    /\ step[r] = "publish" => stage[r] \in Barriers
    /\ stage[r] = "boot" => step[r] \in {"prepare", "failed"}
    /\ Index(stage[r]) > Index("plan") =>
         ~ModeRefused /\ ~TransportRefused /\ mode[r] = plan[First].requested

\* A service key is there only for an FFN rank that serves, and an Attention
\* rank of a FULL world went past every one of them.
ServiceInv ==
  /\ \A f \in FFN : f \in published["service"] => stage[f] = "serving"
  /\ \A a \in Attention : stage[a] = "serving" /\ mode[a] = "full" =>
       FFN \subseteq published["service"]

StartupInv == StartupTypeOK /\ RouteInv /\ BarrierHolds /\ ServiceInv

\* With an error published, rank r has still to look for one in phase p, or it
\* has given up there.
Held(r, p) ==
  /\ errors # {}
  /\ Index(stage[r]) < Index(p) \/ (stage[r] = p /\ step[r] # "keys")

\* "Late plan and ready publications must not conceal the first failure": once
\* an error is published, a rank never passes a phase whose wait it has not yet
\* looked into; in particular a rank that joins later never serves.
FailureStopsLatecomers ==
  [][\A r \in Ranks, p \in Barriers \cap Route : Held(r, p) => Held(r, p)']_startupVars

\* Every rank ends, in service or failed, whoever fails or stays away.
StartupEnds == <>(\A r \in Ranks : Ended(r))

\* "Startup failures are published to peers."  The failure of an Attention rank
\* to create the group is not: no run checks this.
FailuresPublished ==
  (\E r \in Ranks : step[r] = "failed") => errors # {}
=============================================================================
