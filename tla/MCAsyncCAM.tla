------------------------------ MODULE MCAsyncCAM ------------------------------
(***************************************************************************)
(* A small Async CAM deployment: a MoE, a dense and a MoE layer, and a     *)
(* draft layer with a number of its own.                                   *)
(***************************************************************************)
EXTENDS AsyncCAM

ThreeLayers == <<[id |-> 1, moe |-> TRUE], [id |-> 2, moe |-> FALSE], [id |-> 3, moe |-> TRUE]>>
TargetAndDraft == {1, 3, 6}
(* three tokens and the row that pads them: some experts get two rows *)
Spread == <<<<2, 1>>, <<3, 1>>, <<0, 1>>, <<2, 0>>, <<0, 1>>, <<0, 1>>>>
SpreadOnly == {Spread}
=============================================================================
