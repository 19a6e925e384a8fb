------------------------ MODULE MCAttentionRunner -------------------------
(* Two FULL graphs for one stage, two for two stages, one size in common; two
   tokens would leave the first stage of the smallest two-stage graph padded. *)
EXTENDS AttentionRunner
D(t, s) == [tokens |-> t, stages |-> s]
MCDescs == <<D(6, 1), D(2, 1), D(8, 2), D(6, 2)>>
=============================================================================
