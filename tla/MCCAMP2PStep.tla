---------------------------- MODULE MCCAMP2PStep ----------------------------
(* Instances of CAMP2PStep for TLC. *)
EXTENDS CAMP2PStep

(* memory profiling captures the first descriptor before the capture proper *)
Descs == <<[size |-> 2, stages |-> 1], [size |-> 2, stages |-> 1], [size |-> 3, stages |-> 2]>>
NoDescs == <<>>

=============================================================================
