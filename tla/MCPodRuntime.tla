---------------------------- MODULE MCPodRuntime ----------------------------
(* PodRuntime with two tasks in a two-bit word and one task beyond it. *)
EXTENDS PodRuntime

MCMasks == {{}, {0}, {0, 1}}
=============================================================================
