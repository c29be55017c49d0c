------------------------------ MODULE MCGpuUsage ------------------------------
(* GpuUsage for TLC, and the symmetry that a run without liveness allows. *)
EXTENDS GpuUsage, TLC

Alike == Permutations(Task) \cup Permutations(Worker)
=============================================================================
