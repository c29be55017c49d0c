----------------------------- MODULE MCGpuLease -----------------------------
(* Instances of GpuLease for TLC. *)
EXTENDS GpuLease, TLC

CONSTANTS w1, w2, t1, t2, u1, s1, k1, k2, k3, r1

MC_OneScope  == [w \in Worker |-> s1]
MC_OneOwner  == [t \in Task |-> u1]
MC_QuotaOne  == [u \in User |-> 1]
MC_OneDevice == {0}
MC_TwoDevices == {0, 1}

MC_Symmetry == Permutations(Token) \cup Permutations(Worker) \cup Permutations(Task)
=============================================================================
