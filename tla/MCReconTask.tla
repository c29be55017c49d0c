----------------------------- MODULE MCReconTask -----------------------------
(* ReconTask for TLC: small sets of processes, and the symmetry they allow. *)
EXTENDS ReconTask, TLC

Processes == Permutations(Client) \cup Permutations(Worker) \cup Permutations(Recoverer)
Everyone  == Processes \cup Permutations(Task)
=============================================================================
