----------------------------- MODULE MCTaskFiles -----------------------------
(* TaskFiles for TLC. *)
EXTENDS TaskFiles, TLC

Interchangeable == Permutations(Input) \cup Permutations(Client) \cup Permutations(Worker)
=============================================================================
