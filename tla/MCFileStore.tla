---------------------------- MODULE MCFileStore ----------------------------
(* FileStore for TLC. *)
EXTENDS FileStore, TLC

Alike == Permutations(Content) \cup Permutations(File) \cup Permutations(Worker)
=============================================================================
