----------------------------- MODULE ExclusiveGpu -----------------------------
(***************************************************************************)
(* What the GPU scheduler promises, without leases: a GPU runs at most one *)
(* algorithm process, a user at most gpu_concurrency_quota of them in one  *)
(* scope, and a process stays on its GPU until it stops.  GpuLease         *)
(* implements it.                                                          *)
(***************************************************************************)
EXTENDS Naturals, FiniteSets

CONSTANTS
  Worker,  \* each supervises at most one process
  Scope, ScopeOf, Device, User, Quota,
  None     \* no process

VARIABLE run  \* of each worker: the device and the user of its process, or None

Init == run = [w \in Worker |-> None]

\* The processes of scope s.
Inside(s) == {w \in Worker : run[w] # None /\ ScopeOf[w] = s}

Start(w, d, u) ==
  /\ run[w] = None
  /\ \A v \in Inside(ScopeOf[w]) : run[v].device # d
  /\ Cardinality({v \in Inside(ScopeOf[w]) : run[v].user = u}) < Quota[u]
  /\ run' = [run EXCEPT ![w] = [device |-> d, user |-> u]]

Stop(w) ==
  /\ run[w] # None
  /\ run' = [run EXCEPT ![w] = None]

Next ==
  \E w \in Worker : Stop(w) \/ \E d \in Device, u \in User : Start(w, d, u)

Spec == Init /\ [][Next]_run
=============================================================================
