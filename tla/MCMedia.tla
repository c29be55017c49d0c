------------------------------- MODULE MCMedia -------------------------------
(* Media for TLC. *)
EXTENDS Media

\* All but the two that strand a pending file (README, observed limits).
MC_Faults == FaultKinds \ {"first exception", "late enqueuer"}
=============================================================================
