---------------------------- MODULE UploadSession ----------------------------
(***************************************************************************)
(* What the endpoints under /upload promise of one upload: it is opened    *)
(* once, or answered at once from a file the user already has; it ends     *)
(* once; and what it leaves behind, if it is completed, is the file that   *)
(* was announced.  An expired upload may still be cancelled.               *)
(***************************************************************************)

VARIABLES
  outcome, \* of the upload
  content  \* of the file that belongs to it

vars == <<outcome, content>>

Init == outcome = "none" /\ content = "none"

Open     == outcome = "none" /\ outcome' = "open" /\ UNCHANGED content
Reuse    == outcome = "none" /\ outcome' = "completed" /\ content' = "whole"
Complete == outcome = "open" /\ outcome' = "completed" /\ content' = "whole"
Cancel   == outcome \in {"open", "expired"} /\ outcome' = "cancelled" /\ UNCHANGED content
Expire   == outcome = "open" /\ outcome' = "expired" /\ UNCHANGED content

Next == Open \/ Reuse \/ Complete \/ Cancel \/ Expire

Spec == Init /\ [][Next]_vars
=============================================================================
