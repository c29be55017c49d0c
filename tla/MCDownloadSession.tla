-------------------------- MODULE MCDownloadSession --------------------------
(* DownloadSession for TLC. *)
EXTENDS DownloadSession
=============================================================================
