---------------------------- MODULE MCDownloadPool ----------------------------
(* DownloadPool with two workers and two pieces. *)
EXTENDS DownloadPool, TLC

=============================================================================
