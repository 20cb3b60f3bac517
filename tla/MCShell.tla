------------------------------ MODULE MCShell -------------------------------
(* The instances of Shell that TLC checks. *)
EXTENDS Shell
=============================================================================
