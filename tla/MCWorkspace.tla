---------------------------- MODULE MCWorkspace -----------------------------
(* The instance of Workspace that TLC checks. *)
EXTENDS Workspace

(* Sessions are interchangeable: no operation compares or orders them. *)
Symmetric == Permutations(Sessions)
=============================================================================
