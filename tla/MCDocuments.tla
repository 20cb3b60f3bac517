---------------------------- MODULE MCDocuments ----------------------------
(* Two documents and one task at a time for the passing run: the user waits *)
(* for a save before touching the document again.  One document for the    *)
(* run in which the user does not wait.                                    *)
EXTENDS Documents, TLC

CONSTANTS d1, d2, j1

Sym == Permutations({d1, d2})
=============================================================================
