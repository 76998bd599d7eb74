---------------------------- MODULE MCCodexPass ----------------------------
(* Small instances of CodexPass for TLC. *)
EXTENDS CodexPass, TLC

Symmetry == Permutations(Procs)
=============================================================================
