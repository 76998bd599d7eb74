-------------------------- MODULE MCCodexRefresh --------------------------
(* Small instances of CodexRefresh for TLC. *)
EXTENDS CodexRefreshInvariant, TLC

Symmetry == Permutations(Procs)
=============================================================================
