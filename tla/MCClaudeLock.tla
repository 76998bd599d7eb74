---------------------------- MODULE MCClaudeLock ----------------------------
(* Small instances of ClaudeLock for TLC. *)
EXTENDS ClaudeLockInvariant, TLC

Symmetry == Permutations(Agents) \cup Permutations(Peers)
=============================================================================
