--------------------------- MODULE MCPassRuntime ---------------------------
(* Small instances of PassRuntime for TLC. *)
EXTENDS PassRuntime, TLC

Symmetry == Permutations(Slots) \cup Permutations(Workers)
=============================================================================
