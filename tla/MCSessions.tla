----------------------------- MODULE MCSessions -----------------------------
(* Small instances of Sessions for TLC. *)
EXTENDS Sessions, TLC

CONSTANTS r1, u1, u2, s1, s2, f1

Case(runs, peers, forgets, count) == [runs |-> runs, peers |-> peers, forgets |-> forgets, uses |-> count]

\* A rewrite beside two Claude Code sessions; a seed read beside one; two `use`s of one account
\* beside its `--forget`.
Rewrites    == Case({r1}, {s1, s2}, {}, 0)
Seeding     == Case({}, {s1}, {}, 1)
Directories == Case({}, {}, {f1}, 2)

RewritesOnly == {Case({r1}, {s1}, {}, 0)}
Mixes == {Rewrites, Seeding, Directories}

Symmetric == Permutations({u1, u2}) \cup Permutations({s1, s2})
=============================================================================
