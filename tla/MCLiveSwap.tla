----------------------------- MODULE MCLiveSwap -----------------------------
(* Small instances of LiveSwap for TLC. *)
EXTENDS LiveSwapInvariant

CONSTANTS p1, p2

Bound(procs, accounts, runs, mints, beside) ==
    [procs |-> procs, accounts |-> accounts, runs |-> runs, mints |-> mints,
     beside |-> beside]

\* Kinds of history.  One command after another while a session, a login or a migration
\* changes what it read; three swaps one after another; two commands at once over two
\* accounts with everything beside them, and over three.
Alone == Bound({p1}, {1, 2}, 2, 1, {"crash", "login", "agctl login"})
Twice == Bound({p1}, {1, 2}, 2, 2, {"agctl login"})
Moves == Bound({p1}, {1, 2}, 2, 1, {"refresh", "login", "status", "migrate"})
Again == Bound({p1}, {1, 2}, 3, 1, {})
Two   == Bound({p1, p2}, {1, 2}, 2, 1, {"crash", "login", "refresh", "status"})
Three == Bound({p1, p2}, {1, 2, 3}, 2, 0, {})

Histories == {Alone, Twice, Moves, Again, Two, Three}
UndoOnly == {Bound({p1}, {1, 2}, 1, 1, {})}
=============================================================================
