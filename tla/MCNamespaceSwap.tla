--------------------------- MODULE MCNamespaceSwap ---------------------------
(* Small instances of NamespaceSwap for TLC. *)
EXTENDS NamespaceSwap, TLC

CONSTANTS p1, p2, a1, a2, a3

Spends(runs, undos) ==
    [runs |-> runs, undos |-> undos, refreshes |-> 0, breaks |-> 0, tears |-> 0, crashes |-> 0,
     tampers |-> 0, logins |-> 0, parks |-> 0, renewals |-> 0]

\* What may go wrong beside each other: a refresh of what goes in, a torn append, a session, a
\* death, a rename that fails, somebody at the log; two undos; a refresh by `status`.
Mixes ==
    {[Spends(2, 1) EXCEPT !.renewals = 1], [Spends(2, 1) EXCEPT !.tears = 1],
     [Spends(2, 1) EXCEPT !.crashes = 1], [Spends(2, 0) EXCEPT !.logins = 1],
     [Spends(1, 1) EXCEPT !.logins = 1, !.renewals = 1], [Spends(1, 2) EXCEPT !.renewals = 1],
     [Spends(1, 1) EXCEPT !.refreshes = 1, !.renewals = 1, !.crashes = 1],
     [Spends(2, 0) EXCEPT !.parks = 1, !.renewals = 1],
     [Spends(1, 0) EXCEPT !.parks = 1, !.logins = 1],
     [Spends(1, 1) EXCEPT !.tampers = 2, !.breaks = 1]}

\* One first write, and a refresh of the file it removes.
FirstWrite == {[Spends(1, 0) EXCEPT !.logins = 1]}

Symmetric == Permutations({p1, p2}) \cup Permutations({a2, a3})
=============================================================================
