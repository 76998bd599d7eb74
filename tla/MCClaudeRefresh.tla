-------------------------- MODULE MCClaudeRefresh --------------------------
(* Small instances of ClaudeRefresh for TLC. *)
EXTENDS ClaudeRefresh

CONSTANTS p1, p2

Case(procs, mints, passes, ticks, starts, beside) ==
    [procs |-> procs, mints |-> mints, passes |-> passes, ticks |-> ticks,
     starts |-> starts, beside |-> beside]

\* Kinds of history: two passes over the file, one beside a session and logins, one after
\* another with a parked write; two over the item, one with everything that can fail, one over
\* an item the registry does not predict; and the usage cache under a clock.
Files   == Case({p1, p2}, 1, 2, 0, {"file"}, {"session", "crash"})
Relogin == Case({p1}, 2, 2, 0, {"file"}, {"session", "login", "relogin", "faults"})
Replays == Case({p1}, 1, 2, 0, {"file"}, {"faults", "remove", "migrate", "session", "cancel"})
Items   == Case({p1, p2}, 1, 2, 0, {"item"}, {"session", "swap"})
Broken  == Case({p1}, 2, 1, 0, {"item"}, {"swap", "crash", "cancel", "faults", "locked", "session"})
Strange == Case({p1}, 1, 2, 0, {"item"}, {"mismatch", "session"})
Windows == Case({p1, p2}, 0, 3, 2, {"file"}, {})

Histories == {Files, Relogin, Replays, Items, Broken, Strange, Windows}
CancelledOnly == {Case({p1}, 1, 1, 0, {"item"}, {"cancel"})}
=============================================================================
