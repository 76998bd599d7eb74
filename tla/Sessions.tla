------------------------------ MODULE Sessions ------------------------------
(***************************************************************************)
(* Isolated Claude Code sessions (commands/isolate.rs, commands/export.rs, *)
(* `agctl claude use`, `exec`, `env`): one account's session directory is  *)
(* built - links into the live configuration, then a `.claude.json` seeded *)
(* once from the live one, read under its lock when that is free - and a   *)
(* child starts in it.  Several `use`s build the same directory at once,   *)
(* `use --forget` removes it, and ConfigFile's rewrites and Claude Code    *)
(* sessions use the live file meanwhile.                                   *)
(***************************************************************************)
EXTENDS ConfigFile

CONSTANTS
    Forgets,    \* processes running `use --forget`
    Entries,    \* names linked into the live directory, the MCP link among them
    Optional,   \* those an option leaves out: tier 2 and the MCP link
    Attempts    \* LIVE_READ_ATTEMPTS

ASSUME SessionsAssumption ==
    /\ Optional \subseteq Entries /\ Attempts \in Nat \ {0}
    /\ Cases \subseteq [runs : SUBSET Runs, peers : SUBSET Peers, forgets : SUBSET Forgets, uses : Nat]
    /\ Forgets \cap (Runs \cup Seeders \cup Peers) = {}

VARIABLES
    there,      \* the session directory exists
    link,       \* each name in it: nothing, the live entry's link, or something else
    seed,       \* its .claude.json: none, made but not written, or a version's settings
    use,        \* each `use`: its place and its locals
    forget,     \* each `use --forget`: its place and what it still has to remove
    uses        \* bound: how many `use`s may still begin

directory == <<there, link, seed>>
sessionVars == <<config, directory, use, forget, uses>>

-----------------------------------------------------------------------------
(* What is in the directory.                                               *)

NoSeed == -2
Unwritten == -1
Floor == 0          \* the live file is absent: what seed_floor fills in
Own == MaxVersion + 1   \* written by the session that runs in the directory
Seeds == NoSeed .. Own
Whole == Floor .. Own

\* What a read of the live file gives: the version its settings are from.
Settings(doc) == doc.version

Using == [pc |-> "idle", wanted |-> {}, found |-> {}, making |-> {}, read |-> Floor, tries |-> 0, registered |-> FALSE,
          named |-> FALSE, forgot |-> FALSE]

SEED_FILE == ".claude.json"
Contents == {e \in Entries : link[e] # "none"} \cup (IF seed = NoSeed THEN {} ELSE {SEED_FILE})
Unforgetting == [pc |-> "idle", left |-> {}]

UsePlaces == {"idle", "create", "link", "symlink", "lock", "locked", "release", "rmdir", "first", "second",
              "open", "write", "start", "running", "failed", "dead"}

UseLocals == [pc : UsePlaces, wanted : SUBSET Entries, found : SUBSET Entries, making : SUBSET Entries,
              read : Floor .. MaxVersion, tries : 0 .. Attempts, registered : BOOLEAN,
              named : BOOLEAN, forgot : BOOLEAN]

In(u, place) == use[u].pc = place
Moves(u, place) == use' = [use EXCEPT ![u].pc = place]
Building(u) == use[u].pc \notin {"idle", "running", "failed", "dead"}

-----------------------------------------------------------------------------
(* Building a session directory.                                           *)

\* An owned account, a directory under the session root or one the caller named.
Begin(u) ==
    /\ use[u].pc \in {"idle", "failed"} /\ uses > 0
    /\ uses' = uses - 1
    /\ \E wanted \in {Entries, Entries \ Optional} :
          use' = [use EXCEPT ![u] = [Using EXCEPT !.pc = "create", !.wanted = wanted]]
    /\ UNCHANGED <<config, directory, forget>>

\* The leaf is made if it is not there; another `use` may have made it first.
CreateDir(u) ==
    /\ In(u, "create")
    /\ there' = TRUE
    /\ Moves(u, "link")
    /\ UNCHANGED <<config, link, seed, forget, uses>>

\* One name is looked at: the live entry's link is left, anything else there refuses, and nothing
\* there is a link to make.
Link(u) ==
    /\ In(u, "link") /\ use[u].wanted # use[u].found
    /\ \E e \in use[u].wanted \ use[u].found :
          use' = [use EXCEPT ![u].found = IF link[e] = "live" THEN @ \cup {e} ELSE @,
                             ![u].making = IF link[e] = "none" THEN {e} ELSE {},
                             ![u].pc = CASE link[e] = "live" -> "link" [] link[e] = "none" -> "symlink"
                                         [] OTHER -> "failed"]
    /\ UNCHANGED <<config, directory, forget, uses>>

\* It is made where nothing has come meanwhile: not even another `use`'s link will do.
Symlink(u) ==
    /\ In(u, "symlink")
    /\ IF there /\ \A e \in use[u].making : link[e] = "none"
       THEN /\ link' = [e \in Entries |-> IF e \in use[u].making THEN "live" ELSE link[e]]
            /\ use' = [use EXCEPT ![u].found = @ \cup use[u].making, ![u].making = {}, ![u].pc = "link"]
       ELSE Moves(u, "failed") /\ link' = link
    /\ UNCHANGED <<config, there, seed, forget, uses>>

\* A seed that is there is never rewritten; otherwise the live file is read, if there is one.
SeedOnce(u) ==
    /\ In(u, "link") /\ use[u].wanted = use[u].found
    /\ Moves(u, IF seed # NoSeed THEN "start" ELSE IF file = Absent THEN "open" ELSE "lock")
    /\ UNCHANGED <<config, directory, forget, uses>>

\* One attempt at the live file's lock; without it the file is read twice.
TryOnce(u) ==
    /\ In(u, "lock")
    /\ IF lock = NoLock
       THEN Make(u) /\ use' = [use EXCEPT ![u].pc = "locked", ![u].registered = TRUE]
       ELSE UNCHANGED <<lock, age, stamped>> /\ Moves(u, "first")
    /\ UNCHANGED <<file, overdue, backups, temps, session, run, broken, directory, forget, uses>>

ReadLocked(u) ==
    /\ In(u, "locked")
    /\ use' = [use EXCEPT ![u].read = Settings(file), ![u].pc = "release"]
    /\ UNCHANGED <<config, directory, forget, uses>>

GiveBack(u) ==
    /\ In(u, "release")
    /\ use' = [use EXCEPT ![u].registered = FALSE, ![u].pc = IF use[u].registered THEN "rmdir" ELSE "open"]
    /\ UNCHANGED <<config, directory, forget, uses>>

RemoveItsLock(u) ==
    /\ In(u, "rmdir")
    /\ Unmake
    /\ Moves(u, "open")
    /\ UNCHANGED <<file, overdue, backups, temps, session, run, broken, directory, forget, uses>>

FirstRead(u) ==
    /\ In(u, "first")
    /\ use' = [use EXCEPT ![u].read = Settings(file), ![u].pc = "second"]
    /\ UNCHANGED <<config, directory, forget, uses>>

SecondRead(u) ==
    /\ In(u, "second")
    /\ use' = [use EXCEPT ![u].tries = @ + 1,
                          ![u].pc = IF Settings(file) = use[u].read THEN "open"
                                    ELSE IF use[u].tries + 1 < Attempts THEN "first" ELSE "failed"]
    /\ UNCHANGED <<config, directory, forget, uses>>

OpenSeedOver(u) ==
    /\ In(u, "open") /\ there
    /\ seed' = Unwritten
    /\ use' = [use EXCEPT ![u].pc = "write", ![u].named = TRUE]
    /\ UNCHANGED <<config, there, link, forget, uses>>

\* The seed is created if nothing is at its name; a plain file that is there counts as the winner's.
OpenSeed(u) ==
    /\ In(u, "open")
    /\ IF seed # NoSeed THEN Moves(u, "start") /\ seed' = seed
       ELSE IF ~there THEN Moves(u, "failed") /\ seed' = seed
       ELSE use' = [use EXCEPT ![u].pc = "write", ![u].named = TRUE] /\ seed' = Unwritten
    /\ UNCHANGED <<config, there, link, forget, uses>>

\* The text goes to the file that was opened, whether its name is still there or not.
WriteSeed(u) ==
    /\ In(u, "write")
    /\ \/ /\ seed' = IF use[u].named THEN use[u].read ELSE seed
          /\ Moves(u, "start")
       \/ /\ seed' = seed
          /\ Moves(u, "failed")
    /\ UNCHANGED <<config, there, link, forget, uses>>

\* The child starts, or the caller is given its environment.
StartChild(u) ==
    /\ In(u, "start")
    /\ Moves(u, "running")
    /\ UNCHANGED <<config, directory, forget, uses>>

UseSignalled(u) ==
    /\ Building(u) /\ use[u].registered
    /\ Unmake
    /\ use' = [use EXCEPT ![u].registered = FALSE]
    /\ UNCHANGED <<file, overdue, backups, temps, session, run, broken, directory, forget, uses>>

UseDies(u) ==
    /\ Building(u)
    /\ Moves(u, "dead")
    /\ UNCHANGED <<config, directory, forget, uses>>

\* Claude Code in the session directory replaces its own configuration, by a rename.
SessionSaves(u) ==
    /\ In(u, "running") /\ there
    /\ seed' = Own
    /\ use' = [v \in Seeders |-> [use[v] EXCEPT !.named = FALSE]]
    /\ UNCHANGED <<config, there, link, forget, uses>>

-----------------------------------------------------------------------------
(* `use --forget`: no lock, and no question to whoever runs in the directory. *)

Look(f) ==
    /\ forget[f].pc = "idle"
    /\ forget' = [forget EXCEPT ![f].pc = IF there THEN "ask" ELSE "ended"]
    /\ UNCHANGED <<config, directory, use, uses>>

Confirm(f) ==
    /\ forget[f].pc = "ask"
    /\ \E yes \in BOOLEAN :
          forget' = [forget EXCEPT ![f] = IF yes THEN [pc |-> "removing", left |-> Contents]
                                          ELSE [pc |-> "ended", left |-> {}]]
    /\ UNCHANGED <<config, directory, use, uses>>

\* Each name as it was listed is unlinked; a link's target is not visited.
Remove(f) ==
    /\ forget[f].pc = "removing"
    /\ \E name \in forget[f].left :
          /\ forget' = [forget EXCEPT ![f].left = @ \ {name}]
          /\ link' = [e \in Entries |-> IF e = name THEN "none" ELSE link[e]]
          /\ seed' = IF name = SEED_FILE THEN NoSeed ELSE seed
          /\ use' = [u \in Seeders |->
                       [use[u] EXCEPT !.forgot = @ \/ Building(u), !.named = @ /\ name # SEED_FILE]]
    /\ UNCHANGED <<config, there, uses>>

\* The directory goes if nothing was put in it meanwhile.
RemoveDir(f) ==
    /\ forget[f].pc = "removing" /\ forget[f].left = {}
    /\ there' = (there /\ Contents # {})
    /\ forget' = [forget EXCEPT ![f].pc = "ended"]
    /\ use' = [u \in Seeders |-> [use[u] EXCEPT !.forgot = @ \/ Building(u)]]
    /\ UNCHANGED <<config, link, seed, uses>>

Forgetting == \E f \in Forgets : forget[f].pc = "removing"

-----------------------------------------------------------------------------
Begins(c) ==
    /\ ConfigInit(c)
    /\ there \in BOOLEAN /\ seed = NoSeed
    /\ link \in {[e \in Entries |-> "none"]} \cup
                  {[e \in Entries |-> IF e = f THEN "other" ELSE "none"] : f \in IF there THEN Entries ELSE {}}
    /\ use = [u \in Seeders |-> Using]
    /\ forget = [f \in Forgets |-> [Unforgetting EXCEPT !.pc = IF f \in c.forgets THEN "idle" ELSE "ended"]]
    /\ uses = c.uses

SessionsInit == \E c \in Cases : Begins(c)

Use(u) ==
    \/ Begin(u) \/ CreateDir(u) \/ Link(u) \/ Symlink(u) \/ SeedOnce(u) \/ TryOnce(u) \/ ReadLocked(u)
    \/ GiveBack(u) \/ RemoveItsLock(u) \/ FirstRead(u) \/ SecondRead(u) \/ OpenSeed(u) \/ WriteSeed(u) \/ StartChild(u)
    \/ UseSignalled(u) \/ UseDies(u) \/ SessionSaves(u)

ForgetStep(f) == Look(f) \/ Confirm(f) \/ Remove(f) \/ RemoveDir(f)

SessionsNext ==
    \/ ConfigNext /\ UNCHANGED <<directory, use, forget, uses>>
    \/ \E u \in Seeders : Use(u)
    \/ \E f \in Forgets : ForgetStep(f)

SessionsSpec == SessionsInit /\ [][SessionsNext]_sessionVars

-----------------------------------------------------------------------------
(* Properties.                                                             *)

\* Every variable holds the values the code gives it.
SessionsTypeOK ==
    /\ ConfigTypeOK
    /\ there \in BOOLEAN /\ link \in [Entries -> {"none", "live", "other"}] /\ seed \in Seeds
    /\ uses \in Nat
    /\ use \in [Seeders -> UseLocals]
    /\ forget \in [Forgets -> [pc : {"idle", "ask", "removing", "ended"},
                                left : SUBSET (Entries \cup {SEED_FILE})]]

\* What a rewrite replaces is a document it has read and backed up: a change a Claude Code session
\* made before the run's last look is never lost, and a later one, a session's or another run's,
\* only where it was written without the lock, after the last look at the lock, or with a lock that
\* was reclaimed from the run before it recorded a modification time (claude_json.rs, H4-H7).
ReplacesWhatItRead ==
    [][\A r \in Runs : (At(r, "rename") /\ file' # file) =>
            run[r].basis \in backups /\ (file = run[r].basis \/ run[r].raced)]_sessionVars

\* agctl removes a lock directory it did not make only where its own was reclaimed while it was
\* stopped: the release and the emergency closure never both remove (config_lock.rs, release_now).
RemovesItsOwnLock ==
    [][\A p \in Peers : (lock = p /\ lock' = NoLock /\ session' = session) => broken # {}]_sessionVars

\* A session's `.claude.json` is seeded once: a later or a concurrent `use` never puts another
\* there, however they interleave (isolate.rs, seed_claude_json and write_seed_file).
SeededOnce ==
    [][(seed \in Whole /\ seed' # seed) => seed' = Own \/ (seed' = NoSeed /\ Forgetting)]_sessionVars

\* A child starts in a directory with every link it was to have and a seed in place, unless a
\* `--forget` took something meanwhile; the seed may be one another `use` has not written.
StartsComplete ==
    [][\A u \in Seeders : In(u, "start") /\ use'[u].pc = "running" /\ ~use[u].forgot =>
            seed # NoSeed /\ \A e \in use[u].wanted : link[e] = "live"]_sessionVars

\* What config_lock.rs:229 says: a lock that is not agctl's is never broken.
OthersLockStands ==
    [][\A p \in Peers : lock = p /\ lock' = NoLock => session' # session]_sessionVars

\* What the `use` that finds a seed relies on: the file that is there is a whole seed.
StartsSeeded ==
    [][\A u \in Seeders : In(u, "start") /\ use'[u].pc = "running" /\ ~use[u].forgot => seed \in Whole]_sessionVars

-----------------------------------------------------------------------------
(* The inductive invariant behind the safety properties.                   *)

\* Where the emergency closure is not yet registered, or is withdrawn.
Unregistered == {"idle", "ask", "resolve", "lock", "made", "rmdir"}

\* From the backup on a run is about a document that is kept; from its last look on the document is
\* still the file's, or was raced, or the lock is not the run's any more.
RewriteOf(r) ==
    /\ At(r, "backup") => run[r].basis # Absent
    /\ run[r].pc \in {"track", "temp", "recheck", "drift", "rename"} => run[r].basis \in backups
    /\ At(r, "drift") => file = run[r].basis \/ run[r].raced \/ r \notin stamped
    /\ At(r, "rename") => file = run[r].basis \/ run[r].raced
    /\ run[r].pc \in Unregistered => ~run[r].registered

\* A read is tried again only while attempts are left.
UseOf(u) ==
    /\ use[u].pc \in {"create", "link", "symlink", "lock", "first", "second"} => use[u].tries < Attempts
    /\ In(u, "rmdir") => ~use[u].registered

\* A seed to be written is the one that was made, by the only one to write it.
Writing(u) == In(u, "write") /\ use[u].named

SeedInv == \A u \in Seeders : Writing(u) => seed = Unwritten /\ \A v \in Seeders : Writing(v) => v = u

\* Until a lock is reclaimed from one that is stopped, whoever means to remove the lock has it.
RunHolds(r) == run[r].registered \/ At(r, "made") \/ At(r, "rmdir")
UseHolds(u) == use[u].registered \/ In(u, "rmdir")

LockInv ==
    broken = {} => /\ \A r \in Runs : RunHolds(r) => lock = r
                   /\ \A u \in Seeders : UseHolds(u) => lock = u

SessionsInv ==
    /\ SessionsTypeOK
    /\ \A r \in Runs : RewriteOf(r)
    /\ \A u \in Seeders : UseOf(u)
    /\ SeedInv
    /\ LockInv

=============================================================================
