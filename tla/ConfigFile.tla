----------------------------- MODULE ConfigFile -----------------------------
(***************************************************************************)
(* Claude Code's `.claude.json` and the lock beside it, as agctl uses them *)
(* (provider/claude/claude_json.rs, secret/config_lock.rs): after a live   *)
(* swap a run rewrites the account the file names, or a later run catches  *)
(* it up, as a peer of the Claude Code sessions that write the same file.  *)
(*                                                                         *)
(* A document is the account it names, whether it holds the caches of the  *)
(* account before, a version of everything else in it, and whether agctl   *)
(* can reproduce its bytes.  A session writes a document whole, by a       *)
(* rename.  Time is the age of the lock - fresh, past agctl's budget for a *)
(* hold, past the age at which a session reclaims it - and who is overdue. *)
(***************************************************************************)
EXTENDS Integers, FiniteSets

CONSTANTS
    Runs,       \* agctl processes that rewrite the file
    Seeders,    \* agctl processes that read it for an isolated session
    Peers,      \* Claude Code sessions
    NoLock,     \* the lock directory is not there
    Account,    \* the account the runs install
    Before,     \* the account the file names at first
    MaxVersion, \* bound: versions of the document's other keys
    Ladder,     \* attempts after the first on a busy lock
    Cases       \* the processes that take part in a behaviour, and how many `use`s begin

ASSUME ConfigAssumption ==
    /\ Runs \cap Seeders = {} /\ (Runs \cup Seeders) \cap Peers = {}
    /\ NoLock \notin Runs \cup Seeders \cup Peers
    /\ Account # Before /\ MaxVersion \in Nat \ {0} /\ Ladder \in Nat

VARIABLES
    file,       \* the document at the configuration path
    lock,       \* who made the lock directory that is there
    age,        \* its modification time's age, as the others see it
    stamped,    \* the rewrites that have recorded that modification time as their own
    overdue,    \* the rewrites past their budget, which counts from their own mkdir's return
    backups,    \* documents in Claude Code's backups directory
    temps,      \* the runs whose temporary file is in the directory
    session,    \* each session: idle, holding the lock, writing without it, or gone
    run,        \* each rewrite: its place and its locals
    broken      \* history: agctl processes whose lock a session reclaimed

times == <<age, stamped, overdue>>
config == <<file, lock, times, backups, temps, session, run, broken>>

-----------------------------------------------------------------------------
(* Documents, ages and places.                                             *)

Absent == [account |-> Before, caches |-> FALSE, version |-> 0, plain |-> FALSE]
Documents == [account : {Before, Account}, caches : BOOLEAN, version : 1 .. MaxVersion, plain : BOOLEAN]
InFile == Documents \cup {Absent}

Fresh == 0
Late == 1       \* past CONFIG_HOLD_BUDGET
Stale == 2      \* past CONFIG_PROFILE.stale
Ages == Fresh .. Stale

Names(doc) == doc.account = Account
Rewritten(doc) == [doc EXCEPT !.account = Account, !.caches = FALSE]

Idle == [pc |-> "idle", catchup |-> FALSE, tries |-> 0, basis |-> Absent,
         registered |-> FALSE, raced |-> FALSE]

\* Places under the hold, in order, after the mkdir's own.
Held == {"read", "backup", "track", "temp", "recheck", "drift", "rename", "release", "rmdir"}
Places == Held \cup {"idle", "ask", "resolve", "lock", "made", "ended", "dead"}

RunLocals == [pc : Places, catchup : BOOLEAN, tries : 0 .. Ladder, basis : InFile,
              registered : BOOLEAN, raced : BOOLEAN]

At(r, place) == run[r].pc = place
GoTo(r, place) == run' = [run EXCEPT ![r].pc = place]
Live(r) == run[r].pc \notin {"idle", "ended", "dead"}
InBudget(r) == r \notin overdue

\* History: a run past its last look at the lock is raced by whatever is written, one past its last
\* look at the file by what is written without the lock, or with a lock the run takes for its own.
Exposed(r, writer) == At(r, "rename") \/ (At(r, "drift") /\ (lock # writer \/ r \in stamped))
Racing(writer) == [r \in Runs |-> [run[r] EXCEPT !.raced = @ \/ Exposed(r, writer)]]

-----------------------------------------------------------------------------
(* The lock.                                                               *)

\* The directory made: nobody waits for a hold made now to be reclaimed.
Make(p) == lock' = p /\ age' = Fresh /\ stamped' = {}

\* The directory removed by its name, whoever made it.
Unmake == lock' = NoLock /\ age' = Fresh /\ stamped' = {}

\* The modification time is the one this run recorded after its mkdir.
NotDrifted(r) == r \in stamped

-----------------------------------------------------------------------------
(* A rewrite, with nothing held.                                           *)

\* P1-P4: the file is read and guarded; a catch-up stops at a file that names the account.
Preflight(r) ==
    /\ At(r, "idle")
    /\ \E catchup \in BOOLEAN :
          LET skip == file = Absent \/ (catchup /\ Names(file)) \/ ~file.plain IN
          run' = [run EXCEPT ![r].catchup = catchup,
                             ![r].pc = IF skip THEN "ended" ELSE IF catchup THEN "ask" ELSE "resolve"]
    /\ UNCHANGED <<file, lock, times, backups, temps, session, broken>>

\* The catch-up's question, with nothing held.
Ask(r) ==
    /\ At(r, "ask")
    /\ \E yes \in BOOLEAN : GoTo(r, IF yes THEN "resolve" ELSE "ended")
    /\ UNCHANGED <<file, lock, times, backups, temps, session, broken>>

\* P5-P6: the target's directory and the backups directory opened, or not.
Resolve(r) ==
    /\ At(r, "resolve")
    /\ \E opened \in BOOLEAN : GoTo(r, IF opened THEN "lock" ELSE "ended")
    /\ UNCHANGED <<file, lock, times, backups, temps, session, broken>>

\* L: one mkdir; a stale lock ends the ladder, a fresh one is waited on with nothing held.
Acquire(r) ==
    /\ At(r, "lock")
    /\ IF lock = NoLock
       THEN Make(r) /\ overdue' = overdue /\ GoTo(r, "made")
       ELSE /\ run' = [run EXCEPT ![r].tries = IF @ < Ladder THEN @ + 1 ELSE @,
                                  ![r].pc = IF age = Stale \/ run[r].tries = Ladder THEN "ended" ELSE @]
            /\ UNCHANGED <<lock, times>>
    /\ UNCHANGED <<file, backups, temps, session, broken>>

\* The hold begins: the modification time of whatever bears the name by now is recorded, if there is
\* one, and the release is registered with the cleanup registry.
RecordTime(r) ==
    /\ At(r, "made")
    /\ stamped' = IF lock = NoLock THEN stamped ELSE stamped \cup {r}
    /\ run' = [run EXCEPT ![r].pc = "read", ![r].registered = TRUE]
    /\ UNCHANGED <<file, lock, age, overdue, backups, temps, session, broken>>

-----------------------------------------------------------------------------
(* The hold: each term starts only inside the budget.                      *)

\* H1-H3: the file again, guarded again; a catch-up looks again for its account.
ReadUnderLock(r) ==
    /\ At(r, "read")
    /\ LET stop == ~InBudget(r) \/ file = Absent \/ ~file.plain \/ (run[r].catchup /\ Names(file)) IN
       run' = [run EXCEPT ![r].basis = file, ![r].pc = IF stop THEN "release" ELSE "backup"]
    /\ UNCHANGED <<file, lock, times, backups, temps, session, broken>>

\* H4: a copy of what was read, before any temporary file.
Backup(r) ==
    /\ At(r, "backup")
    /\ \/ /\ InBudget(r)
          /\ backups' = backups \cup {run[r].basis}
          /\ GoTo(r, "track")
       \/ /\ backups' = backups
          /\ GoTo(r, "release")
    /\ UNCHANGED <<file, lock, times, temps, session, broken>>

\* H5: the temporary file is handed to the hold, and then made.
Track(r) ==
    /\ At(r, "track")
    /\ GoTo(r, IF InBudget(r) THEN "temp" ELSE "release")
    /\ UNCHANGED <<file, lock, times, backups, temps, session, broken>>

WriteTemp(r) ==
    /\ At(r, "temp")
    /\ \/ temps' = temps \cup {r} /\ GoTo(r, "recheck")
       \/ temps' = temps /\ GoTo(r, "release")
    /\ UNCHANGED <<file, lock, times, backups, session, broken>>

RecheckSkips(r) ==
    /\ At(r, "recheck")
    /\ run' = [run EXCEPT ![r].pc = IF InBudget(r) THEN "drift" ELSE "release", ![r].raced = FALSE]
    /\ temps' = IF InBudget(r) THEN temps ELSE temps \ {r}
    /\ UNCHANGED <<file, lock, times, backups, session, broken>>

\* H6: the file is still the one that was read; what is written without the lock from here on is not seen.
Recheck(r) ==
    /\ At(r, "recheck")
    /\ LET same == InBudget(r) /\ file = run[r].basis IN
       /\ run' = [run EXCEPT ![r].pc = IF same THEN "drift" ELSE "release", ![r].raced = FALSE]
       /\ temps' = IF same THEN temps ELSE temps \ {r}
    /\ UNCHANGED <<file, lock, times, backups, session, broken>>

DriftCheck(r) ==
    /\ At(r, "drift")
    /\ LET sound == NotDrifted(r) /\ InBudget(r) IN
       /\ GoTo(r, IF sound THEN "rename" ELSE "release")
       /\ temps' = IF sound THEN temps ELSE temps \ {r}
    /\ UNCHANGED <<file, lock, times, backups, session, broken>>

\* H7: the temporary file over the target, unless it fails or a signal has unlinked it.
Rename(r) ==
    /\ At(r, "rename")
    /\ \/ /\ r \in temps
          /\ file' = Rewritten(run[r].basis)
          /\ run' = [Racing(r) EXCEPT ![r].pc = "release"]
       \/ /\ file' = file
          /\ GoTo(r, "release")
    /\ temps' = temps \ {r}
    /\ UNCHANGED <<lock, times, backups, session, broken>>

WithdrawUnasked(r) ==
    /\ At(r, "release")
    /\ temps' = temps \ {r}
    /\ run' = [run EXCEPT ![r].registered = FALSE, ![r].pc = "rmdir"]
    /\ UNCHANGED <<file, lock, times, backups, session, broken>>

\* The release withdraws the emergency registration, then removes the directory if it was still in it.
Withdraw(r) ==
    /\ At(r, "release")
    /\ temps' = temps \ {r}
    /\ run' = [run EXCEPT ![r].registered = FALSE, ![r].pc = IF run[r].registered THEN "rmdir" ELSE "ended"]
    /\ UNCHANGED <<file, lock, times, backups, session, broken>>

RemoveLock(r) ==
    /\ At(r, "rmdir")
    /\ Unmake
    /\ GoTo(r, "ended")
    /\ UNCHANGED <<file, overdue, backups, temps, session, broken>>

\* A signal: the emergency closure runs on the signal's thread; the run goes on until it dies.
Emergency(r) ==
    /\ Live(r) /\ run[r].registered
    /\ Unmake
    /\ temps' = temps \ {r}
    /\ run' = [run EXCEPT ![r].registered = FALSE]
    /\ UNCHANGED <<file, overdue, backups, session, broken>>

\* The process ends: after its emergency closure, or killed with none.
Die(r) ==
    /\ Live(r)
    /\ GoTo(r, "dead")
    /\ UNCHANGED <<file, lock, times, backups, temps, session, broken>>

-----------------------------------------------------------------------------
(* Claude Code: what the lock and the file are to a session.               *)

Beaten == lock \in Peers /\ session[lock] = "holds"
Budgeted == {r \in Runs : run[r].pc \in Held}

\* Time passes: a lock directory nobody beats ages, and the holds run late.  A lock grows old from
\* fresh in no less than the budget; one that was recorded when it was old may grow older sooner.
Age ==
    /\ age' = IF lock # NoLock /\ age < Stale /\ ~Beaten THEN age + 1 ELSE age
    /\ \E slow \in SUBSET Budgeted :
          /\ age = Fresh => slow = Budgeted
          /\ overdue' = overdue \cup slow
    /\ UNCHANGED <<file, lock, stamped, backups, temps, session, run, broken>>

\* A session that holds the lock beats it: who recorded its modification time finds another.
SessionBeats(s) ==
    /\ session[s] = "holds" /\ lock = s
    /\ stamped' = {}
    /\ UNCHANGED <<file, lock, age, overdue, backups, temps, session, run, broken>>

\* A free lock is taken, a stale one reclaimed.
SessionLocks(s) ==
    /\ session[s] = "idle" /\ (lock = NoLock \/ age = Stale)
    /\ Make(s)
    /\ session' = [session EXCEPT ![s] = "holds"]
    /\ broken' = broken \cup ({lock} \cap (Runs \cup Seeders))
    /\ UNCHANGED <<file, overdue, backups, temps, run>>

\* A session that has waited long enough goes on without the lock.
SessionGivesUp(s) ==
    /\ session[s] = "idle" /\ lock # NoLock
    /\ session' = [session EXCEPT ![s] = "free"]
    /\ UNCHANGED <<file, lock, times, backups, temps, run, broken>>

\* It writes the document whole: a setting, the account it is logged in to, its caches.
SessionWrites(s) ==
    /\ session[s] \in {"holds", "free"} /\ file.version < MaxVersion
    /\ \E account \in {file.account, Account}, caches \in BOOLEAN :
          file' = [account |-> account, caches |-> caches, version |-> file.version + 1, plain |-> TRUE]
    /\ run' = Racing(s)
    /\ UNCHANGED <<lock, times, backups, temps, session, broken>>

SessionEnds(s) ==
    /\ session[s] \in {"holds", "free"}
    /\ IF session[s] = "holds" /\ lock = s THEN Unmake /\ overdue' = overdue ELSE UNCHANGED <<lock, times>>
    /\ session' = [session EXCEPT ![s] = "idle"]
    /\ UNCHANGED <<file, backups, temps, run, broken>>

\* Killed holding the lock, which ages from then on.
SessionDies(s) ==
    /\ session[s] = "holds"
    /\ session' = [session EXCEPT ![s] = "gone"]
    /\ UNCHANGED <<file, lock, times, backups, temps, run, broken>>

-----------------------------------------------------------------------------
ConfigInit(c) ==
    /\ file \in {Absent} \cup {[account |-> Before, caches |-> TRUE, version |-> 1, plain |-> plain] : plain \in BOOLEAN}
    /\ lock = NoLock /\ age = Fresh /\ stamped = {} /\ overdue = {}
    /\ backups = {} /\ temps = {} /\ broken = {}
    /\ session = [s \in Peers |-> IF s \in c.peers THEN "idle" ELSE "gone"]
    /\ run = [r \in Runs |-> IF r \in c.runs THEN Idle ELSE [Idle EXCEPT !.pc = "ended"]]

Rewrite(r) ==
    \/ Preflight(r) \/ Ask(r) \/ Resolve(r) \/ Acquire(r) \/ RecordTime(r) \/ ReadUnderLock(r)
    \/ Backup(r) \/ Track(r) \/ WriteTemp(r) \/ Recheck(r) \/ DriftCheck(r) \/ Rename(r) \/ Withdraw(r) \/ RemoveLock(r)
    \/ Emergency(r) \/ Die(r)

ClaudeCode(s) ==
    SessionLocks(s) \/ SessionBeats(s) \/ SessionGivesUp(s) \/ SessionWrites(s) \/ SessionEnds(s) \/ SessionDies(s)

ConfigNext == Age \/ (\E r \in Runs : Rewrite(r)) \/ (\E s \in Peers : ClaudeCode(s))

ConfigTypeOK ==
    /\ file \in InFile /\ lock \in {NoLock} \cup Runs \cup Seeders \cup Peers /\ age \in Ages
    /\ stamped \subseteq Runs /\ overdue \subseteq Runs
    /\ backups \subseteq Documents /\ temps \subseteq Runs /\ broken \subseteq Runs \cup Seeders
    /\ session \in [Peers -> {"idle", "holds", "free", "gone"}]
    /\ run \in [Runs -> RunLocals]
=============================================================================
