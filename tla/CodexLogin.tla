----------------------------- MODULE CodexLogin -----------------------------
(***************************************************************************)
(* `agctl codex login` (commands/codex/login.rs): the vendor's own binary  *)
(* logs in inside a scratch home (provider/codex/login_child.rs), what it  *)
(* did there and to the keychain is looked at before its credential is     *)
(* read (provider/codex/proof.rs, auth_store.rs `verify_login`), and the   *)
(* credential is then installed in the account's namespace and recorded.   *)
(* Beside it run `import` and `accounts remove`, other Codex homes, and     *)
(* whatever the child leaves behind.                                       *)
(*                                                                         *)
(* Each process runs one command and so has at most one scratch home.  A   *)
(* grant is a number, in the order issued, and belongs to one account.     *)
(* The registry is read, changed and written in one step here: that this   *)
(* is so under the configuration lock is the subject of Accounts.          *)
(***************************************************************************)
EXTENDS Integers, Sequences, FiniteSets

CONSTANTS
    Procs,      \* processes, each running one command
    NoProc,     \* the value of a lock nobody holds
    Keys,       \* the accounts
    Starts,     \* the registries a behaviour may begin with
    Orders,     \* the commands a process may be given
    MaxGrants,  \* how many grants a behaviour may issue
    Elsewhere,  \* the keychain item of a Codex home that is not agctl's
    Faulty,     \* the processes for which something may go wrong
    Faults      \* and what

None == 0

ASSUME ProcsAssumption == NoProc \notin Procs /\ Faulty \subseteq Procs /\ Elsewhere \notin Procs
ASSUME OrdersAssumption ==
    Orders \subseteq [op : {"login", "remove", "import"}, key : Keys, secret : BOOLEAN]
ASSUME StartsAssumption ==
    \A reg \in Starts : /\ reg \in [Keys -> {"none", "owned", "imported"}]
                       /\ Cardinality({k \in Keys : reg[k] = "owned"}) \in {0, 1}
ASSUME BoundsAssumption ==
    /\ MaxGrants \in Nat \ {0}
    /\ Faults \subseteq {"crash", "signal", "root", "keychain", "child", "audit", "write", "busy"}

VARIABLES
    lifecycle,  \* holder of scratch.lock: one login at a time
    home,       \* each login's scratch home
    child,      \* its child
    left,       \* the homes in which a process the child started lives on
    keychain,   \* the `Codex Auth` items, each by the home it belongs to
    named,      \* those the write log says a refused login gained
    file,       \* each namespace's auth.json
    lock,       \* holder of its lock
    registry,   \* each account's record
    owner,      \* the accounts of the grants issued, in order
    run,        \* each process: its place and its locals
    owes        \* history: the stored grant a login has yet to record, or over which a removal
                \* dropped the record

stores == <<file, lock, registry, owes>>
outside == <<child, left, keychain, owner>>
vars == <<lifecycle, home, named, stores, outside, run>>

-----------------------------------------------------------------------------
(* Helpers.                                                                *)

Grants == 1 .. MaxGrants
Kinds == {"none", "owned", "imported"}
Items == Procs \cup {Elsewhere}
Gone == [there |-> FALSE, old |-> FALSE, cred |-> None]
Fresh == [Gone EXCEPT !.there = TRUE]

Idle == [pc |-> "idle", op |-> "none", key |-> CHOOSE k \in Keys : TRUE, secret |-> FALSE,
         before |-> {}, gained |-> {}, clean |-> FALSE, grant |-> None, asked |-> FALSE,
         warned |-> FALSE, how |-> "failed"]

At(p, place) == run[p].pc = place
Fails(p, what) == p \in Faulty /\ what \in Faults
Moves(p, place) == run' = [run EXCEPT ![p].pc = place]
Ends(p, place, how) == run' = [run EXCEPT ![p].pc = place, ![p].how = how]
Over == {"done", "failed", "dead"}

\* The command is over, and its locals with it.
Finishes(p, how) ==
    run' = [run EXCEPT ![p] = [Idle EXCEPT !.op = run[p].op, !.key = run[p].key, !.pc = how]]

Running(p) == run[p].pc \notin Over \cup {"idle"}

\* Something in the scratch home that agctl does not run may still write there.
LivesIn(p) == p \in left \/ child[p] = "running"

Begin(p) ==
    /\ At(p, "idle")
    /\ \E o \in Orders :
         run' = [run EXCEPT ![p] = [Idle EXCEPT !.op = o.op, !.key = o.key, !.secret = o.secret,
                    !.pc = CASE o.op = "login" -> "lifecycle"
                             [] o.op = "import" -> "read"
                             [] OTHER -> "resolve"]]
    /\ UNCHANGED <<lifecycle, home, named, stores, outside>>

-----------------------------------------------------------------------------
(* The lifecycle lock and the scratch root.                                *)

TakeAnyway(p) ==
    /\ At(p, "lifecycle")
    /\ lifecycle' = p
    /\ Moves(p, "sweep")
    /\ UNCHANGED <<home, named, stores, outside>>

\* One login at a time, to its end.
TakeLifecycle(p) ==
    /\ At(p, "lifecycle")
    /\ lifecycle = NoProc
    /\ lifecycle' = p
    /\ Moves(p, "sweep")
    /\ UNCHANGED <<home, named, stores, outside>>

\* The homes a killed login left are removed once they are old enough, by a login that holds the
\* lock and has judged the root; one that is still written to may not go.
Sweep(p) ==
    /\ At(p, "sweep")
    /\ \/ /\ \E swept \in SUBSET {q \in Procs : home[q].old} :
               /\ \A q \in Procs \ swept : home[q].old => LivesIn(q)
               /\ home' = [q \in Procs |-> IF q \in swept THEN Gone ELSE home[q]]
               /\ left' = left \ swept
          /\ Moves(p, "list")
       \/ Fails(p, "root") /\ Ends(p, "unlock", "failed") /\ UNCHANGED <<home, left>>
    /\ UNCHANGED <<lifecycle, named, stores, child, keychain, owner>>

\* The first listing, before anything runs.
List(p) ==
    /\ At(p, "list")
    /\ \/ run' = [run EXCEPT ![p].before = keychain, ![p].pc = "create"]
       \/ Fails(p, "keychain") /\ Ends(p, "unlock", "failed")
    /\ UNCHANGED <<lifecycle, home, named, stores, outside>>

Create(p) ==
    /\ At(p, "create")
    /\ home' = [home EXCEPT ![p] = Fresh]
    /\ \/ child' = [child EXCEPT ![p] = "running"] /\ Moves(p, "child")
       \/ Fails(p, "child") /\ Ends(p, "discard", "failed") /\ UNCHANGED child
    /\ UNCHANGED <<lifecycle, named, stores, left, keychain, owner>>

-----------------------------------------------------------------------------
(* The child, and what it leaves running.                                  *)

Issue(k) == Len(owner) < MaxGrants /\ owner' = Append(owner, k)

\* Codex keeps the credential in a file as it was asked to, or in the keychain all the same.
ChildLogsIn(p) ==
    /\ child[p] = "running"
    /\ home[p].cred = None
    /\ p \notin keychain
    /\ \E k \in Keys : Issue(k)
    /\ \/ /\ home[p].there
          /\ home' = [home EXCEPT ![p].cred = Len(owner')]
          /\ UNCHANGED keychain
       \/ /\ Fails(p, "child")
          /\ keychain' = keychain \cup {p}
          /\ UNCHANGED home
    /\ UNCHANGED <<lifecycle, named, stores, child, left, run>>

\* The child is gone; a process it started may not be.
Leaves(p) ==
    /\ child' = [child EXCEPT ![p] = "gone"]
    /\ left' \in {left} \cup (IF Fails(p, "child") THEN {left \cup {p}} ELSE {})

ChildExits(p) ==
    /\ child[p] = "running"
    /\ Leaves(p)
    /\ UNCHANGED <<lifecycle, home, named, stores, keychain, owner, run>>

\* What the child left behind writes a credential of its own, another account's perhaps.
LeftWrites(p) ==
    /\ p \in left
    /\ home[p].there
    /\ \E k \in Keys : Issue(k)
    /\ home' = [home EXCEPT ![p].cred = Len(owner')]
    /\ UNCHANGED <<lifecycle, named, stores, child, left, keychain, run>>

\* Another Codex home is logged in to while this goes on.
OtherHome ==
    /\ Elsewhere \notin keychain
    /\ keychain' = keychain \cup {Elsewhere}
    /\ UNCHANGED <<lifecycle, home, named, stores, child, left, owner, run>>

Age(p) ==
    /\ home[p].there
    /\ ~home[p].old
    /\ home' = [home EXCEPT ![p].old = TRUE]
    /\ UNCHANGED <<lifecycle, named, stores, outside, run>>

-----------------------------------------------------------------------------
(* After the child: the survey, the second listing, the verdict.           *)

Wait(p) ==
    /\ At(p, "child")
    /\ child[p] = "gone"
    /\ Moves(p, "survey")
    /\ UNCHANGED <<lifecycle, home, named, stores, outside>>

\* The deadline has passed, or the user cancelled: the child is killed and nothing is installed.
GiveUp(p) ==
    /\ At(p, "child")
    /\ child[p] = "running"
    /\ Leaves(p)
    /\ Ends(p, "discard", "failed")
    /\ UNCHANGED <<lifecycle, home, named, stores, keychain, owner>>

\* The exit status, a daemon's directory, a lock still held, a home too deep to survey: a process
\* that shows in none of these is not seen.
Survey(p) ==
    /\ At(p, "survey")
    /\ \E clean \in IF Fails(p, "child") THEN BOOLEAN ELSE {TRUE} :
         run' = [run EXCEPT ![p].clean = clean, ![p].pc = "list again"]
    /\ UNCHANGED <<lifecycle, home, named, stores, outside>>

ListAgain(p) ==
    /\ At(p, "list again")
    /\ \/ run' = [run EXCEPT ![p].gained = keychain \ run[p].before,
                                ![p].before = {}, ![p].pc = "verify"]
       \/ Fails(p, "keychain") /\ Ends(p, "discard", "failed")
    /\ UNCHANGED <<lifecycle, home, named, stores, outside>>

\* Evidence first: only a clean run's document is read, and it is read once.  What a refused run
\* gained in the keychain is named in the write log, if the log will take it.
Verify(p) ==
    LET r == run[p] IN
    /\ At(p, "verify")
    /\ IF r.clean /\ r.gained = {} /\ home[p].cred # None
       THEN /\ run' = [run EXCEPT ![p].grant = home[p].cred, ![p].key = owner[home[p].cred],
                                  ![p].clean = FALSE, ![p].pc = "ask"]
            /\ UNCHANGED named
       ELSE \E warned \in IF Fails(p, "audit") THEN BOOLEAN ELSE {FALSE} :
              /\ named' = IF warned THEN named
                          ELSE named \cup r.gained
              /\ run' = [run EXCEPT ![p].warned = warned, ![p].pc = "discard", ![p].how = "failed"]
    /\ UNCHANGED <<lifecycle, home, stores, outside>>

\* An account agctl owns is asked about, and its grant left alone unless the user agrees.
Ask(p) ==
    LET known == registry[run[p].key] = "owned" IN
    /\ At(p, "ask")
    /\ \/ run' = [run EXCEPT ![p].asked = known, ![p].pc = "lock"]
       \/ known /\ Ends(p, "discard", "failed")
    /\ UNCHANGED <<lifecycle, home, named, stores, outside>>

-----------------------------------------------------------------------------
(* The install, the record, the end.                                       *)

TakeNamespace(p) ==
    /\ At(p, "lock")
    /\ lock[run[p].key] = NoProc
    /\ lock' = [lock EXCEPT ![run[p].key] = p]
    /\ Moves(p, IF run[p].op = "login" THEN "install" ELSE "erase")
    /\ UNCHANGED <<lifecycle, home, named, file, registry, owes, outside>>

Busy(p) ==
    /\ Fails(p, "busy")
    /\ \/ /\ At(p, "lifecycle") /\ lifecycle # NoProc
          /\ Finishes(p, "failed")
       \/ /\ At(p, "lock") /\ lock[run[p].key] # NoProc
          /\ IF run[p].op = "login" THEN Ends(p, "discard", "failed") ELSE Finishes(p, "failed")
    /\ UNCHANGED <<lifecycle, home, named, stores, outside>>

InstallRead(p) ==
    /\ At(p, "install")
    /\ file' = [file EXCEPT ![run[p].key] = home[p].cred]
    /\ owes' = [owes EXCEPT ![p] = home[p].cred]
    /\ Moves(p, "unlink")
    /\ UNCHANGED <<lifecycle, home, named, lock, registry, outside>>

\* What is installed is what was verified, whatever the scratch home holds by now.
Install(p) ==
    LET k == run[p].key IN
    /\ At(p, "install")
    /\ \/ /\ file' = [file EXCEPT ![k] = run[p].grant]
          /\ run' = [run EXCEPT ![p].grant = None, ![p].asked = FALSE, ![p].pc = "unlink"]
          /\ owes' = [owes EXCEPT ![p] = run[p].grant]
          /\ UNCHANGED lock
       \/ /\ Fails(p, "write")
          /\ lock' = [lock EXCEPT ![k] = NoProc]
          /\ Ends(p, "discard", "failed")
          /\ UNCHANGED <<file, owes>>
    /\ UNCHANGED <<lifecycle, home, named, registry, outside>>

\* The scratch copy goes before anything else is waited for.
Unlink(p) ==
    /\ At(p, "unlink")
    /\ home' = [home EXCEPT ![p].cred = None]
    /\ Moves(p, "audit")
    /\ UNCHANGED <<lifecycle, named, stores, outside>>

\* A log that will not take the line ends the command, and the install stands.
Audit(p) ==
    /\ At(p, "audit")
    /\ lock' = [lock EXCEPT ![run[p].key] = NoProc]
    /\ \/ Moves(p, "record")
       \/ Fails(p, "audit") /\ Ends(p, "discard", "failed")
    /\ UNCHANGED <<lifecycle, home, named, file, registry, owes, outside>>

RecordNew(p) ==
    LET k == run[p].key IN
    /\ At(p, "record")
    /\ registry' = [registry EXCEPT ![k] = IF @ = "none" THEN "owned" ELSE @]
    /\ owes' = [owes EXCEPT ![p] = None]
    /\ Ends(p, "discard", "done")
    /\ UNCHANGED <<lifecycle, home, named, file, lock, outside>>

\* Whatever the record said, the account is agctl's now, and is shown.
Record(p) ==
    LET k == run[p].key IN
    /\ At(p, "record")
    /\ \/ /\ registry' = [registry EXCEPT ![k] = "owned"]
          /\ owes' = [owes EXCEPT ![p] = None]
          /\ Ends(p, "discard", "done")
       \/ /\ Fails(p, "write")
          /\ Ends(p, "discard", "failed")
          /\ UNCHANGED <<registry, owes>>
    /\ UNCHANGED <<lifecycle, home, named, file, lock, outside>>

\* On every path out the credential is unlinked and the home removed, unless what the child left
\* there fills it again.
Discard(p) ==
    /\ At(p, "discard")
    /\ \/ home' = [home EXCEPT ![p] = Gone] /\ left' = left \ {p}
       \/ LivesIn(p) /\ home' = [home EXCEPT ![p].cred = None] /\ UNCHANGED left
    /\ Moves(p, "unlock")
    /\ UNCHANGED <<lifecycle, named, stores, child, keychain, owner>>

Unlock(p) ==
    /\ At(p, "unlock")
    /\ lifecycle' = NoProc
    /\ Finishes(p, run[p].how)
    /\ UNCHANGED <<home, named, stores, outside>>

-----------------------------------------------------------------------------
(* remove and import.                                                      *)

\* The record as the registry has it now: only an account agctl owns has anything to delete.
Resolve(p) ==
    LET r == run[p]
        kind == registry[r.key]
    IN
    /\ At(p, "resolve")
    /\ IF kind = "none" \/ (r.secret /\ kind # "owned")
       THEN Finishes(p, "failed")
       ELSE Moves(p, IF r.secret THEN "lock" ELSE "drop")
    /\ UNCHANGED <<lifecycle, home, named, stores, outside>>

\* The files go in order until one will not, and the namespace is let go before the registry.
Erase(p) ==
    LET k == run[p].key IN
    /\ At(p, "erase")
    /\ lock' = [lock EXCEPT ![k] = NoProc]
    /\ \/ /\ file' = [file EXCEPT ![k] = None]
          /\ Moves(p, "drop") \/ (Fails(p, "audit") /\ Finishes(p, "failed"))
       \/ Fails(p, "write") /\ Finishes(p, "failed") /\ UNCHANGED file
    /\ UNCHANGED <<lifecycle, home, named, registry, owes, outside>>

Drop(p) ==
    LET k == run[p].key IN
    /\ At(p, "drop")
    /\ \/ /\ registry' = [registry EXCEPT ![k] = "none"]
          /\ owes' = [owes EXCEPT ![p] = file[k]]
          /\ Finishes(p, "done")
       \/ Fails(p, "write") /\ Finishes(p, "failed") /\ UNCHANGED <<registry, owes>>
    /\ UNCHANGED <<lifecycle, home, named, file, lock, outside>>

\* A home's own credential names the account; one that is recorded already is left alone.
Read(p) ==
    /\ At(p, "read")
    /\ \/ IF registry[run[p].key] = "none" THEN Moves(p, "add") ELSE Finishes(p, "done")
       \/ Fails(p, "child") /\ Finishes(p, "failed")
    /\ UNCHANGED <<lifecycle, home, named, stores, outside>>

\* Asked again under the registry's lock.
Add(p) ==
    LET k == run[p].key IN
    /\ At(p, "add")
    /\ registry' = [registry EXCEPT ![k] = IF @ = "none" THEN "imported" ELSE @]
    /\ Finishes(p, "done")
    /\ UNCHANGED <<lifecycle, home, named, file, lock, owes, outside>>

-----------------------------------------------------------------------------
(* The end of a process, and the specification.                            *)

Frees(p) ==
    /\ lifecycle' = IF lifecycle = p THEN NoProc ELSE lifecycle
    /\ lock' = [k \in Keys |-> IF lock[k] = p THEN NoProc ELSE lock[k]]
    /\ Finishes(p, "dead")

\* A signal: the child is ended first, then the credential it may have written is unlinked.
Signal(p) ==
    /\ Fails(p, "signal")
    /\ Running(p)
    /\ IF child[p] = "running" THEN Leaves(p) ELSE UNCHANGED <<child, left>>
    /\ home' = [home EXCEPT ![p].cred = None]
    /\ Frees(p)
    /\ UNCHANGED <<named, file, registry, owes, keychain, owner>>

\* A death nothing is told of: the kernel frees the locks, and the child lives on.
Crash(p) ==
    /\ Fails(p, "crash")
    /\ Running(p)
    /\ Frees(p)
    /\ UNCHANGED <<home, named, file, registry, owes, outside>>

Step(p) ==
    \/ Begin(p) \/ TakeLifecycle(p) \/ Sweep(p) \/ List(p) \/ Create(p) \/ Wait(p) \/ GiveUp(p)
    \/ Survey(p) \/ ListAgain(p) \/ Verify(p) \/ Ask(p) \/ TakeNamespace(p) \/ Install(p)
    \/ Unlink(p) \/ Audit(p) \/ Record(p) \/ Discard(p) \/ Unlock(p)
    \/ Resolve(p) \/ Erase(p) \/ Drop(p) \/ Read(p) \/ Add(p)

Child(p) == ChildLogsIn(p) \/ ChildExits(p) \/ LeftWrites(p) \/ Age(p)

\* No login is under way; the accounts agctl owns have their grants.
Init ==
    /\ lifecycle = NoProc
    /\ home = [p \in Procs |-> Gone]
    /\ child = [p \in Procs |-> "none"]
    /\ left = {}
    /\ keychain = {}
    /\ named = {}
    /\ registry \in Starts
    /\ \E k \in Keys :
         /\ \A j \in Keys : registry[j] = "owned" => j = k
         /\ owner = IF registry[k] = "owned" THEN <<k>> ELSE <<>>
         /\ file = [j \in Keys |-> IF registry[j] = "owned" THEN 1 ELSE None]
    /\ lock = [k \in Keys |-> NoProc]
    /\ run = [p \in Procs |-> Idle]
    /\ owes = [p \in Procs |-> None]

Next ==
    \/ \E p \in Procs : Step(p) \/ Busy(p) \/ Child(p) \/ Signal(p) \/ Crash(p)
    \/ OtherHome

Spec == Init /\ [][Next]_vars

\* A command that can go on does, the user's answers included; of the child, of other homes, of a
\* wait that is given up and of a death nothing is assumed.
FairSpec == Spec /\ \A p \in Procs : WF_vars(Step(p))

-----------------------------------------------------------------------------
(* Properties.                                                             *)

Places == Over \cup {"idle", "lifecycle", "sweep", "list", "create", "child", "survey",
    "list again", "verify", "ask", "lock", "install", "unlink", "audit", "record", "discard",
    "unlock", "resolve", "erase", "drop", "read", "add"}

\* What a process keeps.
Runs == [pc : Places, op : {"none", "login", "remove", "import"}, key : Keys, secret : BOOLEAN,
         before : SUBSET Items, gained : SUBSET Items, clean : BOOLEAN, grant : Grants \cup {None},
         asked : BOOLEAN, warned : BOOLEAN, how : {"done", "failed"}]

\* Where a process holds the lifecycle lock, and where its namespace's.
LocksOf(p) ==
    /\ lifecycle = p <=> run[p].op = "login" /\ Running(p) /\ ~At(p, "lifecycle")
    /\ \A k \in Keys : lock[k] = p <=>
         run[p].key = k /\ run[p].pc \in {"install", "unlink", "audit", "erase"}

\* Every variable has its type, and a lock is held where its holder means to hold it.
TypeOK ==
    /\ lifecycle \in Procs \cup {NoProc}
    /\ home \in [Procs -> [there : BOOLEAN, old : BOOLEAN, cred : Grants \cup {None}]]
    /\ child \in [Procs -> {"none", "running", "gone"}]
    /\ left \subseteq Procs
    /\ named \subseteq keychain /\ keychain \subseteq Items
    /\ file \in [Keys -> Grants \cup {None}]
    /\ lock \in [Keys -> Procs \cup {NoProc}]
    /\ registry \in [Keys -> Kinds]
    /\ owner \in Seq(Keys) /\ Len(owner) <= MaxGrants
    /\ run \in [Procs -> Runs]
    /\ owes \in [Procs -> Grants \cup {None}]
    /\ \A p \in Procs : LocksOf(p)

\* The scratch home of a login that is under way is removed by that login alone, however old it
\* is and whatever is swept beside it (login_child.rs `sweep_stale_at`, "no login this process
\* cannot see is running").
SweepSparesTheLiving ==
    [][\A p \in Procs : home[p].there /\ ~home'[p].there /\ Running(p) => At(p, "discard")]_vars

\* A namespace holds a grant of its own account, though what the child left running may replace
\* the document at any moment after it was verified.
InstalledIsVerified == \A k \in Keys : file[k] # None => owner[file[k]] = k

\* A login that ended, or that a signal ended, leaves no credential in its scratch home; one that
\* is there was written by something the child left running, or survives a death nothing was told
\* of.
NothingLeftBehind ==
    \A p \in Procs :
        run[p].op = "login" /\ run[p].pc \in {"done", "failed"} /\ ~LivesIn(p) => home[p].cred = None

\* A grant the registry says agctl owns is replaced only by a login whose user was asked.
ReplacedWhenAsked ==
    [][\A k \in Keys : registry[k] = "owned" /\ file[k] # None /\ file'[k] \notin {None, file[k]} =>
          \E p \in Procs : At(p, "install") /\ run[p].key = k /\ run[p].asked]_vars

\* A stored credential is one the registry names as agctl's own, or the very grant that a login
\* installed and has not recorded yet, or failed or died before it could, or that a removal left
\* when it took the record: no refusal, no failure before the install and no import leaves one, and
\* whatever a death left, the next login that completes is recorded (login.rs, AC105).
StoredIsOwned ==
    \A k \in Keys : file[k] # None /\ registry[k] # "owned" =>
        \E p \in Procs :
            /\ run[p].key = k /\ owes[p] = file[k]
            /\ \/ run[p].op = "login" /\ run[p].pc \in {"unlink", "audit", "record", "failed", "dead"}
               \/ run[p].op = "login" /\ run[p].pc \in {"discard", "unlock"} /\ run[p].how = "failed"
               \/ run[p].op = "remove" /\ run[p].pc = "done"

\* A keychain item that a login's own child made, and that its listings showed, is in the write
\* log once the login is refused, unless it warned that the log would not take it: `doctor` names
\* no other.
GainedIsNamed ==
    \A p \in Procs : run[p].pc \in {"discard", "unlock"} /\ p \in run[p].gained =>
        p \in named \/ run[p].warned

\* Every command that is begun ends, though no child need ever return.
CommandsEnd == \A p \in Procs : run[p].pc # "idle" ~> run[p].pc \in Over

\* An item the log calls gained by a login was made by the login's child (commands/codex/login.rs,
\* "each `Codex Auth` keychain item this login child gained").
NamedIsItsOwn == named \subseteq Procs

-----------------------------------------------------------------------------
(* The inductive invariant behind the safety properties.                   *)

\* Where a process is on behalf of each command, and where a login has its scratch home.
Track(op) ==
    CASE op = "none" -> {"idle"}
      [] op = "login" -> {"lifecycle", "sweep", "list", "create", "child", "survey", "list again",
                          "verify", "ask", "lock", "install", "unlink", "audit", "record",
                          "discard", "unlock"}
      [] op = "remove" -> {"resolve", "lock", "erase", "drop"}
      [] OTHER -> {"read", "add"}
Early == {"lifecycle", "sweep", "list", "create"}

\* A login has a home only from its own creation on, and from the verification to the install it
\* carries a grant of the account it names.
ProcessOf(p) ==
    /\ run[p].pc \in Track(run[p].op) \cup Over
    /\ home[p].there => run[p].op = "login" /\ run[p].pc \notin Early
    /\ run[p].gained \subseteq keychain
    /\ run[p].op = "login" /\ run[p].pc \in {"ask", "lock", "install"} =>
         run[p].grant \in 1 .. Len(owner) /\ owner[run[p].grant] = run[p].key

\* What is stored was issued.
IssuedInv ==
    /\ \A k \in Keys : file[k] <= Len(owner)
    /\ \A p \in Procs : home[p].cred <= Len(owner)

IInv == /\ TypeOK
        /\ \A p \in Procs : ProcessOf(p)
        /\ IssuedInv
        /\ InstalledIsVerified
        /\ StoredIsOwned
=============================================================================
