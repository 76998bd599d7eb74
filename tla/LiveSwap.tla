------------------------------ MODULE LiveSwap ------------------------------
(***************************************************************************)
(* `agctl claude use --live` and `use --undo` of a live swap               *)
(* (commands/use.rs): agctl replaces the credential in the keychain item   *)
(* Claude Code reads, files the one it displaces in that account's own     *)
(* namespace, records the write in the audit log and rewrites the account  *)
(* `~/.claude.json` names.  Several agctl processes run beside sessions    *)
(* of Claude Code that refresh or replace the item, and beside             *)
(* `agctl claude status` and `login`.                                      *)
(*                                                                         *)
(* A credential is a number, in the order the token host issued it, so a   *)
(* later expiry is a larger number; 0 is "there is none".  `clock` is the  *)
(* newest credential whose access token has expired, or is about to.       *)
(***************************************************************************)
EXTENDS Integers, Sequences

CONSTANTS
    Procs,      \* agctl processes
    NoProc,     \* the value of a lock nobody holds
    N,          \* accounts are 1..N, in the order of their namespace keys
    Bounds      \* what a behaviour may spend: see Init

ASSUME ProcsAssumption == NoProc \notin Procs
ASSUME AccountsAssumption == N \in Nat /\ N >= 2
Accounts == 1..N
None == 0

\* The processes and accounts at work, the commands and credentials to come, and what
\* happens beside the commands.
Limits == [procs : SUBSET Procs, accounts : SUBSET Accounts, runs : Nat, mints : Nat,
           beside : SUBSET {"crash", "refresh", "login", "status", "agctl login", "migrate"}]

ASSUME BoundsAssumption == Bounds \subseteq Limits

VARIABLES
    owner,    \* owner[c]: whose credential c is
    spent,    \* credentials whose refresh token the server rotated away
    clock,    \* credentials up to this one are expired or close to it
    item,     \* the live keychain item
    home,     \* .credentials.json of each namespace
    parked,   \* .credentials.adopted.json of each namespace
    moved,    \* the keychain item of a namespace that migrated
    log,      \* the audit log's live writes
    name,     \* the account ~/.claude.json names
    nslock,   \* holder of each namespace lock
    hold,     \* holder of Claude Code's credential-store locks
    run,      \* each process: its place and its locals
    given,    \* history: credentials given up by a rule the code states
    left      \* what the bounds still allow

store == <<item, home, parked, moved>>
locks == <<nslock, hold>>
vars == <<owner, spent, clock, store, log, name, locks, run, given, left>>

-----------------------------------------------------------------------------
(* Helpers.                                                                *)

Creds == 1 .. Len(owner)
Stale(c) == c <= clock
At(p, place) == run[p].pc = place

\* A process between two commands.
Idle == [pc |-> "idle", dir |-> "forward", inc |-> None, src |-> "own", done |-> None,
         from |-> None, who |-> None, cred |-> None, base |-> None, plan |-> "none",
         prior |-> None, prof |-> FALSE, unsaved |-> FALSE, login |-> FALSE]

\* The token host issues the next credential, of account a.
Minted == Len(owner) + 1
Mint(a) ==
    /\ left.mints > 0
    /\ left' = [left EXCEPT !.mints = @ - 1]
    /\ owner' = Append(owner, a)

MayHaveLanded(e) == e.outcome \in {"applied", "unknown"}
Reversible == {i \in DOMAIN log : MayHaveLanded(log[i])}

Newest(S) == {i \in S : \A j \in S : j <= i}

\* Mutant: an expired item is whoever .claude.json names.
OwnWriteByConfig(c) == {name}

\* The account the newest live write of c installed, if there is one: whose an expired item
\* is, as far as agctl can tell.
OwnWrite(c) == {log[i].inc : i \in Newest({j \in Reversible : log[j].to = c})}

\* Whether the log names c as what a live write left in an adopted copy.
ParkedByLive(c) ==
    \E i \in DOMAIN log : \/ log[i].dir = "forward" /\ log[i].from = c
                          \/ log[i].dir = "undo" /\ log[i].to = c

\* The write `--undo` reverses: the newest live forward swap if no later undo applied over
\* it, else the newest write that may have landed.
Outstanding ==
    {i \in Reversible : /\ log[i].dir = "forward"
                        /\ \A j \in Reversible :
                             j > i => log[j].dir = "undo" /\ log[j].outcome # "applied"}
Selected == IF Outstanding # {} THEN Outstanding ELSE Newest(Reversible)

\* Where a displaced credential is found by its digest: in its own account's namespace,
\* the adopted copy rather than an equal .credentials.json.
Places(c) ==
    {x \in Accounts \X {"adopted", "own"} :
        /\ owner[c] = x[1]
        /\ IF x[2] = "adopted" THEN parked[x[1]] = c ELSE home[x[1]] = c /\ parked[x[1]] # c}
Undoable == \E i \in Selected : \E x \in Places(log[i].from) : Places(log[i].from) = {x}

\* What a run reads the incoming credential from.
Source(r) == IF r.src = "own" THEN home[r.inc] ELSE parked[r.inc]

\* A command ends: its namespace locks go, and with it a refreshed credential it could
\* save nowhere.
InHand(r) == IF r.unsaved THEN {r.cred} ELSE {}
End(p) ==
    /\ run' = [run EXCEPT ![p] = Idle]
    /\ nslock' = [a \in Accounts |-> IF nslock[a] = p THEN NoProc ELSE nslock[a]]
    /\ given' = given \cup InHand(run[p])

-----------------------------------------------------------------------------
(* Phase A: what is reversed or installed, and whose the item is.          *)

StartForward(p, a) ==
    /\ At(p, "idle") /\ left.runs > 0 /\ a \in left.accounts
    /\ left' = [left EXCEPT !.runs = @ - 1]
    /\ run' = [run EXCEPT ![p].pc = "item", ![p].inc = a]
    /\ UNCHANGED <<owner, spent, clock, store, log, name, locks, given>>

StartUndo(p) ==
    /\ At(p, "idle") /\ left.runs > 0
    /\ left' = [left EXCEPT !.runs = @ - 1]
    /\ \E i \in Selected : \E x \in Places(log[i].from) :
         /\ Places(log[i].from) = {x}
         /\ run' = [run EXCEPT ![p] = [@ EXCEPT !.pc = "item", !.dir = "undo", !.inc = x[1],
                                                !.src = x[2], !.done = log[i].inc]]
    /\ UNCHANGED <<owner, spent, clock, store, log, name, locks, given>>

\* The one read of the item, and whose it is: the server says, unless the token can no
\* longer ask it, and then agctl's own newest write of it.  A reversal goes on from the
\* account the reversed swap installed, and has nothing to do at the account it restores.
ReadItem(p) ==
    /\ At(p, "item")
    /\ \E asked \in BOOLEAN : \E who \in IF asked THEN {owner[item]} ELSE OwnWrite(item) :
         /\ asked \/ Stale(item) \/ item \in spent
         /\ \/ /\ run[p].dir = "forward" \/ who = run[p].done
               /\ run' = [run EXCEPT ![p].pc = "incoming", ![p].from = item,
                                     ![p].who = who, ![p].prof = asked]
            \/ /\ run[p].dir = "undo" /\ who # run[p].done /\ who = run[p].inc
               /\ run' = [run EXCEPT ![p].pc = "catchup", ![p].who = who, ![p].prof = asked]
    /\ UNCHANGED <<owner, spent, clock, store, log, name, locks, given, left>>

\* The incoming credential, read with nothing held.  The item may already hold it, or a
\* newer credential of the account a forward swap is to install.
ReadIncoming(p) ==
    /\ At(p, "incoming")
    /\ LET r == run[p]
           c == Source(r)
           AlreadyActive == \/ c = r.from
                            \/ r.dir = "forward" /\ r.who = r.inc /\ r.from >= c
       IN  /\ c # None
           /\ run' = [run EXCEPT ![p] = IF AlreadyActive
                                        THEN [r EXCEPT !.pc = "catchup", !.from = None]
                                        ELSE [r EXCEPT !.pc = "locks", !.cred = c,
                                                      !.prof = FALSE]]
    /\ UNCHANGED <<owner, spent, clock, store, log, name, locks, given, left>>

\* The item holds what was asked for: .claude.json is brought to the account Phase A's
\* profile named, if it named one, with nothing held and after a prompt.
CatchUp(p) ==
    /\ At(p, "catchup")
    /\ name' \in {name} \cup (IF run[p].prof THEN {run[p].who} ELSE {})
    /\ End(p)
    /\ UNCHANGED <<owner, spent, clock, store, log, hold, left>>

-----------------------------------------------------------------------------
(* Phase B: under the namespace locks of the two accounts.                 *)

\* Mutant: only the incoming account's namespace is locked.
NeededIncoming(r) == {r.inc}

\* The namespaces a run writes: the one it installs from, and the one the displaced
\* credential goes to.
Needed(r) == {r.inc, r.who}

\* The next lock, in ascending order.
TakeNamespace(p, a) ==
    /\ At(p, "locks") /\ a \in Needed(run[p])
    /\ nslock[a] = NoProc
    /\ \A b \in Needed(run[p]) : b < a => nslock[b] = p
    /\ nslock' = [nslock EXCEPT ![a] = p]
    /\ run' = [run EXCEPT ![p].pc = IF \A b \in Needed(run[p]) : b <= a
                                    THEN "decide" ELSE "locks"]
    /\ UNCHANGED <<owner, spent, clock, store, log, name, hold, given, left>>

\* What becomes of the displaced credential.  The same account's, older than the incoming
\* one: nothing.
Discards(r) == r.who = r.inc /\ r.from < r.cred

\* A forward swap parks it beside its own account's .credentials.json, over an earlier
\* live parking, unless it is in one of the two files already.
Parks(r) ==
    /\ r.dir = "forward" /\ r.who # r.inc
    /\ home[r.who] # r.from
    /\ parked[r.who] \in {None, r.from} \/ ParkedByLive(parked[r.who])

\* A reversal puts it back into its own account's .credentials.json, if what is there is
\* older and Claude Code has not moved that namespace into the keychain.
Files(r) ==
    /\ r.dir = "undo" /\ r.who # r.inc
    /\ moved[r.who] = None /\ home[r.who] <= r.from

AtHome(r) == r.dir = "forward" /\ r.who # r.inc /\ home[r.who] = r.from

\* Decided before the prompt, so that a swap that cannot keep the credential is refused
\* without asking.
Decide(p) ==
    /\ At(p, "decide")
    /\ LET r == run[p]
           To(plan, prior) ==
               run' = [run EXCEPT ![p] = [r EXCEPT !.pc = "refresh", !.plan = plan,
                                                   !.prior = prior]]
       IN  \/ (Discards(r) \/ AtHome(r)) /\ To("none", None)
           \/ Parks(r) /\ To(IF parked[r.who] = r.from THEN "none" ELSE "park", None)
           \/ Files(r) /\ To(IF home[r.who] = r.from THEN "none" ELSE "file", home[r.who])
    /\ UNCHANGED <<owner, spent, clock, store, log, name, locks, given, left>>

\* Mutant: an expired credential is installed unrefreshed.
SkipRefreshAlways(p) ==
    /\ At(p, "refresh")
    /\ run' = [run EXCEPT ![p].pc = "adopt"]
    /\ UNCHANGED <<owner, spent, clock, store, log, name, locks, given, left>>

\* After the prompt.  A credential that has not expired is installed as it is.
SkipRefresh(p) ==
    /\ At(p, "refresh") /\ ~Stale(run[p].cred)
    /\ run' = [run EXCEPT ![p].pc = "adopt"]
    /\ UNCHANGED <<owner, spent, clock, store, log, name, locks, given, left>>

\* An expired one is refreshed, unless it is known now that the refreshed pair could not
\* be saved where the old one was read.
MayRefresh(r) ==
    /\ Stale(r.cred) /\ r.cred \notin spent
    /\ IF r.src = "own" THEN moved[r.inc] = None ELSE parked[r.inc] = r.cred

Refresh(p) ==
    /\ At(p, "refresh") /\ MayRefresh(run[p])
    /\ Mint(owner[run[p].cred])
    /\ spent' = spent \cup {run[p].cred}
    /\ run' = [run EXCEPT ![p] = [@ EXCEPT !.pc = "save", !.base = run[p].cred, !.cred = Minted,
                                           !.unsaved = TRUE]]
    /\ UNCHANGED <<clock, store, log, name, locks, given>>

\* The server rotated the token and its answer did not arrive.
RefreshLost(p) ==
    /\ At(p, "refresh") /\ MayRefresh(run[p])
    /\ spent' = spent \cup {run[p].cred}
    /\ End(p)
    /\ UNCHANGED <<owner, clock, store, log, name, hold, left>>

\* The refreshed pair over the one it was derived from, wherever that was read.
CanSave(r) ==
    IF r.src = "own" THEN moved[r.inc] = None /\ home[r.inc] = r.base
                     ELSE parked[r.inc] = r.base

Save(p) ==
    /\ At(p, "save") /\ CanSave(run[p])
    /\ home' = IF run[p].src = "own" THEN [home EXCEPT ![run[p].inc] = run[p].cred] ELSE home
    /\ parked' = IF run[p].src = "own" THEN parked
                                       ELSE [parked EXCEPT ![run[p].inc] = run[p].cred]
    /\ run' = [run EXCEPT ![p] = [@ EXCEPT !.pc = "adopt", !.base = None, !.unsaved = FALSE]]
    /\ UNCHANGED <<owner, spent, clock, item, moved, log, name, locks, given, left>>

\* A save that is refused or fails is a warning: the item write is what is left.
SaveFails(p) ==
    /\ At(p, "save")
    /\ run' = [run EXCEPT ![p] = [@ EXCEPT !.pc = "adopt", !.base = None]]
    /\ UNCHANGED <<owner, spent, clock, store, log, name, locks, given, left>>

\* The server, if it can be asked, must name the account that is installed; its profile is
\* kept for .claude.json.  Then the displaced credential is filed, a third store only if
\* it still holds what the decision was taken from.
Adopt(p) ==
    LET r == run[p]
        \* An earlier parking, and an older copy, go: the rules of the two files.
        Over == IF r.plan = "park" THEN parked[r.who] ELSE home[r.who]
    IN  /\ At(p, "adopt")
        /\ r.plan = "file" => home[r.who] = r.prior
        /\ parked' = IF r.plan = "park" THEN [parked EXCEPT ![r.who] = r.from] ELSE parked
        /\ home' = IF r.plan = "file" THEN [home EXCEPT ![r.who] = r.from] ELSE home
        /\ given' = given \cup IF \/ r.plan = "park" /\ ParkedByLive(Over)
                                  \/ r.plan = "file" /\ Over < r.from
                               THEN {Over} \ {None} ELSE {}
        /\ \E asked \in BOOLEAN :
             /\ asked => owner[r.cred] = r.inc
             /\ run' = [run EXCEPT ![p] = [r EXCEPT !.pc = "hold", !.plan = "none",
                                                    !.prior = None, !.prof = asked]]
        /\ UNCHANGED <<owner, spent, clock, item, moved, log, name, locks, left>>

-----------------------------------------------------------------------------
(* Phase C: under Claude Code's locks, which ClaudeLock details.           *)

TakeHold(p) ==
    /\ At(p, "hold") /\ hold = NoProc
    /\ hold' = p
    /\ run' = [run EXCEPT ![p].pc = "reread"]
    /\ UNCHANGED <<owner, spent, clock, store, log, name, nslock, given, left>>

\* Mutant: the item is not compared under Claude Code's locks.
RereadBlind(p) ==
    /\ At(p, "reread")
    /\ run' = [run EXCEPT ![p].pc = "write"]
    /\ UNCHANGED <<owner, spent, clock, store, log, name, locks, given, left>>

\* The item must still be what Phase A read.
Reread(p) ==
    /\ At(p, "reread") /\ item = run[p].from
    /\ run' = [run EXCEPT ![p].pc = "write"]
    /\ UNCHANGED <<owner, spent, clock, store, log, name, locks, given, left>>

\* The write lands: it is reported, or timed out too late.  What the matrix discarded is
\* gone with it.
Write(p) ==
    /\ At(p, "write")
    /\ item' = run[p].cred
    /\ hold' = NoProc
    /\ given' = given \cup IF Discards(run[p]) THEN {run[p].from} ELSE {}
    /\ run' = [run EXCEPT ![p] = [@ EXCEPT !.pc = "verify", !.unsaved = FALSE]]
    /\ UNCHANGED <<owner, spent, clock, home, parked, moved, log, name, nslock, left>>

\* It does not land: security(1) said so, or it timed out and cannot say.
WriteFails(p) ==
    /\ At(p, "write")
    /\ hold' = NoProc
    /\ \E place \in {"failed", "verify"} : run' = [run EXCEPT ![p].pc = place]
    /\ UNCHANGED <<owner, spent, clock, store, log, name, nslock, given, left>>

Entry(r, outcome) ==
    [dir |-> r.dir, from |-> r.from, to |-> r.cred, inc |-> r.inc, outcome |-> outcome]

ReportFailed(p) ==
    /\ At(p, "failed")
    /\ log' = Append(log, Entry(run[p], "failed"))
    /\ End(p)
    /\ UNCHANGED <<owner, spent, clock, store, name, hold, left>>

\* A reversal that applied drops the parked copy its own account's file repeats.
Repeats(r) ==
    /\ r.dir = "undo" /\ r.src = "adopted"
    /\ home[r.inc] = r.cred /\ parked[r.inc] = r.cred

\* The verifying read, outside the hold.
Applied(p) ==
    /\ At(p, "verify") /\ item = run[p].cred
    /\ log' = Append(log, Entry(run[p], "applied"))
    /\ parked' \in {parked} \cup
         IF Repeats(run[p]) THEN {[parked EXCEPT ![run[p].inc] = None]} ELSE {}
    /\ run' = [run EXCEPT ![p].pc = "config"]
    /\ UNCHANGED <<owner, spent, clock, item, home, moved, name, locks, given, left>>

\* The item holds something else, or cannot be read.
Unknown(p) ==
    /\ At(p, "verify")
    /\ log' = Append(log, Entry(run[p], "unknown"))
    /\ End(p)
    /\ UNCHANGED <<owner, spent, clock, store, name, hold, left>>

\* .claude.json is brought to the installed account, if the server had described it and
\* the file can be rewritten.
Config(p) ==
    /\ At(p, "config")
    /\ name' \in {name} \cup (IF run[p].prof THEN {run[p].inc} ELSE {})
    /\ End(p)
    /\ UNCHANGED <<owner, spent, clock, store, log, hold, left>>

\* Everything else that ends a run: what the guards above do not let on, a read or a lock
\* that fails, the prompt, a busy store, and under the locks a changed item, a lock that
\* moved and a hold that ran out of time.
Refuse(p) ==
    /\ run[p].pc \in {"item", "incoming", "locks", "decide", "refresh", "adopt", "hold",
                      "reread", "write"}
    /\ hold' = IF hold = p THEN NoProc ELSE hold
    /\ End(p)
    /\ UNCHANGED <<owner, spent, clock, store, log, name, left>>

-----------------------------------------------------------------------------
(* Everything beside the runs.                                             *)

\* A process dies; the locks it held are free or can be broken.
Crash(p) ==
    /\ "crash" \in left.beside /\ ~At(p, "idle")
    /\ hold' = IF hold = p THEN NoProc ELSE hold
    /\ End(p)
    /\ UNCHANGED <<owner, spent, clock, store, log, name, left>>

Tick ==
    /\ clock < Len(owner)
    /\ clock' = clock + 1
    /\ UNCHANGED <<owner, spent, store, log, name, locks, run, given, left>>

\* Claude Code refreshes the live item, under its locks.
SessionRefresh ==
    /\ "refresh" \in left.beside
    /\ hold = NoProc /\ Stale(item) /\ item \notin spent
    /\ Mint(owner[item])
    /\ spent' = spent \cup {item}
    /\ item' = Minted
    /\ UNCHANGED <<clock, home, parked, moved, log, name, locks, run, given>>

\* The user logs in with Claude Code: the item and .claude.json change.
SessionLogin(a) ==
    /\ "login" \in left.beside /\ hold = NoProc
    /\ Mint(a)
    /\ item' = Minted /\ name' = a
    /\ given' = given \cup {item}
    /\ run' = [p \in Procs |-> IF At(p, "config") THEN [run[p] EXCEPT !.login = TRUE]
                                                 ELSE run[p]]
    /\ UNCHANGED <<spent, clock, home, parked, moved, log, locks>>

\* `status` refreshes a namespace's file under its lock, where nothing has migrated.
Status(a) ==
    /\ "status" \in left.beside
    /\ nslock[a] = NoProc /\ moved[a] = None
    /\ home[a] # None /\ Stale(home[a]) /\ home[a] \notin spent
    /\ Mint(owner[home[a]])
    /\ spent' = spent \cup {home[a]}
    /\ home' = [home EXCEPT ![a] = Minted]
    /\ UNCHANGED <<clock, item, parked, moved, log, name, locks, run, given>>

\* `login` writes a new credential over a namespace's file, under its lock.
Login(a) ==
    /\ "agctl login" \in left.beside
    /\ nslock[a] = NoProc
    /\ Mint(a)
    /\ given' = given \cup ({home[a]} \ {None})
    /\ home' = [home EXCEPT ![a] = Minted]
    /\ UNCHANGED <<spent, clock, item, parked, moved, log, name, locks, run>>

\* A session in a namespace moves its credential into a keychain item of its own.
Migrate(a) ==
    /\ "migrate" \in left.beside
    /\ home[a] # None /\ moved[a] = None
    /\ moved' = [moved EXCEPT ![a] = home[a]]
    /\ home' = [home EXCEPT ![a] = None]
    /\ UNCHANGED <<owner, spent, clock, item, parked, log, name, locks, run, given, left>>

-----------------------------------------------------------------------------
\* Every account has a login in its own namespace.  The item holds another grant of the
\* first account; or a swap to the second account is over, and the item holds what its
\* namespace holds.
Init ==
    /\ left \in Bounds
    /\ owner = <<1>> \o [a \in Accounts |-> a]
    /\ home = [a \in Accounts |-> a + 1]
    /\ moved = [a \in Accounts |-> None]
    /\ \/ /\ item = 1 /\ name = 1 /\ log = <<>>
          /\ parked = [a \in Accounts |-> None]
       \/ /\ item = 3 /\ name = 2
          /\ log = <<[dir |-> "forward", from |-> 1, to |-> 3, inc |-> 2,
                      outcome |-> "applied"]>>
          /\ parked = [a \in Accounts |-> IF a = 1 THEN 1 ELSE None]
    /\ spent = {} /\ given = {} /\ clock = 0
    /\ nslock = [a \in Accounts |-> NoProc] /\ hold = NoProc
    /\ run = [p \in Procs |-> Idle]

Step(p) ==
    \/ \E a \in Accounts : StartForward(p, a) \/ TakeNamespace(p, a)
    \/ StartUndo(p) \/ ReadItem(p) \/ ReadIncoming(p) \/ CatchUp(p)
    \/ Decide(p) \/ SkipRefresh(p) \/ Refresh(p) \/ RefreshLost(p) \/ Save(p) \/ SaveFails(p)
    \/ Adopt(p) \/ TakeHold(p) \/ Reread(p) \/ Write(p) \/ WriteFails(p)
    \/ ReportFailed(p) \/ Applied(p) \/ Unknown(p) \/ Config(p)
    \/ Refuse(p) \/ Crash(p)

Next ==
    \/ \E p \in left.procs : Step(p)
    \/ \E a \in left.accounts : SessionLogin(a) \/ Status(a) \/ Login(a) \/ Migrate(a)
    \/ SessionRefresh \/ Tick

Spec == Init /\ [][Next]_vars

-----------------------------------------------------------------------------
(* Properties.                                                             *)

\* Values of the state, the locks a run holds at each place, and the file a decision will
\* write: a lock is held by a run that needs it and reached the locks, never by one that is
\* over, and only the run that holds Claude Code's locks is between taking and leaving them.
Entries == [dir : {"forward", "undo"}, from : Creds, to : Creds, inc : Accounts,
            outcome : {"applied", "unknown", "failed"}]
Locked == {"decide", "refresh", "save", "adopt", "hold", "reread", "write", "failed",
           "verify", "config"}
Points == {"idle", "item", "incoming", "catchup", "locks"} \cup Locked
Runs == [pc : Points, dir : {"forward", "undo"}, inc : Accounts \cup {None},
         src : {"own", "adopted"}, done : Accounts \cup {None}, from : Creds \cup {None},
         who : Accounts \cup {None}, cred : Creds \cup {None}, base : Creds \cup {None},
         plan : {"none", "park", "file"}, prior : Creds \cup {None}, prof : BOOLEAN,
         unsaved : BOOLEAN, login : BOOLEAN]

TypeOK ==
    /\ owner \in Seq(Accounts) /\ clock \in 0 .. Len(owner)
    /\ spent \subseteq Creds /\ given \subseteq Creds
    /\ item \in Creds /\ left \in Limits
    /\ {home, parked, moved} \subseteq [Accounts -> Creds \cup {None}]
    /\ log \in Seq(Entries) /\ name \in Accounts
    /\ run \in [Procs -> Runs]
    /\ nslock \in [Accounts -> Procs \cup {NoProc}] /\ hold \in Procs \cup {NoProc}
    /\ \A a \in Accounts, p \in Procs :
         nslock[a] = p => a \in Needed(run[p]) /\ run[p].pc \in Locked \cup {"locks"}
    /\ \A p \in Procs : hold = p <=> run[p].pc \in {"reread", "write"}

\* agctl never leaves a credential nowhere.  One that the server still honours is in the
\* item or in a namespace, or a running command has it in hand, unless it was given up by a
\* rule the code states: replaced by a login, refreshed and not saved, parked over by a
\* later live parking, or older than another of its account (adopt.rs:1-7, "adopt the
\* displaced credential or refuse the swap").
AtRest == {item} \cup UNION {{home[a], parked[a], moved[a]} : a \in Accounts}

Kept ==
    \A c \in Creds \ (spent \cup given) :
        c \in AtRest \/ \E p \in Procs : c \in InHand(run[p])

\* No account's credential is filed in another account's namespace, and the audit log is
\* right about whose the credential it wrote is: an expired item can only be identified by
\* that line, and the next swap files by it (use.rs:1893-1986).
FiledAtHome ==
    /\ \A a \in Accounts : \A c \in {home[a], parked[a], moved[a]} \ {None} : owner[c] = a
    /\ \A i \in DOMAIN log : owner[log[i].to] = log[i].inc

\* A credential whose refresh token is rotated away is never written into the item, though
\* it was read before the locks (use.rs:1213-1282).
InstalledIsLive ==
    [][\A p \in Procs : At(p, "write") /\ item' # item => item' \notin spent]_vars

\* After Claude Code's locks are given back, the config step names the account the item
\* holds, unless a session has logged in since: the namespace locks keep every other run
\* from replacing what this one installed (use.rs:1444-1452).
ConfigNamesTheItem ==
    [][\A p \in Procs :
          At(p, "config") /\ name' # name /\ run'[p].pc = "idle" /\ ~run[p].login
              => name' = owner[item]]_vars

\* "Untouched where the swap being undone filed it ...; nothing was lost and the rollback
\* can be run again" (use.rs:2464-2466): `--undo` finds it.
RollbackCanBeRunAgain ==
    \A p \in Procs : At(p, "failed") /\ run[p].dir = "undo" => Undoable
=============================================================================
