------------------------------ MODULE AuditLog ------------------------------
(***************************************************************************)
(* The record of agctl's keychain writes (secret/audit.rs) and the one     *)
(* command that acts on it, `claude use --undo` (commands/use.rs).  Swaps  *)
(* of the live item and of a namespace's item, `status`'s refreshes of     *)
(* that item, and undos run beside each other; appends tear, processes     *)
(* die, Claude Code writes the items too, and somebody replaces the log or *)
(* its mode.                                                               *)
(*                                                                         *)
(* The log's view of a run: what it reads, puts in and records.  Where the *)
(* credentials come from and where those it displaces go is NamespaceSwap  *)
(* for a namespace's item and LiveSwap for the live one.                   *)
(***************************************************************************)
EXTENDS LogFile, Integers

CONSTANTS
    Procs,      \* agctl processes
    NoProc,     \* the value of a lock nobody holds
    Live,       \* the live store
    Accounts,   \* the accounts agctl owns, each with a namespace
    Spaces,     \* the accounts whose namespaces may be swapped
    MaxGen,     \* bound on the refreshes
    Bounds      \* what a behaviour may spend: see Init

Stores == {Live} \cup Spaces
None == 0
Allowances == {"runs", "undos", "refreshes", "breaks", "tears", "crashes", "tampers", "logins",
               "parks", "renewals"}

ASSUME ProcsAssumption == NoProc \notin Procs
ASSUME AccountsAssumption == Live \notin Accounts /\ Spaces \subseteq Accounts
ASSUME BoundsAssumption == MaxGen \in Nat \ {0} /\ Bounds \subseteq [Allowances -> Nat]

VARIABLES
    at,     \* what is at the log's name
    files,  \* the files that have been there, and their lines
    item,   \* each keychain item: the set of the credential in it
    did,    \* history: the item writes, in order, and what became of their entries
    lock,   \* holder of each namespace's lock
    run,    \* each process: its place and its locals
    left    \* what the bounds still allow

logs == <<at, files>>
vars == <<logs, item, did, lock, run, left>>

-----------------------------------------------------------------------------
(* Helpers.                                                                *)

\* An entry is one write of an item, a config step after one, or a lock broken on the way.
WriteEntry(n) == [event |-> "write", n |-> n]
ConfigEntry(n) == [event |-> "config_write", n |-> n]
BreakEntry(p, n) == [event |-> "lock_break", n |-> n, by |-> p]

\* A credential: its account's, of the so-manieth refresh.  The one issued later expires later.
Grants == [of : Accounts, gen : 0 .. MaxGen]
Grant(a) == [of |-> a, gen |-> 0]

Idle == [pc |-> "idle", dir |-> "forward", store |-> Live, refresh |-> FALSE, of |-> None,
         to |-> {}, from |-> {}, undone |-> None, fd |-> None, wrote |-> None, says |-> WriteEntry(None),
         then |-> "idle"]

Place(p, place) == run[p].pc = place
Moves(p, place) == run' = [run EXCEPT ![p].pc = place]
Spend(what) == left[what] > 0 /\ left' = [left EXCEPT ![what] = @ - 1]

Ends(p) ==
    /\ run' = [run EXCEPT ![p] = Idle]
    /\ lock' = [a \in Accounts |-> IF lock[a] = p THEN NoProc ELSE lock[a]]

MayHaveLanded(n) == did[n].outcome \in {"applied", "unknown"}
Newest(S) == {n \in S : \A m \in S : m <= n}

-----------------------------------------------------------------------------
(* What `--undo` reverses.                                                 *)

\* The places in `entries` of the writes that may have landed.
Reversible(entries) ==
    {i \in DOMAIN entries : entries[i].event = "write" /\ MayHaveLanded(entries[i].n)}

\* The newest live forward swap that no later live undo applied over, wherever it is in the log;
\* without one the newest write, of any store.
Selected(entries) ==
    LET writes == Reversible(entries)
        write(i) == did[entries[i].n]
        live == {i \in writes : write(i).store = Live}
        outstanding ==
            {i \in live : /\ write(i).dir = "forward"
                          /\ \A j \in live :
                               j > i => write(j).dir = "undo" /\ write(j).outcome # "applied"}
    IN  {entries[i].n : i \in IF outstanding # {} THEN outstanding ELSE Newest(writes)}

\* Whose credential an undo puts back: the one the entry displaced, which a first write does not say.
Owners(n) == IF did[n].from = {} THEN Accounts ELSE {c.of : c \in did[n].from}

Reverse(p, n) ==
    \E a \in Owners(n) :
        run' = [run EXCEPT ![p] = [Idle EXCEPT !.pc = "item", !.dir = "undo", !.of = a,
                                               !.store = did[n].store, !.undone = n]]

StartUndoSkipping(p) ==
    /\ Place(p, "idle") /\ Spend("undos")
    /\ at.kind # "link"
    /\ \E n \in Selected(EntriesIn(Contents(at, files))) : Reverse(p, n)
    /\ UNCHANGED <<logs, item, did, lock>>

\* A line that does not parse may be the one that is wanted: nothing is reversed.
StartUndo(p) ==
    LET lines == Contents(at, files) IN
    /\ Place(p, "idle") /\ Spend("undos")
    /\ at.kind # "link"
    /\ ~Unreadable(lines)
    /\ \E n \in Selected(EntriesIn(lines)) : Reverse(p, n)
    /\ UNCHANGED <<logs, item, did, lock>>

StartSwap(p, s, a) ==
    /\ Place(p, "idle") /\ Spend("runs")
    /\ run' = [run EXCEPT ![p] = [Idle EXCEPT !.pc = "item", !.store = s, !.of = a]]
    /\ UNCHANGED <<logs, item, did, lock>>

\* `status` saves a refreshed credential in the item of a namespace.
StartRefresh(p, s) ==
    /\ Place(p, "idle") /\ s # Live /\ Spend("refreshes")
    /\ run' = [run EXCEPT ![p] = [Idle EXCEPT !.pc = "item", !.store = s, !.refresh = TRUE]]
    /\ UNCHANGED <<logs, item, did, lock>>

-----------------------------------------------------------------------------
(* The run, up to the item.                                                *)

\* What the run may put into the item it finds: a refresh the item's own credential, a swap one of
\* the account it was asked for.  A live undo puts back one of its account, and goes on only from
\* the account its entry installed.
Incoming(p) ==
    LET r == run[p]
        now == item[r.store]
        installed == did[r.undone].to
    IN  IF r.refresh THEN now
        ELSE IF r.dir = "forward" THEN {c \in Grants : c.of = r.of} \ now
        ELSE IF r.store = Live
             THEN {c \in Grants : c.of = r.of /\ {d.of : d \in now} = {d.of : d \in installed}}
        ELSE Grants \ now

\* The one read of the item.  A run may be refused for what it finds there or elsewhere.
ReadItem(p) ==
    /\ Place(p, "item")
    /\ \/ /\ \E c \in Incoming(p) :
               run' = [run EXCEPT ![p].from = item[run[p].store], ![p].to = {c}, ![p].pc = "lock"]
          /\ UNCHANGED lock
       \/ Ends(p)
    /\ UNCHANGED <<logs, item, did, left>>

\* The namespaces of the account that goes in, of the store, and of the credential that comes out,
\* where that is where it will be put.  The live store has none of its own.
Locked(r) ==
    IF r.refresh THEN {r.store}
    ELSE ({r.store, r.of} \ {Live})
           \cup (IF r.store = Live \/ r.dir = "forward" THEN {c.of : c \in r.from} ELSE {})

\* They are taken in ascending order; taken at once here.
TakeLocks(p) ==
    /\ Place(p, "lock")
    /\ \A a \in Locked(run[p]) : lock[a] = NoProc
    /\ lock' = [a \in Accounts |-> IF a \in Locked(run[p]) THEN p ELSE lock[a]]
    /\ Moves(p, IF run[p].store = Live THEN "gate" ELSE "write")
    /\ UNCHANGED <<logs, item, did, left>>

\* A live swap opens the log before it touches anything, and keeps it; without it there is no swap.
Gate(p) ==
    /\ Place(p, "gate")
    /\ IF Appendable(at, files)
       THEN /\ run' = [run EXCEPT ![p].fd = Opened(at, files), ![p].pc = "write"]
            /\ files' = Created(at, files)
            /\ at' = Named(Opened(at, files))
            /\ UNCHANGED lock
       ELSE Ends(p) /\ UNCHANGED logs
    /\ UNCHANGED <<item, did, left>>

\* A stale lock of Claude Code's is broken, and the break recorded, before the item is written.
Break(p) ==
    /\ Place(p, "write") /\ Spend("breaks")
    /\ run' = [run EXCEPT ![p].says = BreakEntry(p, Len(did)), ![p].then = "write",
                          ![p].pc = "append"]
    /\ UNCHANGED <<logs, item, did, lock>>

\* The credential that is to go in is refreshed: under the namespace locks, before Claude Code's.
Renew(p) ==
    /\ Place(p, "write") /\ Spend("renewals")
    /\ \E c \in Grants \ run[p].to :
         /\ {c.of} = {d.of : d \in run[p].to}
         /\ run' = [run EXCEPT ![p].to = {c}]
    /\ UNCHANGED <<logs, item, did, lock>>

\* What the history keeps of a write.
Deed(p, outcome) ==
    [store |-> run[p].store, dir |-> run[p].dir, from |-> run[p].from, to |-> run[p].to,
     outcome |-> outcome, entry |-> "pending"]

Recording(p) ==
    run' = [run EXCEPT ![p].wrote = Len(did'), ![p].says = WriteEntry(Len(did')),
                       ![p].then = "config", ![p].pc = "append"]

Writable(p) ==
    /\ Place(p, "write")
    /\ run[p].from = item[run[p].store]
    /\ run[p].refresh => run[p].to # run[p].from

WriteUnlocks(p) ==
    /\ Writable(p)
    /\ did' = Append(did, Deed(p, "applied"))
    /\ item' = [item EXCEPT ![run[p].store] = run[p].to]
    /\ Recording(p)
    /\ lock' = [a \in Accounts |-> IF lock[a] = p THEN NoProc ELSE lock[a]]
    /\ UNCHANGED <<logs, left>>

\* Under the locks, and only over what was read.  It lands or not, and a timeout does not say.
Write(p) ==
    /\ Writable(p)
    /\ \E outcome \in {"applied", "unknown", "failed"} :
         /\ did' = Append(did, Deed(p, outcome))
         /\ \/ outcome # "failed" /\ item' = [item EXCEPT ![run[p].store] = run[p].to]
            \/ outcome # "applied" /\ UNCHANGED item
    /\ Recording(p)
    /\ UNCHANGED <<logs, lock, left>>

\* The item is not what was read, Claude Code's locks are busy, or the run is refused: no write.
\* A refresh has rotated its credential by then, and says so.
Withdraw(p) ==
    /\ Place(p, "write")
    /\ IF run[p].refresh /\ run[p].to # run[p].from
       THEN did' = Append(did, Deed(p, "discarded")) /\ Recording(p) /\ UNCHANGED lock
       ELSE Ends(p) /\ UNCHANGED did
    /\ UNCHANGED <<logs, item, left>>

-----------------------------------------------------------------------------
(* The append.                                                             *)

\* What becomes of the entry, where it is of a write.
Tells(p, how) ==
    did' = IF run[p].says.event = "write" THEN [did EXCEPT ![run[p].says.n].entry = how] ELSE did

\* The error is logged, and the run goes on.
Refuse(p) ==
    /\ Place(p, "append")
    /\ run[p].fd = None /\ ~Appendable(at, files)
    /\ Tells(p, "refused") /\ Moves(p, run[p].then)
    /\ UNCHANGED <<logs, item, lock, left>>

Through(p) == IF run[p].fd # None THEN run[p].fd ELSE Opened(at, files)
Reached(p) == IF run[p].fd # None THEN files ELSE Created(at, files)

\* One write, through the descriptor the gate opened or one opened now.  A disk that is full takes a
\* part of it, all but its newline, or nothing.
Write1(p) ==
    LET i == Through(p)
        puts(which, ends) ==
            files' = [Reached(p) EXCEPT ![i] = Extended(@, Part(run[p].says, which), ends)]
        short(which, rest) ==
            /\ Spend("tears") /\ puts(which, FALSE)
            /\ run' = [run EXCEPT ![p].fd = i, ![p].pc = rest]
            /\ UNCHANGED did
    IN  /\ Place(p, "append")
        /\ run[p].fd # None \/ Appendable(at, files)
        /\ at' = IF run[p].fd = None THEN Named(i) ELSE at
        /\ \/ puts("whole", TRUE) /\ Tells(p, "told") /\ Moves(p, run[p].then) /\ UNCHANGED left
           \/ short("head", "rest")
           \/ short("whole", "newline")
           \/ /\ Spend("tears") /\ files' = Reached(p)
              /\ Tells(p, "torn") /\ Moves(p, run[p].then)
    /\ UNCHANGED <<item, lock>>

\* `write_all` goes on with the rest, after whatever others have appended, or meets the error.
Write2(p) ==
    LET f == files[run[p].fd] IN
    /\ \/ /\ Place(p, "rest")
          /\ files' = [files EXCEPT ![run[p].fd] = Extended(f, Part(run[p].says, "rest"), TRUE)]
          /\ Tells(p, "told")
       \/ /\ Place(p, "newline")
          /\ files' = [files EXCEPT ![run[p].fd] = Ended(f)]
          /\ Tells(p, "told")
       \/ /\ Place(p, "rest") \/ Place(p, "newline")
          /\ Tells(p, "torn") /\ UNCHANGED files
    /\ run' = [run EXCEPT ![p].pc = run[p].then,
                          ![p].fd = IF run[p].store = Live THEN @ ELSE None]
    /\ UNCHANGED <<at, item, lock, left>>

\* After a live write, what the config step did; then the run is over.
Config(p) ==
    /\ Place(p, "config")
    /\ IF run[p].store = Live /\ did[run[p].wrote].outcome # "failed"
       THEN /\ run' = [run EXCEPT ![p].says = ConfigEntry(run[p].wrote), ![p].then = "over",
                                  ![p].pc = "append"]
            /\ UNCHANGED lock
       ELSE Ends(p)
    /\ UNCHANGED <<logs, item, did, left>>

Over(p) ==
    /\ Place(p, "over")
    /\ Ends(p)
    /\ UNCHANGED <<logs, item, did, left>>

-----------------------------------------------------------------------------
(* What happens beside the runs.                                           *)

\* The process dies, an entry of it half out or not out at all.
Crash(p) ==
    /\ ~Place(p, "idle") /\ Spend("crashes")
    /\ Ends(p)
    /\ did' = [n \in DOMAIN did |->
                 IF run[p].wrote = n /\ did[n].entry = "pending"
                 THEN [did[n] EXCEPT !.entry = "torn"] ELSE did[n]]
    /\ UNCHANGED <<logs, item>>

\* Somebody changes the log's mode, puts a link at its name, or moves it away.
Tamper ==
    /\ Spend("tampers")
    /\ \/ /\ at.kind = "file"
          /\ files' = [files EXCEPT ![at.file].fit = ~@]
          /\ UNCHANGED at
       \/ at' \in {Nothing, Refused} \ {at} /\ UNCHANGED files
    /\ UNCHANGED <<item, did, lock, run>>

\* Claude Code writes an item: a login, its own refresh, a store it moves into the keychain.
Elsewhere(s, S) ==
    /\ Spend("logins")
    /\ S # item[s]
    /\ item' = [item EXCEPT ![s] = S]
    /\ UNCHANGED <<logs, did, lock, run>>

LogInit ==
    /\ left \in Bounds
    /\ at = Nothing /\ files = <<>> /\ did = <<>>
    /\ lock = [a \in Accounts |-> NoProc]
    /\ run = [p \in Procs |-> Idle]

-----------------------------------------------------------------------------
(* Properties.                                                             *)

Places == {"idle", "item", "lock", "gate", "write", "append", "rest", "newline", "config", "over"}
Directions == {"forward", "undo"}
Entries == [event : {"write", "config_write"}, n : Nat]
             \cup [event : {"lock_break"}, n : Nat, by : Procs]
Parts == [of : Entries, part : {"whole", "head", "rest"}]
Files == [fit : BOOLEAN, lines : Seq(Seq(Parts)), ended : BOOLEAN]
Deeds == [store : Stores, dir : Directions, from : SUBSET Grants, to : SUBSET Grants,
          outcome : {"applied", "unknown", "failed", "discarded"},
          entry : {"pending", "told", "torn", "refused"}]
Runs == [pc : Places, dir : Directions, store : Stores, refresh : BOOLEAN,
         of : Accounts \cup {None}, to : SUBSET Grants, from : SUBSET Grants, undone : Nat,
         fd : Nat, wrote : Nat, says : Entries, then : Places]

\* Every variable keeps its shape.
LogTypeOK ==
    /\ at \in [kind : {"absent", "file", "link"}, file : Nat]
    /\ files \in Seq(Files)
    /\ item \in [Stores -> SUBSET Grants]
    /\ did \in Seq(Deeds)
    /\ lock \in [Accounts -> Procs \cup {NoProc}]
    /\ run \in [Procs -> Runs]
    /\ left \in [Allowances -> Nat]

\* Two writes of an item one after the other, the second over what the first left.
Successive(n, m) ==
    /\ n < m /\ did[n].store = did[m].store
    /\ \A k \in n + 1 .. m - 1 : did[k].store # did[n].store
    /\ did[n].store = Live => did[m].from \in {did[n].from, did[n].to}

\* The item writes of which some byte is in the log that is read.
Traced ==
    LET lines == Contents(at, files) IN
    {n \in DOMAIN did : \E i \in DOMAIN lines : \E k \in DOMAIN lines[i] :
                            lines[i][k].of = WriteEntry(n)}

\* The live swaps of which the log shows that they stand.
Standing ==
    LET live == {n \in Traced : did[n].store = Live /\ MayHaveLanded(n)} IN
    {n \in live : /\ did[n].dir = "forward"
                  /\ \A m \in live :
                       m > n => did[m].dir = "undo" /\ did[m].outcome # "applied"}

\* Nobody else has written the live item between agctl's writes of it.
NobodyBetween ==
    LET swaps == {n \in DOMAIN did : did[n].store = Live} IN
    \A m \in swaps : (\E n \in swaps : n < m) => \E n \in swaps : Successive(n, m)

\* `--undo` reverses the newest live swap that no applied undo reversed, or nothing, however the
\* log was torn and whoever appended in between: an older swap is never taken for it, though its
\* own line may be the damaged one (use.rs:3968-4000, "agctl will not guess which swap to
\* reverse").  A swap that left nothing in the log cannot be known.
UndoesTheNewest ==
    [][(\A p \in Procs :
          run[p].undone = None /\ run'[p].undone # None /\ Standing # {} /\ NobodyBetween
              => run'[p].undone \in Standing)]_vars

\* The entries of two successive writes of one store are in the log in that order, though nothing
\* locks the log and nothing of agctl's is the live store's own: the second needs the lock of the
\* namespace whose credential the first put in, and the first keeps it past its append
\* (use.rs:1039-1060).
InWriteOrder ==
    \A i \in DOMAIN files :
        LET entries == EntriesIn(files[i].lines) IN
        \A j, k \in DOMAIN entries :
            j < k /\ entries[j].event = "write" /\ entries[k].event = "write"
                => ~Successive(entries[k].n, entries[j].n)

\* No live write goes unrecorded for what somebody did to the log's name or its mode after the
\* gate: the entry is refused by nothing but the disk (use.rs:1062-1084).
LiveIsTold ==
    \A n \in DOMAIN did : did[n].store = Live => did[n].entry # "refused"

-----------------------------------------------------------------------------
(* The inductive invariant behind the order of the log.                    *)

\* Where a run holds its namespaces' locks, and where it has an entry to write.
Holding == {"gate", "write", "append", "rest", "newline", "config", "over"}
Writing == {"append", "rest", "newline"}

\* What the locals hold by the step that uses them.
LocalsOf(p) ==
    LET r == run[p] IN
    /\ r.pc # "idle" => IF r.refresh THEN r.store # Live ELSE r.of \in Accounts
    /\ r.pc \in {"lock"} \cup Holding /\ r.store = Live =>
         r.from # {} /\ \A c \in r.to : c.of = r.of
    /\ r.pc \in Holding => \A a \in Locked(r) : lock[a] = p

\* The write a run has made is the one it records, and no other run's.
RecordOf(p) ==
    LET r == run[p] IN
    /\ r.wrote # None =>
         /\ r.pc \in Writing \cup {"config", "over"}
         /\ r.wrote \in DOMAIN did /\ did[r.wrote].store = r.store
         /\ did[r.wrote].from = r.from /\ did[r.wrote].to = r.to
         /\ \A q \in Procs \ {p} : run[q].wrote # r.wrote
    /\ r.pc \in Writing =>
         /\ r.then \in IF r.wrote = None THEN {"write"} ELSE {"config", "over"}
         /\ r.says.event = "write" => r.says.n = r.wrote /\ r.wrote # None
    /\ r.pc = "config" => r.wrote # None

\* Each write of the store from n on, up to m, was over what the one before it left.
Chained(n, m) ==
    /\ n < m /\ did[n].store = did[m].store
    /\ \A k \in n + 1 .. m :
         did[k].store = did[n].store => \E j \in n .. k - 1 : Successive(j, k)

\* Nobody writes over what a run wrote while it has its locks, up to its last word on it.
NothingFollows(p) == run[p].wrote # None => \A m \in DOMAIN did : ~Chained(run[p].wrote, m)

\* Line a of a file holds a part of the entry of write n, or where that begins.
Names(f, a, n) == \E x \in DOMAIN f.lines[a] : f.lines[a][x].of = WriteEntry(n)
Begins(f, a, n) ==
    \E x \in DOMAIN f.lines[a] : f.lines[a][x].of = WriteEntry(n) /\ f.lines[a][x].part # "rest"

\* A file's entries are of writes that were made, in the order in which each was over what the one
\* before it left, and none begins twice.
FileInv(f) ==
    /\ \A a \in DOMAIN f.lines : \A x \in DOMAIN f.lines[a] :
         f.lines[a][x].of.event = "write" => f.lines[a][x].of.n \in DOMAIN did
    /\ \A n, m \in DOMAIN did, a, b \in DOMAIN f.lines :
         a < b /\ Names(f, a, m) /\ Names(f, b, n) => ~Chained(n, m)
    /\ \A n \in DOMAIN did, a, b \in DOMAIN f.lines : Begins(f, a, n) /\ Begins(f, b, n) => a = b

\* An entry is begun when its run appends it, and by no one else.
Unbegun(p) ==
    run[p].pc = "append" /\ run[p].says.event = "write" =>
        \A i \in DOMAIN files : \A a \in DOMAIN files[i].lines : ~Names(files[i], a, run[p].says.n)

LogInv ==
    /\ LogTypeOK
    /\ at.kind = "file" => at.file \in DOMAIN files
    /\ \A p \in Procs : LocalsOf(p) /\ RecordOf(p) /\ NothingFollows(p) /\ Unbegun(p)
    /\ \A i \in DOMAIN files : FileInv(files[i])
=============================================================================
