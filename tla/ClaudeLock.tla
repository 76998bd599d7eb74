----------------------------- MODULE ClaudeLock -----------------------------
(***************************************************************************)
(* The directory locks around a Claude Code credential store, as agctl and *)
(* Claude Code both take them: nested directories, made by mkdir and given *)
(* back by rmdir, whose modification time a Claude Code holder moves every *)
(* five seconds.  agctl probes them with nothing held, breaks at most one  *)
(* that is stale, writes a record, takes them in order, writes the store   *)
(* and gives them back.  `doctor --remove-stale` removes one by hand.      *)
(*                                                                         *)
(* A directory is its owner and whether it is past its staleness window.   *)
(* Nobody reads a clock: a comparison of two modification times is whether *)
(* the directory was touched in between, and twelve seconds are as long as *)
(* every running holder needs to touch what it holds.                      *)
(***************************************************************************)
EXTENDS Integers, FiniteSets

CONSTANTS
    Agents,         \* agctl processes
    Peers,          \* Claude Code processes
    NoOne,          \* the owner of a directory that is not there
    Depth,          \* the nested locks: three in the code
    MaxRestarts,    \* restarts of an acquire: three in the code
    Modes,          \* what agents do: a subset of {"hold", "doctor"}
    Tree,           \* the tree the store is in: "agctl" or "live"
    Beside          \* what else happens: a subset of
                    \* {"crash", "stop", "sleep", "emergency", "cancel"}

ASSUME AgentsAssumption == Agents \cap Peers = {} /\ NoOne \notin Agents \cup Peers
ASSUME DepthAssumption == Depth \in Nat \ {0}
ASSUME RestartsAssumption == MaxRestarts \in Nat
ASSUME ModesAssumption == Modes \subseteq {"hold", "doctor"}
ASSUME TreeAssumption == Tree \in {"agctl", "live"}

VARIABLES
    lock,       \* the directories, outermost first
    state,      \* whether each process runs, is stopped, or is dead
    pc,         \* where each agent is
    loc,        \* its local variables
    same,       \* the locks not touched since the agent read or made them
    record,     \* the agents whose held-lock record is on disk
    armed,      \* the agents whose release is in the emergency registry
    undoing,    \* how many locks the emergency release has yet to remove, and whether
                \* its record is that of the hold the agent is in
    cancelled,  \* the agents whose run is cancelled
    lapsed      \* history: an agent was stopped, slept or began an emergency release
                \* in a hold, or removed a lock that had changed since its last sample

agent == <<pc, loc>>
vars == <<lock, state, pc, loc, same, record, armed, undoing, cancelled, lapsed>>

----------------------------------------------------------------------------
(* Values.                                                                 *)

Locks == 1 .. Depth
Processes == Agents \cup Peers

Owned(x) == [by |-> x, old |-> FALSE]
Free == Owned(NoOne)
Exists(l) == lock[l].by # NoOne

Labels == {"idle", "probe", "sampleA", "sampleB", "sampleC", "break", "retaken", "primary",
           "contend", "record", "take", "undo", "arm", "held", "write", "release", "unarm",
           "first", "second", "remove", "dead"}

Locals == [k : 1 .. Depth,              \* the lock looked at
           got : 0 .. Depth,            \* the locks taken and not given back
           tried : BOOLEAN,             \* the one break is spent
           broke : 0 .. Depth,          \* the lock it removed
           found : 0 .. Depth,          \* the lock somebody else had, of those to take
           restarts : 0 .. MaxRestarts,
           breaks : 0 .. Depth]         \* history: the locks it has broken
NoLocals == [k |-> 1, got |-> 0, tried |-> FALSE, broke |-> 0, found |-> 0, restarts |-> 0,
             breaks |-> 0]

Runs(x) == state[x] = "runs"

\* From the record on, until the last directory is given back.
Holding(a) == pc[a] \in {"take", "undo", "arm", "held", "write", "release", "unarm"}

\* A Claude Code process that holds l and moves its time.
Beating(l) == lock[l].by \in Peers /\ Runs(lock[l].by)

Init ==
    /\ lock = [l \in Locks |-> Free]
    /\ state = [x \in Processes |-> "runs"]
    /\ pc = [a \in Agents |-> "idle"]
    /\ loc = [a \in Agents |-> NoLocals]
    /\ same = [a \in Agents |-> {}]
    /\ record = {}
    /\ armed = {}
    /\ undoing = [a \in Agents |-> [left |-> 0, own |-> FALSE]]
    /\ cancelled = {}
    /\ lapsed = FALSE

----------------------------------------------------------------------------
(* Building blocks.                                                        *)

Goto(a, l) == pc' = [pc EXCEPT ![a] = l]
Set(a, l) == loc' = [loc EXCEPT ![a] = l]
At(a, l) == pc[a] = l /\ Runs(a)

\* The command is over, whatever it came to.
End(a) == Goto(a, "idle") /\ Set(a, NoLocals)

\* a has read l, or made it; nobody who read it before finds it the same.
Read(a, l) == same' = [same EXCEPT ![a] = @ \cup {l}]
Made(a, l) == same' = [b \in Agents |-> IF b = a THEN same[b] \cup {l} ELSE same[b] \ {l}]
Touched(ls) == same' = [b \in Agents |-> same[b] \ ls]

\* rmdir removes the directory of that name, whoever made it.  What the code swallows, an error of
\* a release's rmdir, is left out.
Rmdir(l) ==
    /\ lock' = [lock EXCEPT ![l] = Free]
    /\ Touched({l})

Others == UNCHANGED <<state, cancelled>>
HeldKeeps == UNCHANGED <<record, armed, undoing>> /\ Others
HoldKeeps == HeldKeeps /\ UNCHANGED lapsed

----------------------------------------------------------------------------
(* Acquiring: everything before the record is done with nothing held.      *)

Begin(a) ==
    /\ At(a, "idle")
    /\ "hold" \in Modes
    /\ Goto(a, "probe")
    /\ UNCHANGED <<lock, loc, same>> /\ HoldKeeps

\* The probe goes on with the next lock, or is over.
NextLock(a, l) ==
    IF l.k = Depth THEN Set(a, [l EXCEPT !.k = 1]) /\ Goto(a, "retaken")
                   ELSE Set(a, [l EXCEPT !.k = @ + 1]) /\ Goto(a, "probe")

\* The break rule gave up, on record: the probe is over.
Abandon(a) ==
    /\ Set(a, [loc[a] EXCEPT !.tried = TRUE, !.k = 1])
    /\ Goto(a, "retaken")

\* One lock is looked at; a cancelled run stops before the first.  A second
\* stale lock is not resolved: the store is busy.
Probe(a) ==
    LET k == loc[a].k IN
    /\ At(a, "probe")
    /\ \/ k = 1 /\ a \in cancelled /\ End(a)
       \/ /\ k = 1 => a \notin cancelled
          /\ \/ ~(Exists(k) /\ lock[k].old) /\ NextLock(a, loc[a])
             \/ /\ Exists(k) /\ lock[k].old
                /\ IF loc[a].tried THEN End(a) ELSE Goto(a, "sampleA") /\ UNCHANGED loc
    /\ UNCHANGED <<lock, same>> /\ HoldKeeps

\* Sample A, then the holder evidence: a stopped Claude Code, if the process
\* list can be read, or no answer that counts (Linux).
SampleA(a) ==
    LET k == loc[a].k IN
    /\ At(a, "sampleA")
    /\ \/ ~Exists(k) /\ NextLock(a, loc[a]) /\ UNCHANGED same
       \/ Exists(k) /\ ~lock[k].old /\ Abandon(a) /\ UNCHANGED same
       \/ Exists(k) /\ lock[k].old /\ End(a) /\ UNCHANGED same
       \/ /\ Exists(k) /\ lock[k].old
          /\ Goto(a, "sampleB")
          /\ Read(a, k)
          /\ UNCHANGED loc
    /\ UNCHANGED <<lock>> /\ HoldKeeps

\* Mutant: the samples are too close for a heartbeat between them.
SampleBSoon(a) ==
    LET k == loc[a].k IN
    /\ At(a, "sampleB")
    /\ \/ ~Exists(k) /\ NextLock(a, loc[a])
       \/ k \in same[a] /\ Goto(a, "sampleC") /\ UNCHANGED loc
       \/ Exists(k) /\ Abandon(a)
    /\ UNCHANGED <<lock, same>> /\ HoldKeeps

\* Sample B, twelve seconds later, in which a running holder has beaten; or the
\* wait was cancelled.  The clocks may also disagree about those seconds.
SampleB(a) ==
    LET k == loc[a].k IN
    /\ At(a, "sampleB")
    /\ \/ a \in cancelled /\ End(a)
       \/ /\ ~(Beating(k) /\ k \in same[a])
          /\ \/ ~Exists(k) /\ NextLock(a, loc[a])
             \/ k \in same[a] /\ Goto(a, "sampleC") /\ UNCHANGED loc
             \/ Exists(k) /\ Abandon(a)
    /\ UNCHANGED <<lock, same>> /\ HoldKeeps

SampleC(a) ==
    LET k == loc[a].k IN
    /\ At(a, "sampleC")
    /\ \/ ~Exists(k) /\ NextLock(a, loc[a])
       \/ Exists(k) /\ k \notin same[a] /\ Abandon(a)
       \/ k \in same[a] /\ Goto(a, "break") /\ UNCHANGED loc
    /\ UNCHANGED <<lock, same>> /\ HoldKeeps

\* The rmdir right after it; it may fail.
Break(a) ==
    LET k == loc[a].k IN
    /\ At(a, "break")
    /\ \/ /\ Exists(k)
          /\ Rmdir(k)
          /\ lapsed' = (lapsed \/ k \notin same[a])
          /\ NextLock(a, [loc[a] EXCEPT !.tried = TRUE, !.broke = k, !.breaks = @ + 1])
       \/ ~Exists(k) /\ NextLock(a, loc[a]) /\ UNCHANGED <<lock, same, lapsed>>
       \/ End(a) /\ UNCHANGED <<lock, same, lapsed>>
    /\ HeldKeeps

\* The lock it broke is back already: busy.
Retaken(a) ==
    /\ At(a, "retaken")
    /\ IF loc[a].broke # 0 /\ Exists(loc[a].broke)
         THEN End(a)
         ELSE Goto(a, "primary") /\ UNCHANGED loc
    /\ UNCHANGED <<lock, same>> /\ HoldKeeps

Primary(a) ==
    /\ At(a, "primary")
    /\ Goto(a, IF Exists(1) THEN "contend" ELSE "record")
    /\ UNCHANGED <<lock, loc, same>> /\ HoldKeeps

\* contention_wait: the primary goes away, or outlasts the rounds, or the wait
\* is cancelled.
Contend(a) ==
    /\ At(a, "contend")
    /\ \/ ~Exists(1) /\ Goto(a, "record") /\ UNCHANGED loc
       \/ (Exists(1) \/ a \in cancelled) /\ End(a)
    /\ UNCHANGED <<lock, same>> /\ HoldKeeps

\* The record is written before the first mkdir, or the acquire ends.
Record(a) ==
    /\ At(a, "record")
    /\ \/ /\ record' = record \cup {a}
          /\ undoing' = [undoing EXCEPT ![a].own = FALSE]
          /\ Goto(a, "take")
          /\ UNCHANGED loc
       \/ End(a) /\ UNCHANGED <<record, undoing>>
    /\ UNCHANGED <<lock, same, armed, lapsed>> /\ Others

\* Mutant: a directory that is there counts as made (create_dir_all).
TakeExisting(a) ==
    LET l == loc[a]
        k == l.got + 1
    IN
    /\ At(a, "take")
    /\ IF Exists(k) THEN Read(a, k) /\ UNCHANGED lock
                    ELSE lock' = [lock EXCEPT ![k] = Owned(a)] /\ Made(a, k)
    /\ Set(a, [l EXCEPT !.got = k])
    /\ Goto(a, IF k = Depth THEN "arm" ELSE "take")
    /\ HoldKeeps

\* One mkdir of the next lock: it is taken, somebody has it, or it fails, perhaps
\* with the directory made and its time not readable.
Take(a) ==
    LET l == loc[a]
        k == l.got + 1
    IN
    /\ At(a, "take")
    /\ \/ /\ ~Exists(k)
          /\ lock' = [lock EXCEPT ![k] = Owned(a)]
          /\ Made(a, k)
          /\ Set(a, [l EXCEPT !.got = k])
          /\ \/ Goto(a, IF k = Depth THEN "arm" ELSE "take")
             \/ Goto(a, "undo")
       \/ /\ Exists(k)
          /\ Set(a, [l EXCEPT !.found = k])
          /\ Goto(a, "undo")
          /\ UNCHANGED <<lock, same>>
       \/ Goto(a, "undo") /\ UNCHANGED <<lock, loc, same>>
    /\ HoldKeeps

\* Mutant: and does not count.
UndoUncounted(a) ==
    LET l == loc[a] IN
    /\ At(a, "undo")
    /\ IF l.got > 0
         THEN Rmdir(l.got) /\ Set(a, [l EXCEPT !.got = @ - 1]) /\ UNCHANGED <<pc, record>>
         ELSE /\ record' = record \ {a}
              /\ IF l.found = 0 THEN End(a) ELSE Goto(a, "probe") /\ Set(a, [l EXCEPT !.found = 0])
              /\ UNCHANGED <<lock, same>>
    /\ UNCHANGED <<armed, undoing, lapsed>> /\ Others

\* release_all, in reverse, one rmdir at a time; then the record goes.  A lock
\* somebody else had starts the acquire again, but not the one it broke, and
\* not too often.
Undo(a) ==
    LET l == loc[a] IN
    /\ At(a, "undo")
    /\ IF l.got > 0
         THEN /\ Rmdir(l.got)
              /\ Set(a, [l EXCEPT !.got = @ - 1])
              /\ UNCHANGED <<pc, record>>
         ELSE /\ record' = record \ {a}
              /\ IF l.found = 0 \/ l.found = l.broke \/ l.restarts = MaxRestarts
                   THEN End(a)
                   ELSE /\ Goto(a, "probe")
                        /\ Set(a, [l EXCEPT !.found = 0, !.restarts = @ + 1])
              /\ UNCHANGED <<lock, same>>
    /\ UNCHANGED <<armed, undoing, lapsed>> /\ Others

----------------------------------------------------------------------------
(* Holding.                                                                *)

\* register_emergency_release.
Arm(a) ==
    /\ At(a, "arm")
    /\ armed' = armed \cup {a}
    /\ Goto(a, "held")
    /\ UNCHANGED <<lock, loc, same, record, undoing, lapsed>> /\ Others

\* Mutant: no check before the write.
CheckNothing(a) ==
    /\ At(a, "held")
    /\ Goto(a, "write")
    /\ UNCHANGED <<lock, loc, same>> /\ HoldKeeps

\* drift_check, right before the write: every lock must be as it was made, and
\* the budget not spent.  The caller may have decided not to write before.
Check(a) ==
    /\ At(a, "held")
    /\ \/ Locks \subseteq same[a] /\ Goto(a, "write")
       \/ Goto(a, "release")
    /\ UNCHANGED <<lock, loc, same>> /\ HoldKeeps

Write(a) ==
    /\ At(a, "write")
    /\ Goto(a, "release")
    /\ UNCHANGED <<lock, loc, same>> /\ HoldKeeps

\* Mutant: the record goes first.
ReleaseRecordFirst(a) ==
    LET l == loc[a] IN
    /\ At(a, "release")
    /\ record' = record \ {a}
    /\ IF l.got > 0
         THEN Rmdir(l.got) /\ Set(a, [l EXCEPT !.got = @ - 1]) /\ UNCHANGED pc
         ELSE Goto(a, "unarm") /\ UNCHANGED <<lock, same, loc>>
    /\ UNCHANGED <<armed, undoing, lapsed>> /\ Others

\* release: the directories in reverse, then the record.
Release(a) ==
    LET l == loc[a] IN
    /\ At(a, "release")
    /\ IF l.got > 0
         THEN Rmdir(l.got) /\ Set(a, [l EXCEPT !.got = @ - 1]) /\ UNCHANGED <<pc, record>>
         ELSE record' = record \ {a} /\ Goto(a, "unarm") /\ UNCHANGED <<lock, same, loc>>
    /\ UNCHANGED <<armed, undoing, lapsed>> /\ Others

\* Only then is the emergency release withdrawn.
Unarm(a) ==
    /\ At(a, "unarm")
    /\ armed' = armed \ {a}
    /\ End(a)
    /\ UNCHANGED <<lock, same, record, undoing, lapsed>> /\ Others

\* An emergency cleanup of the process takes the registered release out and runs
\* it beside the hold: a signal, a quit, a coordinator past its deadline.  Bound:
\* one at a time in a process.
Emergency(a) ==
    /\ "emergency" \in Beside
    /\ a \in armed /\ Runs(a) /\ undoing[a].left = 0
    /\ armed' = armed \ {a}
    /\ undoing' = [undoing EXCEPT ![a] = [left |-> Depth, own |-> TRUE]]
    /\ lapsed' = TRUE
    /\ UNCHANGED <<lock, pc, loc, same, record>> /\ Others

EmergencyRelease(a) ==
    /\ undoing[a].left > 0 /\ Runs(a)
    /\ Rmdir(undoing[a].left)
    /\ undoing' = [undoing EXCEPT ![a] = [left |-> @.left - 1, own |-> @.own /\ @.left > 1]]
    /\ record' = IF undoing[a].left = 1 /\ undoing[a].own THEN record \ {a} ELSE record
    /\ UNCHANGED <<pc, loc, armed, lapsed>> /\ Others

----------------------------------------------------------------------------
(* doctor --remove-stale on one lock.                                      *)

\* permit_for: inside agctl's own tree, or named by the record of a process that
\* is gone.  Anything else is refused.
Permit(a, l) ==
    /\ At(a, "idle")
    /\ "doctor" \in Modes
    /\ Tree = "agctl" \/ \E b \in record : state[b] = "dead"
    /\ Goto(a, "first")
    /\ Set(a, [NoLocals EXCEPT !.k = l])
    /\ UNCHANGED <<lock, same>> /\ HoldKeeps

\* The first sample: not there or too young is refused, as is a run without --yes.
FirstSample(a) ==
    LET k == loc[a].k IN
    /\ At(a, "first")
    /\ \/ Exists(k) /\ lock[k].old /\ Read(a, k) /\ Goto(a, "second") /\ UNCHANGED loc
       \/ End(a) /\ UNCHANGED same
    /\ UNCHANGED <<lock>> /\ HoldKeeps

\* The second, twelve seconds later, or as soon as the run is cancelled.  A lock
\* that is gone reads as one nobody holds.
SecondSample(a) ==
    LET k == loc[a].k IN
    /\ At(a, "second")
    /\ a \in cancelled \/ ~(Beating(k) /\ k \in same[a])
    /\ IF Exists(k) /\ k \notin same[a] THEN End(a) ELSE Goto(a, "remove") /\ UNCHANGED loc
    /\ UNCHANGED <<lock, same>> /\ HoldKeeps

Remove(a) ==
    /\ At(a, "remove")
    /\ Rmdir(loc[a].k)
    /\ lapsed' = (lapsed \/ (Exists(loc[a].k) /\ loc[a].k \notin same[a]))
    /\ End(a)
    /\ HeldKeeps

----------------------------------------------------------------------------
(* What happens to processes, directories and clocks.                      *)

Keeps == UNCHANGED <<loc, record, armed>>

Crash(a) ==
    /\ "crash" \in Beside
    /\ state[a] # "dead"
    /\ state' = [state EXCEPT ![a] = "dead"]
    /\ Goto(a, "dead")
    /\ Set(a, NoLocals)
    /\ same' = [same EXCEPT ![a] = {}]
    /\ armed' = armed \ {a}
    /\ undoing' = [undoing EXCEPT ![a] = [left |-> 0, own |-> FALSE]]
    /\ UNCHANGED <<lock, record, cancelled, lapsed>>

Cancel(a) ==
    /\ "cancel" \in Beside
    /\ Runs(a) /\ a \notin cancelled
    /\ cancelled' = cancelled \cup {a}
    /\ UNCHANGED <<lock, state, pc, same, undoing, lapsed>> /\ Keeps

Stop(x) ==
    /\ "stop" \in Beside
    /\ Runs(x)
    /\ state' = [state EXCEPT ![x] = "stopped"]
    /\ lapsed' = (lapsed \/ (x \in Agents /\ Holding(x)))
    /\ UNCHANGED <<lock, pc, same, undoing, cancelled>> /\ Keeps

\* The locks of p, touched now.
Beat(p) ==
    LET ls == {l \in Locks : lock[l].by = p} IN
    /\ lock' = [l \in Locks |-> IF l \in ls THEN Owned(p) ELSE lock[l]]
    /\ Touched(ls)

\* A process goes on; a Claude Code process with its overdue heartbeats.
Continue(x) ==
    /\ state[x] = "stopped"
    /\ state' = [state EXCEPT ![x] = "runs"]
    /\ IF x \in Peers THEN Beat(x) ELSE UNCHANGED <<lock, same>>
    /\ UNCHANGED <<pc, undoing, cancelled, lapsed>> /\ Keeps

\* A directory nobody touches grows old.  A running agent gives its own back in
\* seconds, and a running peer beats.
GrowOld(l) ==
    /\ Exists(l) /\ ~lock[l].old
    /\ ~Runs(lock[l].by)
    /\ lock' = [lock EXCEPT ![l].old = TRUE]
    /\ UNCHANGED <<state, pc, same, undoing, cancelled, lapsed>> /\ Keeps

\* The machine sleeps, or its clock is set forward: every directory looks old.
Sleep ==
    /\ "sleep" \in Beside
    /\ lock' = [l \in Locks |-> [lock[l] EXCEPT !.old = Exists(l)]]
    /\ lapsed' = (lapsed \/ \E a \in Agents : Holding(a))
    /\ UNCHANGED <<state, pc, same, undoing, cancelled>> /\ Keeps

PeerKeeps == UNCHANGED <<state, pc, undoing, cancelled, lapsed>> /\ Keeps

PeerBeats(p) == Runs(p) /\ Beat(p) /\ PeerKeeps

\* Claude Code takes a lock, removes a stale one at once, and gives back its own.
PeerTakes(p, l) ==
    /\ Runs(p)
    /\ ~Exists(l)
    /\ lock' = [lock EXCEPT ![l] = Owned(p)]
    /\ Touched({l})
    /\ PeerKeeps

PeerBreaks(p, l) ==
    /\ Runs(p)
    /\ lock[l].old /\ lock[l].by # p
    /\ Rmdir(l)
    /\ PeerKeeps

PeerReleases(p, l) ==
    /\ Runs(p)
    /\ lock[l].by = p
    /\ Rmdir(l)
    /\ PeerKeeps

----------------------------------------------------------------------------

Acquire(a) ==
    \/ Probe(a) \/ SampleA(a) \/ SampleB(a) \/ SampleC(a) \/ Break(a) \/ Retaken(a)
    \/ Primary(a) \/ Contend(a) \/ Record(a) \/ Take(a) \/ Undo(a)

Hold(a) == Arm(a) \/ Check(a) \/ Write(a) \/ Release(a) \/ Unarm(a) \/ EmergencyRelease(a)

Doctor(a) == FirstSample(a) \/ SecondSample(a) \/ Remove(a)

Work(a) == Acquire(a) \/ Hold(a) \/ Doctor(a)

Peer(p) ==
    \/ PeerBeats(p)
    \/ \E l \in Locks : PeerTakes(p, l) \/ PeerBreaks(p, l) \/ PeerReleases(p, l)

Next ==
    \/ \E a \in Agents :
         \/ Begin(a) \/ Work(a) \/ (\E l \in Locks : Permit(a, l))
         \/ Emergency(a) \/ Crash(a) \/ Cancel(a)
    \/ \E x \in Processes : Stop(x) \/ Continue(x)
    \/ \E p \in Peers : Peer(p)
    \/ \E l \in Locks : GrowOld(l)
    \/ Sleep

Spec == Init /\ [][Next]_vars

\* A running agent goes on, and a running holder beats; nobody need go on who is
\* stopped, or take or give back a lock.
FairSpec ==
    /\ Spec
    /\ \A a \in Agents : WF_vars(Work(a))
    /\ \A p \in Peers : WF_vars(PeerBeats(p))

----------------------------------------------------------------------------
(* Properties.                                                             *)

\* Every variable keeps its shape, and an agent's locals stay with it.
TypeOK ==
    /\ lock \in [Locks -> [by : Processes \cup {NoOne}, old : BOOLEAN]]
    /\ state \in [Processes -> {"runs", "stopped", "dead"}]
    /\ pc \in [Agents -> Labels]
    /\ loc \in [Agents -> Locals]
    /\ same \in [Agents -> SUBSET Locks]
    /\ record \subseteq Agents /\ armed \subseteq Agents
    /\ undoing \in [Agents -> [left : 0 .. Depth, own : BOOLEAN]]
    /\ cancelled \subseteq Agents /\ lapsed \in BOOLEAN

\* One acquire breaks at most one lock, through all its restarts (claude_lock.rs
\* acquire: so that it cannot loop against a peer that recreates one).
OneBreak == \A a \in Agents : loc[a].breaks <= 1

Waiting == {"probe", "sampleA", "sampleB", "sampleC", "break", "retaken", "primary", "contend"}

\* An agent that probes, samples or waits owns no lock, whichever restart it is in
\* (claude_lock.rs: all staleness is resolved before the first mkdir).
WaitsHoldNothing ==
    \A a \in Agents : pc[a] \in Waiting => \A l \in Locks : lock[l].by # a

\* A lock whose agent died is named by a record that is still there, wherever it
\* died, in a release, an undo or an emergency release as well (held_locks.rs).
LeakExplained ==
    \A l \in Locks : lock[l].by \in Agents /\ state[lock[l].by] = "dead" => lock[l].by \in record

\* The write is made with all the locks the agent's own, unless an agctl was stopped,
\* slept or began an emergency release in the middle of a hold, or a removal met a
\* lock that had come back since its last sample.
WriteUnderLocks ==
    \A a \in Agents :
        pc[a] = "write" /\ ~lapsed => \A l \in Locks : lock[l].by = a

\* And even then it is begun only with all of them still its own: whatever others
\* did with them meanwhile, the check right before the write sees (claude_lock.rs
\* drift_check).
CheckSeesAll ==
    [][\A a \in Agents :
         pc[a] = "held" /\ pc'[a] = "write" => \A l \in Locks : lock[l].by = a]_vars

\* When agctl has decided to remove a lock, by the break rule, no running Claude
\* Code holds it, unless it came back since the last sample (claude_lock.rs: the two
\* system calls that no sampling closes).
BreakSparesTheBeating ==
    \A a \in Agents : pc[a] = "break" /\ loc[a].k \in same[a] => ~Beating(loc[a].k)

\* Nor when `doctor --remove-stale` has, its run not cancelled.
DoctorSparesTheBeating ==
    \A a \in Agents :
        pc[a] = "remove" /\ loc[a].k \in same[a] /\ a \notin cancelled => ~Beating(loc[a].k)

\* An acquire, a hold and a removal end, whatever peers take, break and give back,
\* unless the process is stopped or dies.
CommandsEnd == \A a \in Agents : pc[a] # "idle" ~> pc[a] = "idle" \/ ~Runs(a)

\* A removal by hand waits out its twelve seconds (doctor.rs: two samples must
\* show the same modification time, anything else is refused).
DoctorWaits ==
    \A a \in Agents : pc[a] = "remove" /\ loc[a].k \in same[a] => ~Beating(loc[a].k)
=============================================================================
