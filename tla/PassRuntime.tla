---------------------------- MODULE PassRuntime ----------------------------
(***************************************************************************)
(* One agctl process: the `watch` loop with the passes it starts, or the   *)
(* `exec` command with its child; the emergency registry they share; and   *)
(* the thread that ends the process on TERM, HUP or INT.                   *)
(*                                                                         *)
(* A pass is a detached thread that reads the answers of a coordinator's   *)
(* workers.  Nobody joins a pass or its coordinator: what they still have  *)
(* to do when the loop moves on, they do beside the next pass.  A slot     *)
(* stands for a pass and its coordinator until both have ended.  Time is   *)
(* only an order: a budget or a deadline may run out at any step, a        *)
(* scheduled pass is due after the deadline of every pass before it.       *)
(***************************************************************************)
EXTENDS Integers, FiniteSets

CONSTANTS
    Commands,       \* the commands this process may be: a subset of {"watch", "exec"}
    Slots,          \* the most passes and coordinators alive at once
    Workers,        \* the workers a pass may run
    MaxJobs,        \* the most jobs of a pass
    Stops,          \* what may stop the run: a subset of {"quit", "signal"}
    NoSlot          \* no pass in flight

ASSUME CommandsAssumption == Commands \subseteq {"watch", "exec"}
ASSUME StopsAssumption == Stops \subseteq {"quit", "signal"}
ASSUME SlotsAssumption == NoSlot \notin Slots
ASSUME JobsAssumption == MaxJobs \in Nat

VARIABLES
    main,       \* where the main thread is
    cause,      \* why the command ended: by itself, or cut short by a signal
    due,        \* when the next pass is due
    force,      \* the next pass must not use the cache
    owed,       \* history: `r` was pressed and no forced pass has started since
    flight,     \* the slot whose answer the loop waits for
    pass,       \* the thread of each pass
    coord,      \* its coordinator
    dog,        \* the coordinator's watchdog
    late,       \* the passes whose deadline is over
    todo,       \* the jobs of each pass nobody has taken
    work,       \* where each worker is
    kids,       \* the child processes that are alive
    table,      \* the children in their pass's child table
    entries,    \* the children in the emergency registry
    paths,      \* the staged files in the emergency registry
    armed,      \* the terminal's restore is in the emergency registry
    window,     \* a spawn guard is held
    term,       \* the terminal
    restoring,  \* the threads that took the restore out of the registry to run it
    sig,        \* where the signal thread is
    spotted,    \* its last reading of the spawn window
    signalled,  \* the children it has signalled and still watches
    cancelled,  \* the cancellation flag
    exit,       \* how the process ended
    doomed,     \* history: the registered children a signal found alive
    spent       \* history: the signal thread's budget ran out

loop == <<main, cause, due, force, owed, flight>>
passes == <<pass, coord, dog, late, todo, work>>
children == <<kids, table, entries>>
cleanups == <<paths, armed, term, restoring>>
signals == <<sig, spotted, signalled, doomed, spent>>
vars == <<main, cause, due, force, owed, flight, pass, coord, dog, late, todo, work, kids,
          table, entries, paths, armed, window, term, restoring, sig, spotted, signalled,
          cancelled, exit, doomed, spent>>

----------------------------------------------------------------------------
(* Values.                                                                 *)

Jobs == Slots \X Workers                \* a worker of a pass, its child, its staged file
ExecKid == <<NoSlot, NoSlot>>           \* the child of `exec`
Kids == Jobs \cup {ExecKid}

Cleaners == Slots \cup {"main", "signal"}

WorkLabels == {"off", "next", "job", "spawned", "waiting", "staged", "gone"}
WatchLabels == {"enter", "entered", "top", "recv", "drain", "undo", "leave", "unarm"}
ExecLabels == {"open", "check", "spawn", "register", "close", "wait"}
MainLabels == WatchLabels \cup ExecLabels \cup {"out", "exit"}

Looping == {"top", "recv"}

\* The pass must stop: should_stop, and what ends the watchdog's wait.
ShouldStop(s) == cancelled \/ s \in late

Gone(s) == \A w \in Workers : work[<<s, w>>] \in {"off", "gone"}

Running == exit = "no"

Init ==
    /\ main \in (IF "watch" \in Commands THEN {"enter"} ELSE {})
                \cup (IF "exec" \in Commands THEN {"open"} ELSE {})
    /\ cause = "own"
    /\ due = "now"
    /\ force = FALSE
    /\ owed = FALSE
    /\ flight = NoSlot
    /\ pass = [s \in Slots |-> "none"]
    /\ coord = [s \in Slots |-> "none"]
    /\ dog = [s \in Slots |-> "none"]
    /\ late = {}
    /\ todo = [s \in Slots |-> 0]
    /\ work = [j \in Jobs |-> "off"]
    /\ kids = {} /\ table = {} /\ entries = {}
    /\ paths = {} /\ armed = FALSE /\ term = "cooked" /\ restoring = {}
    /\ window = FALSE
    /\ sig = "idle" /\ spotted = FALSE /\ signalled = {} /\ doomed = {}
    /\ spent = FALSE
    /\ cancelled = FALSE
    /\ exit = "no"

----------------------------------------------------------------------------
(* The emergency registry.                                                 *)

\* emergency, its first half: everything but the children is taken out under
\* the registry's mutex, and the staged files are unlinked.
EmergencyTake(c) ==
    /\ paths' = {}
    /\ restoring' = IF armed THEN restoring \cup {c} ELSE restoring
    /\ armed' = FALSE
    /\ UNCHANGED term

\* Its second half: the terminal is restored last.
EmergencyRestore(c) ==
    /\ c \in restoring
    /\ term' = "cooked"
    /\ restoring' = restoring \ {c}
    /\ UNCHANGED <<paths, armed>>

\* A child is reaped: it leaves its table, and its registration is withdrawn.
Reap(ks) ==
    /\ kids' = kids \ ks
    /\ table' = table \ ks
    /\ entries' = entries \ ks

\* kill_all: every child in the pass's table is killed and reaped.
KillAll(s) == Reap({k \in table : k[1] = s})

\* register_child: in the registry and in the table.  (A child whose start time
\* cannot be read is left to its waiter: it is outside the model.)
Register(k) ==
    /\ table' = table \cup {k}
    /\ entries' = entries \cup {k}
    /\ UNCHANGED kids

\* wait_child, wait_child_timeout: the child was killed through the table, or has
\* ended, or is killed here because the wait is over.
Wait(k, over) ==
    \/ k \notin table /\ UNCHANGED children
    \/ k \in table /\ (k \in kids => over) /\ Reap({k})

----------------------------------------------------------------------------
(* A pass: its thread, the coordinator, the watchdog, the workers.         *)

\* Every start of a pass finds or waits for a free slot: the bound Slots.
Free(s) == pass[s] = "none" /\ coord[s] = "none"

\* Pass::run: nothing to say, or no rows and so no jobs, or a coordinator with its
\* watchdog and its workers, at most one for each job.
RunPass(s) ==
    \/ /\ pass' = [pass EXCEPT ![s] = "answered"]
       /\ UNCHANGED <<coord, dog, todo, work>>
    \/ \E n \in 1 .. MaxJobs, ws \in SUBSET Workers :
         /\ Cardinality(ws) = IF n < Cardinality(Workers) THEN n ELSE Cardinality(Workers)
         /\ pass' = [pass EXCEPT ![s] = "collect"]
         /\ coord' = [coord EXCEPT ![s] = "scope"]
         /\ dog' = [dog EXCEPT ![s] = "watch"]
         /\ todo' = [todo EXCEPT ![s] = n]
         /\ work' = [j \in Jobs |-> IF j[1] # s THEN work[j]
                                    ELSE IF j[2] \in ws THEN "next" ELSE "off"]

\* The last worker's end closes the channel: collect returns, the pass answers.
Answer(s) ==
    /\ pass[s] = "collect"
    /\ Gone(s)
    /\ pass' = [pass EXCEPT ![s] = "answered"]
    /\ UNCHANGED <<loop, coord, dog, late, todo, work, children, cleanups, window,
                   signals, cancelled, exit>>

Deadline(s) ==
    /\ ~Free(s)
    /\ s \notin late
    /\ late' = late \cup {s}
    /\ UNCHANGED <<loop, pass, coord, dog, todo, work, children, cleanups, window,
                   signals, cancelled, exit>>

\* The watchdog's wait ends with the cancellation or the deadline: workers_running
\* is cleared only after the scope the watchdog belongs to, so it is never the reason.
WatchdogFires(s) ==
    /\ dog[s] = "watch"
    /\ ShouldStop(s)
    /\ KillAll(s)
    /\ dog' = [dog EXCEPT ![s] = "window"]
    /\ UNCHANGED <<loop, pass, coord, late, todo, work, cleanups, window, signals,
                   cancelled, exit>>

\* For the join budget it goes on sweeping.
WatchdogSweeps(s) ==
    /\ dog[s] = "window"
    /\ \E k \in table : k[1] = s
    /\ KillAll(s)
    /\ UNCHANGED <<loop, passes, cleanups, window, signals, cancelled, exit>>

\* The budget over, the scope has joined every worker and the watchdog.  A child a
\* job leaked is killed; and as the watchdog ended, the pass was cancelled or is late
\* by now, so its coordinator cleans up for the whole process.
JoinScope(s) ==
    /\ coord[s] = "scope"
    /\ Gone(s)
    /\ dog[s] = "window"
    /\ ShouldStop(s)
    /\ KillAll(s)
    /\ EmergencyTake(s)
    /\ dog' = [dog EXCEPT ![s] = "none"]
    /\ coord' = [coord EXCEPT ![s] = "undo"]
    /\ UNCHANGED <<loop, pass, late, todo, work, window, signals, cancelled, exit>>

CoordinatorRestores(s) ==
    /\ coord[s] = "undo"
    /\ EmergencyRestore(s)
    /\ UNCHANGED <<loop, passes, children, window, signals, cancelled, exit>>

\* The coordinator ends; its slot is free once the loop has the answer as well.
CoordinatorEnds(s) ==
    /\ coord[s] = "undo"
    /\ s \notin restoring
    /\ coord' = [coord EXCEPT ![s] = "none"]
    /\ work' = [j \in Jobs |-> IF j[1] = s THEN "off" ELSE work[j]]
    /\ todo' = [todo EXCEPT ![s] = 0]
    /\ UNCHANGED <<loop, pass, dog, late, children, cleanups, window, signals, cancelled, exit>>

\* The worker takes the next job, or ends: no job left, or the pass must stop.
TakeJob(j) ==
    LET s == j[1] IN
    /\ work[j] = "next"
    /\ work' = [work EXCEPT ![j] = IF todo[s] > 0 /\ ~ShouldStop(s) THEN "job" ELSE "gone"]
    /\ todo' = [todo EXCEPT ![s] = IF @ > 0 THEN @ - 1 ELSE 0]
    /\ UNCHANGED <<loop, pass, coord, dog, late, children, cleanups, window, signals,
                   cancelled, exit>>

WorkGoes(j, from, to) ==
    /\ work[j] = from
    /\ work' = [work EXCEPT ![j] = to]
    /\ UNCHANGED <<loop, pass, coord, dog, late, todo, window, signals, cancelled, exit>>

\* A job may run security(1), spawned with no spawn guard.
JobSpawns(j) ==
    /\ WorkGoes(j, "job", "spawned")
    /\ kids' = kids \cup {j}
    /\ UNCHANGED <<table, entries, cleanups>>

JobRegisters(j) == WorkGoes(j, "spawned", "waiting") /\ Register(j) /\ UNCHANGED cleanups

\* The child has ended, or the wait's budget, which may be over at any time.
JobWaits(j) == WorkGoes(j, "waiting", "next") /\ Wait(j, TRUE) /\ UNCHANGED cleanups

\* Or it writes a file: staged under a registered name, then renamed, or
\* unlinked if the pass must stop; an emergency cleanup may have taken it first.
JobStages(j) ==
    /\ WorkGoes(j, "job", "staged")
    /\ paths' = paths \cup {j}
    /\ UNCHANGED <<children, armed, term, restoring>>

JobRenames(j) ==
    /\ WorkGoes(j, "staged", "next")
    /\ paths' = paths \ {j}
    /\ UNCHANGED <<children, armed, term, restoring>>

\* Or neither; its result is sent.
JobEnds(j) == WorkGoes(j, "job", "next") /\ UNCHANGED <<children, cleanups>>

JobStep(j) ==
    \/ TakeJob(j) \/ JobSpawns(j) \/ JobRegisters(j) \/ JobWaits(j)
    \/ JobStages(j) \/ JobRenames(j) \/ JobEnds(j)

CoordStep(s) ==
    \/ Answer(s) \/ WatchdogFires(s) \/ WatchdogSweeps(s) \/ JoinScope(s)
    \/ CoordinatorRestores(s) \/ CoordinatorEnds(s)

----------------------------------------------------------------------------
(* The watch loop.                                                         *)

MainGoes(from, to) == main = from /\ main' = to

\* enter: the restore is armed before raw mode, which may fail.
Enter ==
    /\ MainGoes("enter", "entered")
    /\ armed' = TRUE
    /\ UNCHANGED <<cause, due, force, owed, flight, passes, children, paths, term, restoring,
                   window, signals, cancelled, exit>>

RawMode ==
    /\ main = "entered"
    /\ main' \in {"top", "leave"}
    /\ term' = "raw"
    /\ UNCHANGED <<cause, due, force, owed, flight, passes, children, paths, armed, restoring,
                   window, signals, cancelled, exit>>

MainKeeps == UNCHANGED <<children, cleanups, window, signals, exit>>

\* The head of the loop: a cancellation ends it.
SeeCancel ==
    /\ MainGoes("top", "leave")
    /\ cancelled
    /\ cause' = "cancelled"
    /\ UNCHANGED <<due, force, owed, flight, passes, cancelled>> /\ MainKeeps

\* A pass is due and none is in flight: it starts, forced if `r` asked for it.
StartPass(s) ==
    /\ MainGoes("top", "recv")
    /\ ~cancelled
    /\ flight = NoSlot /\ due = "now"
    /\ Free(s)
    /\ flight' = s
    /\ due' = "none"
    /\ owed' = (owed /\ ~force)
    /\ force' = FALSE
    /\ RunPass(s)
    /\ late' = late \ {s}
    /\ UNCHANGED <<cause, cancelled>> /\ MainKeeps

\* Mutant: a refresh whose pass could not be started is forgotten.
StartForgets ==
    /\ MainGoes("top", "recv")
    /\ ~cancelled
    /\ flight = NoSlot /\ due = "now"
    /\ due' = "later"
    /\ force' = FALSE
    /\ UNCHANGED <<cause, owed, flight, passes, cancelled>> /\ MainKeeps

\* The thread cannot be started: tried again an interval later, forced if it was.
StartFails ==
    /\ MainGoes("top", "recv")
    /\ ~cancelled
    /\ flight = NoSlot /\ due = "now"
    /\ due' = "later"
    /\ UNCHANGED <<cause, force, owed, flight, passes, cancelled>> /\ MainKeeps

NothingDue ==
    /\ MainGoes("top", "recv")
    /\ ~cancelled
    /\ flight # NoSlot \/ due # "now" \/ \A s \in Slots : ~Free(s)
    /\ UNCHANGED <<cause, due, force, owed, flight, passes, cancelled>> /\ MainKeeps

\* The frame is drawn and the channel tried, never waited on; then a key is waited for.
Received ==
    IF flight # NoSlot /\ pass[flight] = "answered"
      THEN pass' = [pass EXCEPT ![flight] = "none"] /\ flight' = NoSlot
      ELSE UNCHANGED <<pass, flight>>

\* A pass that ended is followed at once if `r` was pressed, else in an interval.
NextDue == IF flight' = flight THEN due ELSE IF force THEN "now" ELSE "later"

ReceiveKeeps == UNCHANGED <<cause, coord, dog, late, todo, work>> /\ MainKeeps

\* The frame cannot be drawn or the keyboard not read: the command fails.
LoopFails ==
    /\ MainGoes("recv", "leave")
    /\ UNCHANGED <<due, force, owed, pass, flight, cancelled>> /\ ReceiveKeeps

\* No key, or one that only moves the selection.
NoKey ==
    /\ MainGoes("recv", "top")
    /\ Received
    /\ due' = NextDue
    /\ UNCHANGED <<force, owed, cancelled>> /\ ReceiveKeeps

\* Mutant: `r` starts a pass at once, in flight or not.
KeyRefreshNow ==
    /\ MainGoes("recv", "top")
    /\ force' = TRUE
    /\ owed' = TRUE
    /\ due' = "now"
    /\ flight' = NoSlot
    /\ UNCHANGED <<pass, cancelled>> /\ ReceiveKeeps

\* `r`: the next pass is forced, and due at once unless one is in flight.
KeyRefresh ==
    /\ MainGoes("recv", "top")
    /\ Received
    /\ force' = TRUE
    /\ owed' = TRUE
    /\ due' = IF flight' = NoSlot THEN "now" ELSE due
    /\ UNCHANGED cancelled /\ ReceiveKeeps

\* `q` cancels first.
KeyQuit ==
    /\ "quit" \in Stops
    /\ MainGoes("recv", "drain")
    /\ Received
    /\ cancelled' = TRUE
    /\ UNCHANGED <<due, force, owed>> /\ ReceiveKeeps

QuitKeeps ==
    UNCHANGED <<cause, due, force, owed, flight, passes, children, window, signals, cancelled,
                exit>>

\* Mutant: `q` waits for the pass however long it takes.
QuitUnbounded ==
    /\ MainGoes("drain", "undo")
    /\ flight # NoSlot => pass[flight] = "answered"
    /\ EmergencyTake("main")
    /\ QuitKeeps

\* Then it waits for the pass, a bounded time that may be over at any step, and
\* cleans up.
QuitCleans ==
    /\ MainGoes("drain", "undo")
    /\ EmergencyTake("main")
    /\ QuitKeeps

QuitRestores ==
    /\ main = "undo"
    /\ IF "main" \in restoring
         THEN EmergencyRestore("main") /\ UNCHANGED main
         ELSE main' = "leave" /\ UNCHANGED cleanups
    /\ QuitKeeps

\* Mutant: the restore is withdrawn before it is run.
LeaveWithdrawn ==
    /\ MainGoes("leave", "unarm")
    /\ armed' = FALSE
    /\ UNCHANGED <<cause, due, force, owed, flight, passes, children, paths, term, restoring,
                   window, signals, cancelled, exit>>

\* leave: the terminal is given back, and only then is the restore withdrawn.
Leave ==
    /\ MainGoes("leave", "unarm")
    /\ term' = "cooked"
    /\ UNCHANGED <<cause, due, force, owed, flight, passes, children, paths, armed, restoring,
                   window, signals, cancelled, exit>>

Unarm ==
    /\ MainGoes("unarm", "out")
    /\ armed' = FALSE
    /\ UNCHANGED <<cause, due, force, owed, flight, passes, children, paths, term, restoring,
                   window, signals, cancelled, exit>>

----------------------------------------------------------------------------
(* The exec command.                                                       *)

ExecKeeps ==
    UNCHANGED <<due, force, owed, flight, passes, cleanups, signals, cancelled, exit>>

\* begin_spawn_unless_cancelled: the window is opened, then the flag is read.
OpenWindow ==
    /\ MainGoes("open", "check")
    /\ window' = TRUE
    /\ UNCHANGED <<cause, children>> /\ ExecKeeps

CheckCancel ==
    /\ main = "check"
    /\ IF cancelled THEN main' = "out" /\ cause' = "cancelled" /\ window' = FALSE
                    ELSE main' = "spawn" /\ UNCHANGED <<cause, window>>
    /\ UNCHANGED children /\ ExecKeeps

\* The command starts, or cannot be started.
SpawnChild ==
    /\ main = "spawn"
    /\ \/ main' = "register" /\ kids' = kids \cup {ExecKid} /\ UNCHANGED window
       \/ main' = "out" /\ window' = FALSE /\ UNCHANGED kids
    /\ UNCHANGED <<cause, table, entries>> /\ ExecKeeps

RegisterChild ==
    /\ MainGoes("register", "close")
    /\ Register(ExecKid)
    /\ UNCHANGED <<cause, window>> /\ ExecKeeps

CloseWindow ==
    /\ MainGoes("close", "wait")
    /\ window' = FALSE
    /\ UNCHANGED <<cause, children>> /\ ExecKeeps

\* wait_child has no budget: the child ends, or the cancellation kills it.
WaitChild ==
    /\ MainGoes("wait", "out")
    /\ Wait(ExecKid, cancelled)
    /\ cause' = IF ExecKid \in kids THEN "cancelled" ELSE cause
    /\ UNCHANGED window /\ ExecKeeps

----------------------------------------------------------------------------
(* The end of the command.                                                 *)

\* Mutant: the command exits whatever the signal thread is doing.
DeferNever ==
    /\ MainGoes("out", "exit")
    /\ UNCHANGED <<cause, due, force, owed, flight, passes, cancelled>> /\ MainKeeps

\* defer_to_exit: with an exit in progress the thread is parked for good.
Defer ==
    /\ MainGoes("out", "exit")
    /\ sig = "idle"
    /\ UNCHANGED <<cause, due, force, owed, flight, passes, cancelled>> /\ MainKeeps

Exit ==
    /\ main = "exit"
    /\ exit' = "code"
    /\ UNCHANGED <<loop, passes, children, cleanups, window, signals, cancelled>>

----------------------------------------------------------------------------
(* The signal thread.                                                      *)

SigGoes(from, to) == sig = from /\ sig' = to

SigKeeps == UNCHANGED <<due, force, owed, flight, main, passes, window>>

\* TERM, HUP or INT arrives: the exit is announced before the cancellation.
Signal ==
    /\ "signal" \in Stops
    /\ SigGoes("idle", "cancel")
    /\ UNCHANGED <<cause, spent, spotted, signalled, doomed, children, cleanups, cancelled, exit>>
    /\ SigKeeps

SigCancels ==
    /\ SigGoes("cancel", "look")
    /\ cancelled' = TRUE
    /\ doomed' = entries \cap kids
    /\ UNCHANGED <<cause, spent, spotted, signalled, children, cleanups, exit>> /\ SigKeeps

\* A round of terminate_with: the window is read before the children are taken.
SigLooks ==
    /\ SigGoes("look", "take")
    /\ spotted' = window
    /\ UNCHANGED <<cause, spent, signalled, doomed, children, cleanups, cancelled, exit>> /\ SigKeeps

\* Mutant: a child that outlasts SIGTERM is left alone.
SigTakesMildly ==
    /\ sig = "take"
    /\ signalled' = (signalled \cup entries) \cap kids
    /\ entries' = {}
    /\ sig' \in {"look", "cleanup"}
    /\ UNCHANGED <<cause, spotted, doomed, spent, kids, table, cleanups, cancelled, exit>>
    /\ SigKeeps

\* The round ends the wait when every child taken is gone and no spawn was under
\* way, or when the budget is spent.
SigTakes ==
    /\ sig = "take"
    /\ signalled' = (signalled \cup entries) \cap kids
    /\ entries' = {}
    /\ \/ signalled' = {} /\ ~spotted /\ sig' = "cleanup" /\ UNCHANGED spent
       \/ /\ signalled' # {} \/ spotted
          /\ \/ sig' = "look" /\ UNCHANGED spent
             \/ sig' = (IF signalled' = {} THEN "cleanup" ELSE "kill") /\ spent' = TRUE
    /\ UNCHANGED <<cause, spotted, doomed, kids, table, cleanups, cancelled, exit>> /\ SigKeeps

SigKills ==
    /\ SigGoes("kill", "cleanup")
    /\ kids' = kids \ signalled
    /\ cause' = IF ExecKid \in kids \cap signalled THEN "cancelled" ELSE cause
    /\ UNCHANGED <<spotted, signalled, doomed, spent, table, entries, cleanups, cancelled,
                   exit>>
    /\ SigKeeps

SigCleans ==
    /\ SigGoes("cleanup", "undo")
    /\ EmergencyTake("signal")
    /\ UNCHANGED <<cause, spotted, signalled, doomed, spent, children, cancelled, exit>>
    /\ SigKeeps

SigRestores ==
    /\ sig = "undo"
    /\ IF "signal" \in restoring
         THEN EmergencyRestore("signal") /\ UNCHANGED exit
         ELSE exit' = "signal" /\ UNCHANGED cleanups
    /\ UNCHANGED <<cause, sig, spotted, signalled, doomed, spent, children, cancelled>>
    /\ SigKeeps

----------------------------------------------------------------------------
(* What the process does not control.                                      *)

\* The child of `exec` ends, of itself or because of a SIGTERM.  (A job's child
\* ends no later than its waiter's budget: JobWaits.)
ChildEnds ==
    /\ ExecKid \in kids
    /\ kids' = kids \ {ExecKid}
    /\ cause' = IF ExecKid \in signalled THEN "cancelled" ELSE cause
    /\ UNCHANGED <<main, due, force, owed, flight, passes, table, entries, cleanups, window,
                   signals, cancelled, exit>>

\* The interval after a pass is over; every earlier pass is past its deadline.
IntervalOver ==
    /\ due = "later"
    /\ \A s \in Slots : Free(s) \/ s \in late
    /\ due' = "now"
    /\ UNCHANGED <<main, cause, force, owed, flight, passes, children, cleanups, window,
                   signals, cancelled, exit>>

----------------------------------------------------------------------------

WatchStep ==
    \/ Enter \/ RawMode \/ SeeCancel \/ (\E s \in Slots : StartPass(s)) \/ StartFails
    \/ NothingDue \/ LoopFails \/ NoKey \/ KeyRefresh \/ KeyQuit
    \/ QuitCleans \/ QuitRestores \/ Leave \/ Unarm

ExecStep ==
    OpenWindow \/ CheckCancel \/ SpawnChild \/ RegisterChild \/ CloseWindow \/ WaitChild

MainStep == WatchStep \/ ExecStep \/ Defer \/ Exit

SigStep ==
    \/ SigCancels \/ SigLooks \/ SigTakes \/ SigKills \/ SigCleans \/ SigRestores

\* Nothing happens after the process has ended.
Next ==
    /\ Running
    /\ \/ MainStep
       \/ Signal \/ SigStep
       \/ \E s \in Slots : CoordStep(s) \/ Deadline(s)
       \/ \E j \in Jobs : JobStep(j)
       \/ ChildEnds
       \/ IntervalOver

Spec == Init /\ [][Next]_vars

\* Threads run and time passes.  A job may be stuck, in a request or on a lock, a
\* child may live on, nobody need press a key.
FairSpec ==
    /\ Spec
    /\ WF_vars(Running /\ MainStep)
    /\ WF_vars(Running /\ SigStep)
    /\ \A s \in Slots : WF_vars(Running /\ CoordStep(s)) /\ WF_vars(Running /\ Deadline(s))
    /\ WF_vars(Running /\ IntervalOver)

----------------------------------------------------------------------------
(* Properties.                                                             *)

Busy(s) == \E w \in Workers : work[<<s, w>>] \notin {"off", "gone"}

\* Every variable keeps its shape: threads, jobs, registry, files, signal thread.
TypeOK ==
    /\ main \in MainLabels
    /\ cause \in {"own", "cancelled"}
    /\ due \in {"now", "later", "none"}
    /\ force \in BOOLEAN /\ owed \in BOOLEAN
    /\ flight \in Slots \cup {NoSlot}
    /\ pass \in [Slots -> {"none", "collect", "answered"}]
    /\ coord \in [Slots -> {"none", "scope", "undo"}]
    /\ dog \in [Slots -> {"none", "watch", "window"}]
    /\ late \subseteq Slots
    /\ todo \in [Slots -> 0 .. MaxJobs]
    /\ work \in [Jobs -> WorkLabels]
    /\ kids \subseteq Kids /\ table \subseteq Kids
    /\ entries \subseteq table
    /\ paths \subseteq Jobs
    /\ armed \in BOOLEAN /\ window \in BOOLEAN
    /\ term \in {"cooked", "raw"}
    /\ restoring \subseteq Cleaners
    /\ sig \in {"idle", "cancel", "look", "take", "kill", "cleanup", "undo"}
    /\ spotted \in BOOLEAN /\ spent \in BOOLEAN /\ cancelled \in BOOLEAN
    /\ signalled \subseteq Kids /\ doomed \subseteq Kids
    /\ exit \in {"no", "code", "signal"}

\* Two passes never work at once, though nothing joins a pass: not after `r` in the
\* middle of one, nor when a coordinator outlives its pass (watch.rs: a pass that
\* ran until the next one was due would overlap itself).
PassesDoNotOverlap == \A s, t \in Slots : s # t => ~(Busy(s) /\ Busy(t))

\* Until the signal thread has cleaned up, a raw terminal is some thread's to give
\* back: the registry holds the restore, or a cleanup has taken it out and has yet
\* to run it.  The command never returns with it raw (tui/mod.rs leave: restored,
\* and only then withdrawn).
TerminalCovered ==
    term = "raw" =>
        /\ sig # "undo" => armed \/ restoring # {}
        /\ main \notin {"out", "exit"}

\* A signal that ends the process leaves no child alive that was registered when it came, whether
\* its waiter, the watchdog or the signal thread gets to it first (signals.rs: registered children
\* die with the process); nor the child of `exec`, wherever between the cancellation check and its
\* registration the spawn was, unless it outlasted the signal thread's budget (cleanup.rs: at
\* least one side sees the other).
NoChildSurvives ==
    exit = "signal" => doomed \cap kids = {} /\ (~spent => ExecKid \notin kids)

\* A command cut short by a signal never exits with a status of its own
\* (signals.rs defer_to_exit: what keeps the exit status 128 + signo).
StatusIsTheSignals == exit = "code" => cause = "own"

\* A press of `r` that no forced pass has followed is not forgotten while the loop runs, whatever
\* was in flight and however often the thread could not be started: a pass in flight or one to
\* come is followed by a forced one (watch.rs run_loop).
RefreshKeyKept ==
    owed /\ main \in Looping => force /\ (flight # NoSlot \/ due # "none")

\* Once the run is cancelled, by `q` or by a signal, the process ends, however
\* stuck its jobs are (watch.rs quit: a pass that is stuck cannot delay the exit).
CancelEnds == cancelled ~> ~Running

----------------------------------------------------------------------------
(* The inductive invariant behind the safety properties.                   *)

\* Where the loop has not begun, and where the command is over.
Entering == {"enter", "entered"}
Ending == {"drain", "undo", "leave", "unarm", "out", "exit"}

\* Where the spawn guard is held, and where the child may have been spawned.
Guarded == {"check", "spawn", "register", "close"}
Spawning == {"spawn", "register", "close"}

\* Where the signal thread is once it has cancelled the run.
SigPast == {"look", "take", "kill", "cleanup", "undo"}

\* The loop waits for every pass whose workers run or whose answer is unread.
PassInv ==
    /\ \A s \in Slots : Busy(s) => pass[s] = "collect"
    /\ \A s \in Slots : pass[s] # "none" => flight = s
    /\ \A s \in Slots : coord[s] = "undo" => Gone(s)
    /\ main \in Entering => \A s \in Slots : Free(s)

\* No restore is taken out before the loop but by the signal thread, which has then
\* nothing left to do but run it.
TerminalInv ==
    /\ main \in Entering \cup ExecLabels \cup {"unarm", "out", "exit"} => term = "cooked"
    /\ main = "entered" => armed \/ sig = "undo"
    /\ TerminalCovered

\* What is in a child table is being waited for.
TableInv ==
    /\ \A j \in Jobs \cap table : work[j] = "waiting"
    /\ ExecKid \in table => main \in {"close", "wait"}
    /\ ExecKid \in kids => main \in {"register", "close", "wait"}
    /\ ExecKid \in kids /\ main \in {"close", "wait"} =>
         ExecKid \in table /\ ExecKid \in entries \cup signalled
    /\ window <=> main \in Guarded

\* Nothing is cancelled or cut short before the signal thread began, `q` apart.
CauseInv ==
    /\ sig \in SigPast => cancelled
    /\ cancelled => sig # "idle" \/ main \in Ending
    /\ sig \in {"idle", "cancel"} => signalled = {} /\ doomed = {}
    /\ cause = "cancelled" => sig # "idle"
    /\ main = "exit" => cause = "own"
    /\ exit = "code" => main = "exit"

\* The registered children a signal found are the registry's, or the signal thread's,
\* or dead, and no job starts one of their name again.
DoomInv ==
    /\ doomed \cap kids \subseteq entries \cup signalled
    /\ \A j \in Jobs \cap doomed : work[j] \in {"waiting", "next", "gone", "off"}
    /\ ExecKid \in doomed => main \in {"close", "wait", "out", "exit"}
    /\ sig = "kill" => doomed \cap kids \subseteq signalled
    /\ sig \in {"cleanup", "undo"} => doomed \cap kids = {}
    /\ exit = "signal" => sig = "undo"

\* A window read as closed stays closed, and what was spawned before it is registered.
SpawnInv ==
    /\ sig = "take" /\ ~spotted => main \notin Spawning
    /\ sig = "kill" => spent
    /\ sig \in {"cleanup", "undo"} /\ ~spent => main \notin Spawning /\ ExecKid \notin kids

RefreshInv ==
    /\ main \in Entering => ~owed
    /\ RefreshKeyKept

IInv == /\ TypeOK
        /\ PassInv
        /\ TerminalInv
        /\ TableInv
        /\ CauseInv
        /\ DoomInv
        /\ SpawnInv
        /\ RefreshInv
=============================================================================
