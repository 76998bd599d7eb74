------------------------ MODULE PassAndSessionProofs ------------------------
(***************************************************************************)
(* What agctl guarantees around the children it starts.  First a status    *)
(* pass: the process around it (PassRuntime), for any number of passes,    *)
(* workers and jobs, and the refreshes it sends to an owned Codex account  *)
(* (CodexPass), for any number of passes, hours and tokens.  Then isolated *)
(* sessions and the configuration file they share with Claude Code         *)
(* (Sessions, ConfigFile), for any number of rewrites, `use`s, `use        *)
(* --forget`s, Claude Code sessions and versions.  The three modules share *)
(* no name.                                                                *)
(***************************************************************************)
EXTENDS PassRuntime, CodexPass, Sessions, TLAPS

USE DEF loop, passes, children, cleanups, signals

----------------------------------------------------------------------------
(* Values.                                                                 *)

\* A job is named by its pass; the child of `exec` is none of them.
LEMMA JobFacts ==
    /\ \A j \in Jobs : j[1] \in Slots /\ j[2] \in Workers /\ j = <<j[1], j[2]>>
    /\ \A s \in Slots, w \in Workers : <<s, w>> \in Jobs /\ <<s, w>>[1] = s
    /\ ExecKid \notin Jobs /\ ExecKid[1] \notin Slots
    /\ Jobs \subseteq Kids /\ ExecKid \in Kids
    /\ \A k \in Kids : k \in Jobs \/ k = ExecKid
BY SlotsAssumption DEF Jobs, ExecKid, Kids

\* A worker's step moves that worker, and touches no child but its own.
LEMMA JobFrame ==
    ASSUME work \in [Jobs -> WorkLabels], NEW j \in Jobs, JobStep(j)
    PROVE  /\ UNCHANGED <<loop, pass, coord, dog, late, window, signals, cancelled, exit>>
           /\ UNCHANGED <<armed, term, restoring>>
           /\ \A k \in Jobs \ {j} : work'[k] = work[k]
           /\ \A k : k # j => (k \in kids' <=> k \in kids)
           /\ \A k : k # j => (k \in table' <=> k \in table)
           /\ \A k : k # j => (k \in entries' <=> k \in entries)
           /\ \/ /\ work[j] = "next" /\ UNCHANGED children
                 /\ work'[j] = "gone" \/ (work'[j] = "job" /\ ~cancelled)
              \/ /\ work[j] = "job" /\ work'[j] = "spawned"
                 /\ UNCHANGED <<table, entries>>
              \/ work[j] = "spawned" /\ work'[j] = "waiting" /\ UNCHANGED kids
              \/ /\ work[j] = "waiting" /\ work'[j] = "next"
                 /\ UNCHANGED children \/ (j \notin kids' /\ j \notin entries')
                 /\ j \notin table'
              \/ /\ work[j] \in {"job", "staged"} /\ work'[j] \in {"staged", "next"}
                 /\ UNCHANGED children
<1>1. CASE TakeJob(j)
  BY <1>1 DEF TakeJob, ShouldStop
<1>2. CASE JobSpawns(j)
  BY <1>2 DEF JobSpawns, WorkGoes
<1>3. CASE JobRegisters(j)
  BY <1>3 DEF JobRegisters, WorkGoes, Register
<1>4. CASE JobWaits(j)
  BY <1>4 DEF JobWaits, WorkGoes, Wait, Reap
<1>5. CASE JobStages(j)
  BY <1>5 DEF JobStages, WorkGoes
<1>6. CASE JobRenames(j)
  BY <1>6 DEF JobRenames, WorkGoes
<1>7. CASE JobEnds(j)
  BY <1>7 DEF JobEnds, WorkGoes
<1> QED BY <1>1, <1>2, <1>3, <1>4, <1>5, <1>6, <1>7 DEF JobStep

\* What a coordinator or its watchdog does to the children is a sweep of the pass's
\* table, and it starts no worker.
LEMMA CoordFrame ==
    ASSUME work \in [Jobs -> WorkLabels], NEW s \in Slots, CoordStep(s) \/ Deadline(s)
    PROVE  /\ UNCHANGED <<loop, window, signals, cancelled, exit>>
           /\ UNCHANGED children \/ Reap({k \in table : k[1] = s})
           /\ \A j \in Jobs : work'[j] = work[j] \/ (coord[s] = "undo" /\ work'[j] = "off")
           /\ \A j \in Jobs : j[1] # s => work'[j] = work[j]
<1>1. CASE Deadline(s) \/ Answer(s) \/ CoordinatorRestores(s)
  BY <1>1 DEF Deadline, Answer, CoordinatorRestores
<1>2. CASE WatchdogFires(s) \/ WatchdogSweeps(s) \/ JoinScope(s)
  BY <1>2 DEF WatchdogFires, WatchdogSweeps, JoinScope, KillAll
<1>3. CASE CoordinatorEnds(s)
  BY <1>3 DEF CoordinatorEnds
<1> QED BY <1>1, <1>2, <1>3 DEF CoordStep

\* A sweep takes the children of one pass, out of the registry as well, and never
\* the child of `exec`.
LEMMA CoordSweeps ==
    ASSUME table \subseteq Kids, entries \subseteq table, work \in [Jobs -> WorkLabels],
           NEW s \in Slots, CoordStep(s) \/ Deadline(s)
    PROVE  /\ kids' \subseteq kids /\ table' \subseteq table /\ entries' \subseteq entries
           /\ \A k \in entries \ entries' : k \notin kids'
           /\ ExecKid \in kids => ExecKid \in kids'
           /\ ExecKid \in table => ExecKid \in table'
           /\ ExecKid \in entries => ExecKid \in entries'
<1>1. CASE UNCHANGED children
  BY <1>1
<1>2. CASE Reap({k \in table : k[1] = s})
  <2>1. ExecKid \notin {k \in table : k[1] = s}
    BY JobFacts
  <2>2. PICK ks : ks = {k \in table : k[1] = s}
    OBVIOUS
  <2>3. Reap(ks) /\ ExecKid \notin ks
    BY <1>2, <2>1, <2>2
  <2> QED BY <2>3 DEF Reap
<1> QED BY <1>1, <1>2, CoordFrame

----------------------------------------------------------------------------
(* Every step keeps the types.                                             *)

\* The flags, which the provers want apart from the rest.
Flags == /\ force \in BOOLEAN /\ owed \in BOOLEAN /\ armed \in BOOLEAN /\ window \in BOOLEAN
         /\ spotted \in BOOLEAN /\ spent \in BOOLEAN /\ cancelled \in BOOLEAN

LEMMA FlagStep == Flags /\ [Next]_vars => Flags'
<1> SUFFICES ASSUME Flags, [Next]_vars PROVE Flags'
  OBVIOUS
<1> USE DEF Flags
<1>1. CASE UNCHANGED vars
  BY <1>1 DEF vars
<1>2. CASE Enter \/ RawMode \/ SeeCancel \/ StartFails \/ NothingDue \/ LoopFails
  BY <1>2 DEF Enter, RawMode, SeeCancel, StartFails, NothingDue, LoopFails, MainKeeps, ReceiveKeeps
<1>3. CASE NoKey \/ KeyRefresh \/ KeyQuit
  BY <1>3 DEF NoKey, KeyRefresh, KeyQuit, MainKeeps, ReceiveKeeps
<1>4. CASE QuitCleans \/ QuitRestores \/ Leave \/ Unarm
  BY <1>4 DEF QuitCleans, QuitRestores, Leave, Unarm, EmergencyTake, EmergencyRestore, QuitKeeps
<1>5. ASSUME NEW s \in Slots, StartPass(s) PROVE Flags'
  BY <1>5 DEF StartPass, MainKeeps
<1>6. CASE ExecStep
  BY <1>6 DEF ExecStep, OpenWindow, CheckCancel, SpawnChild, RegisterChild, CloseWindow, WaitChild, ExecKeeps
<1>7. CASE Defer \/ Exit
  BY <1>7 DEF Defer, Exit, MainKeeps
<1>8. CASE Signal \/ SigStep
  BY ZenonT(60), <1>8 DEF Signal, SigStep, SigCancels, SigLooks, SigTakes, SigKills, SigCleans, SigRestores, SigKeeps, EmergencyTake, EmergencyRestore
<1>9. ASSUME NEW s \in Slots, CoordStep(s) \/ Deadline(s) PROVE Flags'
  BY <1>9 DEF CoordStep, Deadline, Answer, WatchdogFires, WatchdogSweeps, JoinScope, CoordinatorRestores, CoordinatorEnds, EmergencyTake, EmergencyRestore
<1>10. ASSUME NEW j \in Jobs, JobStep(j) PROVE Flags'
  BY ZenonT(60), <1>10 DEF JobStep, TakeJob, JobSpawns, JobRegisters, JobWaits, JobStages, JobRenames, JobEnds, WorkGoes
<1>11. CASE ChildEnds \/ IntervalOver
  BY <1>11 DEF ChildEnds, IntervalOver
<1> QED BY <1>1, <1>2, <1>3, <1>4, <1>5, <1>6, <1>7, <1>8, <1>9, <1>10, <1>11 DEF Next, MainStep, WatchStep

LEMMA TypeInit == Init => TypeOK
<1>1. Init => Flags
  BY DEF Init, Flags
<1>2. Init => main \in MainLabels
  BY CommandsAssumption DEF Init, MainLabels, WatchLabels, ExecLabels
<1> QED BY <1>1, <1>2, JobsAssumption DEF Init, Flags, TypeOK, WorkLabels

LEMMA TypeStep == TypeOK /\ [Next]_vars => TypeOK'
<1> SUFFICES ASSUME TypeOK, [Next]_vars PROVE TypeOK'
  OBVIOUS
<1>f. Flags'
  BY FlagStep DEF TypeOK, Flags
<1> USE <1>f DEF TypeOK, Flags, MainLabels, WatchLabels, ExecLabels, WorkLabels
<1>1. CASE UNCHANGED vars
  BY <1>1 DEF vars
<1>2. CASE Enter \/ RawMode \/ SeeCancel \/ StartFails \/ NothingDue \/ LoopFails
  BY <1>2 DEF Enter, RawMode, SeeCancel, StartFails, NothingDue, LoopFails, MainGoes, MainKeeps, ReceiveKeeps
<1>3. CASE NoKey \/ KeyRefresh \/ KeyQuit
  BY <1>3 DEF NoKey, KeyRefresh, KeyQuit, Received, NextDue, MainGoes, MainKeeps, ReceiveKeeps
<1>4. CASE QuitCleans \/ QuitRestores \/ Leave \/ Unarm
  BY <1>4 DEF QuitCleans, QuitRestores, Leave, Unarm, EmergencyTake, EmergencyRestore, QuitKeeps, MainGoes, Cleaners
<1>5. ASSUME NEW s \in Slots, StartPass(s) PROVE TypeOK'
  BY <1>5, JobsAssumption DEF StartPass, RunPass, MainGoes, MainKeeps
<1>6. CASE ExecStep
  BY <1>6, JobFacts DEF ExecStep, OpenWindow, CheckCancel, SpawnChild, RegisterChild, CloseWindow, WaitChild,
       Register, Wait, Reap, MainGoes, ExecKeeps
<1>7. CASE Defer \/ Exit
  BY <1>7 DEF Defer, Exit, MainGoes, MainKeeps
<1>8. CASE Signal \/ SigStep
  BY <1>8 DEF Signal, SigStep, SigCancels, SigLooks, SigTakes, SigKills, SigCleans, SigRestores, SigGoes, SigKeeps, EmergencyTake, EmergencyRestore, Cleaners
<1>9. ASSUME NEW s \in Slots, CoordStep(s) \/ Deadline(s) PROVE TypeOK'
  BY <1>9, JobFacts, JobsAssumption DEF CoordStep, Deadline, Answer, WatchdogFires, WatchdogSweeps, JoinScope, CoordinatorRestores, CoordinatorEnds, KillAll, Reap, EmergencyTake, EmergencyRestore, Cleaners
<1>10. ASSUME NEW j \in Jobs, JobStep(j) PROVE TypeOK'
  BY <1>10, JobFacts, JobsAssumption DEF JobStep, TakeJob, JobSpawns, JobRegisters, JobWaits, JobStages, JobRenames, JobEnds, WorkGoes, Register, Wait, Reap
<1>11. CASE ChildEnds \/ IntervalOver
  BY <1>11 DEF ChildEnds, IntervalOver
<1> QED BY <1>1, <1>2, <1>3, <1>4, <1>5, <1>6, <1>7, <1>8, <1>9, <1>10, <1>11 DEF Next, MainStep, WatchStep
----------------------------------------------------------------------------
(* The passes.                                                             *)

\* The loop waits for every pass that works.
LEMMA PassStep == IInv /\ TypeOK' /\ [Next]_vars => PassInv'
<1> SUFFICES ASSUME IInv, TypeOK', [Next]_vars PROVE PassInv'
  OBVIOUS
<1>i. PassInv
  BY DEF IInv
<1> USE <1>i DEF PassInv, Entering, Busy, Gone, Free
<1>t. /\ pass \in [Slots -> {"none", "collect", "answered"}] /\ coord \in [Slots -> {"none", "scope", "undo"}]
      /\ work \in [Jobs -> WorkLabels] /\ flight \in Slots \cup {NoSlot}
  BY DEF IInv, TypeOK
<1>u. ASSUME UNCHANGED <<pass, work, coord, flight>>, main' \in Entering => main \in Entering
      PROVE  PassInv'
  BY <1>u
<1>1. CASE UNCHANGED vars
  BY <1>1 DEF vars
<1>2. CASE Enter \/ RawMode \/ SeeCancel \/ StartFails \/ NothingDue \/ LoopFails
  <2>1. UNCHANGED <<pass, work, coord, flight>> /\ (main' \in Entering => main \in Entering)
    BY <1>2 DEF Enter, RawMode, SeeCancel, StartFails, NothingDue, LoopFails, MainGoes, MainKeeps,
            ReceiveKeeps
  <2> QED BY <2>1, <1>u
<1>3. CASE NoKey \/ KeyRefresh \/ KeyQuit
  <2>1. /\ UNCHANGED <<work, coord>> /\ main' \notin Entering
        /\ \/ UNCHANGED <<pass, flight>>
           \/ /\ flight # NoSlot /\ pass[flight] = "answered"
              /\ pass' = [pass EXCEPT ![flight] = "none"] /\ flight' = NoSlot
    BY <1>3 DEF NoKey, KeyRefresh, KeyQuit, MainGoes, ReceiveKeeps, Received
  <2>2. CASE UNCHANGED <<pass, flight>>
    BY <2>1, <2>2, <1>u
  <2>3. CASE ~UNCHANGED <<pass, flight>>
    <3>1. /\ flight \in Slots /\ pass'[flight] = "none" /\ pass[flight] = "answered"
          /\ \A s \in Slots \ {flight} : pass'[s] = pass[s] /\ pass[s] = "none"
      BY <2>1, <2>3, <1>t
    <3> QED BY <2>1, <3>1
  <2> QED BY <2>2, <2>3
<1>4. CASE QuitCleans \/ QuitRestores \/ Leave \/ Unarm
  <2>1. UNCHANGED <<pass, work, coord, flight>> /\ (main' \in Entering => main \in Entering)
    BY <1>4 DEF QuitCleans, QuitRestores, Leave, Unarm, QuitKeeps, MainGoes
  <2> QED BY <2>1, <1>u
<1>5. ASSUME NEW s \in Slots, StartPass(s) PROVE PassInv'
  <2>1. /\ main' = "recv" /\ flight = NoSlot /\ flight' = s /\ Free(s) /\ RunPass(s)
    BY <1>5 DEF StartPass, MainGoes
  <2>2. \A t \in Slots : pass[t] = "none" /\ Gone(t)
    BY <2>1, SlotsAssumption
  <2>3. /\ \A t \in Slots \ {s} : pass'[t] = pass[t] /\ coord'[t] = coord[t]
        /\ \A j \in Jobs : j[1] # s => work'[j] = work[j]
        /\ \/ pass'[s] = "answered" /\ UNCHANGED <<coord, work>>
           \/ pass'[s] = "collect" /\ coord'[s] = "scope"
    BY <2>1, <1>t DEF RunPass
  <2>4. \A t \in Slots \ {s} : Gone(t)'
    BY ZenonT(60), <2>2, <2>3, JobFacts
  <2>5. pass'[s] = "answered" => Gone(s)'
    BY <2>2, <2>3
  <2> QED BY <2>1, <2>2, <2>3, <2>4, <2>5
<1>6. CASE ExecStep
  <2>1. UNCHANGED <<pass, work, coord, flight>> /\ (main' \in Entering => main \in Entering)
    BY <1>6 DEF ExecStep, OpenWindow, CheckCancel, SpawnChild, RegisterChild, CloseWindow, WaitChild,
            MainGoes, ExecKeeps
  <2> QED BY <2>1, <1>u
<1>7. CASE Defer \/ Exit
  <2>1. UNCHANGED <<pass, work, coord, flight>> /\ (main' \in Entering => main \in Entering)
    BY <1>7 DEF Defer, Exit, MainGoes, MainKeeps
  <2> QED BY <2>1, <1>u
<1>8. CASE Signal \/ SigStep
  <2>1. UNCHANGED <<pass, work, coord, flight>> /\ (main' \in Entering => main \in Entering)
    BY <1>8 DEF Signal, SigStep, SigCancels, SigLooks, SigTakes, SigKills, SigCleans, SigRestores,
            SigGoes, SigKeeps
  <2> QED BY <2>1, <1>u
<1>9. ASSUME NEW s \in Slots, CoordStep(s) \/ Deadline(s) PROVE PassInv'
  <2>1. CASE Answer(s)
    BY ZenonT(60), <1>9, <2>1, <1>t, JobFacts DEF Answer
  <2>2. CASE JoinScope(s)
    BY <2>2, <1>t DEF JoinScope
  <2>3. CASE CoordinatorEnds(s)
    <3>1. /\ UNCHANGED <<pass, flight, main>> /\ coord' = [coord EXCEPT ![s] = "none"]
          /\ \A j \in Jobs : work'[j] = work[j] \/ work'[j] = "off"
      BY <2>3, <1>t DEF CoordinatorEnds
    <3>2. \A t \in Slots : Gone(t) => Gone(t)'
      BY <3>1, JobFacts
    <3>3. \A t \in Slots : coord'[t] = "undo" => coord[t] = "undo"
      BY <3>1, <1>t
    <3>4. \A t \in Slots : Free(t) => Free(t)'
      BY <3>1, <1>t
    <3> QED BY <3>1, <3>2, <3>3, <3>4
  <2>4. CASE WatchdogFires(s) \/ WatchdogSweeps(s) \/ CoordinatorRestores(s) \/ Deadline(s)
    BY <2>4, <1>u DEF WatchdogFires, WatchdogSweeps, CoordinatorRestores, Deadline
  <2> QED BY <1>9, <2>1, <2>2, <2>3, <2>4 DEF CoordStep
<1>10. ASSUME NEW j \in Jobs, JobStep(j) PROVE PassInv'
  <2>1. UNCHANGED <<pass, flight, coord, main>> /\ work[j] \notin {"off", "gone"}
    BY <1>10, <1>t, JobFrame
  <2>2. j[1] \in Slots /\ ~Gone(j[1]) /\ Busy(j[1])
    BY <2>1, JobFacts
  <2>3. \A t \in Slots \ {j[1]} : Gone(t) => Gone(t)'
    BY <1>10, <1>t, JobFrame, JobFacts
  <2> QED BY <2>1, <2>2, <2>3
<1>11. CASE ChildEnds \/ IntervalOver
  <2>1. UNCHANGED <<pass, work, coord, flight>> /\ (main' \in Entering => main \in Entering)
    BY <1>11 DEF ChildEnds, IntervalOver
  <2> QED BY <2>1, <1>u
<1> QED
  BY <1>1, <1>2, <1>3, <1>4, <1>5, <1>6, <1>7, <1>8, <1>9, <1>10, <1>11
     DEF Next, MainStep, WatchStep

LEMMA TerminalStep == IInv /\ TypeOK' /\ [Next]_vars => TerminalInv'
<1> SUFFICES ASSUME IInv, TypeOK', [Next]_vars PROVE TerminalInv'
  OBVIOUS
<1>i. TypeOK /\ TerminalInv /\ PassInv
  BY DEF IInv
<1> USE <1>i DEF TypeOK, TerminalInv, PassInv, TerminalCovered, Entering, ExecLabels, Free
<1>1. CASE UNCHANGED vars
  BY <1>1 DEF vars
<1>2. CASE Enter \/ RawMode \/ SeeCancel \/ StartFails \/ NothingDue \/ LoopFails
  BY <1>2 DEF Enter, RawMode, SeeCancel, StartFails, NothingDue, LoopFails, MainGoes, MainKeeps,
            ReceiveKeeps
<1>3. CASE NoKey \/ KeyRefresh \/ KeyQuit
  BY <1>3 DEF NoKey, KeyRefresh, KeyQuit, MainGoes, MainKeeps, ReceiveKeeps, Received, NextDue
<1>4. CASE QuitCleans \/ QuitRestores \/ Leave \/ Unarm
  BY <1>4 DEF QuitCleans, QuitRestores, Leave, Unarm, EmergencyTake, EmergencyRestore, QuitKeeps,
            MainGoes
<1>5. ASSUME NEW s \in Slots, StartPass(s) PROVE TerminalInv'
  BY <1>5 DEF StartPass, RunPass, Free, MainGoes, MainKeeps
<1>6. CASE ExecStep
  BY <1>6 DEF ExecStep, OpenWindow, CheckCancel, SpawnChild, RegisterChild, CloseWindow, WaitChild,
            MainGoes, ExecKeeps
<1>7. CASE Defer \/ Exit
  BY <1>7 DEF Defer, Exit, MainGoes, MainKeeps
<1>8. CASE Signal \/ SigStep
  BY <1>8 DEF Signal, SigStep, SigCancels, SigLooks, SigTakes, SigKills, SigCleans, SigRestores,
            SigGoes, SigKeeps, EmergencyTake, EmergencyRestore
<1>9. ASSUME NEW s \in Slots, CoordStep(s) \/ Deadline(s) PROVE TerminalInv'
  BY <1>9 DEF CoordStep, Deadline, Answer, WatchdogFires, WatchdogSweeps, JoinScope,
            CoordinatorRestores, CoordinatorEnds, KillAll, EmergencyTake, EmergencyRestore
<1>10. ASSUME NEW j \in Jobs, JobStep(j) PROVE TerminalInv'
  BY <1>10 DEF JobStep, TakeJob, JobSpawns, JobRegisters, JobWaits, JobStages, JobRenames, JobEnds,
            WorkGoes
<1>11. CASE ChildEnds \/ IntervalOver
  BY <1>11 DEF ChildEnds, IntervalOver
<1> QED
  BY <1>1, <1>2, <1>3, <1>4, <1>5, <1>6, <1>7, <1>8, <1>9, <1>10, <1>11
     DEF Next, MainStep, WatchStep

\* What is in a child table is being waited for.
LEMMA TableStep == IInv /\ TypeOK' /\ [Next]_vars => TableInv'
<1> SUFFICES ASSUME IInv, TypeOK', [Next]_vars PROVE TableInv'
  OBVIOUS
<1>i. TableInv /\ PassInv
  BY DEF IInv
<1>t. /\ kids \subseteq Kids /\ table \subseteq Kids /\ entries \subseteq table /\ signalled \subseteq Kids
      /\ work \in [Jobs -> WorkLabels]
  BY DEF IInv, TypeOK
<1>f. ASSUME NEW s \in Slots, CoordStep(s) \/ Deadline(s)
      PROVE  /\ coord[s] # "undo" => \A j \in Jobs : work'[j] = work[j]
             /\ \A j \in Jobs : j[1] # s => work'[j] = work[j]
  BY <1>f, <1>t, CoordFrame
<1> USE <1>i DEF TableInv, PassInv, Guarded, Gone, Busy, Free
<1>u. ASSUME UNCHANGED <<work, kids, table, entries, signalled, window>>,
             main \notin ExecLabels, main' \notin ExecLabels
      PROVE  TableInv'
  BY <1>u DEF ExecLabels
<1>1. CASE UNCHANGED vars
  BY <1>1 DEF vars
<1>2. CASE Enter \/ RawMode \/ SeeCancel \/ StartFails \/ NothingDue \/ LoopFails
  <2>1. UNCHANGED <<work, kids, table, entries, signalled, window>> /\ main \notin ExecLabels /\ main' \notin ExecLabels
    BY <1>2 DEF Enter, RawMode, SeeCancel, StartFails, NothingDue, LoopFails, MainGoes, MainKeeps,
            ReceiveKeeps, ExecLabels
  <2> QED BY <2>1, <1>u
<1>3. CASE NoKey \/ KeyRefresh \/ KeyQuit
  <2>1. UNCHANGED <<work, kids, table, entries, signalled, window>> /\ main \notin ExecLabels /\ main' \notin ExecLabels
    BY <1>3 DEF NoKey, KeyRefresh, KeyQuit, MainGoes, MainKeeps, ReceiveKeeps, ExecLabels
  <2> QED BY <2>1, <1>u
<1>4. CASE QuitCleans \/ QuitRestores \/ Leave \/ Unarm
  <2>1. UNCHANGED <<work, kids, table, entries, signalled, window>> /\ main \notin ExecLabels /\ main' \notin ExecLabels
    BY <1>4 DEF QuitCleans, QuitRestores, Leave, Unarm, QuitKeeps, MainGoes, ExecLabels
  <2> QED BY <2>1, <1>u
<1>5. ASSUME NEW s \in Slots, StartPass(s) PROVE TableInv'
  <2>1. /\ UNCHANGED <<kids, table, entries, signalled, window>> /\ main = "top" /\ main' = "recv"
        /\ \A j \in Jobs : work'[j] = work[j] \/ j[1] = s
        /\ pass[s] = "none"
    BY <1>5 DEF TypeOK, StartPass, RunPass, Free, MainGoes, MainKeeps
  <2>2. \A j \in Jobs \cap table : j[1] # s
    BY <2>1, JobFacts
  <2> QED BY <2>1, <2>2
<1>6. CASE ExecStep
  <2>1. UNCHANGED <<work, signalled>> /\ ExecKid \notin Jobs
    BY <1>6, JobFacts DEF ExecStep, OpenWindow, CheckCancel, SpawnChild, RegisterChild, CloseWindow,
            WaitChild, ExecKeeps
  <2>2. \A j \in Jobs \cap table' : j \in table
    BY <1>6, <2>1 DEF ExecStep, OpenWindow, CheckCancel, SpawnChild, RegisterChild, CloseWindow,
            WaitChild, Register, Wait, Reap
  <2>3. CASE OpenWindow \/ CheckCancel
    BY <2>1, <2>2, <2>3 DEF OpenWindow, CheckCancel, MainGoes
  <2>4. CASE SpawnChild \/ RegisterChild \/ CloseWindow
    BY <2>1, <2>2, <2>4 DEF SpawnChild, RegisterChild, CloseWindow, Register, MainGoes
  <2>5. CASE WaitChild
    BY <2>1, <2>2, <2>5 DEF WaitChild, Wait, Reap, MainGoes
  <2> QED BY <1>6, <2>3, <2>4, <2>5 DEF ExecStep
<1>7. CASE Defer \/ Exit
  <2>1. UNCHANGED <<work, kids, table, entries, signalled, window>> /\ main \notin ExecLabels /\ main' \notin ExecLabels
    BY <1>7 DEF Defer, Exit, MainGoes, MainKeeps, ExecLabels
  <2> QED BY <2>1, <1>u
<1>8. CASE Signal \/ SigStep
  <2>1. /\ UNCHANGED <<work, table, window, main>> /\ kids' \subseteq kids
        /\ (entries \cup signalled) \cap kids \subseteq entries' \cup signalled'
    BY <1>8 DEF Signal, SigStep, SigCancels, SigLooks, SigTakes, SigKills, SigCleans, SigRestores,
            SigGoes, SigKeeps
  <2> QED BY <2>1
<1>9. ASSUME NEW s \in Slots, CoordStep(s) \/ Deadline(s) PROVE TableInv'
  <2>0. UNCHANGED <<signalled, window, main>>
    BY <1>9, <1>t, CoordFrame
  <2>1. /\ kids' \subseteq kids /\ table' \subseteq table
        /\ ExecKid \in table => ExecKid \in table'
        /\ ExecKid \in entries => ExecKid \in entries'
    BY <1>9, <1>t, CoordSweeps
  <2>2. ASSUME NEW j \in Jobs, work[j] = "waiting" PROVE work'[j] = "waiting"
    <3>1. CASE coord[s] # "undo"
      BY <1>9, <1>f, <2>2, <3>1
    <3>2. CASE coord[s] = "undo"
      <4>1. j[1] # s
        BY <2>2, <3>2, JobFacts
      <4> QED BY <1>9, <1>f, <2>2, <4>1
    <3> QED BY <3>1, <3>2
  <2> QED BY <2>0, <2>1, <2>2
<1>10. ASSUME NEW j \in Jobs, JobStep(j) PROVE TableInv'
  <2>1. j # ExecKid
    BY JobFacts
  <2>2. j \in table' => work'[j] = "waiting"
    BY <1>10, <1>t, JobFrame
  <2> QED BY <1>10, <1>t, <2>1, <2>2, JobFrame
<1>11. CASE ChildEnds \/ IntervalOver
  BY <1>11, <1>t DEF ChildEnds, IntervalOver
<1> QED
  BY <1>1, <1>2, <1>3, <1>4, <1>5, <1>6, <1>7, <1>8, <1>9, <1>10, <1>11
     DEF Next, MainStep, WatchStep

\* Nothing is cancelled before the signal thread began, the end of the loop apart.
LEMMA CauseStep == IInv /\ TypeOK' /\ [Next]_vars => CauseInv'
<1> SUFFICES ASSUME IInv, TypeOK', [Next]_vars PROVE CauseInv'
  OBVIOUS
<1>i. CauseInv /\ TableInv /\ sig \in {"idle", "cancel", "look", "take", "kill", "cleanup", "undo"}
  BY DEF IInv, TypeOK
<1> USE <1>i DEF CauseInv, SigPast, Ending
<1>1. CASE UNCHANGED vars
  BY <1>1 DEF vars
<1>2. CASE Enter \/ RawMode \/ SeeCancel \/ StartFails \/ NothingDue \/ LoopFails
  BY <1>2 DEF Enter, RawMode, SeeCancel, StartFails, NothingDue, LoopFails, MainGoes, MainKeeps,
            ReceiveKeeps
<1>3. CASE NoKey \/ KeyRefresh \/ KeyQuit
  BY <1>3 DEF NoKey, KeyRefresh, KeyQuit, MainGoes, MainKeeps, ReceiveKeeps
<1>4. CASE QuitCleans \/ QuitRestores \/ Leave \/ Unarm
  BY <1>4 DEF QuitCleans, QuitRestores, Leave, Unarm, EmergencyTake, EmergencyRestore, QuitKeeps,
            MainGoes
<1>5. ASSUME NEW s \in Slots, StartPass(s) PROVE CauseInv'
  <2>1. UNCHANGED <<sig, signalled, doomed, cancelled, cause, exit>> /\ main = "top" /\ main' = "recv" /\ ~cancelled
    BY <1>5 DEF StartPass, MainGoes, MainKeeps
  <2> QED BY <2>1
<1>6. CASE ExecStep
  <2>1. CASE OpenWindow \/ CheckCancel \/ SpawnChild \/ RegisterChild \/ CloseWindow
    BY <2>1 DEF OpenWindow, CheckCancel, SpawnChild, RegisterChild, CloseWindow, MainGoes, ExecKeeps
  <2>2. CASE WaitChild
    <3>1. ExecKid \in kids => cancelled
      BY <2>2 DEF WaitChild, Wait, MainGoes, TableInv
    <3>2. /\ UNCHANGED <<sig, signalled, doomed, cancelled, exit>> /\ main = "wait" /\ main' = "out"
          /\ cause' = cause \/ ExecKid \in kids
      BY <2>2 DEF WaitChild, MainGoes, ExecKeeps
    <3> QED BY <3>1, <3>2
  <2> QED BY <1>6, <2>1, <2>2 DEF ExecStep
<1>7. CASE Defer \/ Exit
  <2>1. CASE Defer
    <3>1. UNCHANGED <<sig, signalled, doomed, cancelled, cause, exit>> /\ main' = "exit" /\ sig = "idle"
      BY <2>1 DEF Defer, MainGoes, MainKeeps
    <3>2. cause = "own"
      BY <3>1 DEF IInv, TypeOK
    <3>3. exit # "code" \/ main = "exit"
      OBVIOUS
    <3>4. ~cancelled \/ main \in Ending
      BY <3>1
    <3> QED BY <3>1, <3>2, <3>3, <3>4
  <2>2. CASE Exit
    BY <2>2 DEF Exit
  <2> QED BY <1>7, <2>1, <2>2
<1>8. CASE Signal \/ SigStep
  BY <1>8 DEF Signal, SigStep, SigCancels, SigLooks, SigTakes, SigKills, SigCleans, SigRestores,
            SigGoes, SigKeeps, EmergencyTake, EmergencyRestore, TableInv
<1>9. ASSUME NEW s \in Slots, CoordStep(s) \/ Deadline(s) PROVE CauseInv'
  <2>1. UNCHANGED <<sig, signalled, doomed, cancelled, cause, exit, main>>
    BY <1>9, CoordFrame DEF IInv, TypeOK
  <2> QED BY <2>1
<1>10. ASSUME NEW j \in Jobs, JobStep(j) PROVE CauseInv'
  <2>1. UNCHANGED <<sig, signalled, doomed, cancelled, cause, exit, main>>
    BY <1>10, JobFrame DEF IInv, TypeOK
  <2> QED BY <2>1
<1>11. CASE ChildEnds \/ IntervalOver
  <2>1. ExecKid \in kids => main \in {"register", "close", "wait"}
    BY DEF TableInv
  <2> QED BY <1>11, <2>1 DEF ChildEnds, IntervalOver
<1> QED
  BY <1>1, <1>2, <1>3, <1>4, <1>5, <1>6, <1>7, <1>8, <1>9, <1>10, <1>11
     DEF Next, MainStep, WatchStep

\* A registered child a signal found stays the registry's or the signal thread's while
\* it lives.
LEMMA DoomStep == IInv /\ TypeOK' /\ [Next]_vars => DoomInv'
<1> SUFFICES ASSUME IInv, TypeOK', [Next]_vars PROVE DoomInv'
  OBVIOUS
<1>i. DoomInv /\ TableInv /\ CauseInv /\ PassInv
  BY DEF IInv
<1>t. /\ kids \subseteq Kids /\ table \subseteq Kids /\ entries \subseteq table
      /\ signalled \subseteq Kids /\ doomed \subseteq Kids /\ work \in [Jobs -> WorkLabels]
  BY DEF IInv, TypeOK
<1> USE <1>i DEF DoomInv
<1>u. ASSUME UNCHANGED <<work, kids, entries, signalled, doomed, sig, exit>>,
             main \in {"close", "wait", "out", "exit"} => main' \in {"close", "wait", "out", "exit"}
      PROVE  DoomInv'
  BY <1>u
<1>1. CASE UNCHANGED vars
  BY <1>1 DEF vars
<1>2. CASE Enter \/ RawMode \/ SeeCancel \/ StartFails \/ NothingDue \/ LoopFails
  <2>1. /\ UNCHANGED <<work, kids, entries, signalled, doomed, sig, exit>>
        /\ main \in {"close", "wait", "out", "exit"} => main' \in {"close", "wait", "out", "exit"}
    BY <1>2 DEF Enter, RawMode, SeeCancel, StartFails, NothingDue, LoopFails, MainGoes, MainKeeps,
            ReceiveKeeps
  <2> QED BY <2>1, <1>u
<1>3. CASE NoKey \/ KeyRefresh \/ KeyQuit
  <2>1. /\ UNCHANGED <<work, kids, entries, signalled, doomed, sig, exit>>
        /\ main \in {"close", "wait", "out", "exit"} => main' \in {"close", "wait", "out", "exit"}
    BY <1>3 DEF NoKey, KeyRefresh, KeyQuit, MainGoes, MainKeeps, ReceiveKeeps
  <2> QED BY <2>1, <1>u
<1>4. CASE QuitCleans \/ QuitRestores \/ Leave \/ Unarm
  <2>1. /\ UNCHANGED <<work, kids, entries, signalled, doomed, sig, exit>>
        /\ main \in {"close", "wait", "out", "exit"} => main' \in {"close", "wait", "out", "exit"}
    BY <1>4 DEF QuitCleans, QuitRestores, Leave, Unarm, QuitKeeps, MainGoes
  <2> QED BY <2>1, <1>u
<1>5. ASSUME NEW s \in Slots, StartPass(s) PROVE DoomInv'
  <2>1. /\ UNCHANGED <<kids, entries, signalled, doomed, sig, exit, cancelled>>
        /\ main = "top" /\ main' = "recv" /\ ~cancelled
    BY <1>5 DEF StartPass, MainGoes, MainKeeps
  <2>2. sig \in {"idle", "cancel"}
    BY <2>1 DEF CauseInv, SigPast, IInv, TypeOK
  <2>3. doomed = {} /\ exit # "signal"
    BY <2>2 DEF CauseInv
  <2> QED BY <2>1, <2>2, <2>3
<1>6. CASE ExecStep
  <2>0. UNCHANGED <<work, signalled, doomed, sig, exit>> /\ ExecKid \notin Jobs
    BY <1>6, JobFacts DEF ExecStep, OpenWindow, CheckCancel, SpawnChild, RegisterChild, CloseWindow,
            WaitChild, ExecKeeps
  <2>1. CASE OpenWindow \/ CheckCancel \/ CloseWindow
    BY <2>0, <2>1 DEF OpenWindow, CheckCancel, CloseWindow, MainGoes
  <2>2. CASE SpawnChild
    BY <2>0, <2>2 DEF SpawnChild
  <2>3. CASE RegisterChild
    BY <2>0, <2>3 DEF RegisterChild, Register, MainGoes
  <2>4. CASE WaitChild
    BY <2>0, <2>4 DEF WaitChild, Wait, Reap, MainGoes
  <2> QED BY <1>6, <2>1, <2>2, <2>3, <2>4 DEF ExecStep
<1>7. CASE Defer \/ Exit
  <2>1. CASE Defer
    BY <2>1, <1>u DEF Defer, MainGoes, MainKeeps
  <2>2. CASE Exit
    BY <2>2 DEF Exit
  <2> QED BY <1>7, <2>1, <2>2
<1>8. CASE Signal \/ SigStep
  <2>0. UNCHANGED <<work, main>>
    BY <1>8 DEF Signal, SigStep, SigCancels, SigLooks, SigTakes, SigKills, SigCleans, SigRestores,
            SigKeeps
  <2>1. CASE Signal
    BY <2>0, <2>1 DEF Signal, SigGoes
  <2>2. CASE SigCancels
    <3>1. /\ doomed' = entries \cap kids /\ sig' = "look"
          /\ UNCHANGED <<kids, entries, signalled, exit>> /\ sig = "cancel"
      BY <2>2 DEF SigCancels, SigGoes
    <3>2. \A j \in Jobs \cap entries : work[j] = "waiting"
      BY <1>t DEF TableInv
    <3>3. ExecKid \in entries => main \in {"close", "wait"}
      BY <1>t DEF TableInv
    <3> QED BY <2>0, <3>1, <3>2, <3>3
  <2>3. CASE SigLooks
    BY <2>0, <2>3 DEF SigLooks, SigGoes
  <2>4. CASE SigTakes
    <3>1. /\ signalled' = (signalled \cup entries) \cap kids /\ UNCHANGED <<kids, doomed, exit>>
          /\ sig = "take" /\ sig' \in {"look", "kill", "cleanup"}
          /\ sig' = "cleanup" => signalled' = {}
      BY <2>4 DEF SigTakes
    <3>2. doomed \cap kids \subseteq signalled'
      BY <3>1
    <3> QED BY <2>0, <3>1, <3>2
  <2>5. CASE SigKills
    BY <2>0, <2>5 DEF SigKills, SigGoes
  <2>6. CASE SigCleans
    BY <2>0, <2>6 DEF SigCleans, SigGoes
  <2>7. CASE SigRestores
    BY <2>0, <2>7 DEF SigRestores
  <2> QED BY <1>8, <2>1, <2>2, <2>3, <2>4, <2>5, <2>6, <2>7 DEF SigStep
<1>9. ASSUME NEW s \in Slots, CoordStep(s) \/ Deadline(s) PROVE DoomInv'
  <2>1. UNCHANGED <<main, signalled, doomed, sig, exit>>
    BY <1>9, <1>t, CoordFrame
  <2>2. kids' \subseteq kids /\ \A k \in entries \ entries' : k \notin kids'
    BY <1>9, <1>t, CoordSweeps
  <2>3. \A j \in Jobs : work'[j] = work[j] \/ work'[j] = "off"
    BY <1>9, <1>t, CoordFrame
  <2> QED BY <2>1, <2>2, <2>3
<1>10. ASSUME NEW j \in Jobs, JobStep(j) PROVE DoomInv'
  <2>1. UNCHANGED <<main, signalled, doomed, sig, exit, cancelled>> /\ j # ExecKid
    BY <1>10, <1>t, JobFrame, JobFacts
  <2>2. \A k \in Jobs \ {j} : work'[k] = work[k]
    BY <1>10, <1>t, JobFrame
  <2>3. \A k : k # j => (k \in kids' <=> k \in kids) /\ (k \in entries' <=> k \in entries)
    BY <1>10, <1>t, JobFrame
  <2>4. CASE j \notin doomed
    BY <2>1, <2>2, <2>3, <2>4
  <2>5. CASE j \in doomed
    <3>1. cancelled /\ work[j] \in {"waiting", "next", "gone", "off"}
      BY <2>5 DEF CauseInv, SigPast, IInv, TypeOK
    <3>2. work'[j] \in {"waiting", "next", "gone", "off"}
      BY <1>10, <1>t, <3>1, JobFrame
    <3>3. j \in kids' => j \in kids /\ (j \in entries => j \in entries')
      BY <1>10, <1>t, <3>1, JobFrame
    <3> QED BY <2>1, <2>2, <2>3, <3>2, <3>3
  <2> QED BY <2>4, <2>5
<1>11. CASE ChildEnds \/ IntervalOver
  BY <1>11 DEF ChildEnds, IntervalOver
<1> QED
  BY <1>1, <1>2, <1>3, <1>4, <1>5, <1>6, <1>7, <1>8, <1>9, <1>10, <1>11
     DEF Next, MainStep, WatchStep

\* Once the signal thread has read the spawn window as closed it stays closed.
LEMMA SpawnStep == IInv /\ TypeOK' /\ [Next]_vars => SpawnInv'
<1> SUFFICES ASSUME IInv, TypeOK', [Next]_vars PROVE SpawnInv'
  OBVIOUS
<1>i. SpawnInv /\ TableInv /\ CauseInv
  BY DEF IInv
<1>t. /\ kids \subseteq Kids /\ table \subseteq Kids /\ entries \subseteq table
      /\ signalled \subseteq Kids /\ work \in [Jobs -> WorkLabels]
      /\ sig \in {"idle", "cancel", "look", "take", "kill", "cleanup", "undo"}
      /\ main \in MainLabels
  BY DEF IInv, TypeOK
<1> USE <1>i DEF SpawnInv, Spawning
<1>u. ASSUME UNCHANGED <<sig, spent, spotted>>, kids' \cap {ExecKid} \subseteq kids,
             main' \in {"spawn", "register", "close"} => main \in {"spawn", "register", "close"}
      PROVE  SpawnInv'
  BY <1>u
<1>1. CASE UNCHANGED vars
  BY <1>1 DEF vars
<1>2. CASE Enter \/ RawMode \/ SeeCancel \/ StartFails \/ NothingDue \/ LoopFails
  <2>1. UNCHANGED <<sig, spent, spotted, kids>> /\ main' \notin {"spawn", "register", "close"}
    BY <1>2 DEF Enter, RawMode, SeeCancel, StartFails, NothingDue, LoopFails, MainGoes, MainKeeps,
            ReceiveKeeps
  <2> QED BY <2>1, <1>u
<1>3. CASE NoKey \/ KeyRefresh \/ KeyQuit
  <2>1. UNCHANGED <<sig, spent, spotted, kids>> /\ main' \notin {"spawn", "register", "close"}
    BY <1>3 DEF NoKey, KeyRefresh, KeyQuit, MainGoes, MainKeeps, ReceiveKeeps
  <2> QED BY <2>1, <1>u
<1>4. CASE QuitCleans \/ QuitRestores \/ Leave \/ Unarm
  <2>1. UNCHANGED <<sig, spent, spotted, kids>> /\ main' \notin {"spawn", "register", "close"}
    BY <1>4 DEF QuitCleans, QuitRestores, Leave, Unarm, QuitKeeps, MainGoes
  <2> QED BY <2>1, <1>u
<1>5. ASSUME NEW s \in Slots, StartPass(s) PROVE SpawnInv'
  <2>1. UNCHANGED <<sig, spent, spotted, kids>> /\ main' \notin {"spawn", "register", "close"}
    BY <1>5 DEF StartPass, MainGoes, MainKeeps
  <2> QED BY <2>1, <1>u
<1>6. CASE ExecStep
  <2>0. UNCHANGED <<sig, spent, spotted>>
    BY <1>6 DEF ExecStep, OpenWindow, CheckCancel, SpawnChild, RegisterChild, CloseWindow, WaitChild,
            ExecKeeps
  <2>1. CASE OpenWindow
    BY <2>0, <2>1, <1>u DEF OpenWindow, MainGoes
  <2>2. CASE CheckCancel
    <3>1. main = "check" /\ UNCHANGED kids /\ (cancelled => main' = "out")
      BY <2>2 DEF CheckCancel
    <3>2. CASE cancelled
      BY <2>0, <3>1, <3>2, <1>u
    <3>3. CASE ~cancelled
      BY <2>0, <3>1, <3>3 DEF CauseInv, SigPast
    <3> QED BY <3>2, <3>3
  <2>3. CASE SpawnChild
    BY <2>0, <2>3 DEF SpawnChild
  <2>4. CASE RegisterChild \/ CloseWindow
    BY <2>0, <2>4, <1>u DEF RegisterChild, CloseWindow, Register, MainGoes
  <2>5. CASE WaitChild
    BY <2>0, <2>5, <1>u DEF WaitChild, Wait, Reap, MainGoes
  <2> QED BY <1>6, <2>1, <2>2, <2>3, <2>4, <2>5 DEF ExecStep
<1>7. CASE Defer \/ Exit
  <2>1. UNCHANGED <<sig, spent, spotted, kids>> /\ main' \notin {"spawn", "register", "close"}
    BY <1>7 DEF Defer, Exit, MainGoes, MainKeeps
  <2> QED BY <2>1, <1>u
<1>8. CASE Signal \/ SigStep
  <2>0. UNCHANGED <<work, main>>
    BY <1>8 DEF Signal, SigStep, SigCancels, SigLooks, SigTakes, SigKills, SigCleans, SigRestores,
            SigKeeps
  <2>1. CASE Signal \/ SigCancels
    BY <2>0, <2>1 DEF Signal, SigCancels, SigGoes
  <2>2. CASE SigLooks
    <3>1. sig' = "take" /\ spotted' = window /\ UNCHANGED kids
      BY <2>2 DEF SigLooks, SigGoes
    <3>2. ~window => main \notin {"spawn", "register", "close"}
      BY DEF TableInv, Guarded
    <3> QED BY <2>0, <3>1, <3>2
  <2>3. CASE SigTakes
    <3>1. /\ signalled' = (signalled \cup entries) \cap kids /\ UNCHANGED <<kids, spotted>>
          /\ sig = "take" /\ sig' \in {"look", "kill", "cleanup"}
          /\ sig' = "kill" => spent'
          /\ sig' = "cleanup" /\ ~spent' => signalled' = {} /\ ~spotted
      BY <2>3 DEF SigTakes
    <3>2. ASSUME sig' = "cleanup" /\ ~spent'
          PROVE  main \notin {"spawn", "register", "close"} /\ ExecKid \notin kids
      <4>1. main \notin {"spawn", "register", "close"}
        BY <3>1, <3>2
      <4>2. ExecKid \in kids => ExecKid \in signalled'
        BY <3>1, <4>1 DEF TableInv
      <4> QED BY <3>1, <3>2, <4>1, <4>2
    <3> QED BY <2>0, <3>1, <3>2
  <2>4. CASE SigKills
    BY <2>0, <2>4 DEF SigKills, SigGoes
  <2>5. CASE SigCleans
    BY <2>0, <2>5 DEF SigCleans, SigGoes
  <2>6. CASE SigRestores
    BY <2>0, <2>6 DEF SigRestores
  <2> QED BY <1>8, <2>1, <2>2, <2>3, <2>4, <2>5, <2>6 DEF SigStep
<1>9. ASSUME NEW s \in Slots, CoordStep(s) \/ Deadline(s) PROVE SpawnInv'
  <2>1. UNCHANGED <<main, sig, spent, spotted>>
    BY <1>9, <1>t, CoordFrame
  <2>2. kids' \subseteq kids
    BY <1>9, <1>t, CoordSweeps
  <2> QED BY <2>1, <2>2, <1>u
<1>10. ASSUME NEW j \in Jobs, JobStep(j) PROVE SpawnInv'
  <2>1. UNCHANGED <<main, sig, spent, spotted>> /\ j # ExecKid
    BY <1>10, <1>t, JobFrame, JobFacts
  <2>2. ExecKid \in kids' => ExecKid \in kids
    BY <1>10, <1>t, <2>1, JobFrame
  <2> QED BY <2>1, <2>2, <1>u
<1>11. CASE ChildEnds \/ IntervalOver
  <2>1. UNCHANGED <<main, sig, spent, spotted>> /\ kids' \subseteq kids
    BY <1>11 DEF ChildEnds, IntervalOver
  <2> QED BY <2>1, <1>u
<1> QED
  BY <1>1, <1>2, <1>3, <1>4, <1>5, <1>6, <1>7, <1>8, <1>9, <1>10, <1>11
     DEF Next, MainStep, WatchStep

\* While the loop runs, a press of `r` has left the flag set and a pass in flight or due.
LEMMA RefreshStep == IInv /\ TypeOK' /\ [Next]_vars => RefreshInv'
<1> SUFFICES ASSUME IInv, TypeOK', [Next]_vars PROVE RefreshInv'
  OBVIOUS
<1>i. TypeOK /\ RefreshInv
  BY DEF IInv
<1> USE <1>i DEF TypeOK, RefreshInv, RefreshKeyKept, Looping, Entering
<1>1. CASE UNCHANGED vars
  BY <1>1 DEF vars
<1>2. CASE Enter \/ RawMode \/ SeeCancel \/ StartFails \/ NothingDue \/ LoopFails
  BY <1>2 DEF Enter, RawMode, SeeCancel, StartFails, NothingDue, LoopFails, MainGoes, MainKeeps,
            ReceiveKeeps
<1>3. CASE NoKey \/ KeyRefresh \/ KeyQuit
  BY <1>3, SlotsAssumption DEF NoKey, KeyRefresh, KeyQuit, MainGoes, MainKeeps, ReceiveKeeps, Received, NextDue
<1>4. CASE QuitCleans \/ QuitRestores \/ Leave \/ Unarm
  BY <1>4 DEF QuitCleans, QuitRestores, Leave, Unarm, QuitKeeps, MainGoes
<1>5. ASSUME NEW s \in Slots, StartPass(s) PROVE RefreshInv'
  BY <1>5, SlotsAssumption DEF StartPass, MainGoes, MainKeeps
<1>6. CASE ExecStep
  BY <1>6 DEF ExecStep, OpenWindow, CheckCancel, SpawnChild, RegisterChild, CloseWindow, WaitChild,
            MainGoes, ExecKeeps
<1>7. CASE Defer \/ Exit
  BY <1>7 DEF Defer, Exit, MainGoes, MainKeeps
<1>8. CASE Signal \/ SigStep
  BY <1>8 DEF Signal, SigStep, SigCancels, SigLooks, SigTakes, SigKills, SigCleans, SigRestores,
            SigGoes, SigKeeps
<1>9. ASSUME NEW s \in Slots, CoordStep(s) \/ Deadline(s) PROVE RefreshInv'
  <2>1. UNCHANGED <<main, owed, force, flight, due>>
    BY <1>9, CoordFrame
  <2> QED BY <2>1
<1>10. ASSUME NEW j \in Jobs, JobStep(j) PROVE RefreshInv'
  <2>1. UNCHANGED <<main, owed, force, flight, due>>
    BY <1>10, JobFrame
  <2> QED BY <2>1
<1>11. CASE ChildEnds \/ IntervalOver
  BY <1>11 DEF ChildEnds, IntervalOver
<1> QED
  BY <1>1, <1>2, <1>3, <1>4, <1>5, <1>6, <1>7, <1>8, <1>9, <1>10, <1>11
     DEF Next, MainStep, WatchStep

----------------------------------------------------------------------------
(* The invariant, and what follows from it.                                *)

LEMMA InvInit == Init => IInv
<1> SUFFICES ASSUME Init PROVE IInv
  OBVIOUS
<1>1. TypeOK
  BY TypeInit
<1>2. main \in {"enter", "open"}
  BY CommandsAssumption DEF Init
<1>3. PassInv
  BY <1>2 DEF Init, PassInv, Busy, Gone, Free, Jobs
<1>4. TerminalInv /\ TableInv
  BY <1>2 DEF Init, TerminalInv, TerminalCovered, TableInv, Guarded
<1>5. CauseInv /\ DoomInv /\ SpawnInv /\ RefreshInv
  BY <1>2 DEF Init, CauseInv, SigPast, DoomInv, SpawnInv, Spawning, RefreshInv, RefreshKeyKept
<1> QED BY <1>1, <1>3, <1>4, <1>5 DEF IInv

LEMMA InvAlways == Spec => []IInv
<1>1. Init => IInv
  BY InvInit
<1>2. IInv /\ [Next]_vars => IInv'
  <2> SUFFICES ASSUME IInv, [Next]_vars PROVE IInv'
    OBVIOUS
  <2>1. TypeOK'
    BY TypeStep DEF IInv
  <2> QED BY <2>1, PassStep, TerminalStep, TableStep, CauseStep, DoomStep, SpawnStep, RefreshStep
          DEF IInv
<1> QED BY <1>1, <1>2, PTL DEF Spec

\* Threads, jobs, registry, files and signal thread keep their shape, whatever the number
\* of passes, workers and jobs.
THEOREM TypeCorrect == Spec => []TypeOK
<1>1. IInv => TypeOK
  BY DEF IInv
<1> QED BY <1>1, InvAlways, PTL

\* No pass works while another does, though nothing joins a pass (watch.rs run_loop: the
\* loop waits for the answer of every pass it started, and a pass answers only when its
\* last worker has gone).
THEOREM PassesNeverOverlap == Spec => []PassesDoNotOverlap
<1>1. IInv => PassesDoNotOverlap
  <2> SUFFICES ASSUME IInv, NEW s \in Slots, NEW t \in Slots, s # t, Busy(s), Busy(t) PROVE FALSE
    BY DEF PassesDoNotOverlap
  <2>1. flight = s /\ flight = t
    BY DEF IInv, PassInv
  <2> QED BY <2>1
<1> QED BY <1>1, InvAlways, PTL

\* A raw terminal is always some thread's to give back, and the command never returns
\* with it raw (tui/mod.rs enter and leave beside cleanup.rs emergency).
THEOREM TerminalGivenBack == Spec => []TerminalCovered
<1>1. IInv => TerminalCovered
  BY DEF IInv, TerminalInv
<1> QED BY <1>1, InvAlways, PTL

\* A signal leaves no registered child alive, and no child of `exec` unless it outlasted
\* the signal thread's budget (cleanup.rs terminate_children, begin_spawn_unless_cancelled).
THEOREM ChildrenDie == Spec => []NoChildSurvives
<1>1. IInv => NoChildSurvives
  BY DEF IInv, DoomInv, SpawnInv, NoChildSurvives
<1> QED BY <1>1, InvAlways, PTL

\* A command cut short by a signal never exits with a status of its own (signals.rs
\* defer_to_exit).
THEOREM SignalStatus == Spec => []StatusIsTheSignals
<1>1. IInv => StatusIsTheSignals
  BY DEF IInv, TypeOK, CauseInv, StatusIsTheSignals
<1> QED BY <1>1, InvAlways, PTL

\* A press of `r` is followed by a forced pass or by the end of the loop: it is never
\* dropped (watch.rs run_loop).
THEOREM RefreshKept == Spec => []RefreshKeyKept
<1>1. IInv => RefreshKeyKept
  BY DEF IInv, RefreshInv
<1> QED BY <1>1, InvAlways, PTL

----------------------------------------------------------------------------
(* The refreshes of a pass.                                                *)

\* What the invariant says, but for where the passes are.
Shape == /\ clock \in 1 .. MaxTime
         /\ cred \in [grant : Tokens, acc : Tokens, expires : 1 .. MaxTime + Life]
         /\ marker \in Markers
         /\ seen \in Seen
Facts == Shape /\ FloorInv /\ DateInv /\ ServerInv /\ SendInv

Kinds == {"auto", "resend"}

LEMMA BoundsFacts ==
    /\ MaxTime \in Nat \ {0} /\ MaxToken \in Nat \ {0} /\ Life \in Nat \ {0} /\ MaxWait \in Nat \ {0}
    /\ \A n \in Unhelped : n \in 0 .. 3 /\ MaxTime >= IF n < 3 THEN 2 ELSE 5
BY BoundsAssumption, UnhelpedAssumption

LEMMA ZeroFacts ==
    /\ Never \in 0 .. MaxTime /\ 0 \in 0 .. MaxWait /\ Never \in 0 .. MaxTime + MaxWait
    /\ \A t \in 1 .. MaxTime : t \in 0 .. MaxTime /\ t # Never
BY BoundsFacts DEF Never

Grants == Tokens \cup {None}

Sends(m, g, t) == [m EXCEPT !.inflight = g, !.sent = t]
Settles(m, e, g, d) == [m EXCEPT !.early = e, !.earlyGrant = g, !.dead = d]

LEMMA MarkerSends ==
    ASSUME NEW m \in Markers, NEW g \in Grants, NEW t \in 0 .. MaxTime
    PROVE  LET n == Sends(m, g, t) IN
           /\ n \in Markers
           /\ n.inflight = g /\ n.class = m.class /\ n.since = m.since /\ n.resent = m.resent
           /\ n.sent = t /\ n.help = m.help /\ n.floor = m.floor
           /\ n.early = m.early /\ n.earlyGrant = m.earlyGrant /\ n.dead = m.dead
<1>1. Sends(m, g, t) \in Markers
  BY ZenonT(30) DEF Markers, Grants, Sends
<1> QED BY <1>1 DEF Markers, Sends

LEMMA MarkerSettles ==
    ASSUME NEW m \in Markers, NEW e \in 0 .. MaxTime + MaxWait, NEW g \in Grants, NEW d \in Grants
    PROVE  LET n == Settles(m, e, g, d) IN
           /\ n \in Markers
           /\ n.inflight = m.inflight /\ n.class = m.class /\ n.since = m.since /\ n.resent = m.resent
           /\ n.sent = m.sent /\ n.help = m.help /\ n.floor = m.floor
           /\ n.early = e /\ n.earlyGrant = g /\ n.dead = d
<1>1. Settles(m, e, g, d) \in Markers
  BY ZenonT(30) DEF Markers, Grants, Settles
<1> QED BY <1>1 DEF Markers, Settles

LEMMA ForgetFacts ==
    ASSUME NEW m \in Markers
    PROVE  /\ Forget(m) \in Markers
           /\ Forget(m).inflight = None /\ Forget(m).class = "none" /\ Forget(m).since = Never
           /\ Forget(m).resent = FALSE /\ Forget(m).sent = m.sent /\ Forget(m).help = m.help
           /\ Forget(m).floor = m.floor /\ Forget(m).early = m.early
           /\ Forget(m).earlyGrant = m.earlyGrant /\ Forget(m).dead = m.dead
<1>1. Forget(m) \in Markers
  BY ZeroFacts, ZenonT(30) DEF Forget, Markers
<1> QED BY <1>1 DEF Forget, Markers

\* Comparing the marker with the file changes no time rule but the date of a send that is lost.
LEMMA ComparedFacts ==
    ASSUME Facts
    PROVE  /\ Compared \in Markers
           /\ Compared.sent = marker.sent /\ Compared.help = marker.help /\ Compared.floor = marker.floor
           /\ Compared.early = marker.early /\ Compared.earlyGrant = marker.earlyGrant
           /\ Compared.dead = marker.dead
           /\ Compared.inflight = IF Outstanding THEN cred.grant ELSE None
           /\ Outstanding => Compared.class # "none" /\ Compared.resent = marker.resent
           /\ Outstanding /\ ~marker.resent => Compared.since >= seen.posted
<1>1. CASE ~Outstanding
  BY <1>1, ForgetFacts DEF Facts, Shape, Compared, Outstanding
<1>2. CASE Outstanding /\ marker.class # "none"
  BY <1>2 DEF Facts, Shape, Compared, Outstanding, SendInv, Markers
<1>3. CASE Outstanding /\ marker.class = "none"
  <2>1. [marker EXCEPT !.class = "interrupted", !.since = marker.sent] \in Markers
    BY DEF Facts, Shape, Markers
  <2> QED BY <1>3, <2>1 DEF Facts, Shape, Compared, Outstanding, DateInv, Markers
<1> QED BY <1>1, <1>2, <1>3

\* The marker on disk when the POST leaves.
LEMMA SendingFacts ==
    ASSUME Facts, NEW kind \in Kinds, kind = "resend" => Outstanding
    PROVE  LET m == Sending(kind) IN
           /\ m \in Markers
           /\ m.sent = clock /\ m.help = marker.help /\ m.floor = marker.floor
           /\ m.early = marker.early /\ m.earlyGrant = marker.earlyGrant /\ m.dead = marker.dead
           /\ m.inflight = cred.grant
           /\ kind = "auto" => m.class = "none" /\ m.since = Never /\ ~m.resent
           /\ kind = "resend" => /\ m.class # "none" /\ m.resent /\ m.since = Compared.since
<1>1. CASE kind = "auto"
  <2>1. Forget(marker) \in Markers
    BY ForgetFacts DEF Facts, Shape
  <2>2. cred.grant \in Grants /\ clock \in 0 .. MaxTime
    BY ZeroFacts DEF Facts, Shape, Grants
  <2>3. Sending(kind) = [Forget(marker) EXCEPT !.inflight = cred.grant, !.sent = clock]
    BY <1>1 DEF Sending
  <2> DEFINE f == Forget(marker)
  <2>4. f \in Markers
    BY <2>1
  <2> HIDE DEF f
  <2>5. LET n == Sends(f, cred.grant, clock) IN
        /\ n \in Markers
        /\ n.inflight = cred.grant /\ n.class = f.class /\ n.since = f.since /\ n.resent = f.resent
        /\ n.sent = clock /\ n.help = f.help /\ n.floor = f.floor
        /\ n.early = f.early /\ n.earlyGrant = f.earlyGrant /\ n.dead = f.dead
    BY <2>2, <2>4, MarkerSends
  <2>6. /\ f.class = "none" /\ f.since = Never /\ f.resent = FALSE
        /\ f.help = marker.help /\ f.floor = marker.floor
        /\ f.early = marker.early /\ f.earlyGrant = marker.earlyGrant /\ f.dead = marker.dead
    BY ForgetFacts DEF f, Facts, Shape
  <2>7. Sending(kind) = Sends(f, cred.grant, clock)
    BY <2>3 DEF f, Sends
  <2> QED BY <1>1, <2>5, <2>6, <2>7
<1>2. CASE kind = "resend"
  <2>1. Compared \in Markers /\ clock \in 0 .. MaxTime
    BY ComparedFacts, ZeroFacts DEF Facts, Shape
  <2>2. Sending(kind) = [Compared EXCEPT !.resent = TRUE, !.sent = clock]
    BY <1>2 DEF Sending
  <2> DEFINE f == Compared
  <2> HIDE DEF f
  <2>3. [f EXCEPT !.resent = TRUE, !.sent = clock] \in Markers
    BY <2>1, ZenonT(30) DEF Markers, f
  <2> QED BY <1>2, <2>1, <2>2, <2>3, ComparedFacts DEF Markers, f
<1> QED BY <1>1, <1>2 DEF Kinds

LEMMA SentFacts ==
    ASSUME Facts, NEW g \in Tokens, NEW floor \in 0 .. MaxTime + MaxWait, Sent(g, floor)
    PROVE  /\ seen' \in Seen
           /\ seen'.last = clock /\ seen'.told = floor /\ seen'.unhelped = seen.unhelped
           /\ seen'.posted = IF g = cred.grant THEN clock ELSE Never
<1>1. seen \in Seen /\ clock \in 0 .. MaxTime /\ Never \in 0 .. MaxTime
  BY ZeroFacts DEF Facts, Shape
<1>2. seen' \in Seen
  BY <1>1, ZenonT(30) DEF Sent, Seen
<1> QED BY <1>1, <1>2 DEF Sent, Seen

LEMMA IssueFacts ==
    ASSUME Facts, CanIssue, NEW g \in {cred.grant, New}, Issue(g)
    PROVE  /\ cred' \in [grant : Tokens, acc : Tokens, expires : 1 .. MaxTime + Life]
           /\ cred'.grant = g /\ cred'.acc = cred.acc + 1 /\ cred'.grant <= cred'.acc
           /\ New \in Tokens /\ New # cred.grant /\ marker.inflight # New
           /\ cred.grant \in Tokens /\ cred.acc \in Tokens
BY BoundsFacts DEF Facts, Shape, CanIssue, New, Issue, Tokens, SendInv, Markers, None

LEMMA AppliedKeeps ==
    ASSUME Facts, NEW kind \in Kinds, kind = "resend" => Outstanding, Applied(kind), UNCHANGED clock
    PROVE  Facts'
<1> DEFINE m == Sending(kind)
<1>1. PICK g \in {cred.grant, New} :
         /\ Issue(g)
         /\ \/ \E wait \in 0 .. MaxWait :
                 LET early == IF wait = 0 THEN Never ELSE clock + wait IN
                 /\ marker' = [Forget(m) EXCEPT
                                 !.early = early, !.earlyGrant = IF wait = 0 THEN None ELSE g,
                                 !.dead = None]
                 /\ Sent(g, early)
            \/ marker' = m /\ Sent(g, Never)
  BY DEF Applied
<1>2. CanIssue /\ g \in Tokens
  BY <1>1, IssueFacts DEF Applied
<1>3. m \in Markers /\ m.sent = clock /\ m.help = marker.help /\ m.floor = marker.floor
      /\ m.inflight = cred.grant
      /\ (kind = "auto" => m.class = "none") /\ (kind = "resend" => m.resent)
  BY SendingFacts
<1> HIDE DEF m
<1>4. ASSUME NEW wait \in 0 .. MaxWait, NEW early, early = IF wait = 0 THEN Never ELSE clock + wait,
             marker' = [Forget(m) EXCEPT
                                 !.early = early, !.earlyGrant = IF wait = 0 THEN None ELSE g,
                                 !.dead = None],
             Sent(g, early)
      PROVE  Facts'
  <2>1. early \in 0 .. MaxTime + MaxWait
    BY <1>4, BoundsFacts DEF Facts, Shape, Never
  <2>2. marker' \in Markers /\ marker'.sent = clock /\ marker'.help = marker.help
        /\ marker'.floor = marker.floor /\ marker'.inflight = None /\ marker'.class = "none"
        /\ marker'.early = early /\ (wait # 0 => marker'.earlyGrant = g)
    <3>1. Forget(m) \in Markers /\ (IF wait = 0 THEN None ELSE g) \in Grants
      BY <1>2, <1>3, ForgetFacts DEF Grants
    <3> DEFINE f == Forget(m)
               e == IF wait = 0 THEN None ELSE g
    <3>2. marker' = Settles(f, early, e, None)
      BY <1>4 DEF Settles
    <3>3. f \in Markers /\ e \in Grants /\ None \in Grants
      BY <3>1 DEF Grants
    <3>4. /\ f.sent = clock /\ f.help = marker.help /\ f.floor = marker.floor
          /\ f.inflight = None /\ f.class = "none"
      BY <1>3, ForgetFacts
    <3>5. wait # 0 => e = g
      OBVIOUS
    <3> HIDE DEF f, e
    <3> QED BY <2>1, <3>2, <3>3, <3>4, <3>5, MarkerSettles
  <2>3. Shape'
    BY <1>1, <1>2, <1>4, <2>1, <2>2, IssueFacts, SentFacts DEF Facts, Shape
  <2>4. FloorInv' /\ DateInv'
    <3>1. /\ seen'.last = clock /\ seen'.unhelped = seen.unhelped
          /\ seen'.posted = IF g = cred.grant THEN clock ELSE Never
      BY <1>2, <1>4, <2>1, SentFacts
    <3> QED BY <2>2, <3>1 DEF Facts, Shape, FloorInv, DateInv, Never
  <2>5. ServerInv'
    <3>1. seen'.told = early /\ cred'.grant = g
      BY <1>1, <1>2, <1>4, <2>1, SentFacts, IssueFacts
    <3>2. CASE wait = 0
      BY <1>4, <3>1, <3>2 DEF ServerInv
    <3>3. CASE wait # 0
      BY <2>1, <2>2, <3>1, <3>3 DEF ServerInv
    <3> QED BY <3>2, <3>3
  <2>6. SendInv'
    <3>1. /\ cred' \in [grant : Tokens, acc : Tokens, expires : 1 .. MaxTime + Life]
          /\ cred'.grant <= cred'.acc
      BY <1>1, <1>2, IssueFacts
    <3>2. 0 <= cred'.acc /\ cred'.grant # 0
      BY <3>1 DEF Tokens
    <3> QED BY <2>2, <3>1, <3>2 DEF SendInv, Outstanding, None
  <2> QED BY <2>3, <2>4, <2>5, <2>6 DEF Facts
<1>5. CASE marker' = m /\ Sent(g, Never)
  <2>1. Never \in 0 .. MaxTime + MaxWait
    BY BoundsFacts DEF Never
  <2>3. Shape'
    BY <1>1, <1>2, <1>3, <1>5, <2>1, IssueFacts, SentFacts DEF Facts, Shape
  <2>4. FloorInv' /\ DateInv'
    BY <1>2, <1>3, <1>5, <2>1, SentFacts DEF Facts, Shape, FloorInv, DateInv, Never
  <2>5. ServerInv'
    <3>1. seen'.told = Never
      BY <1>2, <1>5, <2>1, SentFacts
    <3> QED BY <3>1 DEF ServerInv
  <2>6. SendInv'
    <3>1. /\ cred'.grant <= cred'.acc /\ cred'.acc = cred.acc + 1
          /\ cred.acc \in Nat /\ cred.grant \in Nat
      <4>1. /\ cred'.grant <= cred'.acc /\ cred'.acc = cred.acc + 1
            /\ cred.acc \in Tokens /\ cred.grant \in Tokens
        BY <1>1, <1>2, IssueFacts
      <4> QED BY <4>1 DEF Tokens
    <3>2. cred.grant <= cred.acc
      BY DEF Facts, SendInv
    <3>3. marker'.inflight <= cred'.acc
      BY <1>3, <1>5, <3>1, <3>2
    <3> QED BY <1>3, <1>5, <3>1, <3>3 DEF SendInv, Kinds
  <2> QED BY <2>3, <2>4, <2>5, <2>6 DEF Facts
<1> QED BY <1>1, <1>4, <1>5

LEMMA RacedKeeps ==
    ASSUME Facts, NEW kind \in Kinds, kind = "resend" => Outstanding, Raced(kind), UNCHANGED clock
    PROVE  Facts'
<1>1. Sending(kind) \in Markers /\ Sending(kind).sent = clock /\ Sending(kind).help = marker.help
      /\ Sending(kind).floor = marker.floor
  BY SendingFacts
<1>2. marker' \in Markers /\ marker'.sent = clock /\ marker'.help = marker.help
      /\ marker'.floor = marker.floor /\ marker'.inflight = None /\ marker'.class = "none"
  BY <1>1, ForgetFacts DEF Raced
<1>3. New \in Tokens /\ Never \in 0 .. MaxTime + MaxWait
  BY IssueFacts, BoundsFacts DEF Raced, Never
<1>4. seen' \in Seen /\ seen'.last = clock /\ seen'.told = Never
      /\ seen'.unhelped = seen.unhelped /\ seen'.posted \in {clock, Never}
  BY <1>3, SentFacts DEF Raced
<1>5. /\ cred' \in [grant : Tokens, acc : Tokens, expires : 1 .. MaxTime + Life]
      /\ cred'.grant <= cred'.acc
  BY IssueFacts DEF Raced
<1>6. Shape'
  BY <1>2, <1>4, <1>5 DEF Facts, Shape
<1>7. FloorInv' /\ DateInv' /\ ServerInv'
  BY <1>2, <1>4 DEF Facts, Shape, FloorInv, DateInv, ServerInv, Never
<1>8. SendInv'
  BY <1>2, <1>5 DEF SendInv, Outstanding, None, Tokens
<1> QED BY <1>6, <1>7, <1>8 DEF Facts

LEMMA UnappliedKeeps ==
    ASSUME Facts, NEW kind \in Kinds, kind = "resend" => Outstanding, Unapplied(kind), UNCHANGED clock
    PROVE  Facts'
<1> DEFINE m == Sending(kind)
<1>1. m \in Markers /\ m.sent = clock /\ m.help = marker.help /\ m.floor = marker.floor
      /\ m.early = marker.early /\ m.earlyGrant = marker.earlyGrant /\ m.dead = marker.dead
      /\ m.inflight = cred.grant
      /\ (kind = "auto" => m.class = "none" /\ m.since = Never) /\ (kind = "resend" => m.resent)
  BY SendingFacts
<1>2. cred.grant \in Tokens /\ seen.told \in 0 .. MaxTime + MaxWait /\ clock \in 1 .. MaxTime
  BY DEF Facts, Shape, Seen
<1>3. Sent(cred.grant, seen.told) /\ UNCHANGED cred
  BY DEF Unapplied
<1>4. seen' \in Seen /\ seen'.last = clock /\ seen'.told = seen.told /\ seen'.unhelped = seen.unhelped
      /\ seen'.posted = clock
  BY <1>2, <1>3, SentFacts
<1>5. /\ marker' \in Markers /\ marker'.sent = clock /\ marker'.help = marker.help
      /\ marker'.floor = marker.floor
      /\ marker'.inflight \in {None, cred.grant}
      /\ \/ marker'.dead = cred.grant
         \/ marker'.early = marker.early /\ marker'.earlyGrant = marker.earlyGrant
            /\ marker'.dead = marker.dead
      /\ marker'.inflight # None /\ marker'.class # "none" /\ ~marker'.resent
           => marker'.since >= clock
  <2> HIDE DEF m
  <2>1. CASE marker' = [Forget(m) EXCEPT !.early = Never, !.earlyGrant = None, !.dead = cred.grant]
    <3>1. Forget(m) \in Markers /\ cred.grant \in Tokens \cup {None} /\ None \in Tokens \cup {None}
      BY <1>1, <1>2, ForgetFacts
    <3>2. marker' \in Markers
      BY <2>1, <3>1, ZeroFacts, ZenonT(30) DEF Markers
    <3> QED BY <1>1, <2>1, <3>1, <3>2, ForgetFacts DEF Markers
  <2>2. CASE \E class \in {"unclear", "limited"} :
               \E wait \in IF class = "limited" THEN 0 .. MaxWait ELSE {0} :
                 marker' = [m EXCEPT !.class = class, !.wait = wait,
                                     !.since = IF @ = Never THEN clock ELSE @]
    <3>1. PICK class \in {"unclear", "limited"}, wait \in 0 .. MaxWait :
             marker' = [m EXCEPT !.class = class, !.wait = wait,
                                 !.since = IF @ = Never THEN clock ELSE @]
      <4>1. PICK class \in {"unclear", "limited"} :
               \E wait \in IF class = "limited" THEN 0 .. MaxWait ELSE {0} :
                 marker' = [m EXCEPT !.class = class, !.wait = wait,
                                     !.since = IF @ = Never THEN clock ELSE @]
        BY <2>2
      <4>2. PICK wait \in IF class = "limited" THEN 0 .. MaxWait ELSE {0} :
                 marker' = [m EXCEPT !.class = class, !.wait = wait,
                                     !.since = IF @ = Never THEN clock ELSE @]
        BY <4>1
      <4>3. wait \in 0 .. MaxWait
        BY <4>2, ZeroFacts
      <4> QED BY <4>2, <4>3
    <3>2. marker' \in Markers
      <4>1. (IF m.since = Never THEN clock ELSE m.since) \in 0 .. MaxTime
        BY <1>1, <1>2, ZeroFacts DEF Markers
      <4>2. class \in {"none", "interrupted", "unclear", "limited"}
        OBVIOUS
      <4> QED BY <1>1, <3>1, <4>1, <4>2, ZenonT(30) DEF Markers
    <3> QED BY <1>1, <1>2, <3>1, <3>2 DEF Markers, Never, Kinds
  <2>3. CASE marker' = IF kind = "resend" THEN m ELSE Forget(m)
    BY <1>1, <2>3, ForgetFacts DEF Kinds
  <2>4. CASE marker' = m
    BY <1>1, <2>4 DEF Kinds
  <2> QED BY <2>1, <2>2, <2>3, <2>4 DEF Unapplied, m
<1> HIDE DEF m
<1>6. Shape'
  BY <1>2, <1>3, <1>4, <1>5 DEF Facts, Shape
<1>7. FloorInv' /\ DateInv'
  BY <1>2, <1>4, <1>5 DEF Facts, Shape, FloorInv, DateInv, Never
<1>8. ServerInv'
  BY <1>3, <1>4, <1>5 DEF Facts, ServerInv, Dead
<1>9. SendInv'
  BY <1>2, <1>3, <1>4, <1>5 DEF Facts, Shape, SendInv, Outstanding, None, Tokens
<1> QED BY <1>6, <1>7, <1>8, <1>9 DEF Facts

\* What a send that may still be repeated knows: its date is the last POST's, or later.
LEMMA NeverLeftKeeps ==
    ASSUME Facts, NEW kind \in Kinds, kind = "resend" => Outstanding /\ ~marker.resent,
           NeverLeft(kind), UNCHANGED clock
    PROVE  Facts'
<1> DEFINE m == Sending(kind)
<1>1. m \in Markers /\ m.sent = clock /\ m.help = marker.help /\ m.floor = marker.floor
      /\ m.early = marker.early /\ m.earlyGrant = marker.earlyGrant /\ m.dead = marker.dead
      /\ m.inflight = cred.grant
      /\ (kind = "auto" => m.class = "none")
      /\ (kind = "resend" => m.resent /\ m.since = Compared.since)
  BY SendingFacts
<1>2. kind = "resend" => Compared.since >= seen.posted
  BY ComparedFacts
<1>5. /\ marker' \in Markers /\ marker'.sent = clock /\ marker'.help = marker.help
      /\ marker'.floor = marker.floor
      /\ marker'.inflight \in {None, cred.grant}
      /\ marker'.early = marker.early /\ marker'.earlyGrant = marker.earlyGrant
      /\ marker'.dead = marker.dead
      /\ marker'.inflight # None /\ marker'.class # "none" /\ ~marker'.resent
           => marker'.since >= seen.posted
  <2> HIDE DEF m
  <2>1. CASE kind = "resend" /\ marker' = [m EXCEPT !.resent = FALSE]
    BY <1>1, <1>2, <2>1 DEF Markers
  <2>2. CASE kind = "auto" /\ marker' = Forget(m)
    BY <1>1, <2>2, ForgetFacts
  <2>3. CASE marker' = m
    BY <1>1, <2>3 DEF Kinds
  <2> QED BY <2>1, <2>2, <2>3 DEF NeverLeft, m, Kinds
<1> HIDE DEF m
<1>6. UNCHANGED <<cred, seen>>
  BY DEF NeverLeft
<1>7. Shape'
  BY <1>5, <1>6 DEF Facts, Shape
<1>8. FloorInv' /\ DateInv' /\ ServerInv'
  BY <1>5, <1>6 DEF Facts, Shape, FloorInv, DateInv, ServerInv, Dead, Seen, Markers
<1>9. SendInv'
  BY <1>5, <1>6 DEF Facts, Shape, SendInv, Outstanding, None, Tokens
<1> QED BY <1>7, <1>8, <1>9 DEF Facts

LEMMA StaysKeeps ==
    ASSUME Facts, marker' \in Untouched, UNCHANGED <<clock, cred, seen>>
    PROVE  Facts'
<1>1. CASE marker' = marker
  BY <1>1 DEF Facts, Shape, FloorInv, DateInv, ServerInv, SendInv, Dead, Outstanding
<1>2. CASE marker' = Compared
  <2>1. Shape'
    BY <1>2, ComparedFacts DEF Facts, Shape
  <2>2. FloorInv' /\ DateInv' /\ ServerInv'
    BY <1>2, ComparedFacts DEF Facts, FloorInv, DateInv, ServerInv, Dead
  <2>3. SendInv'
    BY <1>2, ComparedFacts DEF Facts, Shape, SendInv, Outstanding, None, Tokens
  <2> QED BY <2>1, <2>2, <2>3 DEF Facts
<1> QED BY <1>1, <1>2 DEF Untouched

LEMMA CountedFacts ==
    ASSUME NEW m \in Markers
    PROVE  /\ Counted(m) \in Markers /\ Lifted(m) \in Markers
           /\ Counted(m).help = IF m.help < 4 THEN m.help + 1 ELSE m.help
           /\ Counted(m).floor = IF m.help = 0 THEN 2 ELSE 4
           /\ Lifted(m).help = 0 /\ Lifted(m).floor = 1
           /\ \A n \in {Counted(m), Lifted(m)} :
                /\ n.sent = m.sent /\ n.early = m.early /\ n.earlyGrant = m.earlyGrant
                /\ n.dead = m.dead /\ n.inflight = m.inflight /\ n.class = m.class
                /\ n.resent = m.resent /\ n.since = m.since
<1>1. Counted(m) \in Markers
  <2>1. (IF m.help < 4 THEN m.help + 1 ELSE m.help) \in 0 .. 4
        /\ (IF m.help = 0 THEN 2 ELSE 4) \in {1, 2, 4}
    BY DEF Markers
  <2> QED BY <2>1, ZenonT(30) DEF Counted, Markers
<1>2. Lifted(m) \in Markers
  <2>1. 0 \in 0 .. 4 /\ DefaultFloor \in {1, 2, 4}
    BY DEF DefaultFloor
  <2> QED BY <2>1, ZenonT(30) DEF Lifted, Markers
<1> QED BY <1>1, <1>2 DEF Counted, Lifted, Markers, DefaultFloor

\* An answer is recorded: the floor rises with the count, or both are lifted.
LEMMA RecordKeeps ==
    ASSUME Facts, UNCHANGED <<clock, cred>>,
           \/ marker' = Lifted(marker) /\ seen' = [seen EXCEPT !.unhelped = 0]
           \/ marker' = Counted(marker)
              /\ seen' = [seen EXCEPT !.unhelped = IF @ < Terminal THEN @ + 1 ELSE @]
    PROVE  Facts'
<1>1. /\ marker' \in Markers
      /\ marker'.sent = marker.sent /\ marker'.early = marker.early
      /\ marker'.earlyGrant = marker.earlyGrant /\ marker'.dead = marker.dead
      /\ marker'.inflight = marker.inflight /\ marker'.class = marker.class
      /\ marker'.resent = marker.resent /\ marker'.since = marker.since
  BY CountedFacts DEF Facts, Shape
<1>2. seen' \in Seen /\ seen'.last = seen.last /\ seen'.posted = seen.posted /\ seen'.told = seen.told
  BY DEF Facts, Shape, Seen, Terminal
<1>3. FloorInv'
  <2>1. marker \in Markers /\ seen \in Seen /\ marker.help \in 0 .. 4 /\ seen.unhelped \in 0 .. 3
    BY DEF Facts, Shape, Markers, Seen, Terminal
  <2>2. CASE marker' = Lifted(marker) /\ seen' = [seen EXCEPT !.unhelped = 0]
    <3>1. marker'.help = 0 /\ marker'.floor = 1 /\ seen'.unhelped = 0
      BY <2>1, <2>2, CountedFacts DEF Seen
    <3> QED BY <3>1 DEF FloorInv
  <2>3. CASE marker' = Counted(marker)
             /\ seen' = [seen EXCEPT !.unhelped = IF @ < Terminal THEN @ + 1 ELSE @]
    <3>1. /\ marker'.help = IF marker.help < 4 THEN marker.help + 1 ELSE marker.help
          /\ marker'.floor = IF marker.help = 0 THEN 2 ELSE 4
          /\ seen'.unhelped = IF seen.unhelped < 3 THEN seen.unhelped + 1 ELSE seen.unhelped
      BY <2>1, <2>3, CountedFacts DEF Seen, Terminal
    <3> QED BY <2>1, <3>1 DEF Facts, FloorInv
  <2> QED BY <2>2, <2>3
<1>4. Shape' /\ DateInv' /\ ServerInv' /\ SendInv'
  BY <1>1, <1>2 DEF Facts, Shape, DateInv, ServerInv, SendInv, Dead, Outstanding
<1> QED BY <1>3, <1>4 DEF Facts

LEMMA LoginKeeps == ASSUME Facts, Login PROVE Facts'
<1>1. /\ cred' \in [grant : Tokens, acc : Tokens, expires : 1 .. MaxTime + Life]
      /\ cred'.grant <= cred'.acc
  BY IssueFacts DEF Login
<1>2. DefaultMarker \in Markers
  BY BoundsFacts DEF DefaultMarker, Markers, None, Never, DefaultFloor
<1>3. seen' \in Seen
  <2>1. 0 \in 0 .. Terminal
    BY DEF Terminal
  <2> QED BY <2>1, ZeroFacts, ZenonT(30) DEF Login, Seen
<1>4. Shape'
  BY <1>1, <1>2, <1>3 DEF Facts, Shape, Login
<1>5. FloorInv' /\ DateInv' /\ ServerInv'
  BY DEF Facts, Shape, Login, DefaultMarker, FloorInv, DateInv, ServerInv, Never, DefaultFloor
<1>6. SendInv'
  BY <1>1 DEF Login, DefaultMarker, SendInv, Outstanding, None, Tokens
<1> QED BY <1>4, <1>5, <1>6 DEF Facts

LEMMA CodexWritesKeeps == ASSUME Facts, CodexWrites PROVE Facts'
<1>1. /\ cred' \in [grant : Tokens, acc : Tokens, expires : 1 .. MaxTime + Life]
      /\ cred'.grant <= cred'.acc /\ cred'.grant # marker.inflight /\ cred'.acc = cred.acc + 1
  BY IssueFacts DEF CodexWrites
<1>2. seen' \in Seen /\ seen'.last = seen.last /\ seen'.unhelped = seen.unhelped
      /\ seen'.posted = Never /\ seen'.told = Never
  <2>1. seen \in Seen /\ seen' = [seen EXCEPT !.posted = Never, !.told = Never]
    BY DEF CodexWrites, Facts, Shape
  <2>2. seen' \in Seen
    BY <2>1, ZeroFacts, ZenonT(30) DEF Seen
  <2> QED BY <2>1, <2>2 DEF Seen
<1>4. Shape'
  BY <1>1, <1>2 DEF Facts, Shape, CodexWrites
<1>5. FloorInv' /\ DateInv' /\ ServerInv'
  BY <1>2 DEF Facts, Shape, CodexWrites, FloorInv, DateInv, ServerInv, Never, Markers
<1>6. SendInv'
  BY <1>1 DEF Facts, Shape, CodexWrites, SendInv, Outstanding, Markers, Tokens, None
<1> QED BY <1>4, <1>5, <1>6 DEF Facts

LEMMA RefreshKeeps ==
    ASSUME Facts, NEW kind \in Kinds, kind = "resend" => Outstanding /\ ~marker.resent, UNCHANGED clock,
           Applied(kind) \/ Raced(kind) \/ Unapplied(kind) \/ NeverLeft(kind)
    PROVE  Facts'
BY AppliedKeeps, RacedKeeps, UnappliedKeeps, NeverLeftKeeps

----------------------------------------------------------------------------
(* Every step.                                                             *)

Passes == pc \in [Procs -> Labels] /\ loc \in [Procs -> Locals]

LEMMA GoKeeps ==
    ASSUME Passes, NEW p \in Procs, NEW l \in Labels, NEW locals \in Locals, Go(p, l, locals)
    PROVE  Passes'
BY DEF Passes, Go

LEMMA LocalsFacts ==
    /\ NoLocals \in Locals
    /\ \A s \in {"none", "refreshed", "raced"}, r \in {"none", "send", "adopt"},
          a \in {"none", "lift", "count"} :
         /\ [NoLocals EXCEPT !.step = s] \in Locals /\ [NoLocals EXCEPT !.retry = r] \in Locals
         /\ [NoLocals EXCEPT !.step = s, !.retry = r] \in Locals
         /\ [NoLocals EXCEPT !.answer = a] \in Locals
BY DEF NoLocals, Locals, None

LEMMA FinishKeeps == ASSUME Passes, NEW p \in Procs, Finish(p) PROVE Passes'
BY LocalsFacts, GoKeeps DEF Finish, Labels

LEMMA PassTypes == ASSUME Facts, Passes, NEW p \in Procs, Pass(p) PROVE Passes'
<1>1. CASE Start(p)
  BY <1>1, GoKeeps, LocalsFacts DEF Start, Labels
<1>2. CASE PrePassStays(p)
  BY <1>2, GoKeeps, LocalsFacts DEF PrePassStays, Labels
<1>3. CASE PrePassSends(p)
  BY <1>3, GoKeeps, LocalsFacts DEF PrePassSends, Labels
<1>4. CASE ReadRow(p)
  <2>1. [loc[p] EXCEPT !.acc = cred.acc, !.kept = Outstanding,
                       !.raised = marker.help > 0 \/ marker.floor # DefaultFloor] \in Locals
    <3>1. loc[p] \in Locals /\ cred.acc \in Tokens
      BY DEF Passes, Facts, Shape
    <3>2. Outstanding \in BOOLEAN /\ (marker.help > 0 \/ marker.floor # DefaultFloor) \in BOOLEAN
      BY DEF Outstanding
    <3> HIDE DEF Outstanding
    <3> QED BY <3>1, <3>2, ZenonT(30) DEF Locals
  <2> QED BY <1>4, <2>1, GoKeeps, FinishKeeps DEF ReadRow, Labels
<1>5. CASE Answered(p)
  <2>1. loc[p] \in Locals
    BY DEF Passes
  <2> QED BY <1>5, <2>1, GoKeeps, FinishKeeps, LocalsFacts DEF Answered, Labels
<1>6. CASE After401Stays(p)
  BY <1>6, GoKeeps, FinishKeeps, LocalsFacts DEF After401Stays, Labels
<1>7. CASE After401Sends(p)
  BY <1>7, GoKeeps, FinishKeeps, LocalsFacts DEF After401Sends, Labels
<1>8. CASE Settle(p) \/ Crash(p)
  BY <1>8, FinishKeeps DEF Settle, Crash
<1> QED BY <1>1, <1>2, <1>3, <1>4, <1>5, <1>6, <1>7, <1>8 DEF Pass

LEMMA StutterKeeps == ASSUME Facts, UNCHANGED <<clock, cred, marker, seen>> PROVE Facts'
BY DEF Facts, Shape, FloorInv, DateInv, ServerInv, SendInv, Dead, Outstanding

LEMMA PassKeeps == ASSUME Facts, NEW p \in Procs, Pass(p) PROVE Facts'
<1>1. CASE Start(p) \/ ReadRow(p) \/ Answered(p) \/ Crash(p)
  BY <1>1, StutterKeeps DEF Start, ReadRow, Answered, Crash
<1>2. CASE PrePassStays(p) \/ After401Stays(p)
  BY <1>2, StaysKeeps DEF PrePassStays, After401Stays
<1>3. CASE PrePassSends(p) \/ After401Sends(p)
  BY <1>3, RefreshKeeps DEF PrePassSends, After401Sends, Kinds
<1>4. CASE Settle(p)
  BY <1>4, RecordKeeps, StutterKeeps DEF Settle
<1> QED BY <1>1, <1>2, <1>3, <1>4 DEF Pass

LEMMA BesideKeeps == ASSUME Facts, ResetFloor \/ Resend \/ Login \/ CodexWrites \/ Tick PROVE Facts'
<1>1. CASE ResetFloor
  BY <1>1, RecordKeeps DEF ResetFloor
<1>2. CASE Resend
  BY <1>2, RefreshKeeps DEF Resend, MayResend, Kinds
<1>3. CASE Login \/ CodexWrites
  BY <1>3, LoginKeeps, CodexWritesKeeps
<1>4. CASE Tick
  <2>1. clock \in 1 .. MaxTime /\ clock < MaxTime /\ clock' = clock + 1 /\ UNCHANGED <<cred, marker, seen>>
    BY <1>4 DEF Tick, Facts, Shape
  <2>2. Shape'
    BY <2>1, BoundsFacts DEF Facts, Shape
  <2>3. DateInv'
    BY <2>1 DEF Facts, Shape, DateInv, Markers
  <2> QED BY <2>1, <2>2, <2>3 DEF Facts, FloorInv, ServerInv, SendInv, Dead, Outstanding
<1> QED BY <1>1, <1>2, <1>3, <1>4

LEMMA MarkerInit == PassInit => MarkerInv
<1> SUFFICES ASSUME PassInit PROVE MarkerInv
  OBVIOUS
<1>1. PICK n \in Unhelped :
         LET last == IF n = 0 THEN Never ELSE 1 IN
         /\ clock = IF n < Terminal THEN 2 ELSE 5
         /\ cred = [grant |-> 1, acc |-> 1, expires |-> clock + Life]
         /\ marker = [DefaultMarker EXCEPT !.help = n, !.sent = last,
                                           !.floor = IF n < 2 THEN n + 1 ELSE 4]
         /\ seen = [last |-> last, unhelped |-> n, posted |-> Never, told |-> Never]
  BY DEF PassInit
<1>2. n \in 0 .. 3 /\ clock \in 1 .. MaxTime
  BY <1>1, BoundsFacts DEF Terminal
<1>3. cred \in [grant : Tokens, acc : Tokens, expires : 1 .. MaxTime + Life]
  BY <1>1, <1>2, BoundsFacts DEF Tokens
<1>4. marker = [inflight |-> None, class |-> "none", since |-> Never, wait |-> 0,
                resent |-> FALSE, sent |-> IF n = 0 THEN 0 ELSE 1, help |-> n,
                floor |-> IF n < 2 THEN n + 1 ELSE 4,
                early |-> Never, earlyGrant |-> None, dead |-> None]
  BY <1>1 DEF DefaultMarker, Never
<1>5. marker \in Markers /\ seen \in Seen
  <2>1. /\ (IF n = 0 THEN Never ELSE 1) \in 0 .. MaxTime
        /\ n \in 0 .. 4 /\ n \in 0 .. Terminal /\ (IF n < 2 THEN n + 1 ELSE 4) \in {1, 2, 4}
    BY <1>2, ZeroFacts, BoundsFacts DEF Terminal
  <2>2. (IF n = 0 THEN 0 ELSE 1) \in 0 .. MaxTime
    BY <2>1 DEF Never
  <2>3. marker \in Markers
    BY <1>4, <2>1, <2>2, ZeroFacts, ZenonT(30) DEF Markers
  <2>4. seen \in Seen
    <3>1. seen = [last |-> IF n = 0 THEN Never ELSE 1, unhelped |-> n, posted |-> Never, told |-> Never]
      BY <1>1
    <3> QED BY <2>1, <3>1, ZeroFacts, ZenonT(30) DEF Seen
  <2> QED BY <2>3, <2>4
<1>6. Passes
  BY LocalsFacts DEF PassInit, Passes, Labels
<1>7. FloorInv /\ DateInv /\ ServerInv
  BY <1>1, <1>2, <1>4 DEF FloorInv, DateInv, ServerInv, Never, Terminal
<1>8. SendInv
  <2>1. cred.grant = 1 /\ cred.acc = 1
    BY <1>1
  <2>2. marker.inflight = 0
    BY <1>4 DEF None
  <2> QED BY <2>1, <2>2 DEF SendInv, Outstanding
<1> QED BY <1>2, <1>3, <1>5, <1>6, <1>7, <1>8 DEF MarkerInv, PassTypeOK, Passes

LEMMA MarkerStep == MarkerInv /\ [PassNext]_passVars => MarkerInv'
<1> SUFFICES ASSUME MarkerInv, [PassNext]_passVars PROVE MarkerInv'
  OBVIOUS
<1>1. Facts /\ Passes
  BY DEF MarkerInv, PassTypeOK, Facts, Shape, Passes
<1>2. Facts'
  BY <1>1, PassKeeps, BesideKeeps, StutterKeeps DEF PassNext, passVars
<1>3. Passes'
  <2>1. CASE UNCHANGED <<pc, loc>>
    BY <1>1, <2>1 DEF Passes
  <2> QED BY <1>1, <2>1, PassTypes DEF PassNext, passVars, ResetFloor, Resend, Login, CodexWrites, Tick
<1> QED BY <1>2, <1>3 DEF MarkerInv, PassTypeOK, Facts, Shape, Passes

LEMMA MarkerAlways == PassSpec => []MarkerInv
BY MarkerInit, MarkerStep, PTL DEF PassSpec

----------------------------------------------------------------------------
(* The theorems.                                                           *)

\* The marker, the file and the passes stay what commands/codex/status.rs can hold.
THEOREM PassTypeCorrect == PassSpec => []PassTypeOK
<1>1. MarkerInv => PassTypeOK
  BY DEF MarkerInv
<1> QED BY <1>1, MarkerAlways, PTL

\* After a 401 a pass sends only an hour, two or four hours after this login's last POST, by the
\* answers that did not help since, and not at all after the third: the marker counts every one that
\* was recorded, and whatever clears a send keeps its date (refresh.rs after_unauthorized,
\* floor_until, auth_store.rs clear_inflight).
THEOREM KeepsTheFloor == PassSpec => FloorKept
<1>1. ASSUME MarkerInv, NEW p \in Procs, After401Sends(p)
      PROVE  /\ seen.unhelped < Terminal
             /\ seen.last # Never => clock >= seen.last + 2 ^ seen.unhelped
  <2>1. /\ seen.unhelped \in 0 .. 3 /\ marker.help \in 0 .. 4 /\ marker.floor \in {1, 2, 4}
        /\ seen.last \in Nat /\ marker.sent \in Nat /\ clock \in Nat
    BY <1>1 DEF MarkerInv, PassTypeOK, Seen, Markers, Terminal
  <2>2. marker.help < 3 /\ (marker.sent # Never => clock >= marker.sent + marker.floor)
    BY <1>1 DEF After401Sends, MaySendAfter401, Terminal
  <2>3. seen.unhelped \in 0 .. 2
    BY <1>1, <2>1, <2>2 DEF MarkerInv, FloorInv
  <2>4. 2 ^ 0 = 1 /\ 2 ^ 1 = 2 /\ 2 ^ 2 = 4
    OBVIOUS
  <2>5. 2 ^ seen.unhelped \in Nat /\ 2 ^ seen.unhelped <= marker.floor
    <3>1. CASE seen.unhelped = 0
      BY <2>1, <2>4, <3>1
    <3>2. CASE seen.unhelped = 1
      <4>1. 2 ^ seen.unhelped = 2
        BY <2>4, <3>2
      <4> QED BY <1>1, <2>1, <3>2, <4>1 DEF MarkerInv, FloorInv
    <3>3. CASE seen.unhelped = 2
      <4>1. 2 ^ seen.unhelped = 4
        BY <2>4, <3>3
      <4> QED BY <1>1, <2>1, <3>3, <4>1 DEF MarkerInv, FloorInv
    <3> QED BY <2>3, <3>1, <3>2, <3>3
  <2>6. seen.last # Never => clock >= seen.last + 2 ^ seen.unhelped
    <3> DEFINE w == 2 ^ seen.unhelped
    <3> HIDE DEF w
    <3>1. w \in Nat /\ w <= marker.floor
      BY <2>5 DEF w
    <3>2. seen.last <= marker.sent
      BY <1>1 DEF MarkerInv, DateInv
    <3>3. seen.last # Never => clock >= seen.last + w
      BY <2>1, <2>2, <3>1, <3>2 DEF Never
    <3> QED BY <3>3 DEF w
  <2> QED BY <2>3, <2>6 DEF Terminal
<1>2. MarkerInv /\ [PassNext]_passVars =>
        [\A p \in Procs : After401Sends(p) =>
           /\ seen.unhelped < Terminal
           /\ seen.last # Never => clock >= seen.last + 2 ^ seen.unhelped]_passVars
  BY <1>1
<1> QED BY <1>2, MarkerAlways, PTL DEF PassSpec, FloorKept

\* No automatic refresh of a grant is sent before the time the token host named for it (refresh.rs
\* server_floor): the recorded floor leaves the marker only with the grant.
THEOREM KeepsTheServersFloor == PassSpec => ServerFloorKept
<1>1. ASSUME MarkerInv, NEW p \in Procs, PrePassSends(p) \/ After401Sends(p) PROVE clock >= seen.told
  <2>1. ~Dead /\ ~Early
    BY <1>1 DEF PrePassSends, After401Sends, MaySendProactively, MaySendAfter401
  <2>2. seen.told \in Nat /\ clock \in Nat /\ marker.early \in Nat
    BY <1>1, BoundsFacts DEF MarkerInv, PassTypeOK, Seen, Markers
  <2> QED BY <1>1, <2>1, <2>2 DEF MarkerInv, ServerInv, Early, Never
<1>2. MarkerInv /\ [PassNext]_passVars =>
        [\A p \in Procs : PrePassSends(p) \/ After401Sends(p) => clock >= seen.told]_passVars
  BY <1>1
<1> QED BY <1>2, MarkerAlways, PTL DEF PassSpec, ServerFloorKept

\* The user's re-send leaves at least an hour after the POST it repeats: a send whose process died is
\* dated by its POST, one with an unclear answer by the answer (refresh.rs resend_eligible_at).
THEOREM WaitsToResend == PassSpec => ResendWaits
<1>1. ASSUME MarkerInv, Resend PROVE clock >= seen.posted + ResendWait
  <2>1. Facts
    BY <1>1 DEF MarkerInv, PassTypeOK, Facts, Shape
  <2>2. /\ Outstanding /\ ~marker.resent
        /\ clock >= Compared.since + IF marker.class = "limited" /\ marker.wait > ResendWait
                                     THEN marker.wait ELSE ResendWait
    BY <1>1 DEF Resend, MayResend
  <2>3. Compared.since \in Nat /\ Compared.since >= seen.posted
    BY <2>1, <2>2, ComparedFacts DEF Markers
  <2>4. seen.posted \in Nat /\ clock \in Nat /\ marker.wait \in Nat
    BY <2>1 DEF Facts, Shape, Seen, Markers
  <2> QED BY <2>2, <2>3, <2>4 DEF ResendWait
<1>2. MarkerInv /\ [PassNext]_passVars => [Resend => clock >= seen.posted + ResendWait]_passVars
  BY <1>1
<1> QED BY <1>2, MarkerAlways, PTL DEF PassSpec, ResendWaits

-----------------------------------------------------------------------------
(* Sessions: values.                                                       *)

LEMMA AbsentFacts == /\ Absent \in InFile /\ Absent \notin Documents
                     /\ \A doc \in InFile : doc.version \in 0 .. MaxVersion
                     /\ \A doc \in Documents : Rewritten(doc) \in Documents
<1>1. Absent.version = 0 /\ \A doc \in Documents : doc.version \in 1 .. MaxVersion
  BY DEF Absent, Documents
<1>2. Absent \in InFile /\ Absent \notin Documents
  BY <1>1 DEF InFile
<1>3. \A doc \in InFile : doc.version \in 0 .. MaxVersion
  BY <1>1, ConfigAssumption DEF InFile
<1>4. \A doc \in Documents : Rewritten(doc) \in Documents
  BY DEF Documents, Rewritten
<1> QED BY <1>2, <1>3, <1>4

LEMMA ArePlaces ==
    {"idle", "ask", "resolve", "lock", "made", "read", "backup", "track", "temp", "recheck", "drift",
     "rename", "release", "rmdir", "ended", "dead"} \subseteq Places
BY DEF Places, Held

LEMMA AreUsePlaces ==
    {"idle", "create", "link", "symlink", "lock", "locked", "release", "rmdir", "first", "second",
     "open", "write", "start", "running", "failed", "dead"} \subseteq UsePlaces
BY DEF UsePlaces

\* Nobody is two of a rewrite, a `use`, a session and nobody.
LEMMA Apart ==
    /\ \A r \in Runs : r \notin Seeders /\ r \notin Peers /\ r # NoLock
    /\ \A u \in Seeders : u \notin Peers /\ u # NoLock
    /\ \A s \in Peers : s # NoLock
BY ConfigAssumption

\* What a step does to the lock's age and to who is in time: it may have its own recorded.
Timed(P) == age' \in Ages /\ overdue' \subseteq Runs /\ stamped' \subseteq stamped \cup P
Reset == age' = Fresh /\ stamped' = {} /\ overdue' = overdue

LEMMA AreAges == Fresh \in Ages /\ Stale \in Ages /\ \A i \in Ages : i < Stale => i + 1 \in Ages
BY DEF Ages, Fresh, Stale

LEMMA TimesStay == ASSUME SessionsTypeOK, UNCHANGED times, NEW P PROVE Timed(P) /\ UNCHANGED <<age, stamped, overdue>>
BY DEF times, Timed, SessionsTypeOK, ConfigTypeOK

LEMMA TimesReset == ASSUME SessionsTypeOK, Reset, NEW P PROVE Timed(P)
BY AreAges DEF Reset, Timed, SessionsTypeOK, ConfigTypeOK

-----------------------------------------------------------------------------
(* What one step does to a rewrite.                                        *)

Lockers == {NoLock} \cup Runs \cup Seeders \cup Peers

\* The other rewrites are as they were.
OtherRuns(r) == \A q \in Runs \ {r} : run'[q] = run[q]

\* A rewrite goes on with what it has in hand.
Keeps(r) == /\ run'[r].catchup = run[r].catchup /\ run'[r].basis = run[r].basis
            /\ run'[r].raced = run[r].raced

LEMMA GoFrame ==
    ASSUME SessionsTypeOK, NEW r \in Runs, NEW x \in Places, GoTo(r, x)
    PROVE  /\ run' \in [Runs -> RunLocals] /\ OtherRuns(r) /\ Keeps(r)
           /\ run'[r].pc = x /\ run'[r].registered = run[r].registered
<1>1. run[r] \in RunLocals
  BY DEF SessionsTypeOK, ConfigTypeOK
<1>2. [run[r] EXCEPT !.pc = x] \in RunLocals
  BY <1>1 DEF RunLocals
<1>3. run' \in [Runs -> RunLocals] /\ run'[r] = [run[r] EXCEPT !.pc = x] /\ OtherRuns(r)
  BY <1>2 DEF SessionsTypeOK, ConfigTypeOK, GoTo, OtherRuns
<1> QED BY <1>1, <1>3 DEF Keeps, RunLocals

LEMMA AtHolds ==
    ASSUME SessionsTypeOK, NEW r \in Runs, NEW x \in Places, At(r, x)
    PROVE  run[r] \in RunLocals /\ run[r].basis \in InFile
BY DEF SessionsTypeOK, ConfigTypeOK, RunLocals

\* What the lock is made or removed for.
LockMoves(p, holds) == \/ lock' = lock
                       \/ lock = NoLock /\ lock' = p
                       \/ lock' = NoLock /\ holds

\* A step of one rewrite that leaves the document keeps the invariant if it keeps what is said of it.
LEMMA RunKeeps ==
    ASSUME SessionsInv, NEW r \in Runs, run' \in [Runs -> RunLocals], OtherRuns(r),
           UNCHANGED <<file, session, broken, directory, use, forget, uses>>,
           backups \subseteq backups', backups' \subseteq Documents, temps' \subseteq Runs,
           Timed({r}), LockMoves(r, RunHolds(r)),
           RewriteOf(r)',
           broken = {} /\ RunHolds(r)' => lock' = r
    PROVE  SessionsInv'
<1>0. SessionsTypeOK /\ SeedInv /\ LockInv /\ \A u \in Seeders : UseOf(u)
  BY DEF SessionsInv
<1>1. SessionsTypeOK'
  <2>1. lock' \in Lockers
    BY <1>0 DEF SessionsTypeOK, ConfigTypeOK, LockMoves, Lockers
  <2> QED BY <1>0, <2>1 DEF SessionsTypeOK, ConfigTypeOK, Lockers, directory, Timed
<1>2. ASSUME NEW q \in Runs \ {r} PROVE RewriteOf(q)'
  <2>1. run'[q] = run[q] /\ RewriteOf(q)
    BY DEF OtherRuns, SessionsInv
  <2>2. q \in stamped' => q \in stamped
    BY DEF Timed
  <2> QED BY <2>1, <2>2 DEF RewriteOf, At
<1>3. SeedInv' /\ \A u \in Seeders : UseOf(u)'
  BY <1>0 DEF SeedInv, UseOf, Writing, In, directory
<1>4. LockInv'
  <2>1. ASSUME broken = {}, NEW q \in Runs \ {r}, RunHolds(q)' PROVE lock' = q
    <3>1. RunHolds(q) /\ lock = q
      BY <1>0, <2>1 DEF LockInv, RunHolds, At, OtherRuns
    <3>2. RunHolds(r) => lock = r
      BY <1>0, <2>1 DEF LockInv
    <3> QED BY <3>1, <3>2, Apart DEF LockMoves
  <2>2. ASSUME broken = {}, NEW u \in Seeders, UseHolds(u)' PROVE lock' = u
    <3>1. UseHolds(u) /\ lock = u
      BY <1>0, <2>2 DEF LockInv, UseHolds, In
    <3>2. RunHolds(r) => lock = r
      BY <1>0, <2>2 DEF LockInv
    <3> QED BY <3>1, <3>2, Apart DEF LockMoves
  <2> QED BY <2>1, <2>2 DEF LockInv
<1> QED BY <1>1, <1>2, <1>3, <1>4 DEF SessionsInv

\* A step with the lock left alone, to a place where nothing new is said.
LEMMA GoToKeeps ==
    ASSUME SessionsInv, NEW r \in Runs, NEW x \in Places, GoTo(r, x),
           UNCHANGED <<file, lock, times, session, broken, directory, use, forget, uses>>,
           backups \subseteq backups', backups' \subseteq Documents, temps' \subseteq Runs,
           x \notin {"made", "rmdir"},
           RewriteOf(r)'
    PROVE  SessionsInv'
<1>0. SessionsTypeOK /\ LockInv /\ age \in Ages
  BY DEF SessionsInv, SessionsTypeOK, ConfigTypeOK
<1>1. run' \in [Runs -> RunLocals] /\ OtherRuns(r) /\ run'[r].pc = x /\ run'[r].registered = run[r].registered
  BY <1>0, GoFrame
<1>2. broken = {} /\ RunHolds(r)' => lock' = r
  BY <1>0, <1>1 DEF LockInv, RunHolds, At
<1>3. LockMoves(r, RunHolds(r))
  BY DEF LockMoves
<1> QED BY <1>0, <1>1, <1>2, <1>3, TimesStay, RunKeeps

-----------------------------------------------------------------------------
(* A rewrite's steps.                                                      *)

\* What is said of a rewrite that is before its backup, or after its rename.
LEMMA NothingSaid ==
    ASSUME NEW r \in Runs,
           run'[r].pc \notin {"backup", "track", "temp", "recheck", "drift", "rename"},
           run'[r].pc \in Unregistered => ~run'[r].registered
    PROVE  RewriteOf(r)'
BY DEF RewriteOf, At

LEMMA PreflightKeeps == ASSUME SessionsInv, NEW r \in Runs, Preflight(r),
                               UNCHANGED <<directory, use, forget, uses>> PROVE SessionsInv'
<1>0. SessionsTypeOK /\ LockInv /\ age \in Ages /\ At(r, "idle") /\ ~run[r].registered
      /\ UNCHANGED <<file, lock, times, backups, temps, session, broken>>
  BY DEF SessionsInv, SessionsTypeOK, ConfigTypeOK, Preflight, RewriteOf, At, Unregistered
<1>1. PICK catchup \in BOOLEAN, x \in {"ended", "ask", "resolve"} :
         run' = [run EXCEPT ![r].catchup = catchup, ![r].pc = x]
  BY DEF Preflight
<1>2. run[r] \in RunLocals /\ x \in Places
  BY <1>0, ArePlaces DEF SessionsTypeOK, ConfigTypeOK
<1> DEFINE new == [run[r] EXCEPT !.catchup = catchup, !.pc = x]
<1>3. new \in RunLocals /\ new.pc = x /\ new.registered = run[r].registered
  BY <1>2 DEF RunLocals
<1>4. run' \in [Runs -> RunLocals] /\ run'[r] = new /\ OtherRuns(r)
  BY <1>0, <1>1, <1>3 DEF SessionsTypeOK, ConfigTypeOK, OtherRuns
<1>5. RewriteOf(r)'
  BY <1>0, <1>3, <1>4, NothingSaid
<1>6. broken = {} /\ RunHolds(r)' => lock' = r
  BY <1>0, <1>3, <1>4 DEF LockInv, RunHolds, At
<1> QED BY <1>0, <1>4, <1>5, <1>6, TimesStay, RunKeeps DEF LockMoves, SessionsTypeOK, ConfigTypeOK

LEMMA AcquireKeeps == ASSUME SessionsInv, NEW r \in Runs, Acquire(r),
                             UNCHANGED <<directory, use, forget, uses>> PROVE SessionsInv'
<1>0. /\ SessionsTypeOK /\ LockInv /\ age \in Ages /\ At(r, "lock") /\ temps \subseteq Runs
      /\ backups \subseteq Documents
      /\ UNCHANGED <<file, backups, temps, session, broken>>
      /\ run[r] \in RunLocals /\ run[r].tries \in 0 .. Ladder /\ ~run[r].registered
  BY DEF SessionsInv, SessionsTypeOK, ConfigTypeOK, Acquire, RunLocals, RewriteOf, At, Unregistered
<1>1. CASE lock = NoLock
  <2>1. GoTo(r, "made") /\ lock' = r /\ Reset
    BY <1>1 DEF Acquire, Make, Reset
  <2>2. run' \in [Runs -> RunLocals] /\ OtherRuns(r) /\ run'[r].pc = "made" /\ ~run'[r].registered
    BY <1>0, <2>1, GoFrame, ArePlaces
  <2>3. RewriteOf(r)'
    BY <2>2, NothingSaid
  <2> QED BY <1>0, <1>1, <2>1, <2>2, <2>3, TimesReset, RunKeeps DEF LockMoves
<1>2. CASE lock # NoLock
  <2>1. PICK n \in 0 .. Ladder, x \in {"lock", "ended"} : run' = [run EXCEPT ![r].tries = n, ![r].pc = x]
    <3>1. PICK n \in 0 .. Ladder : n = IF run[r].tries < Ladder THEN run[r].tries + 1 ELSE run[r].tries
      BY <1>0, ConfigAssumption
    <3>2. PICK x \in {"lock", "ended"} : x = IF age = Stale \/ run[r].tries = Ladder THEN "ended" ELSE run[r].pc
      BY <1>0 DEF At
    <3>3. run' = [run EXCEPT ![r].tries = n, ![r].pc = x]
      BY <1>2, <3>1, <3>2 DEF Acquire
    <3> QED BY <3>3
  <2> DEFINE new == [run[r] EXCEPT !.tries = n, !.pc = x]
  <2>2. new \in RunLocals /\ new.pc = x /\ new.registered = run[r].registered
    BY <1>0, ArePlaces DEF RunLocals
  <2>3. run' \in [Runs -> RunLocals] /\ run'[r] = new /\ OtherRuns(r)
    BY <1>0, <2>1, <2>2 DEF SessionsTypeOK, ConfigTypeOK, OtherRuns
  <2>4. RewriteOf(r)'
    BY <1>0, <2>2, <2>3, NothingSaid
  <2>5. lock' = lock /\ UNCHANGED times
    BY <1>2 DEF Acquire
  <2>6. broken = {} /\ RunHolds(r)' => lock' = r
    BY <1>0, <2>2, <2>3, <2>5 DEF LockInv, RunHolds, At
  <2> QED BY <1>0, <2>3, <2>4, <2>5, <2>6, TimesStay, RunKeeps DEF LockMoves
<1> QED BY <1>1, <1>2

LEMMA RecordTimeKeeps == ASSUME SessionsInv, NEW r \in Runs, RecordTime(r),
                                UNCHANGED <<directory, use, forget, uses>> PROVE SessionsInv'
<1>0. /\ SessionsTypeOK /\ LockInv /\ At(r, "made") /\ temps \subseteq Runs
      /\ backups \subseteq Documents /\ run[r] \in RunLocals
      /\ UNCHANGED <<file, lock, backups, temps, session, broken>>
      /\ run' = [run EXCEPT ![r].pc = "read", ![r].registered = TRUE]
  BY DEF SessionsInv, SessionsTypeOK, ConfigTypeOK, RecordTime
<1> DEFINE new == [run[r] EXCEPT !.pc = "read", !.registered = TRUE]
<1>1. new \in RunLocals /\ new.pc = "read"
  BY <1>0, ArePlaces DEF RunLocals
<1>2. run' \in [Runs -> RunLocals] /\ run'[r] = new /\ OtherRuns(r)
  BY <1>0, <1>1 DEF SessionsTypeOK, ConfigTypeOK, OtherRuns
<1>3. RewriteOf(r)'
  BY <1>1, <1>2, NothingSaid DEF Unregistered
<1>4. broken = {} /\ RunHolds(r)' => lock' = r
  BY <1>0 DEF LockInv, RunHolds
<1>5. Timed({r})
  BY <1>0 DEF Timed, RecordTime, SessionsTypeOK, ConfigTypeOK
<1> QED BY <1>0, <1>2, <1>3, <1>4, <1>5, RunKeeps DEF LockMoves

LEMMA ReadUnderLockKeeps == ASSUME SessionsInv, NEW r \in Runs, ReadUnderLock(r),
                                   UNCHANGED <<directory, use, forget, uses>> PROVE SessionsInv'
<1>0. /\ SessionsTypeOK /\ LockInv /\ age \in Ages /\ At(r, "read") /\ temps \subseteq Runs
      /\ backups \subseteq Documents /\ file \in InFile
      /\ UNCHANGED <<file, lock, times, backups, temps, session, broken>>
      /\ run[r] \in RunLocals
  BY DEF SessionsInv, SessionsTypeOK, ConfigTypeOK, ReadUnderLock
<1>1. PICK x \in {"release", "backup"} :
         /\ run' = [run EXCEPT ![r].basis = file, ![r].pc = x]
         /\ x = "backup" => file # Absent
  <2>1. PICK x \in {"release", "backup"} :
           x = IF ~InBudget(r) \/ file = Absent \/ ~file.plain \/ (run[r].catchup /\ Names(file))
               THEN "release" ELSE "backup"
    OBVIOUS
  <2> QED BY <2>1 DEF ReadUnderLock
<1> DEFINE new == [run[r] EXCEPT !.basis = file, !.pc = x]
<1>2. new \in RunLocals /\ new.pc = x /\ new.registered = run[r].registered /\ new.basis = file
  BY <1>0, ArePlaces DEF RunLocals
<1>3. run' \in [Runs -> RunLocals] /\ run'[r] = new /\ OtherRuns(r)
  BY <1>0, <1>1, <1>2 DEF SessionsTypeOK, ConfigTypeOK, OtherRuns
<1>4. RewriteOf(r)'
  BY <1>0, <1>1, <1>2, <1>3, Apart, ConfigAssumption DEF RewriteOf, At, Unregistered
<1>5. broken = {} /\ RunHolds(r)' => lock' = r
  BY <1>0, <1>2, <1>3 DEF LockInv, RunHolds, At
<1> QED BY <1>0, <1>3, <1>4, <1>5, TimesStay, RunKeeps DEF LockMoves

LEMMA RecheckKeeps == ASSUME SessionsInv, NEW r \in Runs, Recheck(r),
                             UNCHANGED <<directory, use, forget, uses>> PROVE SessionsInv'
<1>0. /\ SessionsTypeOK /\ LockInv /\ age \in Ages /\ At(r, "recheck") /\ temps \subseteq Runs
      /\ backups \subseteq Documents /\ RewriteOf(r)
      /\ UNCHANGED <<file, lock, times, backups, session, broken>>
      /\ run[r] \in RunLocals /\ temps' \subseteq Runs
  BY DEF SessionsInv, SessionsTypeOK, ConfigTypeOK, Recheck
<1>1. PICK x \in {"drift", "release"} :
         /\ run' = [run EXCEPT ![r].pc = x, ![r].raced = FALSE]
         /\ x = "drift" => file = run[r].basis
  <2>1. PICK x \in {"drift", "release"} :
           x = IF InBudget(r) /\ file = run[r].basis THEN "drift" ELSE "release"
    OBVIOUS
  <2> QED BY <2>1 DEF Recheck
<1> DEFINE new == [run[r] EXCEPT !.pc = x, !.raced = FALSE]
<1>2. new \in RunLocals /\ new.pc = x /\ new.registered = run[r].registered /\ new.basis = run[r].basis
  BY <1>0, ArePlaces DEF RunLocals
<1>3. run' \in [Runs -> RunLocals] /\ run'[r] = new /\ OtherRuns(r)
  BY <1>0, <1>1, <1>2 DEF SessionsTypeOK, ConfigTypeOK, OtherRuns
<1>4. RewriteOf(r)'
  BY <1>0, <1>1, <1>2, <1>3 DEF RewriteOf, At, Unregistered
<1>5. broken = {} /\ RunHolds(r)' => lock' = r
  BY <1>0, <1>2, <1>3 DEF LockInv, RunHolds, At
<1> QED BY <1>0, <1>3, <1>4, <1>5, TimesStay, RunKeeps DEF LockMoves

LEMMA WithdrawKeeps == ASSUME SessionsInv, NEW r \in Runs, Withdraw(r),
                              UNCHANGED <<directory, use, forget, uses>> PROVE SessionsInv'
<1>0. /\ SessionsTypeOK /\ LockInv /\ age \in Ages /\ At(r, "release")
      /\ backups \subseteq Documents
      /\ UNCHANGED <<file, lock, times, backups, session, broken>>
      /\ run[r] \in RunLocals /\ temps' \subseteq Runs
  BY DEF SessionsInv, SessionsTypeOK, ConfigTypeOK, Withdraw
<1>1. PICK x \in {"rmdir", "ended"} :
         /\ run' = [run EXCEPT ![r].registered = FALSE, ![r].pc = x]
         /\ x = "rmdir" => run[r].registered
  <2>1. PICK x \in {"rmdir", "ended"} : x = IF run[r].registered THEN "rmdir" ELSE "ended"
    OBVIOUS
  <2> QED BY <2>1 DEF Withdraw
<1> DEFINE new == [run[r] EXCEPT !.registered = FALSE, !.pc = x]
<1>2. new \in RunLocals /\ new.pc = x /\ ~new.registered
  BY <1>0, ArePlaces DEF RunLocals
<1>3. run' \in [Runs -> RunLocals] /\ run'[r] = new /\ OtherRuns(r)
  BY <1>0, <1>1, <1>2 DEF SessionsTypeOK, ConfigTypeOK, OtherRuns
<1>4. RewriteOf(r)'
  BY <1>2, <1>3 DEF RewriteOf, At
<1>5. broken = {} /\ RunHolds(r)' => lock' = r
  BY <1>0, <1>1, <1>2, <1>3 DEF LockInv, RunHolds, At
<1> QED BY <1>0, <1>3, <1>4, <1>5, TimesStay, RunKeeps DEF LockMoves

LEMMA EmergencyKeeps == ASSUME SessionsInv, NEW r \in Runs, Emergency(r),
                               UNCHANGED <<directory, use, forget, uses>> PROVE SessionsInv'
<1>0. /\ SessionsTypeOK /\ run[r].registered /\ RewriteOf(r)
      /\ backups \subseteq Documents
      /\ UNCHANGED <<file, backups, session, broken>> /\ lock' = NoLock /\ Reset
      /\ run[r] \in RunLocals /\ temps' \subseteq Runs
      /\ run' = [run EXCEPT ![r].registered = FALSE]
  BY DEF SessionsInv, SessionsTypeOK, ConfigTypeOK, Emergency, Unmake, Reset
<1> DEFINE new == [run[r] EXCEPT !.registered = FALSE]
<1>2. /\ new \in RunLocals /\ new.pc = run[r].pc /\ ~new.registered
      /\ new.basis = run[r].basis /\ new.raced = run[r].raced
  BY <1>0 DEF RunLocals
<1>3. run' \in [Runs -> RunLocals] /\ run'[r] = new /\ OtherRuns(r)
  BY <1>0, <1>2 DEF SessionsTypeOK, ConfigTypeOK, OtherRuns
<1>4. RewriteOf(r)'
  BY <1>0, <1>2, <1>3, Apart DEF RewriteOf, At, Unregistered, Reset
<1>5. ~RunHolds(r)'
  BY <1>0, <1>2, <1>3 DEF RunHolds, At, RewriteOf, Unregistered
<1> QED BY <1>0, <1>3, <1>4, <1>5, TimesReset, RunKeeps DEF LockMoves, RunHolds

LEMMA RemoveLockKeeps == ASSUME SessionsInv, NEW r \in Runs, RemoveLock(r),
                                UNCHANGED <<directory, use, forget, uses>> PROVE SessionsInv'
<1>0. /\ SessionsTypeOK /\ At(r, "rmdir") /\ RewriteOf(r) /\ GoTo(r, "ended")
      /\ backups \subseteq Documents /\ temps \subseteq Runs
      /\ UNCHANGED <<file, backups, temps, session, broken>> /\ lock' = NoLock /\ Reset
  BY DEF SessionsInv, SessionsTypeOK, ConfigTypeOK, RemoveLock, Unmake, Reset
<1>1. /\ run' \in [Runs -> RunLocals] /\ OtherRuns(r)
      /\ run'[r].pc = "ended" /\ run'[r].registered = run[r].registered
  BY <1>0, GoFrame, ArePlaces
<1>2. RewriteOf(r)'
  BY <1>1, NothingSaid DEF Unregistered
<1>3. ~RunHolds(r)'
  BY <1>0, <1>1 DEF RunHolds, At, RewriteOf, Unregistered
<1> QED BY <1>0, <1>1, <1>2, <1>3, TimesReset, RunKeeps DEF LockMoves, RunHolds

\* The steps that only move.
LEMMA PlainKeeps ==
    ASSUME SessionsInv, NEW r \in Runs, UNCHANGED <<directory, use, forget, uses>>,
           Ask(r) \/ Resolve(r) \/ Backup(r) \/ Track(r) \/ WriteTemp(r) \/ DriftCheck(r) \/ Die(r)
    PROVE  SessionsInv'
<1>0. /\ SessionsTypeOK /\ LockInv /\ age \in Ages /\ backups \subseteq Documents /\ temps \subseteq Runs
      /\ RewriteOf(r) /\ run[r] \in RunLocals /\ run[r].basis \in InFile
  BY DEF SessionsInv, SessionsTypeOK, ConfigTypeOK, RunLocals
<1>1. CASE Ask(r) \/ Resolve(r) \/ Die(r)
  <2>1. PICK x \in {"resolve", "ended", "lock", "dead"} :
           GoTo(r, x) /\ (x \in {"resolve", "lock"} => ~run[r].registered)
    BY <1>0, <1>1 DEF Ask, Resolve, Die, RewriteOf, At, Unregistered
  <2>2. UNCHANGED <<file, lock, times, backups, temps, session, broken>>
    BY <1>1 DEF Ask, Resolve, Die
  <2>3. run'[r].pc = x /\ x \in Places /\ run'[r].registered = run[r].registered
    BY <1>0, <2>1, GoFrame, ArePlaces
  <2>4. RewriteOf(r)'
    BY <2>1, <2>3, NothingSaid DEF Unregistered
  <2> QED BY <1>0, <2>1, <2>2, <2>3, <2>4, GoToKeeps
<1>2. CASE Backup(r)
  <2>1. PICK x \in {"track", "release"} :
           /\ GoTo(r, x) /\ backups' \in {backups, backups \cup {run[r].basis}}
           /\ x = "track" => run[r].basis \in backups'
    BY <1>2 DEF Backup
  <2>2. UNCHANGED <<file, lock, times, temps, session, broken>> /\ run[r].basis # Absent
    BY <1>0, <1>2 DEF Backup, RewriteOf
  <2>3. run'[r].pc = x /\ x \in Places /\ Keeps(r)
    BY <1>0, <2>1, GoFrame, ArePlaces
  <2>4. RewriteOf(r)'
    BY <2>1, <2>3 DEF RewriteOf, At, Keeps, Unregistered
  <2>5. backups \subseteq backups' /\ backups' \subseteq Documents
    BY <1>0, <2>1, <2>2 DEF InFile
  <2> QED BY <1>0, <2>1, <2>2, <2>3, <2>4, <2>5, GoToKeeps
<1>3. CASE Track(r) \/ WriteTemp(r)
  <2>1. PICK x \in {"temp", "recheck", "release"} : GoTo(r, x)
    BY <1>3 DEF Track, WriteTemp
  <2>2. /\ UNCHANGED <<file, lock, times, backups, session, broken>> /\ temps' \subseteq Runs
        /\ run[r].basis \in backups
    BY <1>0, <1>3 DEF Track, WriteTemp, RewriteOf, At
  <2>3. run'[r].pc = x /\ x \in Places /\ Keeps(r)
    BY <1>0, <2>1, GoFrame, ArePlaces
  <2>4. RewriteOf(r)'
    BY <2>1, <2>2, <2>3 DEF RewriteOf, At, Keeps, Unregistered
  <2> QED BY <1>0, <2>1, <2>2, <2>3, <2>4, GoToKeeps
<1>4. CASE DriftCheck(r)
  <2>1. PICK x \in {"rename", "release"} : GoTo(r, x) /\ (x = "rename" => r \in stamped)
    BY <1>4 DEF DriftCheck, NotDrifted
  <2>2. /\ UNCHANGED <<file, lock, times, backups, session, broken>> /\ temps' \subseteq Runs
        /\ run[r].basis \in backups
        /\ file = run[r].basis \/ run[r].raced \/ r \notin stamped
    BY <1>0, <1>4 DEF DriftCheck, RewriteOf, At
  <2>3. run'[r].pc = x /\ x \in Places /\ Keeps(r)
    BY <1>0, <2>1, GoFrame, ArePlaces
  <2>4. RewriteOf(r)'
    BY <2>1, <2>2, <2>3 DEF RewriteOf, At, Keeps, Unregistered
  <2> QED BY <1>0, <2>1, <2>2, <2>3, <2>4, GoToKeeps
<1> QED BY <1>1, <1>2, <1>3, <1>4

-----------------------------------------------------------------------------
(* What replaces the document.                                             *)

LEMMA RacingFrame ==
    ASSUME run \in [Runs -> RunLocals], NEW w \in Runs \cup Peers
    PROVE  /\ Racing(w) \in [Runs -> RunLocals]
           /\ \A q \in Runs : /\ Racing(w)[q].pc = run[q].pc
                              /\ Racing(w)[q].registered = run[q].registered
                              /\ Racing(w)[q].basis = run[q].basis
                              /\ run[q].raced \/ At(q, "rename") => Racing(w)[q].raced
                              /\ At(q, "drift") /\ (lock # w \/ q \in stamped) => Racing(w)[q].raced
<1>1. ASSUME NEW q \in Runs
      PROVE  /\ Racing(w)[q] \in RunLocals
             /\ Racing(w)[q].pc = run[q].pc
             /\ Racing(w)[q].registered = run[q].registered
             /\ Racing(w)[q].basis = run[q].basis
             /\ run[q].raced \/ At(q, "rename") => Racing(w)[q].raced
             /\ At(q, "drift") /\ (lock # w \/ q \in stamped) => Racing(w)[q].raced
  <2>1. PICK b \in BOOLEAN : b = (run[q].raced \/ Exposed(q, w))
    OBVIOUS
  <2>2. Racing(w)[q] = [run[q] EXCEPT !.raced = b]
    BY <2>1 DEF Racing
  <2>3. run[q] \in RunLocals
    OBVIOUS
  <2> QED BY <2>1, <2>2, <2>3 DEF RunLocals, Exposed
<1>2. Racing(w) = [q \in Runs |-> Racing(w)[q]]
  BY DEF Racing
<1> QED BY <1>1, <1>2

\* A document put in the file races whoever looked before it, but for the lock's holder.
LEMMA WriteKeeps ==
    ASSUME SessionsInv, NEW w \in Runs \cup Peers, file' \in InFile,
           UNCHANGED <<lock, times, backups, session, broken, directory, use, forget, uses>>,
           temps' \subseteq Runs, run' \in [Runs -> RunLocals],
           \A q \in Runs : \/ run'[q] = Racing(w)[q] /\ (q = w => run'[q].pc # "drift")
                           \/ /\ q = w /\ run[q].pc = "rename" /\ run'[q].pc = "release"
                              /\ run'[q].registered = run[q].registered
    PROVE  SessionsInv'
<1>0. /\ SessionsTypeOK /\ SeedInv /\ LockInv /\ \A u \in Seeders : UseOf(u)
      /\ run \in [Runs -> RunLocals] /\ UNCHANGED <<age, stamped, overdue>>
  BY TimesStay DEF SessionsInv, SessionsTypeOK, ConfigTypeOK
<1>1. SessionsTypeOK'
  BY <1>0 DEF SessionsTypeOK, ConfigTypeOK, directory
<1>2. ASSUME NEW q \in Runs PROVE RewriteOf(q)' /\ (RunHolds(q)' => RunHolds(q))
  <2>1. CASE run'[q] = Racing(w)[q] /\ (q = w => run'[q].pc # "drift")
    <3>1. RewriteOf(q)
      BY DEF SessionsInv
    <3>2. RewriteOf(q)'
      BY <1>0, <2>1, <3>1, RacingFrame DEF RewriteOf, At
    <3>3. RunHolds(q)' => RunHolds(q)
      BY <1>0, <2>1, RacingFrame DEF RunHolds, At
    <3> QED BY <3>2, <3>3
  <2>2. CASE q = w /\ run[q].pc = "rename" /\ run'[q].pc = "release" /\ run'[q].registered = run[q].registered
    BY <2>2, NothingSaid DEF RunHolds, At, Unregistered
  <2> QED BY <2>1, <2>2
<1>3. SeedInv' /\ \A u \in Seeders : UseOf(u)'
  BY <1>0 DEF SeedInv, UseOf, Writing, In, directory
<1>4. LockInv'
  BY <1>0, <1>2 DEF LockInv, UseHolds, In
<1> QED BY <1>1, <1>2, <1>3, <1>4 DEF SessionsInv

LEMMA RenameKeeps == ASSUME SessionsInv, NEW r \in Runs, Rename(r),
                            UNCHANGED <<directory, use, forget, uses>> PROVE SessionsInv'
<1>0. /\ SessionsTypeOK /\ age \in Ages /\ backups \subseteq Documents /\ temps' \subseteq Runs
      /\ At(r, "rename") /\ UNCHANGED <<lock, times, backups, session, broken>>
      /\ run[r] \in RunLocals /\ run[r].basis \in backups /\ run \in [Runs -> RunLocals]
  BY DEF SessionsInv, SessionsTypeOK, ConfigTypeOK, Rename, RewriteOf, At
<1>1. CASE file' = Rewritten(run[r].basis) /\ run' = [Racing(r) EXCEPT ![r].pc = "release"]
  <2>1. file' \in InFile
    BY <1>0, <1>1, AbsentFacts DEF InFile
  <2> DEFINE new == [Racing(r)[r] EXCEPT !.pc = "release"]
  <2>2. Racing(r) \in [Runs -> RunLocals] /\ Racing(r)[r].registered = run[r].registered
    BY <1>0, RacingFrame
  <2>3. new \in RunLocals /\ new.pc = "release" /\ new.registered = run[r].registered
    <3>1. Racing(r)[r] \in RunLocals
      BY <2>2
    <3> QED BY <2>2, <3>1, ArePlaces DEF RunLocals
  <2>4. run' \in [Runs -> RunLocals] /\ run'[r] = new /\ \A q \in Runs \ {r} : run'[q] = Racing(r)[q]
    BY <1>1, <2>2, <2>3
  <2>5. /\ run[r].pc = "rename" /\ run'[r].pc = "release"
        /\ run'[r].registered = run[r].registered
    BY <1>0, <2>3, <2>4 DEF At
  <2> HIDE DEF new
  <2>6. \A q \in Runs : q # r => run'[q] = Racing(r)[q]
    BY <2>4
  <2> QED BY <1>0, <2>1, <2>4, <2>5, <2>6, WriteKeeps
<1>2. CASE file' = file /\ GoTo(r, "release")
  <2>1. run'[r].pc = "release"
    BY <1>0, <1>2, GoFrame, ArePlaces
  <2> QED BY <1>0, <1>2, <2>1, NothingSaid, ArePlaces, GoToKeeps DEF Unregistered
<1> QED BY <1>1, <1>2 DEF Rename

LEMMA SessionWritesKeeps == ASSUME SessionsInv, NEW s \in Peers, SessionWrites(s),
                                   UNCHANGED <<directory, use, forget, uses>> PROVE SessionsInv'
<1>0. /\ SessionsTypeOK /\ file \in InFile /\ temps \subseteq Runs /\ run \in [Runs -> RunLocals]
      /\ UNCHANGED <<lock, times, backups, temps, session, broken>> /\ run' = Racing(s)
      /\ file.version < MaxVersion
  BY DEF SessionsInv, SessionsTypeOK, ConfigTypeOK, SessionWrites
<1>1. PICK account \in {file.account, Account}, caches \in BOOLEAN :
         file' = [account |-> account, caches |-> caches, version |-> file.version + 1, plain |-> TRUE]
  BY DEF SessionWrites
<1>2. file.account \in {Before, Account} /\ file.version \in 0 .. MaxVersion
  BY <1>0, AbsentFacts DEF InFile, Documents, Absent
<1>3. file.version + 1 \in 1 .. MaxVersion
  BY <1>0, <1>2, ConfigAssumption
<1>4. file' \in InFile
  BY <1>1, <1>2, <1>3 DEF InFile, Documents
<1>5. Racing(s) \in [Runs -> RunLocals] /\ \A q \in Runs : q # s
  BY <1>0, RacingFrame, Apart
<1> QED BY <1>0, <1>4, <1>5, WriteKeeps

-----------------------------------------------------------------------------
(* The lock's age, and Claude Code's sessions.                             *)

\* A step beside agctl's processes: the lock goes from nobody of agctl's, or is reclaimed.
LEMMA SessionBesideKeeps ==
    ASSUME SessionsInv, UNCHANGED <<file, backups, temps, run, directory, use, forget, uses>>,
           session' \in [Peers -> {"idle", "holds", "free", "gone"}],
           lock' \in {NoLock, lock} \cup Peers, Timed({}),
           broken' \subseteq Runs \cup Seeders, broken \subseteq broken',
           lock' # lock => lock \in {NoLock} \cup Peers \cup broken'
    PROVE  SessionsInv'
<1>0. SessionsTypeOK /\ SeedInv /\ LockInv /\ \A u \in Seeders : UseOf(u)
  BY DEF SessionsInv
<1>1. SessionsTypeOK'
  BY <1>0 DEF SessionsTypeOK, ConfigTypeOK, directory, Timed
<1>2. ASSUME NEW q \in Runs PROVE RewriteOf(q)'
  <2>1. RewriteOf(q) /\ (q \in stamped' => q \in stamped)
    BY DEF SessionsInv, Timed
  <2> QED BY <2>1 DEF RewriteOf, At
<1>3. SeedInv' /\ \A u \in Seeders : UseOf(u)'
  BY <1>0 DEF SeedInv, UseOf, Writing, In, directory
<1>4. LockInv'
  <2>1. SUFFICES ASSUME broken' = {}
                 PROVE  /\ \A r \in Runs : RunHolds(r) => lock' = r
                        /\ \A u \in Seeders : UseHolds(u) => lock' = u
    BY DEF LockInv, RunHolds, UseHolds, At, In
  <2>2. broken = {}
    BY <2>1
  <2> QED BY <1>0, <2>1, <2>2, Apart DEF LockInv
<1> QED BY <1>1, <1>2, <1>3, <1>4 DEF SessionsInv

LEMMA AgeKeeps == ASSUME SessionsInv, Age, UNCHANGED <<directory, use, forget, uses>> PROVE SessionsInv'
<1>1. /\ session \in [Peers -> {"idle", "holds", "free", "gone"}] /\ age \in Ages
      /\ broken \subseteq Runs \cup Seeders
  BY DEF SessionsInv, SessionsTypeOK, ConfigTypeOK
<1>2. age' \in Ages
  BY <1>1, AreAges DEF Age
<1>3. overdue' \subseteq Runs
  BY DEF Age, Budgeted, SessionsInv, SessionsTypeOK, ConfigTypeOK
<1>4. Timed({})
  BY <1>2, <1>3 DEF Age, Timed
<1> QED BY <1>1, <1>4, SessionBesideKeeps DEF Age

LEMMA ClaudeCodeKeeps == ASSUME SessionsInv, NEW s \in Peers, ClaudeCode(s),
                                UNCHANGED <<directory, use, forget, uses>> PROVE SessionsInv'
<1>1. /\ session \in [Peers -> {"idle", "holds", "free", "gone"}] /\ SessionsTypeOK
      /\ broken \subseteq Runs \cup Seeders /\ lock \in Lockers
  BY DEF SessionsInv, SessionsTypeOK, ConfigTypeOK, Lockers
<1>2. CASE SessionLocks(s)
  <2>1. /\ lock' = s /\ Reset /\ broken' = broken \cup ({lock} \cap (Runs \cup Seeders))
        /\ session' = [session EXCEPT ![s] = "holds"]
        /\ UNCHANGED <<file, backups, temps, run>>
    BY <1>2 DEF SessionLocks, Make, Reset
  <2>2. lock \in {NoLock} \cup Peers \cup broken'
    BY <1>1, <2>1 DEF Lockers
  <2> QED BY <1>1, <2>1, <2>2, TimesReset, SessionBesideKeeps
<1>3. CASE SessionGivesUp(s) \/ SessionDies(s)
  <2>1. /\ session' \in [Peers -> {"idle", "holds", "free", "gone"}]
        /\ UNCHANGED <<file, lock, times, backups, temps, run, broken>>
    BY <1>1, <1>3 DEF SessionGivesUp, SessionDies
  <2> QED BY <1>1, <2>1, TimesStay, SessionBesideKeeps
<1>4. CASE SessionEnds(s)
  <2>1. /\ session' = [session EXCEPT ![s] = "idle"]
        /\ UNCHANGED <<file, backups, temps, run, broken>>
        /\ (lock' = lock /\ UNCHANGED times) \/ (lock = s /\ lock' = NoLock /\ Reset)
    BY <1>4 DEF SessionEnds, Unmake, Reset
  <2> QED BY <1>1, <2>1, TimesStay, TimesReset, SessionBesideKeeps
<1>5. CASE SessionBeats(s)
  <2>1. Timed({})
    BY <1>1, <1>5 DEF SessionBeats, Timed, SessionsInv, SessionsTypeOK, ConfigTypeOK
  <2> QED BY <1>1, <1>5, <2>1, SessionBesideKeeps DEF SessionBeats
<1> QED BY <1>2, <1>3, <1>4, <1>5, SessionWritesKeeps DEF ClaudeCode

-----------------------------------------------------------------------------
(* A `use`'s steps.                                                        *)

\* The other `use`s are where they were; a seed of theirs may have been taken from its name.
OtherUses(u) == \A v \in Seeders \ {u} : /\ use'[v].pc = use[v].pc
                                         /\ use'[v].tries = use[v].tries
                                         /\ use'[v].registered = use[v].registered
                                         /\ use'[v].named => use[v].named

\* A step in a session directory keeps the invariant if it keeps what is said of the `use` that
\* takes it, and of whoever is to write the seed.
LEMMA UseKeeps ==
    ASSUME SessionsInv, NEW u \in Seeders, use' \in [Seeders -> UseLocals], OtherUses(u),
           UNCHANGED <<file, backups, temps, session, run, broken>>,
           there' \in BOOLEAN, link' \in [Entries -> {"none", "live", "other"}], seed' \in Seeds,
           uses' \in Nat,
           forget' \in [Forgets -> [pc : {"idle", "ask", "removing", "ended"},
                                     left : SUBSET (Entries \cup {SEED_FILE})]],
           Timed({}), LockMoves(u, UseHolds(u)),
           UseOf(u)', SeedInv',
           broken = {} /\ UseHolds(u)' => lock' = u
    PROVE  SessionsInv'
<1>0. SessionsTypeOK /\ LockInv /\ \A v \in Seeders : UseOf(v)
  BY DEF SessionsInv
<1>1. SessionsTypeOK'
  <2>1. lock' \in Lockers
    BY <1>0 DEF SessionsTypeOK, ConfigTypeOK, LockMoves, Lockers
  <2> QED BY <1>0, <2>1 DEF SessionsTypeOK, ConfigTypeOK, Lockers, Timed
<1>2. ASSUME NEW q \in Runs PROVE RewriteOf(q)'
  <2>1. RewriteOf(q) /\ (q \in stamped' => q \in stamped)
    BY DEF SessionsInv, Timed
  <2> QED BY <2>1 DEF RewriteOf, At
<1>3. ASSUME NEW v \in Seeders \ {u} PROVE UseOf(v)' /\ (UseHolds(v)' => UseHolds(v))
  BY <1>0 DEF UseOf, UseHolds, In, OtherUses
<1>4. LockInv'
  <2>0. broken = {} /\ UseHolds(u) => lock = u
    BY <1>0 DEF LockInv
  <2>1. ASSUME broken = {}, NEW q \in Runs, RunHolds(q)' PROVE lock' = q
    <3>1. lock = q
      BY <1>0, <2>1 DEF LockInv, RunHolds, At
    <3> QED BY <2>0, <2>1, <3>1, Apart DEF LockMoves
  <2>2. ASSUME broken = {}, NEW v \in Seeders \ {u}, UseHolds(v)' PROVE lock' = v
    <3>1. lock = v
      BY <1>0, <1>3, <2>2 DEF LockInv
    <3> QED BY <2>0, <2>2, <3>1, Apart DEF LockMoves
  <2> QED BY <2>1, <2>2 DEF LockInv
<1> QED BY <1>1, <1>2, <1>3, <1>4 DEF SessionsInv

\* What a seed is to be written by when nobody comes to it.
LEMMA SeedStays ==
    ASSUME SeedInv, seed' = seed, \A v \in Seeders : Writing(v)' => Writing(v)
    PROVE  SeedInv'
BY DEF SeedInv

LEMMA UsePlain ==
    ASSUME SessionsInv
    PROVE  /\ SessionsTypeOK /\ LockInv /\ SeedInv /\ age \in Ages /\ there \in BOOLEAN
           /\ link \in [Entries -> {"none", "live", "other"}] /\ seed \in Seeds /\ uses \in Nat
           /\ forget \in [Forgets -> [pc : {"idle", "ask", "removing", "ended"},
                                      left : SUBSET (Entries \cup {SEED_FILE})]]
           /\ file \in InFile
           /\ use \in [Seeders -> UseLocals]
BY DEF SessionsInv, SessionsTypeOK, ConfigTypeOK

\* A step of one `use` that touches neither the lock nor the seed.
LEMMA OnKeeps ==
    ASSUME SessionsInv, NEW u \in Seeders, NEW new \in UseLocals, use' = [use EXCEPT ![u] = new],
           UNCHANGED <<config, seed, forget>>, uses' \in Nat,
           there' \in BOOLEAN, link' \in [Entries -> {"none", "live", "other"}],
           new.pc = "write" /\ new.named => Writing(u),
           new.registered => use[u].registered,
           new.pc = "rmdir" => use[u].registered /\ ~new.registered,
           new.pc \in {"create", "link", "symlink", "lock", "first", "second"} => new.tries < Attempts
    PROVE  SessionsInv'
<1>0. UNCHANGED <<file, lock, times, backups, temps, session, run, broken>>
  BY DEF config
<1>1. /\ use' \in [Seeders -> UseLocals] /\ OtherUses(u) /\ use'[u] = new
      /\ \A v \in Seeders \ {u} : use'[v] = use[v]
  BY UsePlain DEF OtherUses
<1>2. UseOf(u)'
  BY <1>1 DEF UseOf, In
<1>3. SeedInv'
  <2>1. \A v \in Seeders : Writing(v)' => Writing(v)
    BY <1>1 DEF Writing, In
  <2> QED BY <2>1, UsePlain, SeedStays
<1>4. broken = {} /\ UseHolds(u)' => lock' = u
  BY <1>0, <1>1, UsePlain DEF UseHolds, In, LockInv
<1> QED BY <1>0, <1>1, <1>2, <1>3, <1>4, UsePlain, TimesStay, UseKeeps DEF LockMoves

\* A step that only moves.
LEMMA MovesKeeps ==
    ASSUME SessionsInv, NEW u \in Seeders, NEW x \in UsePlaces, Moves(u, x),
           UNCHANGED <<config, seed, forget, uses>>,
           there' \in BOOLEAN, link' \in [Entries -> {"none", "live", "other"}],
           x \notin {"write", "rmdir"},
           x \in {"create", "link", "symlink", "lock", "first", "second"} => use[u].tries < Attempts
    PROVE  SessionsInv'
<1> DEFINE new == [use[u] EXCEPT !.pc = x]
<1>1. use[u] \in UseLocals
  BY UsePlain
<1>2. new \in UseLocals /\ new.pc = x /\ new.registered = use[u].registered /\ new.tries = use[u].tries
  BY <1>1 DEF UseLocals
<1>3. use' = [use EXCEPT ![u] = new]
  BY DEF Moves
<1> HIDE DEF new
<1> QED BY <1>2, <1>3, UsePlain, OnKeeps

LEMMA UsingTypes == Using \in UseLocals /\ Using.tries = 0 /\ ~Using.registered /\ ~Using.named
BY AreUsePlaces, SessionsAssumption, ConfigAssumption DEF Using, UseLocals, Floor

LEMMA BeginKeeps == ASSUME SessionsInv, NEW u \in Seeders, Begin(u) PROVE SessionsInv'
<1>1. PICK wanted \in SUBSET Entries :
         use' = [use EXCEPT ![u] = [Using EXCEPT !.pc = "create", !.wanted = wanted]]
  BY DEF Begin
<1> DEFINE new == [Using EXCEPT !.pc = "create", !.wanted = wanted]
<1>2. new \in UseLocals /\ new.pc = "create" /\ ~new.registered /\ new.tries = 0
  BY UsingTypes, AreUsePlaces DEF UseLocals
<1>3. UNCHANGED <<config, seed, forget, there, link>> /\ uses' \in Nat /\ 0 < Attempts
  BY UsePlain, SessionsAssumption DEF Begin, directory
<1> HIDE DEF new
<1> QED BY <1>1, <1>2, <1>3, UsePlain, OnKeeps DEF new

LEMMA LinkKeeps == ASSUME SessionsInv, NEW u \in Seeders, Link(u) PROVE SessionsInv'
<1>0. /\ use[u].pc = "link" /\ use[u] \in UseLocals
      /\ UNCHANGED <<config, there, link, seed, forget, uses>>
      /\ use[u].tries < Attempts /\ use[u].wanted \subseteq Entries /\ use[u].found \subseteq Entries
  BY UsePlain DEF SessionsInv, Link, In, UseOf, UseLocals, directory
<1>1. PICK found \in SUBSET Entries, making \in SUBSET Entries, x \in {"link", "symlink", "failed"} :
         use' = [use EXCEPT ![u].found = found, ![u].making = making, ![u].pc = x]
  <2>1. PICK e \in use[u].wanted \ use[u].found :
           use' = [use EXCEPT ![u].found = IF link[e] = "live" THEN @ \cup {e} ELSE @,
                              ![u].making = IF link[e] = "none" THEN {e} ELSE {},
                              ![u].pc = CASE link[e] = "live" -> "link" [] link[e] = "none" -> "symlink"
                                          [] OTHER -> "failed"]
    BY DEF Link
  <2>2. PICK found \in SUBSET Entries : found = IF link[e] = "live" THEN use[u].found \cup {e} ELSE use[u].found
    BY <1>0
  <2>3. PICK making \in SUBSET Entries : making = IF link[e] = "none" THEN {e} ELSE {}
    BY <1>0
  <2>4. PICK x \in {"link", "symlink", "failed"} :
           x = CASE link[e] = "live" -> "link" [] link[e] = "none" -> "symlink" [] OTHER -> "failed"
    OBVIOUS
  <2> QED BY <2>1, <2>2, <2>3, <2>4
<1> DEFINE new == [use[u] EXCEPT !.found = found, !.making = making, !.pc = x]
<1>2. /\ new \in UseLocals /\ new.pc = x /\ new.registered = use[u].registered
      /\ new.tries = use[u].tries
  BY <1>0, AreUsePlaces DEF UseLocals
<1>3. use' = [use EXCEPT ![u] = new]
  BY <1>1
<1> HIDE DEF new
<1> QED BY <1>0, <1>2, <1>3, UsePlain, OnKeeps

LEMMA SymlinkKeeps == ASSUME SessionsInv, NEW u \in Seeders, Symlink(u) PROVE SessionsInv'
<1>0. /\ use[u].pc = "symlink" /\ use[u] \in UseLocals
      /\ UNCHANGED <<config, there, seed, forget, uses>>
      /\ use[u].tries < Attempts /\ use[u].making \subseteq Entries /\ use[u].found \subseteq Entries
  BY UsePlain DEF SessionsInv, Symlink, In, UseOf, UseLocals
<1>1. CASE Moves(u, "failed") /\ link' = link
  BY <1>0, <1>1, UsePlain, AreUsePlaces, MovesKeeps
<1>2. CASE /\ link' = [e \in Entries |-> IF e \in use[u].making THEN "live" ELSE link[e]]
           /\ use' = [use EXCEPT ![u].found = @ \cup use[u].making, ![u].making = {}, ![u].pc = "link"]
  <2> DEFINE new == [use[u] EXCEPT !.found = @ \cup use[u].making, !.making = {}, !.pc = "link"]
  <2>1. /\ new \in UseLocals /\ new.pc = "link" /\ new.registered = use[u].registered
        /\ new.tries = use[u].tries
    BY <1>0, AreUsePlaces DEF UseLocals
  <2>2. use' = [use EXCEPT ![u] = new] /\ link' \in [Entries -> {"none", "live", "other"}]
    BY <1>2, UsePlain
  <2> HIDE DEF new
  <2> QED BY <1>0, <2>1, <2>2, UsePlain, OnKeeps
<1> QED BY <1>1, <1>2 DEF Symlink

\* The steps that only move.
LEMMA WalkKeeps ==
    ASSUME SessionsInv, NEW u \in Seeders, CreateDir(u) \/ SeedOnce(u) \/ StartChild(u) \/ UseDies(u)
    PROVE  SessionsInv'
<1>0. use[u].pc \in {"create", "link"} => use[u].tries < Attempts
  BY DEF SessionsInv, UseOf
<1>1. PICK x \in {"link", "start", "open", "lock", "running", "dead"} :
         Moves(u, x) /\ (x \in {"link", "lock"} => use[u].pc \in {"create", "link"})
  <2>1. CASE CreateDir(u)
    BY <2>1 DEF CreateDir, In
  <2>2. CASE SeedOnce(u)
    <3>1. PICK x \in {"start", "open", "lock"} :
            x = IF seed # NoSeed THEN "start" ELSE IF file = Absent THEN "open" ELSE "lock"
      OBVIOUS
    <3> QED BY <2>2, <3>1 DEF SeedOnce, In
  <2>3. CASE StartChild(u) \/ UseDies(u)
    BY <2>3 DEF StartChild, UseDies
  <2> QED BY <2>1, <2>2, <2>3
<1>2. /\ UNCHANGED <<config, seed, forget, uses>> /\ there' \in BOOLEAN
      /\ link' \in [Entries -> {"none", "live", "other"}]
  BY UsePlain DEF CreateDir, SeedOnce, StartChild, UseDies, directory
<1>3. x \in UsePlaces
  BY AreUsePlaces
<1> QED BY <1>0, <1>1, <1>2, <1>3, MovesKeeps

LEMMA TryOnceKeeps == ASSUME SessionsInv, NEW u \in Seeders, TryOnce(u) PROVE SessionsInv'
<1>0. /\ use[u].pc = "lock" /\ use[u] \in UseLocals /\ use[u].tries < Attempts
      /\ UNCHANGED <<file, backups, temps, session, run, broken, there, link, seed, forget, uses>>
  BY UsePlain DEF SessionsInv, TryOnce, In, UseOf, directory
<1>1. CASE lock = NoLock
  <2> DEFINE new == [use[u] EXCEPT !.pc = "locked", !.registered = TRUE]
  <2>1. new \in UseLocals /\ new.pc = "locked"
    BY <1>0, AreUsePlaces DEF UseLocals
  <2>2. /\ use' = [use EXCEPT ![u].pc = "locked", ![u].registered = TRUE]
        /\ lock' = u /\ Reset
    BY <1>1 DEF TryOnce, Make, Reset
  <2>3. /\ use' \in [Seeders -> UseLocals] /\ OtherUses(u) /\ use'[u] = new
        /\ \A v \in Seeders \ {u} : use'[v] = use[v]
    BY <2>1, <2>2, UsePlain DEF OtherUses
  <2>4. UseOf(u)'
    BY <2>1, <2>3 DEF UseOf, In
  <2>5. SeedInv'
    <3>1. \A v \in Seeders : Writing(v)' => Writing(v)
      BY <2>1, <2>3 DEF Writing, In
    <3> QED BY <1>0, <3>1, UsePlain, SeedStays
  <2> QED BY <1>0, <1>1, <2>2, <2>3, <2>4, <2>5, UsePlain, TimesReset, UseKeeps DEF LockMoves
<1>2. CASE lock # NoLock
  <2>1. Moves(u, "first") /\ UNCHANGED config
    BY <1>2 DEF TryOnce, config, times
  <2> QED BY <1>0, <2>1, UsePlain, AreUsePlaces, MovesKeeps
<1> QED BY <1>1, <1>2

LEMMA ReadsKeep ==
    ASSUME SessionsInv, NEW u \in Seeders, ReadLocked(u) \/ FirstRead(u) PROVE SessionsInv'
<1>0. /\ use[u] \in UseLocals /\ UNCHANGED <<config, there, link, seed, forget, uses>>
      /\ Settings(file) \in Floor .. MaxVersion
      /\ use[u].pc = "first" => use[u].tries < Attempts
  BY UsePlain, AbsentFacts DEF SessionsInv, UseOf, ReadLocked, FirstRead, directory, Settings, Floor
<1>1. PICK x \in {"release", "second"} :
         /\ use' = [use EXCEPT ![u].read = Settings(file), ![u].pc = x]
         /\ x = "second" => use[u].pc = "first"
  BY DEF ReadLocked, FirstRead, In
<1> DEFINE new == [use[u] EXCEPT !.read = Settings(file), !.pc = x]
<1>2. /\ new \in UseLocals /\ new.pc = x /\ new.registered = use[u].registered
      /\ new.tries = use[u].tries
  BY <1>0, AreUsePlaces DEF UseLocals
<1>3. use' = [use EXCEPT ![u] = new]
  BY <1>1
<1> HIDE DEF new
<1>4. /\ new.pc \notin {"write", "rmdir"}
      /\ new.pc \in {"create", "link", "symlink", "lock", "first", "second"} => new.tries < Attempts
  BY <1>0, <1>1, <1>2
<1>5. there' \in BOOLEAN /\ link' \in [Entries -> {"none", "live", "other"}] /\ uses' \in Nat
  BY <1>0, UsePlain
<1> QED BY <1>0, <1>2, <1>3, <1>4, <1>5, OnKeeps

LEMMA SecondReadKeeps == ASSUME SessionsInv, NEW u \in Seeders, SecondRead(u) PROVE SessionsInv'
<1>0. /\ use[u] \in UseLocals /\ UNCHANGED <<config, there, link, seed, forget, uses>>
      /\ use[u].tries \in 0 .. Attempts /\ use[u].tries < Attempts
  BY UsePlain DEF SessionsInv, UseOf, SecondRead, directory, In, UseLocals
<1>1. PICK x \in {"open", "first", "failed"} :
         /\ use' = [use EXCEPT ![u].tries = @ + 1, ![u].pc = x]
         /\ x = "first" => use[u].tries + 1 < Attempts
  <2>1. PICK x \in {"open", "first", "failed"} :
           x = IF Settings(file) = use[u].read THEN "open"
               ELSE IF use[u].tries + 1 < Attempts THEN "first" ELSE "failed"
    OBVIOUS
  <2> QED BY <2>1 DEF SecondRead
<1> DEFINE new == [use[u] EXCEPT !.tries = @ + 1, !.pc = x]
<1>2. use[u].tries + 1 \in 0 .. Attempts
  BY <1>0, SessionsAssumption
<1>3. /\ new \in UseLocals /\ new.pc = x /\ new.registered = use[u].registered
      /\ new.tries = use[u].tries + 1
  BY <1>0, <1>2, AreUsePlaces DEF UseLocals
<1>4. use' = [use EXCEPT ![u] = new]
  BY <1>1
<1> HIDE DEF new
<1>5. /\ new.pc \notin {"write", "rmdir"}
      /\ new.pc \in {"create", "link", "symlink", "lock", "first", "second"} => new.tries < Attempts
  BY <1>1, <1>3
<1>6. there' \in BOOLEAN /\ link' \in [Entries -> {"none", "live", "other"}] /\ uses' \in Nat
  BY <1>0, UsePlain
<1> QED BY <1>0, <1>3, <1>4, <1>5, <1>6, OnKeeps

LEMMA GiveBackKeeps == ASSUME SessionsInv, NEW u \in Seeders, GiveBack(u) PROVE SessionsInv'
<1>0. use[u] \in UseLocals /\ UNCHANGED <<config, there, link, seed, forget, uses>>
  BY UsePlain DEF GiveBack, directory
<1>1. PICK x \in {"rmdir", "open"} :
         /\ use' = [use EXCEPT ![u].registered = FALSE, ![u].pc = x]
         /\ x = "rmdir" => use[u].registered
  <2>1. PICK x \in {"rmdir", "open"} : x = IF use[u].registered THEN "rmdir" ELSE "open"
    OBVIOUS
  <2> QED BY <2>1 DEF GiveBack
<1> DEFINE new == [use[u] EXCEPT !.registered = FALSE, !.pc = x]
<1>2. new \in UseLocals /\ new.pc = x /\ ~new.registered
  BY <1>0, AreUsePlaces DEF UseLocals
<1>3. use' = [use EXCEPT ![u] = new]
  BY <1>1
<1> HIDE DEF new
<1> QED BY <1>0, <1>1, <1>2, <1>3, UsePlain, OnKeeps

\* The lock removed: by its release, and by a signal's closure.
LEMMA RemovesKeep ==
    ASSUME SessionsInv, NEW u \in Seeders, RemoveItsLock(u) \/ UseSignalled(u) PROVE SessionsInv'
<1>0. /\ use[u] \in UseLocals /\ lock' = NoLock /\ Reset
      /\ UNCHANGED <<file, backups, temps, session, run, broken, there, link, seed, forget, uses>>
      /\ UseOf(u) /\ UseHolds(u)
  BY UsePlain DEF SessionsInv, RemoveItsLock, UseSignalled, Unmake, Reset, directory, UseHolds
<1>1. PICK new \in UseLocals :
         /\ use' = [use EXCEPT ![u] = new] /\ ~new.registered
         /\ new.named = use[u].named /\ new.tries = use[u].tries
         /\ new.pc = "open" \/ (new.pc = use[u].pc /\ new.pc # "rmdir")
  <2>1. CASE RemoveItsLock(u)
    <3> DEFINE new == [use[u] EXCEPT !.pc = "open"]
    <3>1. /\ new \in UseLocals /\ new.registered = use[u].registered /\ new.pc = "open"
          /\ new.named = use[u].named /\ new.tries = use[u].tries
      BY <1>0, AreUsePlaces DEF UseLocals
    <3>2. use' = [use EXCEPT ![u] = new] /\ ~use[u].registered
      BY <1>0, <2>1 DEF RemoveItsLock, Moves, UseOf
    <3> HIDE DEF new
    <3> QED BY <3>1, <3>2
  <2>2. CASE UseSignalled(u)
    <3> DEFINE new == [use[u] EXCEPT !.registered = FALSE]
    <3>1. /\ new \in UseLocals /\ ~new.registered /\ new.pc = use[u].pc
          /\ new.named = use[u].named /\ new.tries = use[u].tries
      BY <1>0 DEF UseLocals
    <3>2. use' = [use EXCEPT ![u] = new] /\ use[u].pc # "rmdir"
      BY <1>0, <2>2 DEF UseSignalled, UseOf, In
    <3> HIDE DEF new
    <3> QED BY <3>1, <3>2
  <2> QED BY <2>1, <2>2
<1>2. /\ use' \in [Seeders -> UseLocals] /\ OtherUses(u) /\ use'[u] = new
      /\ \A v \in Seeders \ {u} : use'[v] = use[v]
  BY <1>1, UsePlain DEF OtherUses
<1>3. UseOf(u)' /\ ~UseHolds(u)'
  BY <1>0, <1>1, <1>2 DEF UseOf, UseHolds, In
<1>4. SeedInv'
  <2>1. \A v \in Seeders : Writing(v)' => Writing(v)
    BY <1>1, <1>2 DEF Writing, In
  <2> QED BY <1>0, <2>1, UsePlain, SeedStays
<1> QED BY <1>0, <1>2, <1>3, <1>4, UsePlain, TimesReset, UseKeeps DEF LockMoves

LEMMA AreSeeds ==
    /\ NoSeed \in Seeds /\ Unwritten \in Seeds /\ Own \in Seeds /\ Floor .. MaxVersion \subseteq Seeds
    /\ NoSeed # Unwritten /\ NoSeed \notin Whole /\ Unwritten \notin Whole
BY ConfigAssumption DEF NoSeed, Unwritten, Own, Floor, Seeds, Whole

\* The seed made and written: one `use` comes to it, or the one that came has done.
LEMMA SeedKeeps ==
    ASSUME SessionsInv, NEW u \in Seeders, NEW new \in UseLocals, use' = [use EXCEPT ![u] = new],
           UNCHANGED <<config, there, link, forget, uses>>, seed' \in Seeds,
           new.pc \in {"start", "failed", "write"}, new.registered = use[u].registered,
           new.pc = "write" => seed' = Unwritten /\ seed = NoSeed,
           new.pc # "write" => seed' = seed \/ Writing(u)
    PROVE  SessionsInv'
<1>0. UNCHANGED <<file, lock, times, backups, temps, session, run, broken>>
  BY DEF config
<1>1. /\ use' \in [Seeders -> UseLocals] /\ OtherUses(u) /\ use'[u] = new
      /\ \A v \in Seeders \ {u} : use'[v] = use[v]
  BY UsePlain DEF OtherUses
<1>2. UseOf(u)'
  BY <1>1 DEF UseOf, In
<1>3. SeedInv'
  <2>1. \A v \in Seeders \ {u} : Writing(v)' => Writing(v)
    BY <1>1 DEF Writing, In
  <2>2. CASE new.pc = "write"
    <3>1. \A v \in Seeders : ~Writing(v)
      BY <2>2, UsePlain, AreSeeds DEF SeedInv
    <3> QED BY <2>1, <2>2, <3>1 DEF SeedInv
  <2>3. CASE new.pc # "write"
    <3>1. ~Writing(u)'
      BY <1>1, <2>3 DEF Writing, In
    <3> QED BY <2>1, <2>3, <3>1, UsePlain DEF SeedInv
  <2> QED BY <2>2, <2>3
<1>4. broken = {} /\ UseHolds(u)' => lock' = u
  BY <1>0, <1>1, UsePlain DEF UseHolds, In, LockInv
<1> QED BY <1>0, <1>1, <1>2, <1>3, <1>4, UsePlain, TimesStay, UseKeeps DEF LockMoves

LEMMA OpenSeedKeeps == ASSUME SessionsInv, NEW u \in Seeders, OpenSeed(u) PROVE SessionsInv'
<1>0. use[u] \in UseLocals /\ UNCHANGED <<config, there, link, forget, uses>> /\ seed \in Seeds
  BY UsePlain DEF OpenSeed
<1>1. CASE \E x \in {"start", "failed"} : Moves(u, x) /\ seed' = seed
  <2>1. PICK x \in {"start", "failed"} : Moves(u, x) /\ seed' = seed
    BY <1>1
  <2> QED BY <1>0, <2>1, UsePlain, AreUsePlaces, MovesKeeps
<1>2. CASE seed = NoSeed /\ seed' = Unwritten /\ use' = [use EXCEPT ![u].pc = "write", ![u].named = TRUE]
  <2> DEFINE new == [use[u] EXCEPT !.pc = "write", !.named = TRUE]
  <2>1. new \in UseLocals /\ new.pc = "write" /\ new.registered = use[u].registered
    BY <1>0, AreUsePlaces DEF UseLocals
  <2>2. use' = [use EXCEPT ![u] = new]
    BY <1>2
  <2> HIDE DEF new
  <2> QED BY <1>0, <1>2, <2>1, <2>2, AreSeeds, SeedKeeps
<1> QED BY <1>1, <1>2 DEF OpenSeed

LEMMA WriteSeedKeeps == ASSUME SessionsInv, NEW u \in Seeders, WriteSeed(u) PROVE SessionsInv'
<1>0. /\ use[u] \in UseLocals /\ UNCHANGED <<config, there, link, forget, uses>> /\ seed \in Seeds
      /\ use[u].read \in Floor .. MaxVersion /\ In(u, "write")
  BY UsePlain DEF WriteSeed, UseLocals
<1>1. PICK x \in {"start", "failed"} :
         /\ Moves(u, x) /\ (seed' = seed \/ (seed' = use[u].read /\ use[u].named))
  BY DEF WriteSeed
<1> DEFINE new == [use[u] EXCEPT !.pc = x]
<1>2. new \in UseLocals /\ new.pc = x /\ new.registered = use[u].registered
  BY <1>0, AreUsePlaces DEF UseLocals
<1>3. use' = [use EXCEPT ![u] = new]
  BY <1>1 DEF Moves
<1>4. seed' \in Seeds /\ (seed' = seed \/ Writing(u))
  BY <1>0, <1>1, AreSeeds DEF Writing
<1> HIDE DEF new
<1> QED BY <1>0, <1>2, <1>3, <1>4, SeedKeeps

-----------------------------------------------------------------------------
(* The session in the directory, and `use --forget`.                       *)

\* What is in a directory changes, and every `use` is where it was.
LEMMA DirKeeps ==
    ASSUME SessionsInv, UNCHANGED <<config, uses>>, use' \in [Seeders -> UseLocals],
           \A v \in Seeders : /\ use'[v].pc = use[v].pc
                              /\ use'[v].tries = use[v].tries
                              /\ use'[v].registered = use[v].registered
                              /\ use'[v].named => use[v].named,
           there' \in BOOLEAN, link' \in [Entries -> {"none", "live", "other"}], seed' \in Seeds,
           forget' \in [Forgets -> [pc : {"idle", "ask", "removing", "ended"},
                                     left : SUBSET (Entries \cup {SEED_FILE})]],
           seed' = seed \/ \A v \in Seeders : ~use'[v].named
    PROVE  SessionsInv'
<1>0. SessionsTypeOK /\ LockInv /\ SeedInv /\ \A v \in Seeders : UseOf(v)
  BY DEF SessionsInv
<1>1. UNCHANGED <<file, lock, age, stamped, overdue, backups, temps, session, run, broken>>
  BY DEF config, times
<1>2. SessionsTypeOK'
  BY <1>0, <1>1 DEF SessionsTypeOK, ConfigTypeOK
<1>3. ASSUME NEW q \in Runs PROVE RewriteOf(q)'
  BY <1>1 DEF SessionsInv, RewriteOf, At
<1>4. ASSUME NEW v \in Seeders PROVE UseOf(v)' /\ (Writing(v)' => Writing(v) /\ use'[v].named)
  BY <1>0 DEF UseOf, Writing, In
<1>5. SeedInv'
  BY <1>0, <1>4 DEF SeedInv
<1>6. LockInv'
  BY <1>0, <1>1 DEF LockInv, RunHolds, UseHolds, At, In
<1> QED BY <1>2, <1>3, <1>4, <1>5, <1>6 DEF SessionsInv

LEMMA SessionSavesKeeps == ASSUME SessionsInv, NEW u \in Seeders, SessionSaves(u) PROVE SessionsInv'
<1>1. use' = [v \in Seeders |-> [use[v] EXCEPT !.named = FALSE]]
  BY DEF SessionSaves
<1>2. ASSUME NEW v \in Seeders
      PROVE  /\ use'[v] \in UseLocals /\ use'[v].pc = use[v].pc /\ use'[v].tries = use[v].tries
             /\ use'[v].registered = use[v].registered /\ ~use'[v].named
  <2>1. use[v] \in UseLocals /\ use'[v] = [use[v] EXCEPT !.named = FALSE]
    BY <1>1, UsePlain
  <2> QED BY <2>1 DEF UseLocals
<1>3. use' \in [Seeders -> UseLocals]
  BY <1>1, <1>2
<1> QED BY <1>2, <1>3, UsePlain, AreSeeds, DirKeeps DEF SessionSaves

LEMMA AskKeeps == ASSUME SessionsInv, NEW f \in Forgets, Look(f) \/ Confirm(f) PROVE SessionsInv'
<1>0. UNCHANGED <<config, there, link, seed, use, uses>>
  BY DEF Look, Confirm, directory
<1>1. forget' \in [Forgets -> [pc : {"idle", "ask", "removing", "ended"},
                                left : SUBSET (Entries \cup {SEED_FILE})]]
  <2> DEFINE Forgetters == [pc : {"idle", "ask", "removing", "ended"},
                            left : SUBSET (Entries \cup {SEED_FILE})]
  <2>1. forget \in [Forgets -> Forgetters] /\ forget[f] \in Forgetters
    BY UsePlain
  <2>2. CASE Look(f)
    <3>1. PICK x \in {"ask", "ended"} : forget' = [forget EXCEPT ![f].pc = x]
      BY <2>2 DEF Look
    <3>2. [forget[f] EXCEPT !.pc = x] \in Forgetters
      BY <2>1
    <3> QED BY <2>1, <3>1, <3>2
  <2>3. CASE Confirm(f)
    <3>1. Contents \subseteq Entries \cup {SEED_FILE}
      BY DEF Contents
    <3>2. PICK new \in Forgetters : forget' = [forget EXCEPT ![f] = new]
      <4>1. PICK yes \in BOOLEAN :
               forget' = [forget EXCEPT ![f] = IF yes THEN [pc |-> "removing", left |-> Contents]
                                               ELSE [pc |-> "ended", left |-> {}]]
        BY <2>3 DEF Confirm
      <4>2. /\ [pc |-> "removing", left |-> Contents] \in Forgetters
            /\ [pc |-> "ended", left |-> {}] \in Forgetters
        BY <3>1
      <4> QED BY <4>1, <4>2
    <3> QED BY <2>1, <3>2
  <2> QED BY <2>2, <2>3
<1> QED BY <1>0, <1>1, UsePlain, DirKeeps

LEMMA RemoveKeeps == ASSUME SessionsInv, NEW f \in Forgets, Remove(f) \/ RemoveDir(f) PROVE SessionsInv'
<1> DEFINE Forgetters == [pc : {"idle", "ask", "removing", "ended"},
                          left : SUBSET (Entries \cup {SEED_FILE})]
<1>0. forget \in [Forgets -> Forgetters] /\ forget[f] \in Forgetters
  BY UsePlain
<1>1. CASE Remove(f)
  <2>1. PICK name \in forget[f].left :
           /\ forget' = [forget EXCEPT ![f].left = @ \ {name}]
           /\ link' = [e \in Entries |-> IF e = name THEN "none" ELSE link[e]]
           /\ seed' = IF name = SEED_FILE THEN NoSeed ELSE seed
           /\ use' = [u \in Seeders |->
                        [use[u] EXCEPT !.forgot = @ \/ Building(u), !.named = @ /\ name # SEED_FILE]]
    BY <1>1 DEF Remove
  <2>2. ASSUME NEW v \in Seeders
        PROVE  /\ use'[v] \in UseLocals /\ use'[v].pc = use[v].pc /\ use'[v].tries = use[v].tries
               /\ use'[v].registered = use[v].registered
               /\ use'[v].named => use[v].named /\ name # SEED_FILE
    <3>1. PICK b \in BOOLEAN, c \in BOOLEAN :
             b = (use[v].forgot \/ Building(v)) /\ c = (use[v].named /\ name # SEED_FILE)
      OBVIOUS
    <3>2. use[v] \in UseLocals /\ use'[v] = [use[v] EXCEPT !.forgot = b, !.named = c]
      BY <2>1, <3>1, UsePlain
    <3> QED BY <3>1, <3>2 DEF UseLocals
  <2>3. use' \in [Seeders -> UseLocals]
    BY <2>1, <2>2
  <2>4. forget' \in [Forgets -> Forgetters]
    <3>1. [forget[f] EXCEPT !.left = @ \ {name}] \in Forgetters
      BY <1>0
    <3> QED BY <1>0, <2>1, <3>1
  <2>5. /\ link' \in [Entries -> {"none", "live", "other"}] /\ seed' \in Seeds
        /\ seed' = seed \/ \A v \in Seeders : ~use'[v].named
    BY <2>1, <2>2, UsePlain, AreSeeds
  <2>6. UNCHANGED <<config, there, uses>>
    BY <1>1 DEF Remove
  <2> QED BY <2>2, <2>3, <2>4, <2>5, <2>6, UsePlain, DirKeeps
<1>2. CASE RemoveDir(f)
  <2>1. /\ forget' = [forget EXCEPT ![f].pc = "ended"] /\ there' \in BOOLEAN
        /\ use' = [u \in Seeders |-> [use[u] EXCEPT !.forgot = @ \/ Building(u)]]
        /\ UNCHANGED <<config, link, seed, uses>>
    BY <1>2 DEF RemoveDir
  <2>2. ASSUME NEW v \in Seeders
        PROVE  /\ use'[v] \in UseLocals /\ use'[v].pc = use[v].pc /\ use'[v].tries = use[v].tries
               /\ use'[v].registered = use[v].registered /\ use'[v].named = use[v].named
    <3>1. PICK b \in BOOLEAN : b = (use[v].forgot \/ Building(v))
      OBVIOUS
    <3>2. use[v] \in UseLocals /\ use'[v] = [use[v] EXCEPT !.forgot = b]
      BY <2>1, <3>1, UsePlain
    <3> QED BY <3>2 DEF UseLocals
  <2>3. use' \in [Seeders -> UseLocals]
    BY <2>1, <2>2
  <2>4. forget' \in [Forgets -> Forgetters]
    <3>1. [forget[f] EXCEPT !.pc = "ended"] \in Forgetters
      BY <1>0
    <3> QED BY <1>0, <2>1, <3>1
  <2> QED BY <2>1, <2>2, <2>3, <2>4, UsePlain, DirKeeps
<1> QED BY <1>1, <1>2

LEMMA SessionStutterKeeps == ASSUME SessionsInv, UNCHANGED sessionVars PROVE SessionsInv'
<1>1. UNCHANGED <<config, there, link, seed, use, forget, uses>>
  BY DEF sessionVars, directory
<1> QED BY <1>1, UsePlain, DirKeeps

-----------------------------------------------------------------------------
(* The invariant holds of every behaviour.                                 *)

LEMMA SessionsInvInit == SessionsInit => SessionsInv
<1> SUFFICES ASSUME NEW c \in Cases, Begins(c) PROVE SessionsInv
  BY DEF SessionsInit
<1>0. c.uses \in Nat
  BY SessionsAssumption
<1>1. /\ lock = NoLock /\ age = Fresh /\ stamped = {} /\ overdue = {} /\ backups = {} /\ temps = {} /\ broken = {}
      /\ session \in [Peers -> {"idle", "holds", "free", "gone"}]
  BY DEF Begins, ConfigInit
<1>2. file \in InFile
  <2>1. ASSUME NEW plain \in BOOLEAN
        PROVE  [account |-> Before, caches |-> TRUE, version |-> 1, plain |-> plain] \in Documents
    BY ConfigAssumption DEF Documents
  <2> QED BY <2>1 DEF Begins, ConfigInit, InFile
<1>3. Idle \in RunLocals /\ [Idle EXCEPT !.pc = "ended"] \in RunLocals
  <2>1. Idle \in RunLocals
    <3>1. Absent \in InFile /\ "idle" \in Places /\ 0 \in 0 .. Ladder
      BY AbsentFacts, ArePlaces, ConfigAssumption
    <3> QED BY <3>1 DEF Idle, RunLocals
  <2>2. "ended" \in Places
    BY ArePlaces
  <2> QED BY <2>1, <2>2 DEF RunLocals
<1>4. ASSUME NEW r \in Runs
      PROVE  run[r] \in RunLocals /\ run[r].pc \in {"idle", "ended"} /\ ~run[r].registered
  <2>1. run[r] = Idle \/ run[r] = [Idle EXCEPT !.pc = "ended"]
    BY DEF Begins, ConfigInit
  <2> QED BY <1>3, <2>1 DEF Idle
<1>5. run \in [Runs -> RunLocals]
  BY <1>4 DEF Begins, ConfigInit
<1>6. /\ use \in [Seeders -> UseLocals]
      /\ \A u \in Seeders : use[u].pc = "idle" /\ ~use[u].registered
  BY UsingTypes DEF Begins, Using
<1>7. /\ there \in BOOLEAN /\ link \in [Entries -> {"none", "live", "other"}]
      /\ seed \in Seeds /\ uses \in Nat
  BY <1>0, AreSeeds DEF Begins
<1>8. forget \in [Forgets -> [pc : {"idle", "ask", "removing", "ended"},
                                left : SUBSET (Entries \cup {SEED_FILE})]]
  BY DEF Begins, Unforgetting
<1>9. SessionsTypeOK
  BY <1>1, <1>2, <1>5, <1>6, <1>7, <1>8, AreAges DEF SessionsTypeOK, ConfigTypeOK
<1>10. \A r \in Runs : RewriteOf(r)
  BY <1>4 DEF RewriteOf, At
<1>11. (\A u \in Seeders : UseOf(u)) /\ SeedInv
  BY <1>6 DEF UseOf, SeedInv, Writing, In
<1>12. LockInv
  BY <1>4, <1>6 DEF LockInv, RunHolds, UseHolds, At, In
<1> QED BY <1>9, <1>10, <1>11, <1>12 DEF SessionsInv

LEMMA InvStep == SessionsInv /\ [SessionsNext]_sessionVars => SessionsInv'
<1> SUFFICES ASSUME SessionsInv, [SessionsNext]_sessionVars PROVE SessionsInv'
  OBVIOUS
<1>1. CASE ConfigNext /\ UNCHANGED <<directory, use, forget, uses>>
  <2>1. ASSUME NEW r \in Runs, Rewrite(r) PROVE SessionsInv'
    BY <1>1, <2>1, PreflightKeeps, AcquireKeeps, RecordTimeKeeps, ReadUnderLockKeeps, RecheckKeeps, WithdrawKeeps,
       EmergencyKeeps, RemoveLockKeeps, PlainKeeps, RenameKeeps DEF Rewrite
  <2> QED BY <1>1, <2>1, AgeKeeps, ClaudeCodeKeeps DEF ConfigNext
<1>2. ASSUME NEW u \in Seeders, Use(u) PROVE SessionsInv'
  BY <1>2, BeginKeeps, LinkKeeps, SymlinkKeeps, WalkKeeps, TryOnceKeeps, ReadsKeep, SecondReadKeeps, GiveBackKeeps,
     RemovesKeep, OpenSeedKeeps, WriteSeedKeeps, SessionSavesKeeps DEF Use
<1>3. ASSUME NEW f \in Forgets, ForgetStep(f) PROVE SessionsInv'
  BY <1>3, AskKeeps, RemoveKeeps DEF ForgetStep
<1> QED BY <1>1, <1>2, <1>3, SessionStutterKeeps DEF SessionsNext

LEMMA SessionsInvAlways == SessionsSpec => []SessionsInv
BY SessionsInvInit, InvStep, PTL DEF SessionsSpec

\* Every variable keeps its type: no number of attempts, versions or processes takes one out of it.
THEOREM SessionsTypeCorrect == SessionsSpec => []SessionsTypeOK
<1>1. SessionsInv => SessionsTypeOK
  BY DEF SessionsInv
<1> QED BY <1>1, SessionsInvAlways, PTL

-----------------------------------------------------------------------------
(* What a step may never do.                                               *)

\* The steps that touch the lock's directory.
LEMMA WhoUnmakes ==
    ASSUME SessionsNext, lock' # lock
    PROVE  \/ \E r \in Runs : Acquire(r) \/ RemoveLock(r) \/ Emergency(r)
           \/ \E u \in Seeders : TryOnce(u) \/ RemoveItsLock(u) \/ UseSignalled(u)
           \/ \E s \in Peers : SessionLocks(s) \/ SessionEnds(s)
<1>1. ASSUME NEW r \in Runs, Rewrite(r) PROVE Acquire(r) \/ RemoveLock(r) \/ Emergency(r)
  BY <1>1 DEF Rewrite, Preflight, Ask, Resolve, RecordTime, ReadUnderLock, Backup, Track, WriteTemp, Recheck,
     DriftCheck, Rename, Withdraw, Die
<1>2. ASSUME NEW s \in Peers, ClaudeCode(s) PROVE SessionLocks(s) \/ SessionEnds(s)
  BY <1>2 DEF ClaudeCode, SessionBeats, SessionGivesUp, SessionWrites, SessionDies
<1>3. ASSUME NEW u \in Seeders, Use(u) PROVE TryOnce(u) \/ RemoveItsLock(u) \/ UseSignalled(u)
  BY <1>3 DEF Use, Begin, CreateDir, Link, Symlink, SeedOnce, ReadLocked, GiveBack, FirstRead, SecondRead,
     OpenSeed, WriteSeed, StartChild, UseDies, SessionSaves, config
<1>4. ASSUME NEW f \in Forgets, ForgetStep(f) PROVE FALSE
  BY <1>4 DEF ForgetStep, Look, Confirm, Remove, RemoveDir, config
<1>5. Age => FALSE
  BY DEF Age
<1> QED BY <1>1, <1>2, <1>3, <1>4, <1>5 DEF SessionsNext, ConfigNext

LEMMA OwnLockStep ==
    ASSUME SessionsInv, [SessionsNext]_sessionVars, NEW p \in Peers, lock = p, lock' = NoLock, session' = session
    PROVE  broken # {}
<1>0. LockInv /\ session \in [Peers -> {"idle", "holds", "free", "gone"}]
  BY UsePlain DEF SessionsInv, SessionsTypeOK, ConfigTypeOK
<1>1. SessionsNext /\ lock' # lock
  BY Apart DEF sessionVars, config
<1>2. ASSUME NEW r \in Runs, Acquire(r) \/ RemoveLock(r) \/ Emergency(r) PROVE broken # {}
  <2>1. RunHolds(r) \/ lock = NoLock \/ lock' = lock
    BY <1>2 DEF Acquire, RemoveLock, Emergency, RunHolds, At
  <2> QED BY <1>0, <2>1, Apart DEF LockInv
<1>3. ASSUME NEW u \in Seeders, TryOnce(u) \/ RemoveItsLock(u) \/ UseSignalled(u) PROVE broken # {}
  <2>1. UseHolds(u) \/ lock = NoLock \/ lock' = lock
    BY <1>3 DEF TryOnce, RemoveItsLock, UseSignalled, UseHolds
  <2> QED BY <1>0, <2>1, Apart DEF LockInv
<1>4. ASSUME NEW s \in Peers, SessionLocks(s) \/ SessionEnds(s) PROVE FALSE
  <2>1. CASE SessionLocks(s)
    BY <2>1, Apart DEF SessionLocks, Make
  <2>2. CASE SessionEnds(s)
    <3>1. session[s] \in {"holds", "free"} /\ session'[s] = "idle"
      BY <1>0, <2>2 DEF SessionEnds
    <3> QED BY <3>1
  <2> QED BY <1>4, <2>1, <2>2
<1> QED BY <1>1, <1>2, <1>3, <1>4, WhoUnmakes

\* Until a session has reclaimed a lock from an agctl process that was stopped in its hold, agctl
\* removes no lock of a session's: not by its releases, and not by its signal handler's.
THEOREM RemovesOnlyItsOwn == SessionsSpec => RemovesItsOwnLock
<1>1. SessionsInv /\ [SessionsNext]_sessionVars =>
        [\A p \in Peers : (lock = p /\ lock' = NoLock /\ session' = session) => broken # {}]_sessionVars
  BY OwnLockStep
<1> QED BY <1>1, SessionsInvAlways, PTL DEF SessionsSpec, RemovesItsOwnLock

LEMMA SeedStep ==
    ASSUME SessionsInv, [SessionsNext]_sessionVars, seed \in Whole, seed' # seed
    PROVE  seed' = Own \/ (seed' = NoSeed /\ Forgetting)
<1>1. SessionsNext /\ SeedInv /\ seed # NoSeed /\ seed # Unwritten
  BY UsePlain, AreSeeds DEF sessionVars, directory
<1>2. CASE ConfigNext /\ UNCHANGED <<directory, use, forget, uses>>
  BY <1>2 DEF directory
<1>3. ASSUME NEW u \in Seeders, Use(u) PROVE seed' = Own
  <2>1. CASE OpenSeed(u)
    BY <1>1, <2>1 DEF OpenSeed
  <2>2. CASE WriteSeed(u)
    BY <1>1, <2>2 DEF WriteSeed, SeedInv, Writing
  <2>3. CASE SessionSaves(u)
    BY <2>3 DEF SessionSaves
  <2>4. CASE ~(OpenSeed(u) \/ WriteSeed(u) \/ SessionSaves(u))
    BY <1>3, <2>4 DEF Use, Begin, CreateDir, Link, Symlink, SeedOnce, TryOnce, ReadLocked, GiveBack,
       RemoveItsLock, FirstRead, SecondRead, StartChild, UseSignalled, UseDies, directory
  <2> QED BY <2>1, <2>2, <2>3, <2>4
<1>4. ASSUME NEW f \in Forgets, ForgetStep(f) PROVE seed' = NoSeed /\ Forgetting
  BY <1>4 DEF ForgetStep, Look, Confirm, Remove, RemoveDir, directory, Forgetting
<1> QED BY <1>1, <1>2, <1>3, <1>4 DEF SessionsNext

\* However many `use`s build one directory at once, a settings file that is there is replaced only
\* by the session that runs in it, and goes only with a `use --forget`.
THEOREM SeedsOnce == SessionsSpec => SeededOnce
<1>1. SessionsInv /\ [SessionsNext]_sessionVars =>
        [(seed \in Whole /\ seed' # seed) => seed' = Own \/ (seed' = NoSeed /\ Forgetting)]_sessionVars
  BY SeedStep
<1> QED BY <1>1, SessionsInvAlways, PTL DEF SessionsSpec, SeededOnce

\* A rewrite replaces the document it has read and backed up, whatever the sessions and the other
\* rewrites do: what it loses was written after its last look by one that did not have the lock,
\* after its last look at the lock, or with a lock reclaimed before it recorded the lock's time.
THEOREM ReplacesTheRead == SessionsSpec => ReplacesWhatItRead
<1>1. SessionsInv => \A r \in Runs : At(r, "rename") => run[r].basis \in backups
                                                  /\ (file = run[r].basis \/ run[r].raced)
  BY DEF SessionsInv, RewriteOf, At
<1>2. SessionsInv /\ [SessionsNext]_sessionVars =>
        [\A r \in Runs : (At(r, "rename") /\ file' # file) =>
            run[r].basis \in backups /\ (file = run[r].basis \/ run[r].raced)]_sessionVars
  BY <1>1
<1> QED BY <1>2, SessionsInvAlways, PTL DEF SessionsSpec, ReplacesWhatItRead

=============================================================================
