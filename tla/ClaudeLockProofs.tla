-------------------------- MODULE ClaudeLockProofs --------------------------
(***************************************************************************)
(* What ClaudeLock guarantees for any number of processes, of nested locks *)
(* and of restarts, whatever happens beside them.                          *)
(***************************************************************************)
EXTENDS ClaudeLockInvariant, TLAPS

USE DEF Processes, Locks

----------------------------------------------------------------------------
(* The locals.                                                             *)

LEMMA NoLocalsType ==
    /\ NoLocals \in Locals
    /\ NoLocals.got = 0 /\ NoLocals.breaks = 0
BY DepthAssumption, RestartsAssumption DEF NoLocals, Locals

LEMMA LocalTypes ==
    ASSUME NEW m \in Locals
    PROVE  /\ m.k \in 1 .. Depth /\ m.got \in 0 .. Depth /\ m.breaks \in 0 .. Depth
           /\ m.tried \in BOOLEAN
           /\ m.broke \in 0 .. Depth /\ m.found \in 0 .. Depth /\ m.restarts \in 0 .. MaxRestarts
BY DEF Locals

LEMMA SetK ==
    ASSUME NEW m \in Locals, NEW k \in 1 .. Depth
    PROVE  LET n == [m EXCEPT !.k = k] IN
           n \in Locals /\ n.got = m.got /\ n.breaks = m.breaks /\ n.tried = m.tried
BY DEF Locals

LEMMA SetTried ==
    ASSUME NEW m \in Locals, NEW k \in 1 .. Depth
    PROVE  LET n == [m EXCEPT !.tried = TRUE, !.k = k] IN
           n \in Locals /\ n.got = m.got /\ n.breaks = m.breaks /\ n.tried = TRUE
BY Zenon DEF Locals

LEMMA SetBroke ==
    ASSUME NEW m \in Locals, NEW k \in 1 .. Depth, m.breaks = 0
    PROVE  LET n == [m EXCEPT !.tried = TRUE, !.broke = k, !.breaks = @ + 1] IN
           n \in Locals /\ n.got = m.got /\ n.breaks = 1 /\ n.tried = TRUE
<1>1. 0 + 1 = 1 /\ k \in 0 .. Depth /\ 1 \in 0 .. Depth
  BY DepthAssumption
<1> QED
  BY <1>1, Zenon DEF Locals

LEMMA SetGot ==
    ASSUME NEW m \in Locals, NEW g \in 0 .. Depth
    PROVE  LET n == [m EXCEPT !.got = g] IN
           n \in Locals /\ n.got = g /\ n.breaks = m.breaks /\ n.tried = m.tried
BY DEF Locals

LEMMA SetFound ==
    ASSUME NEW m \in Locals, NEW f \in 0 .. Depth
    PROVE  LET n == [m EXCEPT !.found = f] IN
           n \in Locals /\ n.got = m.got /\ n.breaks = m.breaks /\ n.tried = m.tried
BY DEF Locals

LEMMA SetRestart ==
    ASSUME NEW m \in Locals, m.restarts # MaxRestarts
    PROVE  LET n == [m EXCEPT !.found = 0, !.restarts = @ + 1] IN
           n \in Locals /\ n.got = m.got /\ n.breaks = m.breaks /\ n.tried = m.tried
<1>1. m.restarts + 1 \in 0 .. MaxRestarts /\ 0 \in 0 .. Depth
  BY DepthAssumption, RestartsAssumption DEF Locals
<1> QED
  BY <1>1, Zenon DEF Locals

----------------------------------------------------------------------------
(* One agent's step, in its place and its locals.                          *)

\* What one agent's place and locals must be.
Fits(l, m) ==
    /\ l \in Outside => m.got = 0
    /\ l = "take" => m.got < Depth
    /\ m.breaks <= 1
    /\ ~m.tried => m.breaks = 0
    /\ l \in Sampling => ~m.tried

\* A step of a that leaves the others alone.
StepOK(a) ==
    /\ pc' \in [Agents -> Labels] /\ loc' \in [Agents -> Locals]
    /\ \A b \in Agents \ {a} : pc'[b] = pc[b] /\ loc'[b] = loc[b]
    /\ Fits(pc'[a], loc'[a])
    /\ pc'[a] # "dead"

LEMMA StepTo ==
    ASSUME TypeOK, NEW a \in Agents, NEW l \in Labels, NEW m \in Locals,
           Goto(a, l), Set(a, m), Fits(l, m), l # "dead"
    PROVE  StepOK(a) /\ pc'[a] = l /\ loc'[a] = m
BY DEF TypeOK, Goto, Set, StepOK

LEMMA StepGoto ==
    ASSUME TypeOK, NEW a \in Agents, NEW l \in Labels,
           Goto(a, l), UNCHANGED loc, Fits(l, loc[a]), l # "dead"
    PROVE  StepOK(a) /\ pc'[a] = l /\ loc'[a] = loc[a]
BY DEF TypeOK, Goto, StepOK

LEMMA StepSet ==
    ASSUME TypeOK, NEW a \in Agents, NEW m \in Locals,
           UNCHANGED pc, Set(a, m), Fits(pc[a], m), pc[a] # "dead"
    PROVE  StepOK(a) /\ pc'[a] = pc[a] /\ loc'[a] = m
BY DEF TypeOK, Set, StepOK

LEMMA StepEnd ==
    ASSUME TypeOK, NEW a \in Agents, End(a)
    PROVE  StepOK(a) /\ pc'[a] = "idle"
<1>1. Fits("idle", NoLocals)
  BY NoLocalsType DEF Fits, Sampling
<1> QED
  BY <1>1, NoLocalsType, StepTo DEF End, Labels

LEMMA StepNextLock ==
    ASSUME TypeOK, NEW a \in Agents, NEW m \in Locals, Fits("probe", m), NextLock(a, m)
    PROVE  StepOK(a) /\ pc'[a] \in {"probe", "retaken"}
<1>1. CASE m.k = Depth
  <2>1. 1 \in 1 .. Depth
    BY DepthAssumption
  <2>2. Fits("retaken", [m EXCEPT !.k = 1])
    BY <2>1, SetK DEF Fits, Outside, Waiting, Sampling
  <2> QED
    BY <1>1, <2>1, <2>2, SetK, StepTo DEF NextLock, Labels
<1>2. CASE m.k # Depth
  <2>1. m.k + 1 \in 1 .. Depth
    BY <1>2, LocalTypes, DepthAssumption
  <2>2. Fits("probe", [m EXCEPT !.k = m.k + 1])
    BY <2>1, SetK DEF Fits, Outside, Waiting, Sampling
  <2> QED
    BY <1>2, <2>1, <2>2, SetK, StepTo DEF NextLock, Labels
<1> QED
  BY <1>1, <1>2

LEMMA StepAbandon ==
    ASSUME TypeOK, NEW a \in Agents, Fits("probe", loc[a]), Abandon(a)
    PROVE  StepOK(a) /\ pc'[a] = "retaken"
<1>1. 1 \in 1 .. Depth /\ loc[a] \in Locals
  BY DepthAssumption DEF TypeOK
<1>2. Fits("retaken", [loc[a] EXCEPT !.tried = TRUE, !.k = 1])
  BY <1>1, SetTried DEF Fits, Outside, Waiting, Sampling
<1> QED
  BY <1>1, <1>2, SetTried, StepTo DEF Abandon, Labels

LEMMA FitsNow ==
    ASSUME TypeOK, Shape, NEW a \in Agents
    PROVE  loc[a] \in Locals /\ Fits(pc[a], loc[a])
BY DEF TypeOK, Shape, Fits

\* Up to the record, and by hand: the agent stays outside.
Searches(a) ==
    \/ Begin(a) \/ Probe(a) \/ SampleA(a) \/ SampleB(a) \/ SampleC(a) \/ Break(a) \/ Retaken(a)
    \/ Primary(a) \/ Contend(a)
    \/ (\E l \in Locks : Permit(a, l)) \/ FirstSample(a) \/ SecondSample(a) \/ Remove(a)

LEMMA SearchStep ==
    ASSUME TypeOK, Shape, NEW a \in Agents, Searches(a)
    PROVE  StepOK(a) /\ pc[a] \in Outside \ {"unarm"} /\ pc'[a] \in Outside
<1> USE DEF At
<1>1. loc[a] \in Locals /\ Fits(pc[a], loc[a])
  BY FitsNow
<1>2. pc[a] \in Outside \ {"unarm"}
  BY DEF Searches, Begin, Probe, SampleA, SampleB, SampleC, Break, Retaken, Primary, Contend, Permit,
         FirstSample, SecondSample, Remove, Outside, Waiting
<1>3. \A l \in {"probe", "retaken", "primary", "contend", "record", "first", "second", "remove"} :
        l \in Labels /\ l # "dead" /\ l \in Outside /\ Fits(l, loc[a])
  BY <1>1, <1>2 DEF Fits, Labels, Outside, Waiting, Sampling
<1>4. \A l \in Sampling :
        l \in Labels /\ l # "dead" /\ l \in Outside /\ (~loc[a].tried => Fits(l, loc[a]))
  BY <1>1, <1>2 DEF Fits, Labels, Outside, Waiting, Sampling
<1>5. pc[a] \in Sampling => ~loc[a].tried
  BY <1>1 DEF Fits
<1>6. "idle" \in Outside /\ "probe" \in Outside /\ "retaken" \in Outside
  BY DEF Outside, Waiting
<1>7. CASE Begin(a)
  BY <1>2, <1>3, <1>7, StepGoto DEF Begin
<1>8. CASE Probe(a)
  <2>1. CASE End(a)
    BY <1>2, <1>6, <2>1, StepEnd
  <2>2. CASE NextLock(a, loc[a])
    BY <1>1, <1>2, <1>3, <1>6, <2>2, StepNextLock
  <2>3. CASE ~loc[a].tried /\ Goto(a, "sampleA") /\ UNCHANGED loc
    BY <1>2, <1>4, <2>3, StepGoto DEF Sampling
  <2> QED
    BY <1>8, <2>1, <2>2, <2>3 DEF Probe
<1>9. CASE SampleA(a)
  <2>0. pc[a] \in Sampling
    BY <1>9 DEF SampleA, Sampling
  <2>1. CASE End(a)
    BY <1>2, <1>6, <2>1, StepEnd
  <2>2. CASE NextLock(a, loc[a])
    BY <1>1, <1>2, <1>3, <1>6, <2>2, StepNextLock
  <2>3. CASE Abandon(a)
    BY <1>2, <1>3, <1>6, <2>3, StepAbandon
  <2>4. CASE Goto(a, "sampleB") /\ UNCHANGED loc
    BY <1>2, <1>4, <1>5, <2>0, <2>4, StepGoto DEF Sampling
  <2> QED
    BY <1>9, <2>1, <2>2, <2>3, <2>4 DEF SampleA
<1>10. CASE SampleB(a)
  <2>0. pc[a] \in Sampling
    BY <1>10 DEF SampleB, Sampling
  <2>1. CASE End(a)
    BY <1>2, <1>6, <2>1, StepEnd
  <2>2. CASE NextLock(a, loc[a])
    BY <1>1, <1>2, <1>3, <1>6, <2>2, StepNextLock
  <2>3. CASE Abandon(a)
    BY <1>2, <1>3, <1>6, <2>3, StepAbandon
  <2>4. CASE Goto(a, "sampleC") /\ UNCHANGED loc
    BY <1>2, <1>4, <1>5, <2>0, <2>4, StepGoto DEF Sampling
  <2> QED
    BY <1>10, <2>1, <2>2, <2>3, <2>4 DEF SampleB
<1>11. CASE SampleC(a)
  <2>0. pc[a] \in Sampling
    BY <1>11 DEF SampleC, Sampling
  <2>2. CASE NextLock(a, loc[a])
    BY <1>1, <1>2, <1>3, <1>6, <2>2, StepNextLock
  <2>3. CASE Abandon(a)
    BY <1>2, <1>3, <1>6, <2>3, StepAbandon
  <2>4. CASE Goto(a, "break") /\ UNCHANGED loc
    BY <1>2, <1>4, <1>5, <2>0, <2>4, StepGoto DEF Sampling
  <2> QED
    BY <1>11, <2>2, <2>3, <2>4 DEF SampleC
<1>12. CASE Break(a)
  <2>0. pc[a] \in Sampling
    BY <1>12 DEF Break, Sampling
  <2>1. CASE End(a)
    BY <1>2, <1>6, <2>1, StepEnd
  <2>2. CASE NextLock(a, loc[a])
    BY <1>1, <1>2, <1>3, <1>6, <2>2, StepNextLock
  <2>3. CASE NextLock(a, [loc[a] EXCEPT !.tried = TRUE, !.broke = loc[a].k, !.breaks = @ + 1])
    <3> DEFINE n == [loc[a] EXCEPT !.tried = TRUE, !.broke = loc[a].k, !.breaks = @ + 1]
    <3>1. loc[a].breaks = 0 /\ loc[a].got = 0 /\ loc[a].k \in 1 .. Depth
      BY <1>1, <1>2, <1>5, <2>0, LocalTypes DEF Fits
    <3>2. n \in Locals /\ n.got = 0 /\ n.breaks = 1 /\ n.tried = TRUE
      BY <1>1, <3>1, SetBroke
    <3>3. Fits("probe", n)
      BY <3>2 DEF Fits, Sampling
    <3> QED
      BY <1>2, <1>6, <2>3, <3>2, <3>3, StepNextLock
  <2> QED
    BY <1>12, <2>1, <2>2, <2>3 DEF Break
<1>13. CASE Retaken(a)
  BY <1>2, <1>3, <1>6, <1>13, StepEnd, StepGoto DEF Retaken
<1>14. CASE Primary(a)
  BY <1>2, <1>3, <1>14, StepGoto DEF Primary
<1>15. CASE Contend(a)
  BY <1>2, <1>3, <1>6, <1>15, StepEnd, StepGoto DEF Contend
<1>16. CASE \E l \in Locks : Permit(a, l)
  <2>1. PICK l \in Locks : Permit(a, l)
    BY <1>16
  <2>2. Fits("first", [NoLocals EXCEPT !.k = l])
    BY <2>1, NoLocalsType, SetK DEF Fits, Sampling
  <2> QED
    BY <1>2, <1>3, <2>1, <2>2, NoLocalsType, SetK, StepTo DEF Permit
<1>17. CASE FirstSample(a)
  BY <1>2, <1>3, <1>6, <1>17, StepEnd, StepGoto DEF FirstSample
<1>18. CASE SecondSample(a)
  BY <1>2, <1>3, <1>6, <1>18, StepEnd, StepGoto DEF SecondSample
<1>19. CASE Remove(a)
  BY <1>2, <1>6, <1>19, StepEnd DEF Remove
<1> QED
  BY <1>7, <1>8, <1>9, <1>10, <1>11, <1>12, <1>13, <1>14, <1>15, <1>16, <1>17, <1>18, <1>19 DEF Searches

----------------------------------------------------------------------------
(* The directories.                                                        *)

\* No agent owns a directory it did not own.
NoneTaken == \A a \in Agents, l \in Locks : lock'[l].by = a => lock[l].by = a

LockType == [Locks -> [by : Processes \cup {NoOne}, old : BOOLEAN]]
SameType == [Agents -> SUBSET Locks]

LEMMA OwnedType ==
    \A x \in Processes \cup {NoOne} :
        Owned(x) \in [by : Processes \cup {NoOne}, old : BOOLEAN] /\ Owned(x).by = x
BY DEF Owned

LEMMA RmdirStep ==
    ASSUME TypeOK, NEW l \in Locks, Rmdir(l)
    PROVE  /\ lock' \in LockType /\ same' \in SameType
           /\ NoneTaken /\ lock'[l].by = NoOne
<1>1. lock \in LockType /\ same \in SameType
  BY DEF TypeOK, LockType, SameType
<1>2. Free \in [by : Processes \cup {NoOne}, old : BOOLEAN] /\ Free.by = NoOne
  BY OwnedType DEF Free
<1>3. lock' \in LockType /\ lock'[l] = Free /\ \A m \in Locks \ {l} : lock'[m] = lock[m]
  BY <1>1, <1>2 DEF Rmdir, LockType
<1>4. same' \in SameType
  BY <1>1 DEF Rmdir, Touched, SameType
<1> QED
  BY <1>2, <1>3, <1>4, AgentsAssumption DEF NoneTaken

LEMMA ReadType ==
    ASSUME TypeOK, NEW a \in Agents, NEW l \in Locks, Read(a, l)
    PROVE  same' \in SameType
BY DEF TypeOK, Read, SameType

LEMMA TakenStep ==
    ASSUME TypeOK, NEW x \in Processes, NEW l \in Locks, lock' = [lock EXCEPT ![l] = Owned(x)]
    PROVE  /\ lock' \in LockType
           /\ lock'[l].by = x /\ \A m \in Locks \ {l} : lock'[m] = lock[m]
<1>1. lock \in LockType
  BY DEF TypeOK, LockType
<1> QED
  BY <1>1, OwnedType DEF LockType

LEMMA BeatStep ==
    ASSUME TypeOK, NEW p \in Peers, Beat(p)
    PROVE  lock' \in LockType /\ same' \in SameType /\ NoneTaken
<1>1. lock \in LockType /\ same \in SameType
  BY DEF TypeOK, LockType, SameType
<1>2. same' \in SameType
  BY <1>1 DEF Beat, Touched, SameType
<1>3. lock' \in LockType /\ \A l \in Locks : lock'[l].by = lock[l].by
  BY <1>1, OwnedType DEF Beat, LockType
<1> QED
  BY <1>2, <1>3 DEF NoneTaken

----------------------------------------------------------------------------
(* The invariant, agent by agent.                                          *)

\* What LockInv says of one agent.
Sound(a) ==
    /\ Fits(pc[a], loc[a])
    /\ pc[a] = "dead" <=> state[a] = "dead"
    /\ \A l \in Locks :
         lock[l].by = a => a \in record /\ (pc[a] = "dead" \/ (pc[a] \in Owning /\ l <= loc[a].got))
    /\ pc[a] \in {"take", "undo", "arm"} => a \in record /\ ~undoing[a].own
    /\ a \in armed => pc[a] \in {"held", "write", "release", "unarm"}
    /\ undoing[a].own => undoing[a].left > 0 /\ \A l \in Locks : lock[l].by = a => l <= undoing[a].left

LEMMA InvIsSound == LockInv => TypeOK /\ \A a \in Agents : Sound(a)
BY DEF LockInv, Shape, Fits, OwnedIsTaken, RecordFirst, ArmedIsTaken, UndoingInOrder, Sound

LEMMA SoundIsInv == TypeOK' /\ (\A a \in Agents : Sound(a)') => LockInv'
BY DEF LockInv, Shape, Fits, OwnedIsTaken, RecordFirst, ArmedIsTaken, UndoingInOrder, Sound

\* The step leaves agent b alone, or takes directories from it.
Spares(b) ==
    /\ pc'[b] = pc[b] /\ loc'[b] = loc[b] /\ undoing'[b] = undoing[b]
    /\ state'[b] = "dead" <=> state[b] = "dead"
    /\ b \in record' <=> b \in record
    /\ b \in armed' <=> b \in armed
    /\ \A l \in Locks : lock'[l].by = b => lock[l].by = b

LEMMA SparedIsSound ==
    ASSUME NEW b \in Agents, Sound(b), Spares(b)
    PROVE  Sound(b)'
BY DEF Sound, Spares, Fits

\* A step of the processes and clocks beside the agents.
LEMMA BesideStep ==
    ASSUME LockInv, TypeOK', NoneTaken, UNCHANGED <<pc, loc, record, armed, undoing>>,
           \A a \in Agents : state'[a] = "dead" <=> state[a] = "dead"
    PROVE  LockInv'
<1>1. \A a \in Agents : Spares(a)
  BY DEF Spares, NoneTaken
<1> QED
  BY <1>1, SparedIsSound, InvIsSound, SoundIsInv

\* A step of one agent.
LEMMA OneAgentStep ==
    ASSUME LockInv, TypeOK', NEW a \in Agents, \A b \in Agents \ {a} : Spares(b), Sound(a)'
    PROVE  LockInv'
<1>1. \A b \in Agents : Sound(b)'
  BY SparedIsSound, InvIsSound
<1> QED
  BY <1>1, SoundIsInv

----------------------------------------------------------------------------
(* Every step preserves the invariant.                                     *)

LEMMA SearchFrame ==
    ASSUME TypeOK, NEW a \in Agents, Searches(a)
    PROVE  /\ lock' \in LockType /\ same' \in SameType /\ lapsed' \in BOOLEAN /\ NoneTaken
           /\ UNCHANGED <<state, record, armed, undoing, cancelled>>
<1> USE DEF HoldKeeps, HeldKeeps, Others
<1>1. lock \in LockType /\ same \in SameType /\ lapsed \in BOOLEAN /\ loc[a].k \in Locks
  BY LocalTypes DEF TypeOK, LockType, SameType
<1>2. CASE UNCHANGED <<lock, same, lapsed>>
  <2>1. lock' \in LockType /\ same' \in SameType /\ lapsed' \in BOOLEAN /\ NoneTaken
    BY <1>1, <1>2 DEF NoneTaken
  <2> QED
    BY <2>1 DEF Searches, Begin, Probe, SampleA, SampleB, SampleC, Break, Retaken, Primary, Contend,
                Permit, FirstSample, SecondSample, Remove
<1>3. CASE SampleA(a) \/ FirstSample(a)
  <2>1. same' \in SameType
    BY <1>1, <1>3, ReadType DEF SampleA, FirstSample
  <2> QED
    BY <1>1, <1>3, <2>1 DEF SampleA, FirstSample, NoneTaken
<1>4. CASE Break(a) /\ ~UNCHANGED <<lock, same, lapsed>>
  <2>1. Rmdir(loc[a].k) /\ lapsed' = (lapsed \/ loc[a].k \notin same[a])
    BY <1>4 DEF Break
  <2> QED
    BY <1>1, <1>4, <2>1, RmdirStep DEF Break
<1>5. CASE Remove(a)
  BY <1>1, <1>5, RmdirStep DEF Remove
<1> QED
  BY <1>2, <1>3, <1>4, <1>5
  DEF Searches, Begin, Probe, SampleA, SampleB, SampleC, Break, Retaken, Primary, Contend, Permit,
      FirstSample, SecondSample, Remove

LEMMA SearchInv ==
    ASSUME LockInv, NEW a \in Agents, Searches(a)
    PROVE  LockInv'
<1>1. TypeOK /\ Shape /\ \A b \in Agents : Sound(b)
  BY InvIsSound DEF LockInv
<1>2. StepOK(a) /\ pc[a] \in Outside \ {"unarm"} /\ pc'[a] \in Outside
  BY <1>1, SearchStep
<1>3. /\ lock' \in LockType /\ same' \in SameType /\ lapsed' \in BOOLEAN /\ NoneTaken
      /\ UNCHANGED <<state, record, armed, undoing, cancelled>>
  BY <1>1, SearchFrame
<1>4. TypeOK'
  BY <1>1, <1>2, <1>3 DEF TypeOK, StepOK, LockType, SameType
<1>5. \A b \in Agents \ {a} : Spares(b)
  BY <1>2, <1>3 DEF StepOK, Spares, NoneTaken
<1>6. Sound(a)'
  BY <1>1, <1>2, <1>3 DEF Sound, StepOK, NoneTaken, Outside, Waiting, Owning
<1> QED
  BY <1>4, <1>5, <1>6, OneAgentStep

LEMMA RecordInv ==
    ASSUME LockInv, NEW a \in Agents, Record(a)
    PROVE  LockInv'
<1> USE DEF At, Others
<1>1. TypeOK /\ Shape /\ \A b \in Agents : Sound(b)
  BY InvIsSound DEF LockInv
<1>2. loc[a] \in Locals /\ loc[a].got = 0 /\ Fits(pc[a], loc[a]) /\ pc[a] = "record"
  BY <1>1, FitsNow DEF Record, Fits, Outside
<1>3. \A l \in Locks : lock[l].by # a
  BY <1>1, <1>2 DEF Sound, Owning
<1>4. a \notin armed
  BY <1>1, <1>2 DEF Sound
<1>5. CASE End(a) /\ UNCHANGED <<record, undoing>>
  <2>1. StepOK(a) /\ pc'[a] = "idle"
    BY <1>1, <1>5, StepEnd
  <2>2. TypeOK'
    BY <1>1, <1>5, <2>1 DEF Record, TypeOK, StepOK
  <2>3. \A b \in Agents \ {a} : Spares(b)
    BY <1>5, <2>1 DEF Record, StepOK, Spares
  <2>4. Sound(a)'
    BY <1>1, <1>2, <1>3, <1>4, <1>5, <2>1 DEF Record, Sound, StepOK
  <2> QED
    BY <2>2, <2>3, <2>4, OneAgentStep
<1>6. CASE /\ record' = record \cup {a}
           /\ undoing' = [undoing EXCEPT ![a].own = FALSE]
           /\ Goto(a, "take") /\ UNCHANGED loc
  <2>1. "take" \in Labels /\ "take" # "dead" /\ Fits("take", loc[a])
    BY <1>2, DepthAssumption DEF Labels, Fits, Outside, Waiting, Sampling
  <2>2. StepOK(a) /\ pc'[a] = "take" /\ loc'[a] = loc[a]
    BY <1>1, <1>6, <2>1, StepGoto
  <2>3. /\ undoing' \in [Agents -> [left : 0 .. Depth, own : BOOLEAN]]
        /\ ~undoing'[a].own /\ \A b \in Agents \ {a} : undoing'[b] = undoing[b]
    <3>1. undoing \in [Agents -> [left : 0 .. Depth, own : BOOLEAN]]
      BY <1>1 DEF TypeOK
    <3> QED
      BY <1>6, <3>1
  <2>4. TypeOK'
    BY <1>1, <1>6, <2>2, <2>3 DEF Record, TypeOK, StepOK
  <2>5. \A b \in Agents \ {a} : Spares(b)
    BY <1>6, <2>2, <2>3 DEF Record, StepOK, Spares
  <2>6. Sound(a)'
    BY <1>1, <1>2, <1>3, <1>4, <1>6, <2>2, <2>3 DEF Record, Sound, StepOK
  <2> QED
    BY <2>4, <2>5, <2>6, OneAgentStep
<1> QED
  BY <1>5, <1>6 DEF Record

LEMMA MadeType ==
    ASSUME TypeOK, NEW a \in Agents, NEW l \in Locks, Made(a, l)
    PROVE  same' \in SameType
BY DEF TypeOK, Made, SameType

LEMMA TakeInv ==
    ASSUME LockInv, NEW a \in Agents, Take(a)
    PROVE  LockInv'
<1> USE DEF At, HoldKeeps, HeldKeeps, Others
<1> DEFINE k == loc[a].got + 1
<1>1. TypeOK /\ Shape /\ \A b \in Agents : Sound(b)
  BY InvIsSound DEF LockInv
<1>2. loc[a] \in Locals /\ Fits(pc[a], loc[a]) /\ pc[a] = "take" /\ loc[a].got < Depth
  BY <1>1, FitsNow DEF Take, Fits
<1>3. k \in Locks /\ k \in 0 .. Depth /\ loc[a].got \in 0 .. Depth
  BY <1>2, LocalTypes, DepthAssumption
<1>4. a \in record /\ ~undoing[a].own /\ a \notin armed
  BY <1>1, <1>2 DEF Sound
<1>5. lock \in LockType /\ same \in SameType
  BY <1>1 DEF TypeOK, LockType, SameType
<1>6. ASSUME NEW l \in {"arm", "take", "undo"}, NEW m \in Locals,
             m.breaks = loc[a].breaks, m.tried = loc[a].tried, l = "take" => m.got < Depth
      PROVE  l \in Labels /\ l # "dead" /\ Fits(l, m)
  BY <1>2, <1>6 DEF Labels, Fits, Outside, Waiting, Sampling
<1>7. CASE /\ ~Exists(k) /\ lock' = [lock EXCEPT ![k] = Owned(a)]
           /\ Made(a, k)
           /\ Set(a, [loc[a] EXCEPT !.got = k])
           /\ Goto(a, IF k = Depth THEN "arm" ELSE "take") \/ Goto(a, "undo")
  <2> DEFINE m == [loc[a] EXCEPT !.got = k]
  <2>1. m \in Locals /\ m.got = k /\ m.breaks = loc[a].breaks /\ m.tried = loc[a].tried
    BY <1>2, <1>3, SetGot
  <2>2. PICK l \in {"arm", "take", "undo"} : Goto(a, l) /\ (l = "take" => k # Depth)
    BY <1>7
  <2>3. l = "take" => m.got < Depth
    <3>1. k # Depth => k < Depth
      BY <1>3, DepthAssumption
    <3> HIDE DEF m
    <3> QED
      BY <2>1, <2>2, <3>1
  <2>4. l \in Labels /\ l # "dead" /\ Fits(l, m)
    BY <1>6, <2>1, <2>3
  <2>5. StepOK(a) /\ pc'[a] = l /\ loc'[a] = m
    BY <1>1, <1>7, <2>1, <2>2, <2>4, StepTo
  <2>6. lock' \in LockType /\ lock'[k].by = a /\ \A i \in Locks \ {k} : lock'[i] = lock[i]
    BY <1>1, <1>3, <1>7, TakenStep
  <2>7. same' \in SameType
    BY <1>1, <1>3, <1>7, MadeType
  <2>8. TypeOK'
    BY <1>1, <1>7, <2>5, <2>6, <2>7 DEF Take, TypeOK, StepOK, LockType, SameType
  <2>9. \A b \in Agents \ {a} : Spares(b)
    BY <2>5, <2>6 DEF Take, StepOK, Spares
  <2>10. \A i \in Locks : lock'[i].by = a => i <= loc'[a].got
    BY <1>1, <1>2, <1>3, <2>1, <2>5, <2>6 DEF Sound
  <2>11. pc'[a] \in Owning /\ pc'[a] \notin {"held", "write", "release", "unarm"}
    BY <2>5 DEF Owning
  <2>12. Fits(pc'[a], loc'[a]) /\ (pc'[a] = "dead" <=> state'[a] = "dead")
    BY <1>1, <1>2, <2>4, <2>5 DEF Take, Sound
  <2>13. Sound(a)'
    BY <1>4, <2>10, <2>11, <2>12 DEF Take, Sound, Fits
  <2> QED
    BY <2>8, <2>9, <2>13, OneAgentStep
<1>8. CASE /\ Goto(a, "undo") /\ UNCHANGED <<lock, same>>
           /\ Set(a, [loc[a] EXCEPT !.found = k]) \/ UNCHANGED loc
  <2>1. PICK m \in Locals :
          /\ loc' = [loc EXCEPT ![a] = m]
          /\ m.got = loc[a].got /\ m.breaks = loc[a].breaks /\ m.tried = loc[a].tried
    <3>1. CASE Set(a, [loc[a] EXCEPT !.found = k])
      BY <1>2, <1>3, <3>1, SetFound DEF Set
    <3>2. CASE UNCHANGED loc
      BY <1>1, <1>2, <3>2 DEF TypeOK
    <3> QED
      BY <1>8, <3>1, <3>2
  <2>2. "undo" \in Labels /\ "undo" # "dead" /\ Fits("undo", m)
    BY <1>6, <2>1
  <2>3. StepOK(a) /\ pc'[a] = "undo" /\ loc'[a] = m
    BY <1>1, <1>8, <2>1, <2>2, StepTo DEF Set
  <2>4. TypeOK'
    BY <1>1, <1>8, <2>3 DEF Take, TypeOK, StepOK
  <2>5. \A b \in Agents \ {a} : Spares(b)
    BY <1>8, <2>3 DEF Take, StepOK, Spares
  <2>6. Sound(a)'
    BY <1>1, <1>2, <1>4, <1>8, <2>1, <2>2, <2>3 DEF Take, Sound, Owning, Fits
  <2> QED
    BY <2>4, <2>5, <2>6, OneAgentStep
<1> QED
  BY <1>7, <1>8 DEF Take

\* An agent gives back the last of its directories.
GivesBack(a) ==
    /\ pc[a] \in {"undo", "release"}
    /\ loc[a].got > 0
    /\ Rmdir(loc[a].got)
    /\ Set(a, [loc[a] EXCEPT !.got = @ - 1])
    /\ UNCHANGED <<pc, state, record, armed, undoing, cancelled, lapsed>>

LEMMA GivesBackInv ==
    ASSUME LockInv, NEW a \in Agents, GivesBack(a)
    PROVE  LockInv'
<1> DEFINE g == loc[a].got
<1>1. TypeOK /\ Shape /\ \A b \in Agents : Sound(b)
  BY InvIsSound DEF LockInv
<1>2. loc[a] \in Locals /\ Fits(pc[a], loc[a]) /\ pc[a] \in {"undo", "release"}
  BY <1>1, FitsNow DEF GivesBack
<1>3. g \in Locks /\ g - 1 \in 0 .. Depth
  BY <1>2, LocalTypes, DepthAssumption DEF GivesBack
<1> DEFINE m == [loc[a] EXCEPT !.got = g - 1]
<1>4. m \in Locals /\ m.got = g - 1 /\ m.breaks = loc[a].breaks /\ m.tried = loc[a].tried
  BY <1>2, <1>3, SetGot
<1>5. Fits(pc[a], m)
  BY <1>2, <1>4 DEF Fits, Outside, Waiting, Sampling
<1>6. StepOK(a) /\ pc'[a] = pc[a] /\ loc'[a] = m
  BY <1>1, <1>2, <1>4, <1>5, StepSet DEF GivesBack
<1>7. lock' \in LockType /\ same' \in SameType /\ NoneTaken /\ lock'[g].by = NoOne
  BY <1>1, <1>3, RmdirStep DEF GivesBack
<1>8. TypeOK'
  BY <1>1, <1>6, <1>7 DEF GivesBack, TypeOK, StepOK, LockType, SameType
<1>9. \A b \in Agents \ {a} : Spares(b)
  BY <1>6, <1>7 DEF GivesBack, StepOK, Spares, NoneTaken
<1>10. \A l \in Locks : lock'[l].by = a => l <= m.got /\ lock[l].by = a
  <2> SUFFICES ASSUME NEW l \in Locks, lock'[l].by = a PROVE l <= m.got /\ lock[l].by = a
    OBVIOUS
  <2>1. lock[l].by = a /\ l # g
    BY <1>7, AgentsAssumption DEF NoneTaken
  <2>2. l <= g
    BY <1>1, <1>2, <2>1 DEF Sound
  <2> QED
    BY <1>3, <1>4, <2>1, <2>2
<1>11. Sound(a)'
  BY <1>1, <1>2, <1>5, <1>6, <1>10 DEF GivesBack, Sound, Owning, Fits
<1> QED
  BY <1>8, <1>9, <1>11, OneAgentStep

\* A step of a that touches no directory and no record, and moves on.
MovesOn(a, l) ==
    /\ Goto(a, l)
    /\ UNCHANGED <<lock, state, loc, same, record, undoing, cancelled, lapsed>>

LEMMA MovesOnInv ==
    ASSUME LockInv, NEW a \in Agents, MovesOn(a, "held") \/ MovesOn(a, "write") \/ MovesOn(a, "release"),
           pc[a] \in {"arm", "held", "write"}, armed' \in {armed, armed \cup {a}}
    PROVE  LockInv'
<1>1. TypeOK /\ Shape /\ \A b \in Agents : Sound(b)
  BY InvIsSound DEF LockInv
<1>2. loc[a] \in Locals /\ Fits(pc[a], loc[a])
  BY <1>1, FitsNow
<1>3. PICK l \in {"held", "write", "release"} : MovesOn(a, l)
  OBVIOUS
<1>4. l \in Labels /\ l # "dead" /\ Fits(l, loc[a])
  BY <1>2 DEF Labels, Fits, Outside, Waiting, Sampling
<1>5. StepOK(a) /\ pc'[a] = l /\ loc'[a] = loc[a]
  BY <1>1, <1>3, <1>4, StepGoto DEF MovesOn
<1>6. TypeOK'
  BY <1>1, <1>3, <1>5 DEF MovesOn, TypeOK, StepOK
<1>7. \A b \in Agents \ {a} : Spares(b)
  BY <1>3, <1>5 DEF MovesOn, StepOK, Spares
<1>8. Sound(a)'
  BY <1>1, <1>3, <1>4, <1>5 DEF MovesOn, Sound, Owning, Fits
<1> QED
  BY <1>6, <1>7, <1>8, OneAgentStep

LEMMA UndoInv ==
    ASSUME LockInv, NEW a \in Agents, Undo(a)
    PROVE  LockInv'
<1> USE DEF At, Others
<1>1. TypeOK /\ Shape /\ \A b \in Agents : Sound(b)
  BY InvIsSound DEF LockInv
<1>2. loc[a] \in Locals /\ Fits(pc[a], loc[a]) /\ pc[a] = "undo" /\ loc[a].got \in 0 .. Depth
  BY <1>1, FitsNow, LocalTypes DEF Undo
<1>3. CASE loc[a].got > 0
  BY <1>3, GivesBackInv DEF Undo, GivesBack
<1>4. CASE ~(loc[a].got > 0)
  <2>1. loc[a].got = 0
    BY <1>2, <1>4, DepthAssumption
  <2>2. \A l \in Locks : lock[l].by # a
    BY <1>1, <1>2, <2>1 DEF Sound
  <2>3. StepOK(a) /\ pc'[a] \in {"idle", "probe"}
    <3>1. CASE End(a)
      BY <1>1, <3>1, StepEnd
    <3>2. CASE /\ loc[a].restarts # MaxRestarts
               /\ Goto(a, "probe")
               /\ Set(a, [loc[a] EXCEPT !.found = 0, !.restarts = @ + 1])
      <4> DEFINE m == [loc[a] EXCEPT !.found = 0, !.restarts = @ + 1]
      <4>1. m \in Locals /\ m.got = 0 /\ m.breaks = loc[a].breaks /\ m.tried = loc[a].tried
        BY <1>2, <2>1, <3>2, SetRestart
      <4>2. Fits("probe", m) /\ "probe" \in Labels /\ "probe" # "dead"
        BY <1>2, <4>1 DEF Fits, Sampling, Labels
      <4> QED
        BY <1>1, <3>2, <4>1, <4>2, StepTo
    <3> QED
      BY <1>4, <3>1, <3>2 DEF Undo
  <2>4. record' = record \ {a} /\ UNCHANGED <<lock, same, state, armed, undoing, cancelled, lapsed>>
    BY <1>4 DEF Undo
  <2>5. TypeOK'
    BY <1>1, <2>3, <2>4 DEF TypeOK, StepOK
  <2>6. \A b \in Agents \ {a} : Spares(b)
    BY <2>3, <2>4 DEF StepOK, Spares
  <2>7. Sound(a)'
    BY <1>1, <1>2, <2>2, <2>3, <2>4 DEF Sound, StepOK
  <2> QED
    BY <2>5, <2>6, <2>7, OneAgentStep
<1> QED
  BY <1>3, <1>4

LEMMA ReleaseInv ==
    ASSUME LockInv, NEW a \in Agents, Release(a)
    PROVE  LockInv'
<1> USE DEF At, Others
<1>1. TypeOK /\ Shape /\ \A b \in Agents : Sound(b)
  BY InvIsSound DEF LockInv
<1>2. loc[a] \in Locals /\ Fits(pc[a], loc[a]) /\ pc[a] = "release" /\ loc[a].got \in 0 .. Depth
  BY <1>1, FitsNow, LocalTypes DEF Release
<1>3. CASE loc[a].got > 0
  BY <1>3, GivesBackInv DEF Release, GivesBack
<1>4. CASE ~(loc[a].got > 0)
  <2>1. loc[a].got = 0
    BY <1>2, <1>4, DepthAssumption
  <2>2. \A l \in Locks : lock[l].by # a
    BY <1>1, <1>2, <2>1 DEF Sound
  <2>3. "unarm" \in Labels /\ "unarm" # "dead" /\ Fits("unarm", loc[a])
    BY <1>2, <2>1 DEF Fits, Labels, Sampling
  <2>4. /\ record' = record \ {a} /\ Goto(a, "unarm")
        /\ UNCHANGED <<lock, same, loc, state, armed, undoing, cancelled, lapsed>>
    BY <1>4 DEF Release
  <2>5. StepOK(a) /\ pc'[a] = "unarm" /\ loc'[a] = loc[a]
    BY <1>1, <2>3, <2>4, StepGoto
  <2>6. TypeOK'
    BY <1>1, <2>4, <2>5 DEF TypeOK, StepOK
  <2>7. \A b \in Agents \ {a} : Spares(b)
    BY <2>4, <2>5 DEF StepOK, Spares
  <2>8. Sound(a)'
    BY <1>1, <1>2, <2>2, <2>3, <2>4, <2>5 DEF Sound, Fits
  <2> QED
    BY <2>6, <2>7, <2>8, OneAgentStep
<1> QED
  BY <1>3, <1>4

LEMMA UnarmInv ==
    ASSUME LockInv, NEW a \in Agents, Unarm(a)
    PROVE  LockInv'
<1> USE DEF At, Others
<1>1. TypeOK /\ Shape /\ \A b \in Agents : Sound(b)
  BY InvIsSound DEF LockInv
<1>2. pc[a] = "unarm" /\ \A l \in Locks : lock[l].by # a
  BY <1>1 DEF Unarm, Sound, Owning
<1>3. StepOK(a) /\ pc'[a] = "idle"
  BY <1>1, StepEnd DEF Unarm
<1>4. TypeOK'
  BY <1>1, <1>3 DEF Unarm, TypeOK, StepOK
<1>5. \A b \in Agents \ {a} : Spares(b)
  BY <1>3 DEF Unarm, StepOK, Spares
<1>6. Sound(a)'
  BY <1>1, <1>2, <1>3 DEF Unarm, Sound, StepOK
<1> QED
  BY <1>4, <1>5, <1>6, OneAgentStep

LEMMA EmergencyInv ==
    ASSUME LockInv, NEW a \in Agents, Emergency(a)
    PROVE  LockInv'
<1> USE DEF Others
<1>1. TypeOK /\ Shape /\ \A b \in Agents : Sound(b)
  BY InvIsSound DEF LockInv
<1>2. a \in armed /\ pc[a] \in {"held", "write", "release", "unarm"}
  BY <1>1 DEF Emergency, Sound
<1>3. /\ undoing' \in [Agents -> [left : 0 .. Depth, own : BOOLEAN]]
      /\ undoing'[a].left = Depth
      /\ \A b \in Agents \ {a} : undoing'[b] = undoing[b]
  <2>1. [left |-> Depth, own |-> TRUE] \in [left : 0 .. Depth, own : BOOLEAN]
    BY DepthAssumption
  <2> QED
    BY <1>1, <2>1 DEF Emergency, TypeOK
<1>4. TypeOK'
  BY <1>1, <1>3 DEF Emergency, TypeOK
<1>5. \A b \in Agents \ {a} : Spares(b)
  BY <1>3 DEF Emergency, Spares
<1>6. Depth > 0 /\ \A l \in Locks : l <= Depth
  BY DepthAssumption
<1>7. Sound(a)'
  BY <1>1, <1>2, <1>3, <1>6 DEF Emergency, Sound, Fits
<1> QED
  BY <1>4, <1>5, <1>7, OneAgentStep

LEMMA EmergencyReleaseInv ==
    ASSUME LockInv, NEW a \in Agents, EmergencyRelease(a)
    PROVE  LockInv'
<1> USE DEF Others
<1> DEFINE u == undoing[a]
<1>1. TypeOK /\ Shape /\ \A b \in Agents : Sound(b)
  BY InvIsSound DEF LockInv
<1>2. u \in [left : 0 .. Depth, own : BOOLEAN] /\ u.left \in Locks
  BY <1>1, DepthAssumption DEF TypeOK, EmergencyRelease
<1>3. /\ undoing' \in [Agents -> [left : 0 .. Depth, own : BOOLEAN]]
      /\ undoing'[a].left = u.left - 1
      /\ undoing'[a].own <=> u.own /\ u.left > 1
      /\ \A b \in Agents \ {a} : undoing'[b] = undoing[b]
  <2> DEFINE v == [left |-> u.left - 1, own |-> u.own /\ u.left > 1]
  <2>1. u.left - 1 \in 0 .. Depth /\ (u.own /\ u.left > 1) \in BOOLEAN
    BY <1>2, DepthAssumption
  <2>2. v \in [left : 0 .. Depth, own : BOOLEAN]
    BY <2>1
  <2>3. undoing \in [Agents -> [left : 0 .. Depth, own : BOOLEAN]]
    BY <1>1 DEF TypeOK
  <2>4. undoing' = [undoing EXCEPT ![a] = v]
    BY DEF EmergencyRelease
  <2>5. undoing'[a] = v
    BY <2>3, <2>4
  <2> QED
    BY <2>2, <2>3, <2>4, <2>5
<1>4. lock' \in LockType /\ same' \in SameType /\ NoneTaken /\ lock'[u.left].by = NoOne
  BY <1>1, <1>2, RmdirStep DEF EmergencyRelease
<1>5. TypeOK'
  BY <1>1, <1>3, <1>4 DEF EmergencyRelease, TypeOK, LockType, SameType
<1>6. \A b \in Agents \ {a} : Spares(b)
  BY <1>3, <1>4 DEF EmergencyRelease, Spares, NoneTaken
<1>7. \A l \in Locks : lock'[l].by = a => lock[l].by = a /\ l # u.left
  BY <1>4, AgentsAssumption DEF NoneTaken
<1>8. \A l \in Locks : u.own /\ lock'[l].by = a => l <= u.left - 1
  <2> SUFFICES ASSUME NEW l \in Locks, u.own, lock'[l].by = a PROVE l <= u.left - 1
    OBVIOUS
  <2>1. l <= u.left /\ l # u.left
    BY <1>1, <1>7 DEF Sound
  <2> QED
    BY <1>2, <2>1, DepthAssumption
<1>9. CASE u.left = 1 /\ u.own
  <2>1. \A l \in Locks : lock'[l].by # a
    BY <1>8, <1>9
  <2>2. record' = record \ {a} /\ ~undoing'[a].own
    BY <1>2, <1>3, <1>9 DEF EmergencyRelease
  <2> QED
    <3>1. Sound(a)'
      BY <1>1, <1>9, <2>1, <2>2 DEF EmergencyRelease, Sound, Fits
    <3> QED
      BY <1>5, <1>6, <3>1, OneAgentStep
<1>10. CASE ~(u.left = 1 /\ u.own)
  <2>1. undoing'[a].own => u.own /\ undoing'[a].left > 0
    BY <1>2, <1>3, DepthAssumption
  <2>2. record' = record
    BY <1>10 DEF EmergencyRelease
  <2>3. undoing'[a].own => \A l \in Locks : lock'[l].by = a => l <= undoing'[a].left
    BY <1>3, <1>8, <2>1
  <2>4. Sound(a)'
    BY <1>1, <1>7, <2>1, <2>2, <2>3 DEF EmergencyRelease, Sound, Fits
  <2> QED
    BY <1>5, <1>6, <2>4, OneAgentStep
<1> QED
  BY <1>9, <1>10

LEMMA CrashInv ==
    ASSUME LockInv, NEW a \in Agents, Crash(a)
    PROVE  LockInv'
<1>1. TypeOK /\ Shape /\ \A b \in Agents : Sound(b)
  BY InvIsSound DEF LockInv
<1>2. /\ pc' \in [Agents -> Labels] /\ loc' \in [Agents -> Locals]
      /\ pc'[a] = "dead" /\ loc'[a] = NoLocals
      /\ \A b \in Agents \ {a} : pc'[b] = pc[b] /\ loc'[b] = loc[b]
  BY <1>1, NoLocalsType DEF Crash, Goto, Set, TypeOK, Labels
<1>3. /\ undoing' \in [Agents -> [left : 0 .. Depth, own : BOOLEAN]]
      /\ ~undoing'[a].own
      /\ \A b \in Agents \ {a} : undoing'[b] = undoing[b]
  <2>1. [left |-> 0, own |-> FALSE] \in [left : 0 .. Depth, own : BOOLEAN]
    BY DepthAssumption
  <2> QED
    BY <1>1, <2>1 DEF Crash, TypeOK
<1>4. /\ state' \in [Processes -> {"runs", "stopped", "dead"}]
      /\ state'[a] = "dead" /\ \A b \in Agents \ {a} : state'[b] = state[b]
  BY <1>1 DEF Crash, TypeOK
<1>5. same' \in [Agents -> SUBSET Locks]
  BY <1>1 DEF Crash, TypeOK
<1>6. TypeOK'
  BY <1>1, <1>2, <1>3, <1>4, <1>5 DEF Crash, TypeOK
<1>7. \A b \in Agents \ {a} : Spares(b)
  BY <1>2, <1>3, <1>4 DEF Crash, Spares
<1>8. Fits("dead", NoLocals)
  BY NoLocalsType DEF Fits, Outside, Waiting, Sampling
<1>9. Sound(a)'
  BY <1>1, <1>2, <1>3, <1>4, <1>8 DEF Crash, Sound
<1> QED
  BY <1>6, <1>7, <1>9, OneAgentStep

\* The processes and the clocks beside the agents.
Environment ==
    \/ \E a \in Agents : Cancel(a)
    \/ \E x \in Processes : Stop(x) \/ Continue(x)
    \/ \E p \in Peers : Peer(p)
    \/ \E l \in Locks : GrowOld(l)
    \/ Sleep

LEMMA EnvironmentInv ==
    ASSUME LockInv, Environment
    PROVE  LockInv'
<1> USE DEF Keeps, PeerKeeps
<1>1. TypeOK
  BY DEF LockInv
<1>2. /\ lock \in LockType /\ same \in SameType /\ lapsed \in BOOLEAN
      /\ state \in [Processes -> {"runs", "stopped", "dead"}]
  BY <1>1 DEF TypeOK, LockType, SameType
<1>3. UNCHANGED <<pc, loc, record, armed, undoing>>
  BY DEF Environment, Cancel, Stop, Continue, Peer, PeerBeats, PeerTakes, PeerBreaks, PeerReleases,
         GrowOld, Sleep
<1> DEFINE Good ==
             /\ lock' \in LockType /\ same' \in SameType /\ NoneTaken
             /\ cancelled' \subseteq Agents /\ lapsed' \in BOOLEAN
             /\ state' \in [Processes -> {"runs", "stopped", "dead"}]
             /\ \A a \in Agents : state'[a] = "dead" <=> state[a] = "dead"
<1>4. ASSUME NEW a \in Agents, Cancel(a) PROVE Good
  BY <1>1, <1>2, <1>4 DEF Cancel, TypeOK, NoneTaken
<1>5. ASSUME NEW x \in Processes, Stop(x) PROVE Good
  BY <1>1, <1>2, <1>5 DEF Stop, Runs, TypeOK, NoneTaken
<1>6. ASSUME NEW x \in Processes, Continue(x) PROVE Good
  <2>1. /\ state' \in [Processes -> {"runs", "stopped", "dead"}]
        /\ \A a \in Agents : state'[a] = "dead" <=> state[a] = "dead"
    BY <1>2, <1>6 DEF Continue
  <2>2. lock' \in LockType /\ same' \in SameType /\ NoneTaken
    BY <1>1, <1>2, <1>6, BeatStep DEF Continue, NoneTaken
  <2> QED
    BY <1>1, <1>2, <1>6, <2>1, <2>2 DEF Continue, TypeOK
<1>7. ASSUME NEW p \in Peers, PeerBeats(p) PROVE Good
  BY <1>1, <1>2, <1>7, BeatStep DEF PeerBeats, TypeOK
<1>8. ASSUME NEW p \in Peers, NEW l \in Locks, PeerTakes(p, l) PROVE Good
  <2>1. lock' \in LockType /\ lock'[l].by = p /\ \A m \in Locks \ {l} : lock'[m] = lock[m]
    BY <1>1, <1>8, TakenStep DEF PeerTakes
  <2>2. NoneTaken
    BY <2>1, AgentsAssumption DEF NoneTaken
  <2>3. same' \in SameType
    BY <1>2, <1>8 DEF PeerTakes, Touched, SameType
  <2> QED
    BY <1>1, <1>2, <1>8, <2>1, <2>2, <2>3 DEF PeerTakes, TypeOK
<1>9. ASSUME NEW p \in Peers, NEW l \in Locks, PeerBreaks(p, l) \/ PeerReleases(p, l) PROVE Good
  <2>1. lock' \in LockType /\ same' \in SameType /\ NoneTaken
    BY <1>1, <1>9, RmdirStep DEF PeerBreaks, PeerReleases
  <2> QED
    BY <1>1, <1>2, <1>9, <2>1 DEF PeerBreaks, PeerReleases, TypeOK
<1>10. ASSUME NEW l \in Locks, GrowOld(l) PROVE Good
  <2>1. lock' \in LockType /\ \A m \in Locks : lock'[m].by = lock[m].by
    BY <1>2, <1>10 DEF GrowOld, LockType
  <2> QED
    BY <1>1, <1>2, <1>10, <2>1 DEF GrowOld, TypeOK, NoneTaken
<1>11. ASSUME Sleep PROVE Good
  <2>1. lock' \in LockType /\ \A m \in Locks : lock'[m].by = lock[m].by
    BY <1>2, <1>11 DEF Sleep, LockType, Exists
  <2>2. lapsed' \in BOOLEAN
    BY <1>2, <1>11, Zenon DEF Sleep
  <2> QED
    BY <1>1, <1>2, <1>11, <2>1, <2>2 DEF Sleep, TypeOK, NoneTaken
<1>12. Good
  BY <1>4, <1>5, <1>6, <1>7, <1>8, <1>9, <1>10, <1>11 DEF Environment, Peer
<1>13. TypeOK'
  BY <1>1, <1>3, <1>12 DEF TypeOK, LockType, SameType
<1> QED
  BY <1>3, <1>12, <1>13, BesideStep

----------------------------------------------------------------------------
(* The theorems of LockInv.                                                *)

LEMMA InitInv == Init => LockInv
<1> SUFFICES ASSUME Init PROVE LockInv
  OBVIOUS
<1>1. Free \in [by : Processes \cup {NoOne}, old : BOOLEAN] /\ Free.by = NoOne
  BY OwnedType DEF Free
<1>2. [left |-> 0, own |-> FALSE] \in [left : 0 .. Depth, own : BOOLEAN]
  BY DepthAssumption
<1>3. TypeOK
  BY <1>1, <1>2, NoLocalsType DEF Init, TypeOK, Labels
<1>4. \A a \in Agents, l \in Locks : lock[l].by # a
  BY <1>1, AgentsAssumption DEF Init
<1>5. Shape
  BY NoLocalsType DEF Init, Shape, Sampling
<1>6. OwnedIsTaken /\ RecordFirst /\ ArmedIsTaken /\ UndoingInOrder
  BY <1>4 DEF Init, OwnedIsTaken, RecordFirst, ArmedIsTaken, UndoingInOrder
<1> QED
  BY <1>3, <1>5, <1>6 DEF LockInv

LEMMA NextInv == LockInv /\ [Next]_vars => LockInv'
<1> SUFFICES ASSUME LockInv, [Next]_vars PROVE LockInv'
  OBVIOUS
<1>1. CASE UNCHANGED vars
  BY <1>1 DEF vars, LockInv, TypeOK, Shape, OwnedIsTaken, RecordFirst, ArmedIsTaken, UndoingInOrder
<1>2. CASE Environment
  BY <1>2, EnvironmentInv
<1>3. ASSUME NEW a \in Agents, Searches(a) PROVE LockInv'
  BY <1>3, SearchInv
<1>4. ASSUME NEW a \in Agents, Record(a) \/ Take(a) \/ Undo(a) PROVE LockInv'
  BY <1>4, RecordInv, TakeInv, UndoInv
<1>5. ASSUME NEW a \in Agents, Arm(a) PROVE LockInv'
  BY <1>5, MovesOnInv DEF Arm, At, Others, MovesOn
<1>6. ASSUME NEW a \in Agents, Check(a) \/ Write(a) PROVE LockInv'
  BY <1>6, MovesOnInv DEF Check, Write, At, HoldKeeps, HeldKeeps, Others, MovesOn
<1>7. ASSUME NEW a \in Agents, Release(a) \/ Unarm(a) PROVE LockInv'
  BY <1>7, ReleaseInv, UnarmInv
<1>8. ASSUME NEW a \in Agents, Emergency(a) \/ EmergencyRelease(a) PROVE LockInv'
  BY <1>8, EmergencyInv, EmergencyReleaseInv
<1>9. ASSUME NEW a \in Agents, Crash(a) PROVE LockInv'
  BY <1>9, CrashInv
<1> QED
  BY <1>1, <1>2, <1>3, <1>4, <1>5, <1>6, <1>7, <1>8, <1>9
  DEF Next, Work, Acquire, Hold, Doctor, Searches, Environment

\* The invariant holds in every reachable state.
THEOREM LockInvariant == Spec => []LockInv
BY InitInv, NextInv, PTL DEF Spec

\* Every variable keeps its shape, with any number of processes, locks and restarts.
THEOREM LockTypeCorrect == Spec => []TypeOK
<1>1. LockInv => TypeOK
  BY DEF LockInv
<1> QED
  BY <1>1, LockInvariant, PTL

\* One acquire breaks at most one lock, through all its restarts.
THEOREM BreaksOnce == Spec => []OneBreak
<1>1. LockInv => OneBreak
  BY DEF LockInv, Shape, OneBreak
<1> QED
  BY <1>1, LockInvariant, PTL

\* An agent that probes, samples or waits owns no lock, in any restart.
THEOREM WaitingHoldsNothing == Spec => []WaitsHoldNothing
<1>1. LockInv => WaitsHoldNothing
  BY DEF LockInv, OwnedIsTaken, Owning, Waiting, WaitsHoldNothing
<1> QED
  BY <1>1, LockInvariant, PTL

\* A lock whose agent died is named by a record that is still on disk.
THEOREM LeaksAreExplained == Spec => []LeakExplained
<1>1. LockInv => LeakExplained
  BY DEF LockInv, OwnedIsTaken, LeakExplained
<1> QED
  BY <1>1, LockInvariant, PTL

----------------------------------------------------------------------------
(* Who moves an agent, and who may touch what it has read or made.         *)

\* The steps of a that move it.
Acts(a) ==
    \/ Searches(a) \/ Record(a) \/ Take(a) \/ Undo(a)
    \/ Arm(a) \/ Check(a) \/ Write(a) \/ Release(a) \/ Unarm(a) \/ Crash(a)

LEMMA ActsAlone ==
    ASSUME LockInv, NEW a \in Agents, NEW b \in Agents \ {a}, Acts(a)
    PROVE  pc'[b] = pc[b] /\ loc'[b] = loc[b]
<1>1. TypeOK /\ Shape /\ pc \in [Agents -> Labels] /\ loc \in [Agents -> Locals]
  BY DEF LockInv, TypeOK
<1>2. CASE Searches(a)
  BY <1>1, <1>2, SearchStep DEF StepOK
<1>3. CASE Record(a) \/ Undo(a) \/ Unarm(a) \/ Crash(a)
  BY <1>1, <1>3 DEF Record, Undo, Unarm, Crash, End, Goto, Set
<1>4. CASE Take(a)
  BY <1>1, <1>4 DEF Take, Goto, Set
<1>5. CASE Arm(a) \/ Check(a) \/ Write(a) \/ Release(a)
  BY <1>1, <1>5 DEF Arm, Check, Write, Release, Goto, Set
<1> QED
  BY <1>2, <1>3, <1>4, <1>5 DEF Acts

LEMMA WhoMoves ==
    ASSUME LockInv, [Next]_vars, NEW a \in Agents
    PROVE  Acts(a) \/ (pc'[a] = pc[a] /\ loc'[a] = loc[a])
<1>1. CASE UNCHANGED vars
  BY <1>1 DEF vars
<1>2. CASE Environment
  BY <1>2
  DEF Environment, Cancel, Stop, Continue, Peer, PeerBeats, PeerTakes, PeerBreaks, PeerReleases,
      PeerKeeps, GrowOld, Sleep, Keeps
<1>3. ASSUME NEW b \in Agents, Acts(b) PROVE Acts(a) \/ (pc'[a] = pc[a] /\ loc'[a] = loc[a])
  BY <1>3, ActsAlone
<1>4. ASSUME NEW b \in Agents, Emergency(b) \/ EmergencyRelease(b)
      PROVE  pc'[a] = pc[a] /\ loc'[a] = loc[a]
  BY <1>4 DEF Emergency, EmergencyRelease
<1> QED
  BY <1>1, <1>2, <1>3, <1>4 DEF Next, Work, Acquire, Hold, Doctor, Searches, Acts, Environment

\* What b finds the same was there before, as it is.
Faithful(b) ==
    \A l \in Locks :
        l \in same'[b] =>
            /\ l \in same[b] /\ lock'[l].by = lock[l].by
            /\ lock[l].old /\ Exists(l) => lock'[l].old

LEMMA RmdirFaithful ==
    ASSUME TypeOK, NEW b \in Agents, NEW l \in Locks, Rmdir(l)
    PROVE  Faithful(b)
BY DEF TypeOK, Rmdir, Touched, Faithful

LEMMA BeatFaithful ==
    ASSUME TypeOK, NEW b \in Agents, NEW p \in Peers, Beat(p)
    PROVE  Faithful(b)
BY DEF TypeOK, Beat, Touched, Faithful

\* Only an agent that reads or makes a directory comes to find it the same.
LEMMA FaithfulStep ==
    ASSUME LockInv, [Next]_vars, NEW b \in Agents, ~SampleA(b), ~FirstSample(b), ~Take(b)
    PROVE  Faithful(b)
<1> USE DEF HoldKeeps, HeldKeeps, Others
<1>1. TypeOK /\ same \in SameType
  BY DEF LockInv, TypeOK, SameType
<1>2. CASE UNCHANGED <<lock, same>>
  BY <1>2 DEF Faithful
<1>3. ASSUME NEW l \in Locks, Rmdir(l) PROVE Faithful(b)
  BY <1>1, <1>3, RmdirFaithful
<1>4. ASSUME NEW p \in Peers, Beat(p) PROVE Faithful(b)
  BY <1>1, <1>4, BeatFaithful
<1>5. \A a \in Agents : loc[a].k \in Locks /\ loc[a].got \in 0 .. Depth
                        /\ undoing[a].left \in 0 .. Depth
  BY <1>1, LocalTypes DEF TypeOK
<1>6. ASSUME NEW a \in Agents, SampleA(a) \/ FirstSample(a) PROVE Faithful(b)
  BY <1>1, <1>6 DEF SampleA, FirstSample, Read, Faithful, SameType
<1>7. ASSUME NEW a \in Agents, Take(a) PROVE Faithful(b)
  <2> DEFINE k == loc[a].got + 1
  <2>1. CASE lock' = [lock EXCEPT ![k] = Owned(a)] /\ Made(a, k)
    <3>1. lock \in LockType /\ a # b
      BY <1>1, <1>7 DEF TypeOK, LockType
    <3>2. same'[b] = same[b] \ {k}
      BY <2>1, <3>1 DEF Made
    <3>3. \A l \in Locks \ {k} : lock'[l] = lock[l]
      BY <2>1, <3>1 DEF LockType
    <3> QED
      BY <3>2, <3>3 DEF Faithful
  <2> QED
    BY <1>2, <1>7, <2>1 DEF Take
<1>8. ASSUME NEW a \in Agents, Undo(a) \/ Release(a) PROVE Faithful(b)
  <2>1. CASE loc[a].got > 0
    <3>1. loc[a].got \in Locks
      BY <1>5, <2>1, DepthAssumption
    <3> QED
      BY <1>3, <1>8, <2>1, <3>1 DEF Undo, Release
  <2> QED
    BY <1>2, <1>8, <2>1 DEF Undo, Release
<1>9. ASSUME NEW a \in Agents, EmergencyRelease(a) PROVE Faithful(b)
  <2>1. undoing[a].left \in Locks
    BY <1>5, <1>9, DepthAssumption DEF EmergencyRelease
  <2> QED
    BY <1>3, <1>9, <2>1 DEF EmergencyRelease
<1>10. ASSUME NEW a \in Agents, Break(a) \/ Remove(a) PROVE Faithful(b)
  BY <1>2, <1>3, <1>5, <1>10 DEF Break, Remove
<1>11. ASSUME NEW a \in Agents, Crash(a) PROVE Faithful(b)
  BY <1>1, <1>11 DEF Crash, Faithful, SameType
<1>12. ASSUME Environment PROVE Faithful(b)
  <2> USE DEF Keeps, PeerKeeps
  <2>1. ASSUME NEW p \in Peers, NEW l \in Locks, PeerTakes(p, l) PROVE Faithful(b)
    BY <1>1, <2>1 DEF PeerTakes, Touched, Faithful, TypeOK
  <2>2. ASSUME NEW l \in Locks, GrowOld(l) PROVE Faithful(b)
    <3>1. \A m \in Locks : lock'[m].by = lock[m].by /\ (lock[m].old => lock'[m].old)
      BY <1>1, <2>2 DEF GrowOld, TypeOK
    <3> QED
      BY <2>2, <3>1 DEF GrowOld, Faithful
  <2>3. ASSUME Sleep PROVE Faithful(b)
    <3>1. \A m \in Locks : lock'[m].by = lock[m].by /\ (Exists(m) => lock'[m].old)
      BY <1>1, <2>3 DEF Sleep, TypeOK, Exists
    <3> QED
      BY <2>3, <3>1 DEF Sleep, Faithful
  <2>4. ASSUME NEW a \in Agents, Cancel(a) PROVE Faithful(b)
    BY <1>2, <2>4 DEF Cancel
  <2>5. ASSUME NEW x \in Processes, Stop(x) \/ Continue(x) PROVE Faithful(b)
    BY <1>2, <1>4, <2>5 DEF Stop, Continue
  <2> QED
    BY <1>3, <1>4, <1>12, <2>1, <2>2, <2>3, <2>4, <2>5
    DEF Environment, Peer, PeerBeats, PeerBreaks, PeerReleases
<1>13. ASSUME NEW a \in Agents,
              \/ Begin(a) \/ Probe(a) \/ SampleB(a) \/ SampleC(a) \/ Retaken(a) \/ Primary(a)
              \/ Contend(a) \/ (\E l \in Locks : Permit(a, l)) \/ SecondSample(a)
              \/ Record(a) \/ Arm(a) \/ Check(a) \/ Write(a) \/ Unarm(a) \/ Emergency(a)
       PROVE  Faithful(b)
  BY <1>2, <1>13
  DEF Begin, Probe, SampleB, SampleC, Retaken, Primary, Contend, Permit, SecondSample, Record, Arm,
      Check, Write, Unarm, Emergency
<1>14. CASE UNCHANGED vars
  BY <1>2, <1>14 DEF vars
<1> QED
  BY <1>6, <1>7, <1>8, <1>9, <1>10, <1>11, <1>12, <1>13, <1>14
  DEF Next, Work, Acquire, Hold, Doctor, Environment

\* An agent comes to a sampled lock by reading one that is past its window, and
\* looks at the same one until it leaves it.
LEMMA SampledStep ==
    ASSUME LockInv, [Next]_vars, NEW a \in Agents, pc'[a] \in Sampled
    PROVE  \/ /\ pc'[a] \in {"sampleB", "second"}
              /\ loc' = loc /\ lock' = lock /\ lock[loc[a].k].old /\ Exists(loc[a].k)
           \/ /\ pc[a] \in Sampled /\ loc'[a].k = loc[a].k /\ Faithful(a)
              /\ SampleB(a) \/ SampleC(a) \/ SecondSample(a) \/ pc'[a] = pc[a]
<1> USE DEF At, Sampled
<1> DEFINE k == loc[a].k
<1>1. TypeOK /\ Shape /\ loc[a] \in Locals /\ Fits(pc[a], loc[a]) /\ k \in Locks
  BY LocalTypes, FitsNow DEF LockInv, TypeOK
<1>2. CASE SampleA(a) \/ FirstSample(a)
  <2>1. \A l \in Labels : pc' = [pc EXCEPT ![a] = l] => pc'[a] = l
    BY <1>1 DEF TypeOK
  <2>2. pc'[a] \in {"sampleB", "second"}
    <3>1. CASE SampleA(a)
      <4>1. CASE NextLock(a, loc[a]) \/ Abandon(a) \/ End(a)
        BY <1>1, <2>1, <4>1 DEF NextLock, Abandon, End, Goto, Labels
      <4>2. CASE Goto(a, "sampleB")
        BY <2>1, <4>2 DEF Goto, Labels
      <4> QED
        BY <3>1, <4>1, <4>2 DEF SampleA
    <3>2. CASE FirstSample(a)
      BY <2>1, <3>2 DEF FirstSample, End, Goto, Labels
    <3> QED
      BY <1>2, <3>1, <3>2
  <2>3. loc' = loc /\ lock' = lock /\ lock[k].old /\ Exists(k)
    BY <1>2, <2>1, <2>2 DEF SampleA, FirstSample, NextLock, Abandon, End, Goto, Labels
  <2> QED
    BY <2>2, <2>3
<1>3. CASE Take(a)
  <2>1. pc'[a] \in {"arm", "take", "undo"}
    BY <1>1, <1>3 DEF Take, Goto, TypeOK
  <2> QED
    BY <2>1
<1>4. CASE ~SampleA(a) /\ ~FirstSample(a) /\ ~Take(a)
  <2>1. Faithful(a)
    BY <1>4, FaithfulStep
  <2>2. /\ pc[a] \in Sampled /\ loc'[a].k = k
        /\ SampleB(a) \/ SampleC(a) \/ SecondSample(a) \/ pc'[a] = pc[a]
    <3>1. CASE pc'[a] = pc[a] /\ loc'[a] = loc[a]
      BY <3>1
    <3>2. CASE Acts(a)
      <4>1. \A l \in Labels : pc' = [pc EXCEPT ![a] = l] => pc'[a] = l
        BY <1>1 DEF TypeOK
      <4>2. \A m \in Labels : Goto(a, m) => m \in Sampled
        BY <4>1 DEF Goto
      <4>3. ~End(a) /\ ~Abandon(a) /\ \A m \in Locals : ~NextLock(a, m)
        BY <4>2 DEF End, Abandon, NextLock, Labels
      <4>4. CASE SampleB(a) \/ SampleC(a) \/ SecondSample(a)
        BY <1>1, <4>3, <4>4 DEF SampleB, SampleC, SecondSample
      <4>5. CASE Break(a) \/ Remove(a)
        <5>1. pc'[a] \notin Sampled
          <6>1. CASE NextLock(a, [loc[a] EXCEPT !.tried = TRUE, !.broke = k, !.breaks = @ + 1])
            BY <4>2, <6>1 DEF NextLock, Labels
          <6> QED
            BY <1>1, <4>3, <4>5, <6>1 DEF Break, Remove
        <5> QED
          BY <5>1
      <4>6. CASE Begin(a) \/ Retaken(a) \/ Primary(a) \/ Contend(a) \/ \E l \in Locks : Permit(a, l)
        BY <4>2, <4>3, <4>6 DEF Begin, Retaken, Primary, Contend, Permit, Labels
      <4>7. CASE Probe(a)
        BY <1>1, <4>2, <4>3, <4>7 DEF Probe, Labels
      <4>8. CASE Record(a) \/ Undo(a) \/ Arm(a) \/ Check(a) \/ Write(a) \/ Release(a) \/ Unarm(a) \/ Crash(a)
        <5>1. pc'[a] \in {"take", "idle", "undo", "probe", "held", "write", "release", "unarm", "dead"}
          BY <1>1, <4>8 DEF Record, Undo, Arm, Check, Write, Release, Unarm, Crash, End, Goto, TypeOK
        <5> QED
          BY <5>1
      <4> QED
        BY <1>4, <3>2, <4>4, <4>5, <4>6, <4>7, <4>8 DEF Acts, Searches
    <3> QED
      BY <3>1, <3>2, WhoMoves
  <2> QED
    BY <2>1, <2>2
<1> QED
  BY <1>2, <1>3, <1>4

LEMMA ReadIsOldNext ==
    ASSUME LockInv, ReadIsOld, [Next]_vars
    PROVE  ReadIsOld'
<1> SUFFICES ASSUME NEW a \in Agents, pc'[a] \in Sampled, loc'[a].k \in same'[a]
             PROVE  lock'[loc'[a].k].old /\ lock'[loc'[a].k].by # NoOne
  BY DEF ReadIsOld, Exists
<1>1. loc[a].k \in Locks
  BY LocalTypes DEF LockInv, TypeOK
<1> QED
  BY <1>1, SampledStep DEF Faithful, ReadIsOld, Exists

\* A Claude Code process that goes on beats.
LEMMA PeerGoesOn ==
    ASSUME LockInv, [Next]_vars, NEW p \in Peers, Runs(p)', ~Runs(p)
    PROVE  Beat(p)
<1> USE DEF HoldKeeps, HeldKeeps, Others
<1>1. state \in [Processes -> {"runs", "stopped", "dead"}]
  BY DEF LockInv, TypeOK
<1>2. ASSUME NEW x \in Processes, Continue(x) PROVE Beat(p)
  BY <1>1, <1>2 DEF Continue, Runs
<1>3. ASSUME NEW x \in Processes, Stop(x) PROVE FALSE
  BY <1>1, <1>3 DEF Stop, Runs
<1>4. ASSUME NEW a \in Agents, Crash(a) PROVE FALSE
  BY <1>1, <1>4, AgentsAssumption DEF Crash, Runs
<1>5. CASE UNCHANGED state
  BY <1>5 DEF Runs
<1> QED
  BY ZenonT(60), <1>2, <1>3, <1>4, <1>5
  DEF Next, vars, Work, Acquire, Hold, Doctor, Begin, Probe, SampleA, SampleB, SampleC, Break, Retaken,
      Primary, Contend, Record, Take, Undo, Arm, Check, Write, Release, Unarm, Emergency,
      EmergencyRelease, Permit, FirstSample, SecondSample, Remove, Cancel, Peer, PeerBeats, PeerTakes,
      PeerBreaks, PeerReleases, PeerKeeps, GrowOld, Sleep

LEMMA CancelledStays ==
    ASSUME LockInv, [Next]_vars
    PROVE  cancelled \subseteq cancelled'
<1> USE DEF HoldKeeps, HeldKeeps, Others
<1>1. ASSUME NEW a \in Agents, Cancel(a) PROVE cancelled \subseteq cancelled'
  BY <1>1 DEF Cancel
<1>2. CASE UNCHANGED cancelled
  BY <1>2
<1> QED
  BY ZenonT(60), <1>1, <1>2
  DEF Next, vars, Work, Acquire, Hold, Doctor, Begin, Probe, SampleA, SampleB, SampleC, Break, Retaken,
      Primary, Contend, Record, Take, Undo, Arm, Check, Write, Release, Unarm, Emergency,
      EmergencyRelease, Permit, FirstSample, SecondSample, Remove, Crash, Stop, Continue, Peer,
      PeerBeats, PeerTakes, PeerBreaks, PeerReleases, PeerKeeps, GrowOld, Sleep

LEMMA WaitedOutNext ==
    ASSUME LockInv, WaitedOut, [Next]_vars
    PROVE  WaitedOut'
<1> SUFFICES ASSUME NEW a \in Agents, loc'[a].k \in same'[a],
                    lock'[loc'[a].k].by \in Peers, state'[lock'[loc'[a].k].by] = "runs",
                    pc'[a] \in {"sampleC", "break"} \/ (pc'[a] = "remove" /\ a \notin cancelled')
             PROVE  FALSE
  BY DEF WaitedOut, Beating, Runs
<1> DEFINE k == loc[a].k
<1>1. TypeOK /\ same \in SameType /\ k \in Locks /\ (a \notin cancelled' => a \notin cancelled)
  BY LocalTypes, CancelledStays DEF LockInv, TypeOK, SameType
<1>2. /\ loc'[a].k = k /\ Faithful(a)
      /\ SampleB(a) \/ SampleC(a) \/ SecondSample(a) \/ pc'[a] = pc[a]
  BY SampledStep DEF Sampled
<1>3. k \in same[a] /\ lock'[k].by = lock[k].by
  BY <1>1, <1>2 DEF Faithful
<1>4. Beating(k)
  <2>0. PICK p \in Peers : p = lock[k].by
    BY <1>2, <1>3
  <2>1. Runs(p)'
    BY <1>2, <1>3, <2>0 DEF Runs
  <2>2. ~Beat(p)
    BY <1>1, <1>2, <2>0 DEF Beat, Touched
  <2>3. Runs(p)
    BY <2>1, <2>2, PeerGoesOn
  <2> QED
    BY <2>0, <2>3 DEF Beating
<1>5. CASE pc'[a] = pc[a]
  BY <1>1, <1>3, <1>4, <1>5 DEF WaitedOut
<1>6. CASE SampleB(a) \/ SecondSample(a)
  <2>1. CASE SampleB(a)
    <3>1. k \in same[a] /\ Beating(k)
      BY <1>3, <1>4
    <3>2. End(a)
      BY <2>1, <3>1 DEF SampleB
    <3>3. pc'[a] = "idle"
      BY <1>1, <3>2, StepEnd
    <3> QED
      BY <3>3
  <2>2. CASE SecondSample(a)
    <3>1. a \in cancelled
      BY <1>3, <1>4, <2>2 DEF SecondSample
    <3>2. pc'[a] \in {"idle", "remove"}
      BY <1>1, <2>2 DEF SecondSample, End, Goto, TypeOK
    <3> QED
      BY <1>1, <3>1, <3>2
  <2> QED
    BY <1>6, <2>1, <2>2
<1>7. CASE SampleC(a)
  BY <1>3, <1>4, <1>7 DEF SampleC, At, WaitedOut
<1> QED
  BY <1>2, <1>5, <1>6, <1>7

\* An agent comes to a step that may own directories by Record, with none, and has
\* more of them only by Take.
LEMMA OwningStep ==
    ASSUME LockInv, [Next]_vars, NEW a \in Agents, pc'[a] \in Owning, ~Take(a)
    PROVE  /\ (pc[a] \in Owning /\ loc'[a].got <= loc[a].got) \/ loc'[a].got = 0
           /\ pc'[a] \in {"arm", "held", "write"} =>
                pc[a] \in {"arm", "held", "write"} /\ loc'[a].got = loc[a].got
<1> USE DEF At
<1>1. /\ TypeOK /\ Shape /\ loc[a] \in Locals /\ Fits(pc[a], loc[a]) /\ loc[a].got \in 0 .. Depth
      /\ pc \in [Agents -> Labels] /\ loc \in [Agents -> Locals]
  BY LocalTypes, FitsNow DEF LockInv, TypeOK
<1>2. loc[a].got <= loc[a].got
  BY <1>1, DepthAssumption
<1>3. CASE pc'[a] = pc[a] /\ loc'[a] = loc[a]
  BY <1>2, <1>3
<1>4. CASE Searches(a)
  BY <1>1, <1>4, SearchStep DEF Outside, Owning, Waiting
<1>5. CASE Record(a)
  <2>1. pc'[a] = "take" /\ loc'[a] = loc[a]
    BY <1>1, <1>5 DEF Record, End, Goto, Owning
  <2> QED
    BY <1>1, <1>5, <2>1 DEF Record, Fits, Outside
<1>6. CASE Undo(a) \/ Release(a)
  <2>1. CASE loc[a].got > 0
    <3>1. pc'[a] = pc[a] /\ loc'[a] = [loc[a] EXCEPT !.got = loc[a].got - 1]
      BY <1>1, <1>6, <2>1 DEF Undo, Release, Set
    <3>2. loc[a].got - 1 \in 0 .. Depth /\ loc[a].got - 1 <= loc[a].got
      BY <1>1, <2>1, DepthAssumption
    <3>3. loc'[a].got = loc[a].got - 1
      BY <1>1, <3>1, <3>2, SetGot
    <3> QED
      BY <1>6, <3>1, <3>2, <3>3 DEF Undo, Release, Owning
  <2>2. CASE ~(loc[a].got > 0)
    <3>1. pc'[a] \in {"idle", "probe", "unarm"}
      BY <1>1, <1>6, <2>2 DEF Undo, Release, End, Goto
    <3> QED
      BY <3>1 DEF Owning
  <2> QED
    BY <2>1, <2>2
<1>7. CASE Arm(a) \/ Check(a) \/ Write(a)
  BY <1>1, <1>2, <1>7 DEF Arm, Check, Write, Goto, Owning
<1>8. CASE Unarm(a) \/ Crash(a)
  BY <1>1, <1>8 DEF Unarm, Crash, End, Goto, Owning
<1> QED
  BY <1>3, <1>4, <1>5, <1>6, <1>7, <1>8, WhoMoves DEF Acts

\* What Take makes, and what it leaves.
LEMMA TakeEffect ==
    ASSUME LockInv, NEW a \in Agents, Take(a)
    PROVE  \/ /\ loc'[a].got = loc[a].got + 1 /\ loc[a].got + 1 \in Locks
              /\ lock'[loc[a].got + 1].by = a
              /\ \A l \in Locks \ {loc[a].got + 1} : lock'[l] = lock[l]
              /\ same'[a] = same[a] \cup {loc[a].got + 1}
              /\ ~lock'[loc[a].got + 1].old /\ ~Exists(loc[a].got + 1)
              /\ pc'[a] \in {"arm", "held", "write"} => loc'[a].got = Depth
           \/ /\ loc'[a].got = loc[a].got /\ UNCHANGED <<lock, same>>
              /\ pc'[a] = "undo"
<1> USE DEF At
<1> DEFINE k == loc[a].got + 1
<1>1. /\ TypeOK /\ Shape /\ loc[a] \in Locals /\ loc[a].got \in 0 .. Depth
      /\ pc \in [Agents -> Labels] /\ loc \in [Agents -> Locals] /\ same \in SameType
  BY LocalTypes DEF LockInv, TypeOK, SameType
<1>2. k \in Locks /\ k \in 0 .. Depth
  BY <1>1, DepthAssumption DEF Take, Shape
<1>3. CASE /\ ~Exists(k) /\ lock' = [lock EXCEPT ![k] = Owned(a)]
           /\ Made(a, k)
           /\ Set(a, [loc[a] EXCEPT !.got = k])
           /\ Goto(a, IF k = Depth THEN "arm" ELSE "take") \/ Goto(a, "undo")
  <2>1. lock'[k].by = a /\ \A l \in Locks \ {k} : lock'[l] = lock[l]
    BY <1>1, <1>2, <1>3, TakenStep
  <2>2. loc'[a] = [loc[a] EXCEPT !.got = k]
    BY <1>1, <1>3 DEF Set
  <2>3. loc'[a].got = k
    BY <1>1, <1>2, <2>2, SetGot
  <2>4. same'[a] = same[a] \cup {k}
    BY <1>3 DEF Made
  <2>5. pc'[a] \in {"arm", "held", "write"} => k = Depth
    BY <1>1, <1>3 DEF Goto
  <2>6. lock'[k] = Owned(a) /\ ~Owned(a).old
    BY <1>1, <1>2, <1>3 DEF TypeOK, Owned
  <2> QED
    BY <1>2, <1>3, <2>1, <2>3, <2>4, <2>5, <2>6
<1>4. CASE /\ Goto(a, "undo") /\ UNCHANGED <<lock, same>>
           /\ Set(a, [loc[a] EXCEPT !.found = k]) \/ UNCHANGED loc
  <2>1. loc'[a].got = loc[a].got
    <3>1. CASE Set(a, [loc[a] EXCEPT !.found = k])
      BY <1>1, <1>2, <3>1, SetFound DEF Set
    <3> QED
      BY <1>4, <3>1
  <2> QED
    BY <1>1, <1>4, <2>1 DEF Goto
<1> QED
  BY <1>3, <1>4 DEF Take

LEMMA MadeIsOwnNext ==
    ASSUME LockInv, MadeIsOwn, [Next]_vars
    PROVE  MadeIsOwn'
<1> SUFFICES ASSUME NEW a \in Agents, NEW l \in Locks,
                    pc'[a] \in Owning, l <= loc'[a].got, l \in same'[a]
             PROVE  lock'[l].by = a
  BY DEF MadeIsOwn
<1>1. loc[a].got \in 0 .. Depth /\ TypeOK /\ Shape
  BY LocalTypes DEF LockInv, TypeOK
<1>2. CASE Take(a)
  <2>1. pc[a] \in Owning
    BY <1>2 DEF Take, At, Owning
  <2>2. l # loc[a].got + 1 /\ l <= loc[a].got + 1 => l <= loc[a].got
    BY <1>1, DepthAssumption
  <2> QED
    BY <1>2, <2>1, <2>2, TakeEffect DEF MadeIsOwn
<1>3. CASE ~Take(a)
  <2>1. (pc[a] \in Owning /\ loc'[a].got <= loc[a].got) \/ loc'[a].got = 0
    BY <1>3, OwningStep
  <2>2. ~SampleA(a) /\ ~FirstSample(a)
    <3>1. Searches(a) => pc'[a] \in Outside
      BY <1>1, SearchStep
    <3> QED
      BY <3>1 DEF Searches, Outside, Owning, Waiting
  <2>3. Faithful(a)
    BY <1>3, <2>2, FaithfulStep
  <2>4. loc'[a].got # 0
    OBVIOUS
  <2>5. loc'[a].got <= loc[a].got => l <= loc[a].got
    <3>1. loc'[a].got \in 0 .. Depth
      <4>1. TypeOK'
        BY NextInv DEF LockInv
      <4> QED
        BY <4>1 DEF TypeOK, Locals
    <3> QED
      BY <1>1, <3>1, DepthAssumption
  <2> QED
    BY <2>1, <2>3, <2>4, <2>5 DEF Faithful, MadeIsOwn
<1> QED
  BY <1>2, <1>3

LEMMA FullyTakenNext ==
    ASSUME LockInv, FullyTaken, [Next]_vars
    PROVE  FullyTaken'
<1> SUFFICES ASSUME NEW a \in Agents, pc'[a] \in {"arm", "held", "write"}
             PROVE  loc'[a].got = Depth
  BY DEF FullyTaken
<1>1. CASE Take(a)
  BY <1>1, TakeEffect
<1>2. CASE ~Take(a)
  BY <1>2, OwningStep DEF FullyTaken, Owning
<1> QED
  BY <1>1, <1>2

\* Who takes the directory l away.
Removed(l) ==
    \/ \E a \in Agents :
         \/ (Break(a) \/ Remove(a)) /\ loc[a].k = l /\ (Exists(l) => l \in same[a] \/ lapsed')
         \/ (Undo(a) \/ Release(a)) /\ loc[a].got = l
         \/ EmergencyRelease(a)
    \/ \E p \in Peers : PeerBreaks(p, l) \/ PeerReleases(p, l)

\* What one step does to one directory.
Changed(l) ==
    \/ lock'[l] = lock[l]
    \/ ~lock'[l].old /\ (Exists(l) => lock'[l].by = lock[l].by)
    \/ lock'[l].by = lock[l].by /\ ~Runs(lock[l].by) /\ UNCHANGED state
    \/ lock'[l].by = lock[l].by /\ Sleep
    \/ lock'[l].by = NoOne /\ Removed(l)

LEMMA RmdirChange ==
    ASSUME TypeOK, NEW l \in Locks, NEW m \in Locks, Rmdir(m), m = l => Removed(l)
    PROVE  Changed(l)
<1>1. lock'[m].by = NoOne /\ \A i \in Locks \ {m} : lock'[i] = lock[i]
  BY DEF TypeOK, Rmdir, Free, Owned
<1> QED
  BY <1>1 DEF Changed

LEMMA LockChanges ==
    ASSUME LockInv, [Next]_vars, NEW l \in Locks
    PROVE  Changed(l)
<1> USE DEF HoldKeeps, HeldKeeps, Others
<1>1. TypeOK /\ lock \in LockType
  BY DEF LockInv, TypeOK, LockType
<1>2. CASE UNCHANGED lock
  BY <1>2 DEF Changed
<1>3. \A a \in Agents : loc[a].k \in Locks /\ loc[a].got \in 0 .. Depth
                        /\ undoing[a].left \in 0 .. Depth
  BY <1>1, LocalTypes DEF TypeOK
<1>4. ASSUME NEW a \in Agents, Break(a) \/ Remove(a) PROVE Changed(l)
  <2>1. CASE Rmdir(loc[a].k)
    <3>1. loc[a].k = l => Removed(l)
      <4>1. CASE Break(a)
        <5>1. CASE lapsed' = (lapsed \/ loc[a].k \notin same[a])
          BY <4>1, <5>1 DEF Removed
        <5>2. CASE lock' = lock
          <6>1. ~Exists(loc[a].k)
            <7>1. lock'[loc[a].k].by = NoOne
              BY <1>1, <1>3, <2>1, RmdirStep
            <7> QED
              BY <5>2, <7>1 DEF Exists
          <6> QED
            BY <4>1, <6>1 DEF Removed
        <5> QED
          BY <4>1, <5>1, <5>2 DEF Break
      <4>2. CASE Remove(a)
        BY <4>2 DEF Remove, Removed
      <4> QED
        BY <1>4, <4>1, <4>2
    <3> QED
      BY <1>1, <1>3, <2>1, <3>1, RmdirChange
  <2> QED
    BY <1>2, <1>4, <2>1 DEF Break, Remove
<1>5. ASSUME NEW a \in Agents, Undo(a) \/ Release(a) PROVE Changed(l)
  <2>1. CASE loc[a].got > 0
    <3>1. loc[a].got \in Locks /\ Rmdir(loc[a].got)
      BY <1>3, <1>5, <2>1, DepthAssumption DEF Undo, Release
    <3>2. loc[a].got = l => Removed(l)
      BY <1>5 DEF Removed
    <3> QED
      BY <1>1, <3>1, <3>2, RmdirChange
  <2> QED
    BY <1>2, <1>5, <2>1 DEF Undo, Release
<1>6. ASSUME NEW a \in Agents, EmergencyRelease(a) PROVE Changed(l)
  <2>1. undoing[a].left \in Locks /\ Rmdir(undoing[a].left)
    BY <1>3, <1>6, DepthAssumption DEF EmergencyRelease
  <2>2. Removed(l)
    BY <1>6 DEF Removed
  <2> QED
    BY <1>1, <2>1, <2>2, RmdirChange
<1>7. ASSUME NEW a \in Agents, Take(a) PROVE Changed(l)
  <2>1. CASE l = loc[a].got + 1
    BY <1>7, <2>1, TakeEffect DEF Changed
  <2> QED
    BY <1>7, <2>1, TakeEffect DEF Changed
<1>8. ASSUME NEW p \in Peers, Beat(p) PROVE Changed(l)
  BY <1>1, <1>8 DEF Beat, Changed, Owned
<1>9. ASSUME Environment PROVE Changed(l)
  <2> USE DEF Keeps, PeerKeeps
  <2>1. ASSUME NEW p \in Peers, NEW m \in Locks, PeerTakes(p, m) PROVE Changed(l)
    <3>1. lock'[m] = Owned(p) /\ \A i \in Locks \ {m} : lock'[i] = lock[i]
      BY <1>1, <2>1 DEF PeerTakes, LockType
    <3> QED
      BY <2>1, <3>1 DEF PeerTakes, Changed, Owned
  <2>2. ASSUME NEW p \in Peers, NEW m \in Locks, PeerBreaks(p, m) \/ PeerReleases(p, m)
        PROVE  Changed(l)
    <3>1. m = l => Removed(l)
      BY <2>2 DEF Removed
    <3> QED
      BY <1>1, <2>2, <3>1, RmdirChange DEF PeerBreaks, PeerReleases
  <2>3. ASSUME NEW m \in Locks, GrowOld(m) PROVE Changed(l)
    <3>1. /\ lock'[m].by = lock[m].by /\ \A i \in Locks \ {m} : lock'[i] = lock[i]
      BY <1>1, <2>3 DEF GrowOld, LockType
    <3> QED
      BY <2>3, <3>1 DEF GrowOld, Changed
  <2>4. ASSUME Sleep PROVE Changed(l)
    <3>1. lock'[l].by = lock[l].by
      BY <1>1, <2>4 DEF Sleep, LockType
    <3> QED
      BY <2>4, <3>1 DEF Changed
  <2>5. ASSUME NEW a \in Agents, Cancel(a) PROVE Changed(l)
    BY <1>2, <2>5 DEF Cancel
  <2>6. ASSUME NEW x \in Processes, Stop(x) \/ Continue(x) PROVE Changed(l)
    BY <1>2, <1>8, <2>6 DEF Stop, Continue
  <2> QED
    BY <1>8, <1>9, <2>1, <2>2, <2>3, <2>4, <2>5, <2>6 DEF Environment, Peer, PeerBeats
<1>10. ASSUME NEW a \in Agents,
              \/ Begin(a) \/ Probe(a) \/ SampleA(a) \/ SampleB(a) \/ SampleC(a) \/ Retaken(a)
              \/ Primary(a) \/ Contend(a) \/ (\E m \in Locks : Permit(a, m)) \/ FirstSample(a)
              \/ SecondSample(a) \/ Record(a) \/ Arm(a) \/ Check(a) \/ Write(a) \/ Unarm(a)
              \/ Emergency(a) \/ Crash(a)
       PROVE  Changed(l)
  BY <1>2, <1>10
  DEF Begin, Probe, SampleA, SampleB, SampleC, Retaken, Primary, Contend, Permit, FirstSample,
      SecondSample, Record, Arm, Check, Write, Unarm, Emergency, Crash
<1>11. CASE UNCHANGED vars
  BY <1>2, <1>11 DEF vars
<1> QED
  BY <1>4, <1>5, <1>6, <1>7, <1>9, <1>10, <1>11 DEF Next, Work, Acquire, Hold, Doctor, Environment

\* What may change the state of a process, the history and the emergency releases.
LEMMA OtherChanges ==
    ASSUME LockInv, [Next]_vars, NEW b \in Agents
    PROVE  /\ state'[b] = state[b] \/ Stop(b) \/ Continue(b) \/ Crash(b)
           /\ lapsed => lapsed'
           /\ \/ undoing'[b].left = undoing[b].left \/ undoing'[b].left = 0
              \/ lapsed' \/ EmergencyRelease(b)
<1> USE DEF HoldKeeps, HeldKeeps, Others
<1>1. /\ TypeOK
      /\ state \in [Processes -> {"runs", "stopped", "dead"}]
      /\ undoing \in [Agents -> [left : 0 .. Depth, own : BOOLEAN]]
      /\ lapsed \in BOOLEAN
  BY DEF LockInv, TypeOK
<1> DEFINE Good ==
             /\ state'[b] = state[b] \/ Stop(b) \/ Continue(b) \/ Crash(b)
             /\ lapsed => lapsed'
             /\ \/ undoing'[b].left = undoing[b].left \/ undoing'[b].left = 0
                \/ lapsed' \/ EmergencyRelease(b)
<1>2. CASE UNCHANGED <<state, lapsed, undoing>>
  BY <1>2
<1>3. ASSUME NEW a \in Agents,
             \/ Begin(a) \/ Probe(a) \/ SampleA(a) \/ SampleB(a) \/ SampleC(a) \/ Retaken(a)
             \/ Primary(a) \/ Contend(a) \/ (\E m \in Locks : Permit(a, m)) \/ FirstSample(a)
             \/ SecondSample(a) \/ Arm(a) \/ Check(a) \/ Write(a) \/ Unarm(a)
             \/ Undo(a) \/ Release(a) \/ Take(a) \/ Cancel(a)
      PROVE  Good
  BY <1>2, <1>3
  DEF Begin, Probe, SampleA, SampleB, SampleC, Retaken, Primary, Contend, Permit, FirstSample,
      SecondSample, Arm, Check, Write, Unarm, Undo, Release, Take, Cancel
<1>4. ASSUME NEW a \in Agents, Break(a) \/ Remove(a) PROVE Good
  <2>1. UNCHANGED <<state, undoing>>
    BY <1>4 DEF Break, Remove
  <2>2. lapsed => lapsed'
    BY <1>4, Zenon DEF Break, Remove
  <2> QED
    BY <2>1, <2>2
<1>5. ASSUME NEW a \in Agents, Record(a) PROVE Good
  <2>1. undoing'[b].left = undoing[b].left
    BY <1>1, <1>5 DEF Record
  <2> QED
    BY <1>5, <2>1 DEF Record
<1>6. ASSUME NEW a \in Agents, Emergency(a) PROVE Good
  BY <1>6 DEF Emergency
<1>7. ASSUME NEW a \in Agents, EmergencyRelease(a) PROVE Good
  <2>1. a # b => undoing'[b] = undoing[b]
    BY <1>1, <1>7 DEF EmergencyRelease
  <2> QED
    BY <1>7, <2>1 DEF EmergencyRelease
<1>8. ASSUME NEW a \in Agents, Crash(a) PROVE Good
  <2>1. a # b => undoing'[b] = undoing[b] /\ state'[b] = state[b]
    BY <1>1, <1>8 DEF Crash
  <2>2. a = b => undoing'[b].left = 0
    BY <1>1, <1>8 DEF Crash
  <2>3. lapsed' = lapsed
    BY <1>8 DEF Crash
  <2>4. CASE a = b
    BY <1>8, <2>2, <2>3, <2>4
  <2> QED
    BY <2>1, <2>3, <2>4
<1>9. ASSUME NEW x \in Processes, Stop(x) \/ Continue(x) PROVE Good
  <2>1. x # b => state'[b] = state[b]
    BY <1>1, <1>9 DEF Stop, Continue
  <2>2. undoing' = undoing
    BY <1>9 DEF Stop, Continue
  <2>3. lapsed => lapsed'
    BY <1>9, Zenon DEF Stop, Continue
  <2>4. CASE x = b
    BY <1>9, <2>2, <2>3, <2>4
  <2> QED
    BY <2>1, <2>2, <2>3, <2>4
<1>10. ASSUME (\E p \in Peers : Peer(p)) \/ (\E l \in Locks : GrowOld(l)) PROVE Good
  BY <1>2, <1>10 DEF Peer, PeerBeats, PeerTakes, PeerBreaks, PeerReleases, PeerKeeps, GrowOld
<1>11. ASSUME Sleep PROVE Good
  BY <1>11 DEF Sleep
<1>12. CASE UNCHANGED vars
  BY <1>2, <1>12 DEF vars
<1> QED
  BY <1>3, <1>4, <1>5, <1>6, <1>7, <1>8, <1>9, <1>10, <1>11, <1>12
  DEF Next, Work, Acquire, Hold, Doctor

\* While nothing lapsed, nobody takes away what an agent in a hold took.
LEMMA KeptInHold ==
    ASSUME WriteInv, [Next]_vars, ~lapsed', NEW b \in Agents, NEW l \in Locks,
           pc[b] \in Owning, l <= loc[b].got, pc'[b] \in Owning, l <= loc'[b].got
    PROVE  lock'[l].by = b
<1>1. /\ LockInv /\ ~lapsed /\ TypeOK /\ Shape
      /\ \A a \in Agents : loc[a].got \in 0 .. Depth
  BY OtherChanges, LocalTypes DEF WriteInv, LockInv, TypeOK
<1>2. /\ lock[l].by = b /\ Runs(b) /\ ~lock[l].old /\ Exists(l)
      /\ \A a \in Agents : undoing[a].left = 0
  BY <1>1, AgentsAssumption DEF WriteInv, NoLapse, Holding, Owning, Exists
<1>3. ~Removed(l)
  <2>1. ASSUME NEW a \in Agents, Break(a) \/ Remove(a), loc[a].k = l, l \in same[a] PROVE FALSE
    <3>1. pc[a] \in Sampled
      BY <2>1 DEF Break, Remove, At, Sampled
    <3> QED
      BY <1>2, <2>1, <3>1 DEF WriteInv, ReadIsOld
  <2>2. ASSUME NEW a \in Agents, Undo(a) \/ Release(a), loc[a].got = l PROVE FALSE
    <3>1. pc[a] \in {"undo", "release"} /\ l <= loc[a].got /\ loc[a].got > 0
      BY <1>1, <2>2, DepthAssumption DEF Undo, Release, At
    <3>2. a = b
      BY <1>1, <1>2, <2>2, <3>1 DEF WriteInv, NoLapse, Owning
    <3>3. loc \in [Agents -> Locals] /\ l - 1 \in 0 .. Depth
      BY <1>1, DepthAssumption DEF TypeOK
    <3>4. Set(b, [loc[b] EXCEPT !.got = @ - 1])
      BY <2>2, <3>1, <3>2 DEF Undo, Release
    <3>5. loc'[b] = [loc[b] EXCEPT !.got = l - 1]
      BY <2>2, <3>2, <3>3, <3>4 DEF Set
    <3>6. loc'[b].got = l - 1
      BY <3>3, <3>5, SetGot
    <3> QED
      BY <3>6, DepthAssumption
  <2>3. ASSUME NEW a \in Agents, EmergencyRelease(a) PROVE FALSE
    BY <1>2, <2>3 DEF EmergencyRelease
  <2>4. ASSUME NEW p \in Peers, PeerBreaks(p, l) \/ PeerReleases(p, l) PROVE FALSE
    BY <1>2, <2>4, AgentsAssumption DEF PeerBreaks, PeerReleases
  <2> QED
    BY <1>2, <2>1, <2>2, <2>3, <2>4 DEF Removed
<1> QED
  BY <1>1, <1>2, <1>3, LockChanges DEF Changed

LEMMA NoLapseNext ==
    ASSUME WriteInv, [Next]_vars
    PROVE  NoLapse'
<1> SUFFICES ASSUME ~lapsed', NEW b \in Agents
             PROVE  /\ undoing'[b].left = 0
                    /\ Holding(b)' => Runs(b)'
                    /\ \A l \in Locks :
                         /\ lock'[l].by = b /\ Runs(b)' => ~lock'[l].old
                         /\ pc'[b] \in Owning /\ l <= loc'[b].got => lock'[l].by = b
  BY DEF NoLapse
<1>1. LockInv /\ LockInv' /\ TypeOK /\ Shape /\ ~lapsed
  BY OtherChanges, NextInv DEF WriteInv, LockInv
<1>2. /\ undoing[b].left = 0
      /\ Holding(b) => Runs(b)
      /\ \A l \in Locks :
           /\ lock[l].by = b /\ Runs(b) => ~lock[l].old
           /\ pc[b] \in Owning /\ l <= loc[b].got => lock[l].by = b
  BY <1>1 DEF WriteInv, NoLapse
<1>3. \A l \in Locks : lock[l].by = b => (Holding(b) /\ Runs(b)) \/ state[b] = "dead"
  BY <1>1, <1>2 DEF LockInv, OwnedIsTaken, Shape, Owning, Holding
<1>4. undoing'[b].left = 0
  BY <1>1, <1>2, OtherChanges DEF EmergencyRelease
<1>5. Holding(b)' => Runs(b)'
  <2>1. ASSUME Holding(b)', Acts(b) PROVE Runs(b)'
    <3>1. ~Crash(b)
      BY <1>1, <2>1 DEF Crash, Goto, Holding, TypeOK
    <3>2. Runs(b)
      BY <2>1, <3>1
      DEF Acts, Searches, Begin, Probe, SampleA, SampleB, SampleC, Break, Retaken, Primary, Contend,
          Permit, FirstSample, SecondSample, Remove, Record, Take, Undo, Arm, Check, Write, Release,
          Unarm, At
    <3>3. state' = state
      BY <2>1, <3>1
      DEF Acts, Searches, Begin, Probe, SampleA, SampleB, SampleC, Break, Retaken, Primary, Contend,
          Permit, FirstSample, SecondSample, Remove, Record, Take, Undo, Arm, Check, Write, Release,
          Unarm, HoldKeeps, HeldKeeps, Others
    <3> QED
      BY <3>2, <3>3 DEF Runs
  <2>2. ASSUME Holding(b)', pc'[b] = pc[b] PROVE Runs(b)'
    <3>1. Holding(b) /\ Runs(b)
      BY <1>2, <2>2 DEF Holding
    <3>2. ~Stop(b)
      BY <3>1 DEF Stop
    <3>3. ~Crash(b)
      BY <1>1, <2>2 DEF Crash, Goto, Holding, TypeOK
    <3>4. ~Continue(b)
      BY <3>1 DEF Continue, Runs
    <3> QED
      BY <1>1, <3>1, <3>2, <3>3, <3>4, OtherChanges DEF Runs
  <2> QED
    BY <1>1, <2>1, <2>2, WhoMoves
<1>6. ASSUME NEW l \in Locks, lock'[l].by = b, Runs(b)' PROVE ~lock'[l].old
  <2>1. state[b] = "dead" => state'[b] = "dead"
    BY <1>1, OtherChanges DEF Stop, Continue, Crash, Runs
  <2>2. lock[l].by = b => Holding(b) /\ Runs(b) /\ ~lock[l].old
    BY <1>2, <1>3, <1>6, <2>1 DEF Runs
  <2>3. Sleep => ~Holding(b)
    BY DEF Sleep
  <2>4. b # NoOne
    BY AgentsAssumption
  <2> QED
    BY <1>1, <1>6, <2>2, <2>3, <2>4, LockChanges DEF Changed
<1>7. ASSUME NEW l \in Locks, pc'[b] \in Owning, l <= loc'[b].got PROVE lock'[l].by = b
  <2>1. loc[b].got \in 0 .. Depth /\ loc'[b].got \in 0 .. Depth
    BY <1>1, LocalTypes DEF LockInv, TypeOK
  <2>2. CASE Take(b) /\ l = loc[b].got + 1
    BY <1>1, <1>7, <2>1, <2>2, TakeEffect, DepthAssumption
  <2>3. CASE Take(b) /\ l # loc[b].got + 1
    <3>1. pc[b] \in Owning
      BY <2>3 DEF Take, At, Owning
    <3>2. loc'[b].got \in {loc[b].got, loc[b].got + 1}
      BY <1>1, <2>3, TakeEffect
    <3>3. l <= loc[b].got
      BY <1>7, <2>1, <2>3, <3>2, DepthAssumption
    <3> QED
      BY <1>7, <3>1, <3>3, KeptInHold
  <2>4. CASE ~Take(b)
    <3>1. (pc[b] \in Owning /\ loc'[b].got <= loc[b].got) \/ loc'[b].got = 0
      BY <1>1, <1>7, <2>4, OwningStep
    <3>2. pc[b] \in Owning /\ l <= loc[b].got
      BY <1>7, <2>1, <3>1, DepthAssumption
    <3> QED
      BY <1>7, <3>2, KeptInHold
  <2> QED
    BY <2>2, <2>3, <2>4
<1> QED
  BY <1>4, <1>5, <1>6, <1>7

----------------------------------------------------------------------------
(* The theorems of WriteInv.                                               *)

LEMMA InitWriteInv == Init => WriteInv
<1> SUFFICES ASSUME Init PROVE WriteInv
  OBVIOUS
<1>1. LockInv
  BY InitInv
<1>2. \A a \in Agents, l \in Locks : lock[l].by # a
  BY AgentsAssumption DEF Init, Free, Owned
<1>3. ReadIsOld /\ WaitedOut /\ MadeIsOwn /\ FullyTaken
  BY DEF Init, ReadIsOld, Sampled, WaitedOut, MadeIsOwn, Owning, FullyTaken
<1>4. NoLapse
  BY <1>2 DEF Init, NoLapse, Holding, Owning
<1> QED
  BY <1>1, <1>3, <1>4 DEF WriteInv

LEMMA NextWriteInv == WriteInv /\ [Next]_vars => WriteInv'
<1> SUFFICES ASSUME WriteInv, [Next]_vars PROVE WriteInv'
  OBVIOUS
<1>1. LockInv /\ ReadIsOld /\ WaitedOut /\ MadeIsOwn /\ FullyTaken
  BY DEF WriteInv
<1>2. LockInv'
  BY <1>1, NextInv
<1>3. ReadIsOld' /\ WaitedOut' /\ MadeIsOwn' /\ FullyTaken' /\ NoLapse'
  BY <1>1, ReadIsOldNext, WaitedOutNext, MadeIsOwnNext, FullyTakenNext, NoLapseNext
<1> QED
  BY <1>2, <1>3 DEF WriteInv

\* The invariant of the write holds in every reachable state.
THEOREM WriteInvariant == Spec => []WriteInv
BY InitWriteInv, NextWriteInv, PTL DEF Spec

\* The write is made with all the locks the agent's own, unless something that lapsed
\* names has happened.
THEOREM WritesUnderLocks == Spec => []WriteUnderLocks
<1>1. WriteInv => WriteUnderLocks
  <2> SUFFICES ASSUME WriteInv, NEW a \in Agents, pc[a] = "write", ~lapsed, NEW l \in Locks
               PROVE  lock[l].by = a
    BY DEF WriteUnderLocks
  <2>1. l <= loc[a].got
    BY DepthAssumption DEF WriteInv, FullyTaken
  <2> QED
    BY <2>1 DEF WriteInv, NoLapse, Owning
<1> QED
  BY <1>1, WriteInvariant, PTL

\* And whatever has happened, it is begun only with all of them still the agent's own.
THEOREM ChecksSeeAll == Spec => CheckSeesAll
<1>1. ASSUME WriteInv, [Next]_vars, NEW a \in Agents, pc[a] = "held", pc'[a] = "write", NEW l \in Locks
      PROVE  lock[l].by = a
  <2>1. TypeOK /\ Shape /\ LockInv
    BY <1>1 DEF WriteInv, LockInv
  <2>2. ~Searches(a)
    BY <1>1, <2>1, SearchStep DEF Outside, Waiting
  <2>3. Check(a)
    BY <1>1, <2>1, <2>2, WhoMoves
    DEF Acts, Record, Take, Undo, Arm, Write, Release, Unarm, Crash, At, Goto, TypeOK
  <2>4. l \in same[a]
    BY <1>1, <2>1, <2>3 DEF Check, Goto, TypeOK
  <2>5. l <= loc[a].got
    BY <1>1, DepthAssumption DEF WriteInv, FullyTaken
  <2> QED
    BY <1>1, <2>4, <2>5 DEF WriteInv, MadeIsOwn, Owning
<1>2. WriteInv /\ [Next]_vars =>
        [\A a \in Agents : pc[a] = "held" /\ pc'[a] = "write" => \A l \in Locks : lock[l].by = a]_vars
  BY <1>1
<1> QED
  BY <1>2, WriteInvariant, PTL DEF Spec, CheckSeesAll

\* A lock that the break rule has decided to remove is held by no running Claude Code,
\* unless it came back since its last sample.
THEOREM BreaksSpareTheBeating == Spec => []BreakSparesTheBeating
<1>1. WriteInv => BreakSparesTheBeating
  BY DEF WriteInv, WaitedOut, BreakSparesTheBeating
<1> QED
  BY <1>1, WriteInvariant, PTL

\* Nor one that a removal by hand has, its run not cancelled.
THEOREM RemovalsSpareTheBeating == Spec => []DoctorSparesTheBeating
<1>1. WriteInv => DoctorSparesTheBeating
  BY DEF WriteInv, WaitedOut, DoctorSparesTheBeating
<1> QED
  BY <1>1, WriteInvariant, PTL
=============================================================================
