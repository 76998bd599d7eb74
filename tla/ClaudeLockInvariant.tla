------------------------ MODULE ClaudeLockInvariant ------------------------
(* The inductive invariant behind the safety theorems of ClaudeLock.       *)
EXTENDS ClaudeLock

Sampling == {"sampleA", "sampleB", "sampleC", "break"}

\* The steps of an agent that has made no directory, or has given all back.
Outside == Waiting \cup {"idle", "record", "first", "second", "remove", "unarm"}

\* The steps of an agent that may own directories.
Owning == {"take", "undo", "arm", "held", "write", "release"}

\* What the locals hold by the step that uses them: there is a lock left to take,
\* and a break is only decided before one was.
Shape ==
    \A a \in Agents :
        /\ pc[a] \in Outside => loc[a].got = 0
        /\ pc[a] = "take" => loc[a].got < Depth
        /\ loc[a].breaks <= 1
        /\ ~loc[a].tried => loc[a].breaks = 0
        /\ pc[a] \in Sampling => ~loc[a].tried
        /\ pc[a] = "dead" <=> state[a] = "dead"

\* A directory of an agent is one it took and has not given back, and its record is
\* on disk; or the agent is dead, and its record too.
OwnedIsTaken ==
    \A a \in Agents, l \in Locks :
        lock[l].by = a =>
            /\ a \in record
            /\ pc[a] = "dead" \/ (pc[a] \in Owning /\ l <= loc[a].got)

\* The record is on disk before a directory can be made.
RecordFirst ==
    \A a \in Agents : pc[a] \in {"take", "undo", "arm"} => a \in record /\ ~undoing[a].own

\* The emergency release is registered only while there is nothing more to take.
ArmedIsTaken ==
    \A a \in Agents : a \in armed => pc[a] \in {"held", "write", "release", "unarm"}

\* An emergency release of the present hold removes the record after the last of
\* the directories.
UndoingInOrder ==
    \A a \in Agents :
        undoing[a].own => /\ undoing[a].left > 0
                          /\ \A l \in Locks : lock[l].by = a => l <= undoing[a].left

\* The inductive invariant: what is owned was taken, after its record was written,
\* whoever gives it back (claude_lock.rs acquire_with, release, and the emergency
\* release beside them).
LockInv ==
    /\ TypeOK
    /\ Shape
    /\ OwnedIsTaken
    /\ RecordFirst
    /\ ArmedIsTaken
    /\ UndoingInOrder

----------------------------------------------------------------------------

Sampled == {"sampleB", "sampleC", "break", "second", "remove"}

\* What was sampled and has not been touched since is still past its window.
ReadIsOld ==
    \A a \in Agents :
        pc[a] \in Sampled /\ loc[a].k \in same[a] =>
            lock[loc[a].k].old /\ Exists(loc[a].k)

\* What was waited out and not touched since is nobody's who still beats.
WaitedOut ==
    \A a \in Agents :
        /\ pc[a] \in {"sampleC", "break"} \/ (pc[a] = "remove" /\ a \notin cancelled)
        /\ loc[a].k \in same[a]
        => ~Beating(loc[a].k)

\* What was made and has not been touched since is still the agent's.
MadeIsOwn ==
    \A a \in Agents, l \in Locks :
        pc[a] \in Owning /\ l <= loc[a].got /\ l \in same[a] => lock[l].by = a

\* Everything is taken before the hold begins.
FullyTaken == \A a \in Agents : pc[a] \in {"arm", "held", "write"} => loc[a].got = Depth

\* While nothing of what lapsed names has happened, an agent in a hold runs, what it
\* took is still its own, and no directory of an agent is past its window.
NoLapse ==
    ~lapsed =>
        \A a \in Agents :
            /\ undoing[a].left = 0
            /\ Holding(a) => Runs(a)
            /\ \A l \in Locks :
                 /\ lock[l].by = a /\ Runs(a) => ~lock[l].old
                 /\ pc[a] \in Owning /\ l <= loc[a].got => lock[l].by = a

\* The inductive invariant of the write: nobody removes what is not stale, and what
\* is stale is not held (claude_lock.rs break rule, drift_check; doctor.rs).
WriteInv ==
    /\ LockInv
    /\ ReadIsOld
    /\ WaitedOut
    /\ MadeIsOwn
    /\ FullyTaken
    /\ NoLapse
=============================================================================
