----------------------- MODULE CodexRefreshInvariant -----------------------
(***************************************************************************)
(* The inductive invariant behind the safety properties of CodexRefresh:   *)
(* what holds of the disk, the marker and the process that holds the lock  *)
(* at each step of its command.                                            *)
(***************************************************************************)
EXTENDS CodexRefresh

\* The steps after the read of auth.json, and those that write the merged grant.
Writing == {"check", "stage", "rename", "reread", "park", "parkmeta", "parkpend",
            "landed", "unknown"}
Marked == {"settle", "base", "clear", "dead"} \cup Writing
AfterRead == {"decide", "gate", "snap", "mark", "post"} \cup Marked

\* What each local holds by the step that uses it.
Shape(p) ==
    /\ pc[p] \in AfterRead => loc[p].cred \in Docs /\ loc[p].cred.ref # NoRef
    /\ pc[p] = "settle" /\ loc[p].out = "applied" => loc[p].new \in Docs
    /\ pc[p] \in {"base", "irename"} \cup Writing => loc[p].new \in Docs
    /\ pc[p] \in Writing => loc[p].base \in Docs
    /\ pc[p] \in {"check", "stage", "rename", "reread"} => loc[p].attempt \in 1 .. Attempts
    /\ pc[p] = "park" => loc[p].attempt = ParkAttempt
    /\ pc[p] \in {"parkmeta", "parkpend"} => loc[p].attempt \in 1 .. ParkAttempt

TypeInv == TypeOK /\ \A p \in Procs : Shape(p)

\* The process past the wait is the one that holds the lock.
Mutex == \A p \in Procs : pc[p] \notin Unlocked <=> lock = p

\* A token not issued yet, and the absence of one, were never sent.
Fresh == \A r \in Refs : r = NoRef \/ r >= next => open[r] = {}

\* The files hold issued tokens.
Issued(f) == IsDoc(f) => f.ref < next
FilesIssued == Issued(auth) /\ Issued(pend)

\* A parked grant is unsent.
ParkedUnsent == pend # Absent => open[pend.ref] = {}

\* The user's unsettled re-send of the marked grant is recorded.
ResendRecorded == "user" \in open[marker.inflight] => marker.resent

Unsent(f) == IsDoc(f) => open[f.ref] = {}

\* What the lock holder knows at each step.
Knows(p) ==
    LET l == loc[p] IN
    /\ pc[p] # "idle" => l.mode \in Commands
    /\ pc[p] \notin {"remove", "unlink"}
    /\ pc[p] # "landed" => ~l.parked
    \* The grant read is the file's, and the file can only have moved on to an
    \* unsent one.
    /\ pc[p] \in AfterRead => Issued(l.cred)
    /\ pc[p] \in AfterRead => auth = l.cred \/ Unsent(auth)
    /\ pc[p] \in {"decide", "gate", "snap", "mark", "post", "settle", "base"} =>
         auth = l.cred \/ ~Holds(auth, l.cred.ref)
    \* No grant is parked while a send is under way.
    /\ pc[p] \in {"unmeta", "read"} \cup (AfterRead \ {"landed"}) => pend = Absent
    /\ pc[p] = "landed" /\ ~l.parked => pend = Absent
    \* Before the POST.
    /\ pc[p] = "decide" =>
         open[l.cred.ref] = {} \/ l.cred.ref \in {marker.inflight, marker.dead}
    /\ pc[p] \in {"gate", "snap", "mark", "post"} /\ l.mode # "resend" => open[l.cred.ref] = {}
    \* After it.
    /\ pc[p] \in {"post"} \cup Marked => marker.inflight = l.cred.ref
    /\ pc[p] \in {"post", "settle"} /\ l.mode = "resend" => marker.resent
    /\ pc[p] = "post" /\ l.mode = "resend" => "user" \notin open[l.cred.ref]
    /\ pc[p] = "settle" /\ l.mode # "resend" => open[l.cred.ref] = {"auto"}
    /\ pc[p] \in {"settle", "base"} /\ (pc[p] = "settle" => l.out = "applied") =>
         \/ l.new.ref = NoRef /\ (pc[p] = "base" => open[l.cred.ref] = {})
         \/ l.new.ref # NoRef /\ l.new.ref # l.cred.ref /\ open[l.new.ref] = {}
    /\ pc[p] \in Writing => l.base = l.cred /\ open[l.new.ref] = {}
    \* The park.
    /\ pc[p] = "parkpend" => meta = l.cred
    /\ pc[p] = "landed" /\ l.parked => pend # Absent /\ meta = l.cred
    \* The send is forgotten only once the file does not hold its grant.
    /\ pc[p] = "landed" /\ ~l.parked => Unsent(auth)
    /\ pc[p] \in {"clear", "ireset"} => Unsent(auth)
    \* A parked grant is discarded only when the file has moved on.
    /\ pc[p] = "discard" => ~(IsDoc(auth) /\ auth = meta) \/ Unsent(auth)
    /\ pc[p] = "irename" => open[l.new.ref] = {}
    /\ pc[p] \in {"base", "irename"} \cup Writing => Issued(l.new)
    /\ pc[p] = "settle" /\ l.out = "applied" => Issued(l.new)

IInv == /\ TypeInv
        /\ Mutex
        /\ Fresh
        /\ FilesIssued
        /\ Covered
        /\ ParkedUnsent
        /\ ResendRecorded
        /\ \A p \in Procs : Knows(p)

----------------------------------------------------------------------------
(* Which grant each stored token was rotated from.                         *)

\* The file holds a token of an answer already given.
Given(f) == IsDoc(f) => f.acc < next

\* No answer to agctl's own sends brought what the file holds.
Foreign(f) == IsDoc(f) => from[f.acc] = NoRef

\* What the lock holder is about to write comes from the grant it read, and what
\* it is about to write over is that grant or none that agctl wrote.  Nothing is
\* parked while a send is under way, and what is parked over has its metadata.
Derives(p) ==
    LET l == loc[p] IN
    /\ pc[p] # "idle" => l.mode \in Commands
    /\ pc[p] \in {"remove", "unlink"} => l.mode = "remove"
    /\ pc[p] \in {"unmeta", "read"} \cup (AfterRead \ {"landed"}) => pend = Absent
    /\ pc[p] = "settle" /\ l.out = "applied" => Given(l.new) /\ from[l.new.acc] = l.cred.ref
    /\ pc[p] = "base" => Given(l.new) /\ from[l.new.acc] = l.cred.ref
    /\ pc[p] \in Writing => Given(l.new) /\ from[l.new.acc] = l.base.ref
    /\ pc[p] = "irename" => Given(l.new)
    /\ pc[p] \in {"stage", "rename"} => Foreign(auth) \/ auth.ref = l.base.ref
    /\ pc[p] = "parkpend" => meta = l.base
    /\ pc[p] = "replay" => pend # Absent /\ meta # Absent /\ (Foreign(auth) \/ auth = meta)

\* A removal that stops half-way may leave what is parked without its metadata.
ParkedFrom ==
    pend # Absent =>
        /\ meta # Absent => from[pend.acc] = meta.ref
        /\ "remove" \notin Commands => meta # Absent

Lineage == /\ \A t \in Tokens : t >= next => from[t] = NoRef
           /\ Given(auth) /\ Given(pend)
           /\ ParkedFrom
           /\ \A p \in Procs : Derives(p)
=============================================================================
