--------------------------- MODULE CodexRefresh ---------------------------
(***************************************************************************)
(* One owned Codex namespace: the agctl processes that refresh it, log in  *)
(* to it or remove it, the Codex process that rewrites auth.json with no   *)
(* lock, and the token host.                                               *)
(*                                                                         *)
(* A refresh token may be spent by the POST that carries it, so the code   *)
(* surrounds the one POST with a namespace lock, a durable marker, a       *)
(* pending pair that parks a rotated grant and a set of rules for what an  *)
(* unanswered POST means.  Every step below that touches the disk is one   *)
(* atomic system call of the code; a process may die between any two.      *)
(*                                                                         *)
(* Tokens are numbered in the order the token host issues them.  The time  *)
(* rules (401 floor, server floor, resend wait, access expiry) appear only *)
(* as "the gate may refuse": CodexPass models them with a clock.           *)
(***************************************************************************)
EXTENDS Integers, FiniteSets

CONSTANTS
    Procs,          \* agctl processes
    NoProc,         \* the holder of a free lock
    MaxToken,       \* tokens the token host ever issues
    Commands,       \* the commands the processes run
    Codex           \* what the lock-less Codex process does to auth.json

Sends == {"proactive", "after401", "resend"}

ASSUME ProcsAssumption == NoProc \notin Procs
ASSUME TokenAssumption == MaxToken \in Nat \ {0}
ASSUME CommandsAssumption == Commands \subseteq Sends \cup {"install", "remove"}
ASSUME CodexAssumption == Codex \subseteq {"rewrite", "access", "delete"}

VARIABLES
    auth,       \* auth.json: absent, torn, or a document
    pend,       \* auth.json.pending
    meta,       \* auth.pending.meta: the document the parked one derives from
    tmps,       \* kept auth.json.tmp.* files, as <<document, attempt>>
    marker,     \* the refresh marker, <user>+<acct>.refresh
    lock,       \* who holds the namespace flock
    pc,         \* where each process is
    loc,        \* the local variables of each process
    next,       \* the next token the token host issues
    open,       \* history: the POSTs of each grant with no definite answer yet
    from        \* history: the grant whose POST brought each token; a login's own
                \* token comes from itself, one Codex stored from NoRef

disk == <<auth, pend, meta, tmps>>
history == <<open, from>>
vars == <<auth, pend, meta, tmps, marker, lock, pc, loc, next, open, from>>

----------------------------------------------------------------------------
(* Values.                                                                 *)

NoRef == 0                                  \* a document with no refresh token
Refs == 0 .. MaxToken
Tokens == 1 .. MaxToken

Absent == [kind |-> "absent", ref |-> NoRef, acc |-> 0]
Torn == [kind |-> "torn", ref |-> NoRef, acc |-> 0]
Doc(r, a) == [kind |-> "doc", ref |-> r, acc |-> a]
Docs == [kind : {"doc"}, ref : Refs, acc : Tokens]
Kept == Docs \cup {Absent}
Files == Kept \cup {Torn}

IsDoc(f) == f.kind = "doc"
Holds(f, r) == IsDoc(f) /\ f.ref = r        \* the file holds grant r

\* The marker: no marker file reads as the default marker.
Classes == {"none", "interrupted", "unclear", "write_failed"}
Markers == [inflight : Refs, class : Classes, resent : BOOLEAN, dead : Refs]
DefaultMarker == [inflight |-> NoRef, class |-> "none", resent |-> FALSE, dead |-> NoRef]

NamedFiles == {"auth", "pend", "meta", "tmps"}

Outcomes == {"none", "presend", "rejected", "applied", "permanent", "unclear"}
Locals == [mode : Sends \cup {"none", "install", "remove"}, rejected : Refs,
           cred : Kept, base : Kept, new : Kept, out : Outcomes,
           attempt : 0 .. 4, parked : BOOLEAN, todo : SUBSET NamedFiles]
NoLocals == [mode |-> "none", rejected |-> NoRef, cred |-> Absent, base |-> Absent,
             new |-> Absent, out |-> "none", attempt |-> 0, parked |-> FALSE, todo |-> {}]

\* POST_APPLIED_ATTEMPTS writes, then one more temporary for the park.
\* A send is the program's own or the user's one consented re-send.
Kinds == {"auto", "user"}

Attempts == 3
ParkAttempt == 4

Labels == {"idle", "lock", "resolve", "replay", "discard", "unmeta", "read", "decide",
           "gate", "snap", "mark", "post", "settle", "clear", "dead", "base", "check",
           "stage", "rename", "reread", "park", "parkmeta", "parkpend", "landed",
           "unknown", "istage", "irename", "ireset", "remove", "unlink"}
Unlocked == {"idle", "lock"}

----------------------------------------------------------------------------
(* Building blocks.                                                        *)

Goto(p, l) == pc' = [pc EXCEPT ![p] = l]
Set(p, l) == loc' = [loc EXCEPT ![p] = l]

\* The command ends and its guard is dropped.
Return(p) ==
    /\ Goto(p, "idle")
    /\ Set(p, NoLocals)
    /\ lock' = NoProc

\* A marker store that reports an error: nothing written, or only the
\* directory flush after the rename failed.
StoreFailed(m) == marker' \in {marker, m}

\* Store m and carry on at l, or fail and end the command.
StoreThen(p, m, l) ==
    \/ marker' = m /\ Goto(p, l) /\ UNCHANGED <<loc, lock>>
    \/ StoreFailed(m) /\ Return(p)

\* Store m as the last thing the command does; either way it ends.
StoreLast(p, m) == (marker' = m \/ StoreFailed(m)) /\ Return(p)

Cleared == [marker EXCEPT !.inflight = NoRef, !.class = "none", !.resent = FALSE]

\* Mutant: the dead grant is not recorded.
SettledForgets(dead) == [Cleared EXCEPT !.dead = NoRef]

\* settle_inflight: the send cleared and the dead grant recorded or forgotten.
Settled(dead) == [Cleared EXCEPT !.dead = dead]

Init ==
    /\ auth = Doc(1, 1)
    /\ pend = Absent
    /\ meta = Absent
    /\ tmps = {}
    /\ marker = DefaultMarker
    /\ lock = NoProc
    /\ pc = [p \in Procs |-> "idle"]
    /\ loc = [p \in Procs |-> NoLocals]
    /\ next = 2
    /\ open = [r \in Refs |-> {}]
    /\ from = [t \in Tokens |-> IF t = 1 THEN 1 ELSE NoRef]

----------------------------------------------------------------------------
(* Starting a command and taking the lock.                                 *)

\* A command whose early checks pass.  An after-401 send carries the access
\* token the usage GET was refused with.
Begin(p, m) ==
    /\ pc[p] = "idle"
    /\ m = "after401" => IsDoc(auth)
    /\ Goto(p, "lock")
    /\ Set(p, [NoLocals EXCEPT !.mode = m, !.rejected = IF m = "after401" THEN auth.acc ELSE 0])
    /\ UNCHANGED <<disk, marker, lock, next, history>>

\* The non-blocking flock succeeds.
Acquire(p) ==
    /\ pc[p] = "lock"
    /\ lock = NoProc
    /\ lock' = p
    /\ Goto(p, CASE loc[p].mode \in Sends   -> "resolve"
                 [] loc[p].mode = "install" -> "istage"
                 [] OTHER                   -> "remove")
    /\ UNCHANGED <<disk, marker, loc, next, history>>

\* Mutant: the wait has no budget.
GiveUpNever(p) ==
    /\ FALSE
    /\ UNCHANGED vars

\* Another holder outlasted the budget (busy), or the wait was cancelled.
GiveUp(p) ==
    /\ pc[p] = "lock"
    /\ Goto(p, "idle")
    /\ Set(p, NoLocals)
    /\ UNCHANGED <<disk, marker, lock, next, history>>

----------------------------------------------------------------------------
(* Writer 3: replay or discard a parked grant, before anything else.       *)

\* Mutant: a parked grant is replayed without comparing the file with its metadata.
ResolveUncompared(p) ==
    /\ pc[p] = "resolve"
    /\ IF pend = Absent THEN meta' = Absent /\ Goto(p, "read")
                        ELSE UNCHANGED meta /\ Goto(p, "replay")
    /\ UNCHANGED <<auth, pend, tmps, marker, lock, loc, next, history>>

\* The decision table of resolve_pending_with, for the strict Codex reader.
Resolve(p) ==
    /\ pc[p] = "resolve"
    /\ \/ /\ pend = Absent                       \* NoPending: a lone meta is cleared
          /\ meta' = Absent
          /\ Goto(p, "read")
          /\ UNCHANGED <<loc, lock>>
       \/ /\ pend # Absent
          /\ IF meta # Absent /\ auth = Torn
               THEN Return(p)                    \* present and unusable: keep every file
               ELSE /\ Goto(p, IF meta # Absent /\ auth = meta THEN "replay" ELSE "discard")
                    /\ UNCHANGED <<loc, lock>>
          /\ UNCHANGED meta
       \/ Return(p) /\ UNCHANGED meta            \* any file that cannot be opened
    /\ UNCHANGED <<auth, pend, tmps, marker, next, history>>

\* The replay rename, which does not look at the target again.
Replay(p) ==
    /\ pc[p] = "replay"
    /\ \/ /\ auth' = pend
          /\ pend' = Absent
          /\ Goto(p, "unmeta")
          /\ UNCHANGED <<loc, lock>>
       \/ Return(p) /\ UNCHANGED <<auth, pend>>
    /\ UNCHANGED <<meta, tmps, marker, next, history>>

Discard(p) ==
    /\ pc[p] = "discard"
    /\ pend' = Absent
    /\ Goto(p, "unmeta")
    /\ UNCHANGED <<auth, meta, tmps, marker, lock, loc, next, history>>

UnlinkMeta(p) ==
    /\ pc[p] = "unmeta"
    /\ meta' = Absent
    /\ Goto(p, "read")
    /\ UNCHANGED <<auth, pend, tmps, marker, lock, loc, next, history>>

----------------------------------------------------------------------------
(* The read, the marker and the gates.                                     *)

\* A torn or absent file, an unreadable one, or one with no refresh token
\* ends the command; otherwise its document is what the send is about.
ReadAuth(p) ==
    /\ pc[p] = "read"
    /\ \/ /\ IsDoc(auth)
          /\ auth.ref # NoRef
          /\ Set(p, [loc[p] EXCEPT !.cred = auth])
          /\ Goto(p, "decide")
          /\ UNCHANGED lock
       \/ Return(p)
    /\ UNCHANGED <<disk, marker, next, history>>

\* Mutant: only a classified send counts.
OutstandingClassified(p) == marker.inflight = loc[p].cred.ref /\ marker.class # "none"

\* This grant's send is outstanding: its outcome is unknown.
Outstanding(p) == marker.inflight = loc[p].cred.ref

\* Reasons to stop before the marker is touched: the marker cannot be read, the
\* token host called this grant dead, or the refused access token is gone.
StopEarly(p) ==
    /\ pc[p] = "decide"
    /\ Return(p)
    /\ UNCHANGED <<disk, marker, next, history>>

MayDecide(p) ==
    /\ pc[p] = "decide"
    /\ marker.dead # loc[p].cred.ref
    /\ loc[p].mode = "after401" => loc[p].cred.acc = loc[p].rejected

\* compare_marker, no send of this grant outstanding: a send of another grant
\* is stale and cleared.  Only an automatic send goes on; --resend is refused.
CompareClear(p) ==
    /\ MayDecide(p)
    /\ ~Outstanding(p)
    /\ LET go == IF loc[p].mode = "resend" THEN "idle" ELSE "gate" IN
       IF marker.inflight = NoRef
         THEN /\ IF go = "idle" THEN Return(p) ELSE Goto(p, go) /\ UNCHANGED <<loc, lock>>
              /\ UNCHANGED marker
         ELSE IF go = "idle" THEN StoreLast(p, Cleared) ELSE StoreThen(p, Cleared, go)
    /\ UNCHANGED <<disk, next, history>>

\* compare_marker, this grant's send outstanding: classified "interrupted" if the
\* process that sent it died unclassified.  Only --resend goes on, once, after the
\* wait, and never while a kept temporary may hold the rotated grant.
CompareUnknown(p) ==
    /\ MayDecide(p)
    /\ Outstanding(p)
    /\ LET m == IF marker.class = "none" THEN [marker EXCEPT !.class = "interrupted"]
                                         ELSE marker
           on == loc[p].mode = "resend" /\ ~marker.resent /\ tmps = {} IN
       \/ on /\ StoreThen(p, m, "gate")
       \/ StoreLast(p, m)
    /\ UNCHANGED <<disk, next, history>>

\* The daemon evidence, the access expiry and the floors: go on or stop.
Gate(p) ==
    /\ pc[p] = "gate"
    /\ \/ Goto(p, "snap") /\ UNCHANGED <<loc, lock>>
       \/ Return(p)
    /\ UNCHANGED <<disk, marker, next, history>>

\* The pre-POST re-read must still hold the grant, uncancelled.
Snapshot(p) ==
    /\ pc[p] = "snap"
    /\ \/ /\ Holds(auth, loc[p].cred.ref)
          /\ Goto(p, "mark")
          /\ UNCHANGED <<loc, lock>>
       \/ Return(p)
    /\ UNCHANGED <<disk, marker, next, history>>

\* Mutant: a re-send is not recorded as spent.
WriteMarkerUnspent(p) ==
    /\ pc[p] = "mark"
    /\ IF loc[p].mode = "resend" THEN Outstanding(p) ELSE marker.inflight = NoRef
    /\ StoreThen(p, IF loc[p].mode = "resend" THEN marker
                    ELSE [Cleared EXCEPT !.inflight = loc[p].cred.ref], "post")
    /\ UNCHANGED <<disk, next, history>>

\* write_inflight refuses while a send is in flight; write_resend requires one
\* that is classified and not yet re-sent, and keeps its class.
WriteMarker(p) ==
    /\ pc[p] = "mark"
    /\ LET r == loc[p].cred.ref
           ready == IF loc[p].mode = "resend"
                    THEN Outstanding(p) /\ ~marker.resent /\ marker.class # "none"
                    ELSE marker.inflight = NoRef
           m == IF loc[p].mode = "resend"
                THEN [marker EXCEPT !.resent = TRUE]
                ELSE [Cleared EXCEPT !.inflight = r] IN
       IF ready THEN StoreThen(p, m, "post") ELSE Return(p) /\ UNCHANGED marker
    /\ UNCHANGED <<disk, next, history>>

----------------------------------------------------------------------------
(* The POST and its answer.                                                *)

\* The POST leaves, and what will come back is settled at the token host: the
\* response may rotate the refresh token or carry none (then the old one
\* stays good).  "unclear" stands for every answer that does not tell whether
\* the grant was spent: 429, 5xx, an unusable body, a transport failure.
KindOf(p) == IF loc[p].mode = "resend" THEN "user" ELSE "auto"

Post(p) ==
    /\ pc[p] = "post"
    /\ open' = [open EXCEPT ![loc[p].cred.ref] = @ \cup {KindOf(p)}]
    /\ \/ \E out \in Outcomes \ {"none", "applied"} :
            /\ Set(p, [loc[p] EXCEPT !.out = out])
            /\ UNCHANGED <<next, from>>
       \/ /\ next <= MaxToken
          /\ next' = next + 1
          /\ from' = [from EXCEPT ![next] = loc[p].cred.ref]
          /\ \E ref \in {NoRef, next} :
               Set(p, [loc[p] EXCEPT !.out = "applied", !.new = Doc(ref, next)])
    /\ Goto(p, "settle")
    /\ UNCHANGED <<disk, marker, lock>>

\* The answer says the POST was not processed.
NotProcessed(p) == open' = [open EXCEPT ![loc[p].cred.ref] = @ \ {KindOf(p)}]

\* Mutant: a rejected re-send clears the send it was to settle.
SettleUnsentClears(p) ==
    /\ pc[p] = "settle"
    /\ loc[p].out \in {"presend", "rejected"}
    /\ NotProcessed(p)
    /\ StoreLast(p, Cleared)
    /\ UNCHANGED <<disk, next, from>>

\* PreSend and Rejected: an automatic send is cleared; a re-send goes back to
\* unknown, spent only if a 4xx answered it.
SettleUnsent(p) ==
    /\ pc[p] = "settle"
    /\ loc[p].out \in {"presend", "rejected"}
    /\ NotProcessed(p)
    /\ StoreLast(p, IF loc[p].mode = "resend"
                    THEN [marker EXCEPT !.resent = loc[p].out = "rejected"]
                    ELSE Cleared)
    /\ UNCHANGED <<disk, next, from>>

SettleUnclear(p) ==
    /\ pc[p] = "settle"
    /\ loc[p].out = "unclear"
    /\ StoreLast(p, [marker EXCEPT !.class = "unclear"])
    /\ UNCHANGED <<disk, next, history>>

\* The grant is dead, unless another writer's grant is in the file by now.
SettlePermanent(p) ==
    /\ pc[p] = "settle"
    /\ loc[p].out = "permanent"
    /\ Goto(p, IF IsDoc(auth) /\ auth.ref \notin {NoRef, loc[p].cred.ref}
               THEN "clear" ELSE "dead")
    /\ UNCHANGED <<disk, marker, lock, loc, next, history>>

ClearInflight(p) ==
    /\ pc[p] = "clear"
    /\ StoreLast(p, Cleared)
    /\ UNCHANGED <<disk, next, history>>

MarkDead(p) ==
    /\ pc[p] = "dead"
    /\ StoreLast(p, Settled(loc[p].cred.ref))
    /\ UNCHANGED <<disk, next, history>>

\* The applied response: with no refresh token in it the grant stays good.
SettleApplied(p) ==
    /\ pc[p] = "settle"
    /\ loc[p].out = "applied"
    /\ open' = IF loc[p].new.ref = NoRef THEN [open EXCEPT ![loc[p].cred.ref] = {}] ELSE open
    /\ Goto(p, "base")
    /\ UNCHANGED <<disk, marker, lock, loc, next, from>>

----------------------------------------------------------------------------
(* Writer 1: the merged refresh.                                           *)

\* Merge onto the file when it still holds the grant sent, else onto the read
\* the send came from.  A merge that fails is unknown (write_failed).
MergeBase(p) ==
    /\ pc[p] = "base"
    /\ LET b == IF Holds(auth, loc[p].cred.ref) THEN auth ELSE loc[p].cred
           got == loc[p].new IN
       Set(p, [loc[p] EXCEPT !.base = b, !.attempt = 1,
               !.new = Doc(IF got.ref = NoRef THEN b.ref ELSE got.ref, got.acc)])
    /\ pc' \in {[pc EXCEPT ![p] = "check"], [pc EXCEPT ![p] = "unknown"]}
    /\ UNCHANGED <<disk, marker, lock, next, history>>

\* write's compare: another grant in the file wins; an absent file does not.
CheckUnchanged(p) ==
    /\ pc[p] = "check"
    /\ \/ /\ IsDoc(auth) => auth.ref = loc[p].base.ref
          /\ auth # Torn
          /\ Goto(p, "stage")
       \/ /\ IsDoc(auth)
          /\ auth.ref # loc[p].base.ref
          /\ Goto(p, "clear")
       \/ Goto(p, "reread")                      \* torn, or any read error
    /\ UNCHANGED <<disk, marker, lock, loc, next, history>>

\* The O_EXCL temporary: created and flushed, or removed again on a failure.
Stage(p) ==
    /\ pc[p] = "stage"
    /\ \/ tmps' = tmps \cup {<<loc[p].new, loc[p].attempt>>} /\ Goto(p, "rename")
       \/ Goto(p, "reread") /\ UNCHANGED tmps
    /\ UNCHANGED <<auth, pend, meta, marker, lock, loc, next, history>>

\* The rename lands (its snapshot may still report an error), or fails and the
\* temporary is parked.
Rename(p) ==
    /\ pc[p] = "rename"
    /\ \/ /\ auth' = loc[p].new
          /\ tmps' = tmps \ {<<loc[p].new, loc[p].attempt>>}
          /\ pc' \in {[pc EXCEPT ![p] = "landed"], [pc EXCEPT ![p] = "reread"]}
       \/ Goto(p, "parkmeta") /\ UNCHANGED <<auth, tmps>>
    /\ UNCHANGED <<pend, meta, marker, lock, loc, next, history>>

\* After a failed attempt: did it land after all?  Otherwise write again, and
\* after the last attempt park without trying the target.
Reread(p) ==
    /\ pc[p] = "reread"
    /\ \/ /\ auth = loc[p].new
          /\ Goto(p, "landed")
          /\ UNCHANGED loc
       \/ /\ Set(p, [loc[p] EXCEPT !.attempt = @ + 1])
          /\ Goto(p, IF loc[p].attempt < Attempts THEN "check" ELSE "park")
    /\ UNCHANGED <<disk, marker, lock, next, history>>

\* The last resort's own temporary.
ParkStage(p) ==
    /\ pc[p] = "park"
    /\ \/ tmps' = tmps \cup {<<loc[p].new, loc[p].attempt>>} /\ Goto(p, "parkmeta")
       \/ Goto(p, "unknown") /\ UNCHANGED tmps
    /\ UNCHANGED <<auth, pend, meta, marker, lock, loc, next, history>>

ParkFailed(p) == IF loc[p].attempt = ParkAttempt THEN "unknown" ELSE "reread"

\* Mutant: the park goes on without its metadata.
ParkMetaTolerant(p) ==
    /\ pc[p] = "parkmeta"
    /\ meta' \in {loc[p].base, Absent}
    /\ Goto(p, "parkpend")
    /\ UNCHANGED <<auth, pend, tmps, marker, lock, loc, next, history>>

\* The metadata goes first; a failure keeps the temporary.
ParkMeta(p) ==
    /\ pc[p] = "parkmeta"
    /\ \/ meta' = loc[p].base /\ Goto(p, "parkpend")
       \/ meta' = Absent /\ Goto(p, ParkFailed(p))
    /\ UNCHANGED <<auth, pend, tmps, marker, lock, loc, next, history>>

\* Then the temporary becomes the pending file; a failure drops the metadata
\* and keeps the temporary.
ParkPending(p) ==
    /\ pc[p] = "parkpend"
    /\ \/ /\ pend' = loc[p].new
          /\ tmps' = tmps \ {<<loc[p].new, loc[p].attempt>>}
          /\ Goto(p, "landed")
          /\ Set(p, [loc[p] EXCEPT !.parked = TRUE])
          /\ UNCHANGED meta
       \/ /\ pend' = Absent
          /\ meta' = Absent
          /\ Goto(p, ParkFailed(p))
          /\ UNCHANGED <<tmps, loc>>
    /\ UNCHANGED <<auth, marker, lock, next, history>>

\* The rotated grant is on disk or parked; a failed settle is tolerated.
Landed(p) ==
    /\ pc[p] = "landed"
    /\ StoreLast(p, Settled(NoRef))
    /\ UNCHANGED <<disk, next, history>>

\* unknown (write_failed): the marker stays.
MarkWriteFailed(p) ==
    /\ pc[p] = "unknown"
    /\ StoreLast(p, [marker EXCEPT !.class = "write_failed"])
    /\ UNCHANGED <<disk, next, history>>

----------------------------------------------------------------------------
(* Writer 2: installing a verified login, and removing the namespace.      *)

\* The login's own grant is staged with no pending fallback.
InstallStage(p) ==
    /\ pc[p] = "istage"
    /\ \/ /\ next <= MaxToken
          /\ next' = next + 1
          /\ from' = [from EXCEPT ![next] = next]
          /\ Set(p, [loc[p] EXCEPT !.new = Doc(next, next)])
          /\ tmps' = tmps \cup {<<Doc(next, next), 0>>}
          /\ Goto(p, "irename")
          /\ UNCHANGED lock
       \/ Return(p) /\ UNCHANGED <<tmps, next, from>>
    /\ UNCHANGED <<auth, pend, meta, marker, open>>

\* A failed rename removes the temporary: the previous grant stays.
InstallRename(p) ==
    /\ pc[p] = "irename"
    /\ tmps' = tmps \ {<<loc[p].new, 0>>}
    /\ \/ auth' = loc[p].new /\ Goto(p, "ireset") /\ UNCHANGED <<loc, lock>>
       \/ auth' = loc[p].new /\ Return(p)        \* landed, but its snapshot failed
       \/ Return(p) /\ UNCHANGED auth
    /\ UNCHANGED <<pend, meta, marker, next, history>>

\* reset_for_login; a failure is logged and the install stands.
InstallReset(p) ==
    /\ pc[p] = "ireset"
    /\ StoreLast(p, DefaultMarker)
    /\ UNCHANGED <<disk, next, history>>

\* remove_named_files lists the directory, refusing one that holds anything agctl
\* did not create, or finds only a marker to remove.
RemoveList(p) ==
    /\ pc[p] = "remove"
    /\ \/ /\ Set(p, [loc[p] EXCEPT !.todo =
                       {n \in NamedFiles :
                           \/ n = "auth" /\ auth # Absent
                           \/ n = "pend" /\ pend # Absent
                           \/ n = "meta" /\ meta # Absent
                           \/ n = "tmps" /\ tmps # {}}])
          /\ Goto(p, "unlink")
          /\ UNCHANGED lock
       \/ Return(p)
    /\ UNCHANGED <<disk, marker, next, history>>

\* It unlinks what it listed in directory order; the first failure ends it.
RemoveFile(p) ==
    /\ pc[p] = "unlink"
    /\ loc[p].todo # {}
    /\ \/ \E n \in loc[p].todo :
            /\ auth' = IF n = "auth" THEN Absent ELSE auth
            /\ pend' = IF n = "pend" THEN Absent ELSE pend
            /\ meta' = IF n = "meta" THEN Absent ELSE meta
            /\ IF n = "tmps" THEN \E t \in tmps : tmps' = tmps \ {t} ELSE UNCHANGED tmps
            /\ Set(p, [loc[p] EXCEPT !.todo = IF tmps' # {} /\ n = "tmps" THEN @ ELSE @ \ {n}])
            /\ UNCHANGED <<pc, lock>>
       \/ Return(p) /\ UNCHANGED disk
    /\ UNCHANGED <<marker, next, history>>

\* The marker goes last.
RemoveMarker(p) ==
    /\ pc[p] = "unlink"
    /\ loc[p].todo = {}
    /\ marker' \in {marker, DefaultMarker}
    /\ Return(p)
    /\ UNCHANGED <<disk, next, history>>

----------------------------------------------------------------------------
(* What agctl does not control.                                            *)

\* The process dies: the kernel drops its flock, the disk stays as it is.
Crash(p) ==
    /\ pc[p] # "idle"
    /\ Goto(p, "idle")
    /\ Set(p, NoLocals)
    /\ lock' = IF lock = p THEN NoProc ELSE lock
    /\ UNCHANGED <<disk, marker, next, history>>

\* Codex rewrites auth.json in place: truncated first.
ExtTruncate ==
    /\ "rewrite" \in Codex
    /\ auth # Torn
    /\ auth' = Torn
    /\ UNCHANGED <<pend, meta, tmps, marker, lock, pc, loc, next, history>>

\* Then filled with what the token host gave Codex: a grant of its own, or none.
ExtWrite ==
    /\ auth = Torn
    /\ next <= MaxToken
    /\ next' = next + 1
    /\ \E ref \in {NoRef, next} : auth' = Doc(ref, next)
    /\ UNCHANGED <<pend, meta, tmps, marker, lock, pc, loc, history>>

\* Or it stores a new access token beside the refresh token it read.
ExtNewAccess ==
    /\ "access" \in Codex
    /\ IsDoc(auth)
    /\ next <= MaxToken
    /\ next' = next + 1
    /\ auth' = [auth EXCEPT !.acc = next]
    /\ UNCHANGED <<pend, meta, tmps, marker, lock, pc, loc, history>>

\* A Codex keychain save, or a logout, deletes the file.
ExtDelete ==
    /\ "delete" \in Codex
    /\ auth # Absent
    /\ auth' = Absent
    /\ UNCHANGED <<pend, meta, tmps, marker, lock, pc, loc, next, history>>

----------------------------------------------------------------------------

RefreshStep(p) ==
    \/ Resolve(p) \/ Replay(p) \/ Discard(p) \/ UnlinkMeta(p)
    \/ ReadAuth(p) \/ StopEarly(p) \/ CompareClear(p) \/ CompareUnknown(p)
    \/ Gate(p) \/ Snapshot(p) \/ WriteMarker(p) \/ Post(p)
    \/ SettleUnsent(p) \/ SettleUnclear(p) \/ SettlePermanent(p) \/ SettleApplied(p)
    \/ ClearInflight(p) \/ MarkDead(p)
    \/ MergeBase(p) \/ CheckUnchanged(p) \/ Stage(p) \/ Rename(p) \/ Reread(p)
    \/ ParkStage(p) \/ ParkMeta(p) \/ ParkPending(p) \/ Landed(p) \/ MarkWriteFailed(p)

InstallStep(p) == InstallStage(p) \/ InstallRename(p) \/ InstallReset(p)

RemoveStep(p) == RemoveList(p) \/ RemoveFile(p) \/ RemoveMarker(p)

Start(p) == \E m \in Commands : Begin(p, m)

\* A process that is running a command takes its next step.
Work(p) == Acquire(p) \/ GiveUp(p) \/ RefreshStep(p) \/ InstallStep(p) \/ RemoveStep(p)

External == ExtTruncate \/ ExtWrite \/ ExtNewAccess \/ ExtDelete

Next == \/ \E p \in Procs : Start(p) \/ Work(p) \/ Crash(p)
        \/ External

Spec == Init /\ [][Next]_vars

\* The operating system runs every command; no command needs a crash, another
\* command or Codex to end.
FairSpec == Spec /\ \A p \in Procs : WF_vars(Work(p))

----------------------------------------------------------------------------
(* Properties.                                                             *)

\* Every variable keeps its shape: what the disk, the marker and each process's
\* locals may hold.
TypeOK ==
    /\ auth \in Files
    /\ pend \in Kept
    /\ meta \in Kept
    /\ tmps \subseteq Docs \X (0 .. ParkAttempt)
    /\ marker \in Markers
    /\ lock \in Procs \cup {NoProc}
    /\ pc \in [Procs -> Labels]
    /\ loc \in [Procs -> Locals]
    /\ next \in 1 .. MaxToken + 1
    /\ open \in [Refs -> SUBSET Kinds]
    /\ from \in [Tokens -> Refs]

\* An automatic POST never carries a grant with an earlier POST that has no
\* definite answer or was answered by rotating it, whatever crashed, was lost,
\* parked or rewritten in between (refresh.rs: no automatic re-send).
NoAutomaticResend ==
    \A p \in Procs :
        pc[p] = "post" /\ loc[p].mode # "resend" => open[loc[p].cred.ref] = {}

\* Of one unsettled grant the user's consent sends one POST, never a second,
\* across crashes, refusals and failed marker writes (auth_store.rs
\* write_resend: the user's one re-send).
OneConsentedResend ==
    \A p \in Procs :
        pc[p] = "post" /\ loc[p].mode = "resend" => "user" \notin open[loc[p].cred.ref]

\* auth.json never presents a spent or unsettled grant as one that may be sent:
\* the marker names it as in flight or dead, or its successor is parked beside it.
Covered ==
    IsDoc(auth) /\ open[auth.ref] # {} =>
        \/ marker.inflight = auth.ref
        \/ marker.dead = auth.ref
        \/ pend # Absent /\ meta = auth

\* A POST is under way only under the lock and behind the durable marker that
\* names its grant, so a crash at any point leaves the record of it.
SendIsRecorded ==
    \A p \in Procs :
        pc[p] \in {"post", "settle"} => lock = p /\ marker.inflight = loc[p].cred.ref

\* A pending file always has its metadata, and the metadata names the grant the
\* parked one was rotated from: a crash between the two writes leaves nothing
\* that a later pass could replay over the wrong grant (secret_file.rs
\* save_to_pending: the metadata goes first).
ParkedIsSuccessor ==
    pend # Absent => meta # Absent /\ from[pend.acc] = meta.ref

\* A consented re-send is never made while the grant it would spend already has
\* a rotated successor on disk, in the file, parked or in a kept temporary.
ResendOnlyWhatIsLost ==
    \A p \in Procs :
        pc[p] = "post" /\ loc[p].mode = "resend" =>
            \A d \in {auth, pend} \cup {t[1] : t \in tmps} :
                IsDoc(d) /\ d.ref # loc[p].cred.ref => from[d.acc] # loc[p].cred.ref

\* A refresh replaces only the grant it was rotated from: agctl's own writers,
\* a login among them, never overwrite one another's newer grant (auth_store.rs
\* write, resolve_pending: the compare before a rename).  Codex takes no lock, so
\* what it writes between the compare and the rename is outside the promise.
NewerGrantKept ==
    [][\A p \in Procs :
         (Replay(p) \/ Rename(p)) /\ IsDoc(auth) /\ from[auth.acc] # NoRef /\ auth' # auth =>
             from[auth'.acc] = auth.ref]_vars

\* The POST under way, as GrantSend sees it.
wire == {<<loc[p].cred.ref, KindOf(p)>> : p \in {q \in Procs : pc[q] = "settle"}}

\* The protocol keeps the promise GrantSend states, step by step: one POST at a
\* time, each sent only when the ones before it allow it, whatever the disk, the
\* lock and the marker went through in between.
GS == INSTANCE GrantSend WITH Grants <- Refs, open <- open, wire <- wire
SendsAsPromised == GS!Spec

\* Every command ends and gives the namespace lock back, whatever other commands
\* and Codex do.
CommandsEnd == \A p \in Procs : pc[p] # "idle" ~> pc[p] = "idle"
=============================================================================
