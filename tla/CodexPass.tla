----------------------------- MODULE CodexPass -----------------------------
(***************************************************************************)
(* `agctl codex status` over one owned account, with a clock: the refresh  *)
(* pre-pass, the usage request, and the 401 post-pass with its floors.     *)
(* Several passes run at once; beside them a user resets the floor, logs   *)
(* in again or re-sends, and Codex writes the file.                        *)
(*                                                                         *)
(* A refresh runs under the namespace lock from its first check to its     *)
(* last write, so here it is one step with the outcomes CodexRefresh       *)
(* details.  What is decided with the lock released is a step of its own   *)
(* and may be stale by then: the row that was read, the usage request, and *)
(* the record of what the retried request answered.  The unit of time is   *)
(* one hour, the unit of the floors.                                       *)
(***************************************************************************)
EXTENDS Integers

CONSTANTS
    Procs,          \* status passes
    MaxTime,        \* the last hour the clock shows
    MaxToken,       \* tokens the token host ever issues
    Unhelped,       \* how many refreshes did not help before the run
    Life,           \* hours an access token lives
    MaxWait,        \* the longest wait the token host asks for, in hours
    Beside          \* what goes on beside the passes: a subset of
                    \* {"reset", "resend", "login", "codex"}

ASSUME BoundsAssumption == {MaxTime, MaxToken, Life, MaxWait} \subseteq Nat \ {0}
ASSUME UnhelpedAssumption ==
    Unhelped \subseteq 0 .. 3 /\ \A n \in Unhelped : MaxTime >= IF n < 3 THEN 2 ELSE 5

VARIABLES
    clock,      \* the hour
    cred,       \* auth.json: the grant, the access token and when that expires
    marker,     \* the refresh marker's time rules
    pc,         \* where each pass is
    loc,        \* the local variables of each pass
    seen        \* history: see Seen

passVars == <<clock, cred, marker, pc, loc, seen>>

----------------------------------------------------------------------------
(* Values.                                                                 *)

Tokens == 1 .. MaxToken
None == 0                               \* no token
Never == 0                              \* the clock starts later

DefaultFloor == 1
ResendWait == 1
Terminal == 3

Markers == [inflight : Tokens \cup {None}, class : {"none", "interrupted", "unclear", "limited"},
            since : 0 .. MaxTime, wait : 0 .. MaxWait, resent : BOOLEAN,
            sent : 0 .. MaxTime, help : 0 .. 4, floor : {1, 2, 4},
            early : 0 .. MaxTime + MaxWait, earlyGrant : Tokens \cup {None},
            dead : Tokens \cup {None}]
DefaultMarker == [inflight |-> None, class |-> "none", since |-> Never, wait |-> 0,
                  resent |-> FALSE, sent |-> Never, help |-> 0, floor |-> DefaultFloor,
                  early |-> Never, earlyGrant |-> None, dead |-> None]

\* What really happened: the last POST that left since the last login, those of
\* them a 401 was recorded for since the floor was last lifted, the last POST
\* that left for the grant in the file, and the floor the marker recorded for it.
Seen == [last : 0 .. MaxTime, unhelped : 0 .. Terminal, posted : 0 .. MaxTime,
         told : 0 .. MaxTime + MaxWait]

Locals == [step : {"none", "refreshed", "raced"},      \* the report of the last refresh
           retry : {"none", "send", "adopt"},          \* why the row is read again
           acc : Tokens \cup {None},                   \* the access token the request carries
           kept : BOOLEAN,                             \* its grant has an unknown outcome
           raised : BOOLEAN,                           \* the floor was raised
           answer : {"none", "lift", "count"}]         \* what is to be recorded
NoLocals == [step |-> "none", retry |-> "none", acc |-> None, kept |-> FALSE,
             raised |-> FALSE, answer |-> "none"]

Labels == {"idle", "prepass", "read", "asked", "after401", "settle"}

----------------------------------------------------------------------------
(* The marker.                                                             *)

Expired == cred.expires <= clock

\* A send of the grant in the file has no known outcome.
Outstanding == marker.inflight = cred.grant

Dead == marker.dead = cred.grant

\* Mutant: clearing a send forgets when it was sent.
ForgetSent(m) == [m EXCEPT !.inflight = None, !.class = "none", !.since = Never, !.wait = 0,
                           !.resent = FALSE, !.sent = Never]

\* clear_inflight: the send is forgotten, when it was sent is not.
Forget(m) == [m EXCEPT !.inflight = None, !.class = "none", !.since = Never, !.wait = 0,
                       !.resent = FALSE]

\* Mutant: an interrupted send has no date.
ComparedUndated ==
    IF Outstanding
      THEN IF marker.class = "none" THEN [marker EXCEPT !.class = "interrupted"] ELSE marker
      ELSE Forget(marker)

\* compare_marker: a dead process's send of this grant becomes "interrupted"
\* since it was sent; a send of another grant is cleared.
Compared ==
    IF Outstanding
      THEN IF marker.class = "none"
             THEN [marker EXCEPT !.class = "interrupted", !.since = marker.sent] ELSE marker
      ELSE Forget(marker)

\* What a command that sends nothing leaves: a dead grant is not compared, nor is
\* a namespace that cannot be locked or read.
Untouched == IF Dead THEN {marker} ELSE {marker, Compared}

\* server_floor: the token host asked for no automatic refresh of this grant yet.
Early == marker.earlyGrant = cred.grant /\ clock < marker.early

\* Mutant: nobody counts the refreshes that did not help.
SendUncounted(rejected) ==
    /\ ~Dead /\ cred.acc = rejected /\ ~Outstanding
    /\ marker.sent # Never => clock >= marker.sent + marker.floor
    /\ ~Early

\* The gates of a send after a 401.
MaySendAfter401(rejected) ==
    /\ ~Dead /\ cred.acc = rejected /\ ~Outstanding
    /\ marker.help < Terminal
    /\ marker.sent # Never => clock >= marker.sent + marker.floor
    /\ ~Early

\* The gates of the pre-pass: the access token is due.  Neither the 401 floor
\* nor the terminal count is asked.
MaySendProactively == ~Dead /\ ~Outstanding /\ Expired /\ ~Early

\* The gates of the user's re-send: once, an hour after the outcome became
\* unknown, or after the token host's longer retry-after.
MayResend ==
    /\ ~Dead /\ Outstanding /\ ~marker.resent
    /\ clock >= Compared.since + IF marker.class = "limited" /\ marker.wait > ResendWait
                                 THEN marker.wait ELSE ResendWait

\* write_inflight and write_resend: what is on disk when the POST leaves.
Sending(kind) ==
    IF kind = "resend" THEN [Compared EXCEPT !.resent = TRUE, !.sent = clock]
    ELSE [Forget(marker) EXCEPT !.inflight = cred.grant, !.sent = clock]

----------------------------------------------------------------------------
(* One refresh under the lock, from the marker that is on disk when the    *)
(* POST leaves to the marker it ends with.                                 *)

\* The token host issues its next token as the access token of grant g.
CanIssue == cred.acc < MaxToken
New == cred.acc + 1
Issue(g) == cred' = [grant |-> g, acc |-> New, expires |-> clock + Life]

\* The POST left; the grant in the file is then g, with a recorded floor.
Sent(g, floor) ==
    seen' = [seen EXCEPT !.last = clock, !.told = floor,
                         !.posted = IF g = cred.grant THEN clock ELSE Never]

\* Applied: the grant rotates or stays, and the token host may set a floor on
\* it.  A marker that cannot be settled is tolerated: the send stays recorded
\* and the floor is lost.
Applied(kind) ==
    /\ CanIssue
    /\ \E g \in {cred.grant, New} :
         /\ Issue(g)
         /\ \/ \E wait \in 0 .. MaxWait :
                 LET early == IF wait = 0 THEN Never ELSE clock + wait IN
                 /\ marker' = [Forget(Sending(kind)) EXCEPT
                                 !.early = early, !.earlyGrant = IF wait = 0 THEN None ELSE g,
                                 !.dead = None]
                 /\ Sent(g, early)
            \/ marker' = Sending(kind) /\ Sent(g, Never)

\* Codex's own grant is in the file by the time the answer is handled: the
\* answer is discarded, or the dead grant is not the file's any more.
Raced(kind) ==
    /\ CanIssue
    /\ Issue(New)
    /\ marker' = Forget(Sending(kind))
    /\ Sent(New, Never)

\* The POST left, and nothing came of it that changes the file: a permanent
\* error, a rate limit, an answer nobody can read, a rejection, or a process
\* that died.
Unapplied(kind) ==
    /\ \/ marker' = [Forget(Sending(kind)) EXCEPT !.early = Never, !.earlyGrant = None,
                                                  !.dead = cred.grant]
       \/ \E class \in {"unclear", "limited"} :
            \E wait \in IF class = "limited" THEN 0 .. MaxWait ELSE {0} :
              marker' = [Sending(kind) EXCEPT !.class = class, !.wait = wait,
                                              !.since = IF @ = Never THEN clock ELSE @]
       \/ marker' = IF kind = "resend" THEN Sending(kind) ELSE Forget(Sending(kind))
       \/ marker' = Sending(kind)
    /\ Sent(cred.grant, seen.told)
    /\ UNCHANGED cred

\* The POST never left; the marker may fail to say so.
NeverLeft(kind) ==
    /\ marker' \in {IF kind = "resend" THEN [Sending(kind) EXCEPT !.resent = FALSE]
                     ELSE Forget(Sending(kind)), Sending(kind)}
    /\ UNCHANGED <<cred, seen>>

----------------------------------------------------------------------------
(* The pass.                                                               *)

\* An account with no refresh behind it since its login, or with n that did not
\* help, the last of them an hour ago, or a third as long ago as its floor.
PassInit ==
    /\ pc = [p \in Procs |-> "idle"]
    /\ loc = [p \in Procs |-> NoLocals]
    /\ \E n \in Unhelped :
         LET last == IF n = 0 THEN Never ELSE 1 IN
         /\ clock = IF n < Terminal THEN 2 ELSE 5
         /\ cred = [grant |-> 1, acc |-> 1, expires |-> clock + Life]
         /\ marker = [DefaultMarker EXCEPT !.help = n, !.sent = last,
                                           !.floor = IF n < 2 THEN n + 1 ELSE 4]
         /\ seen = [last |-> last, unhelped |-> n, posted |-> Never, told |-> Never]

Go(p, l, locals) == pc' = [pc EXCEPT ![p] = l] /\ loc' = [loc EXCEPT ![p] = locals]
Finish(p) == Go(p, "idle", NoLocals)

Start(p) ==
    /\ pc[p] = "idle"
    /\ Go(p, "prepass", NoLocals)
    /\ UNCHANGED <<clock, cred, marker, seen>>

\* The pre-pass sends nothing: the lock, the namespace or a gate said no.
PrePassStays(p) ==
    /\ pc[p] = "prepass"
    /\ marker' \in Untouched
    /\ Go(p, "read", NoLocals)
    /\ UNCHANGED <<clock, cred, seen>>

PrePassSends(p) ==
    /\ pc[p] = "prepass"
    /\ MaySendProactively
    /\ \/ Applied("auto") /\ Go(p, "read", [NoLocals EXCEPT !.step = "refreshed"])
       \/ Raced("auto") /\ \E s \in {"none", "raced"} : Go(p, "read", [NoLocals EXCEPT !.step = s])
       \/ (Unapplied("auto") \/ NeverLeft("auto")) /\ Go(p, "read", NoLocals)
    /\ UNCHANGED clock

\* read_owned, under its own lock: the row ends here, or goes on with what it
\* saw, the lock released.  A grant whose send is unknown is asked about only
\* while its access token lives.
ReadRow(p) ==
    /\ pc[p] = "read"
    /\ \/ Finish(p)
       \/ /\ ~Dead /\ ~Expired
          /\ Go(p, "asked", [loc[p] EXCEPT !.acc = cred.acc, !.kept = Outstanding,
                               !.raised = marker.help > 0 \/ marker.floor # DefaultFloor])
    /\ UNCHANGED <<clock, cred, marker, seen>>

\* The usage request, or the cache, answered.  Only a first request's 401, on a
\* grant whose fate is known, asks for a refresh; what followed a refresh is
\* recorded.
Answered(p) ==
    /\ pc[p] = "asked"
    /\ \/ /\ loc[p].retry = "send" \/ (loc[p].step = "refreshed" /\ loc[p].raised)
          /\ Go(p, "settle", [NoLocals EXCEPT !.answer = "lift"])           \* 2xx
       \/ /\ loc[p].retry = "send" /\ ~loc[p].kept
          /\ Go(p, "settle", [NoLocals EXCEPT !.answer = "count"])          \* 401
       \/ /\ loc[p].retry = "none" /\ loc[p].step # "raced" /\ ~loc[p].kept
          /\ Go(p, "after401", loc[p])                                      \* 401
       \/ Finish(p)
    /\ UNCHANGED <<clock, cred, marker, seen>>

\* The post-pass sends nothing: another writer's access token is adopted, or a
\* gate said no.
After401Stays(p) ==
    /\ pc[p] = "after401"
    /\ marker' \in Untouched
    /\ \/ cred.acc # loc[p].acc /\ Go(p, "read", [NoLocals EXCEPT !.retry = "adopt"])
       \/ Finish(p)
    /\ UNCHANGED <<clock, cred, seen>>

After401Sends(p) ==
    /\ pc[p] = "after401"
    /\ MaySendAfter401(loc[p].acc)
    /\ \/ Applied("auto") /\ Go(p, "read", [NoLocals EXCEPT !.step = "refreshed", !.retry = "send"])
       \/ Raced("auto") /\ Go(p, "read", [NoLocals EXCEPT !.retry = "adopt"])
       \/ (Unapplied("auto") \/ NeverLeft("auto")) /\ Finish(p)
    /\ UNCHANGED clock

\* record_did_not_help: one more, and the floor doubles, twice.
Counted(m) == [m EXCEPT !.help = IF @ < 4 THEN @ + 1 ELSE @,
                        !.floor = IF m.help = 0 THEN 2 ELSE 4]
Lifted(m) == [m EXCEPT !.help = 0, !.floor = DefaultFloor]

\* settle_retry: what the request answered is recorded under the lock, taken
\* again.  A lock that is busy leaves it unrecorded.
Settle(p) ==
    /\ pc[p] = "settle"
    /\ \/ /\ loc[p].answer = "lift"
          /\ marker' = Lifted(marker)
          /\ seen' = [seen EXCEPT !.unhelped = 0]
       \/ /\ loc[p].answer = "count"
          /\ marker' = Counted(marker)
          /\ seen' = [seen EXCEPT !.unhelped = IF @ < Terminal THEN @ + 1 ELSE @]
       \/ UNCHANGED <<marker, seen>>
    /\ Finish(p)
    /\ UNCHANGED <<clock, cred>>

\* A pass is killed; a kill with the POST on its way is one of Unapplied.
Crash(p) ==
    /\ pc[p] # "idle"
    /\ Finish(p)
    /\ UNCHANGED <<clock, cred, marker, seen>>

----------------------------------------------------------------------------
(* The user, Codex and the clock.                                          *)

\* accounts refresh --reset-floor
ResetFloor ==
    /\ "reset" \in Beside
    /\ marker' = Lifted(marker)
    /\ seen' = [seen EXCEPT !.unhelped = 0]
    /\ UNCHANGED <<clock, cred, pc, loc>>

\* accounts refresh --resend
Resend ==
    /\ "resend" \in Beside
    /\ MayResend
    /\ Applied("resend") \/ Raced("resend") \/ Unapplied("resend") \/ NeverLeft("resend")
    /\ UNCHANGED <<clock, pc, loc>>

\* A login replaces the grant and the marker.
Login ==
    /\ "login" \in Beside
    /\ CanIssue
    /\ Issue(New)
    /\ marker' = DefaultMarker
    /\ seen' = [last |-> Never, unhelped |-> 0, posted |-> Never, told |-> Never]
    /\ UNCHANGED <<clock, pc, loc>>

\* Codex rewrites the file with a grant of its own, taking no lock.
CodexWrites ==
    /\ "codex" \in Beside
    /\ CanIssue
    /\ Issue(New)
    /\ seen' = [seen EXCEPT !.posted = Never, !.told = Never]
    /\ UNCHANGED <<clock, marker, pc, loc>>

Tick ==
    /\ clock < MaxTime
    /\ clock' = clock + 1
    /\ UNCHANGED <<cred, marker, pc, loc, seen>>

----------------------------------------------------------------------------

Pass(p) == \/ Start(p) \/ PrePassStays(p) \/ PrePassSends(p) \/ ReadRow(p) \/ Answered(p)
           \/ After401Stays(p) \/ After401Sends(p) \/ Settle(p) \/ Crash(p)

PassNext == \/ \E p \in Procs : Pass(p)
            \/ ResetFloor \/ Resend \/ Login \/ CodexWrites
            \/ Tick

PassSpec == PassInit /\ [][PassNext]_passVars

----------------------------------------------------------------------------
(* Properties.                                                             *)

\* Every variable keeps its shape.
PassTypeOK ==
    /\ clock \in 1 .. MaxTime
    /\ cred \in [grant : Tokens, acc : Tokens, expires : 1 .. MaxTime + Life]
    /\ marker \in Markers
    /\ pc \in [Procs -> Labels]
    /\ loc \in [Procs -> Locals]
    /\ seen \in Seen

\* A refresh after a 401 keeps the floor: an hour after this login's last POST,
\* two and four after an answer that it did not help, and none after the third,
\* whichever pass sent, crashed or cleared the marker since (refresh.rs
\* floor_until, UnauthorizedTerminal).
FloorKept ==
    [][\A p \in Procs : After401Sends(p) =>
         /\ seen.unhelped < Terminal
         /\ seen.last # Never => clock >= seen.last + 2 ^ seen.unhelped]_passVars

\* No automatic refresh of a grant before the time the token host named for it,
\* once the marker recorded it (auth_store.rs earliest_refresh).
ServerFloorKept ==
    [][\A p \in Procs : PrePassSends(p) \/ After401Sends(p) => clock >= seen.told]_passVars

\* The user's re-send waits an hour from the POST it repeats, though the process
\* that sent it died before it could say so (refresh.rs resend_eligible_at).
ResendWaits == [][Resend => clock >= seen.posted + ResendWait]_passVars

----------------------------------------------------------------------------
(* The inductive invariant behind the safety properties.                   *)

\* Every recorded answer that did not help is counted, and the floor grows with the count.
FloorInv ==
    /\ seen.unhelped <= marker.help
    /\ marker.help >= 1 => marker.floor >= 2
    /\ marker.help >= 2 => marker.floor = 4

\* The marker's date is no earlier than the last POST's.
DateInv ==
    /\ seen.last <= marker.sent /\ seen.posted <= marker.sent
    /\ marker.sent <= clock

\* The floor the token host set for the file's grant is the marker's, unless the grant is dead.
ServerInv == seen.told # Never => Dead \/ (marker.earlyGrant = cred.grant /\ marker.early >= seen.told)

\* What the marker names was issued, and the file's grant cannot come back: a later one is named
\* nowhere.  An outcome the user may still re-send became unknown after the grant's last POST.
SendInv ==
    /\ cred.grant <= cred.acc /\ marker.inflight <= cred.acc
    /\ Outstanding /\ marker.class # "none" /\ ~marker.resent => marker.since >= seen.posted

MarkerInv == PassTypeOK /\ FloorInv /\ DateInv /\ ServerInv /\ SendInv
=============================================================================
