--------------------------- MODULE ClaudeRefresh ---------------------------
(***************************************************************************)
(* A pass of `agctl claude status` over one account agctl owns             *)
(* (commands/status.rs, secret/file_store.rs, usage/cache.rs): the row is  *)
(* discovered, a parked write is folded in, an expired credential is       *)
(* refreshed - the namespace's file under the namespace lock, or the       *)
(* keychain item a session migrated it to under Claude Code's locks - and  *)
(* the usage is fetched or served from the cache.  Several passes run      *)
(* beside a Claude Code session on the same namespace, a `login`, a        *)
(* removal and a live swap of the item.                                    *)
(*                                                                         *)
(* A credential is a number, in the order it was issued; grant[c] is the   *)
(* refresh token it carries, which an answer may rotate or leave.          *)
(***************************************************************************)
EXTENDS Integers, Sequences, FiniteSets

CONSTANTS
    Procs,      \* processes running a pass
    NoProc,     \* the value of a lock nobody holds
    Session,    \* the Claude Code session, as a holder of its own locks
    Cases       \* what a behaviour may spend and meet: see Init

None == 0
Occupant == -1      \* the credential of another account, in this namespace's item

Beside == {"session", "relogin", "migrate", "swap", "login", "remove", "crash", "cancel", "faults",
           "mismatch", "locked"}

Limits == [procs : SUBSET Procs, mints : Nat, passes : Nat, ticks : Nat,
           starts : SUBSET {"file", "item"}, beside : SUBSET Beside]

ASSUME ProcsAssumption == NoProc \notin Procs /\ Session \notin Procs /\ NoProc # Session
ASSUME CasesAssumption == Cases \subseteq Limits

VARIABLES
    grant,      \* grant[c]: the refresh token of credential c
    valid,      \* the refresh tokens the token host accepts
    stale,      \* credentials whose access token is expired or inside the margin
    file,       \* .credentials.json
    pending,    \* .credentials.json.pending, with what its meta says it derives from
    item,       \* the namespace's keychain item
    adopted,    \* .credentials.adopted.json
    lock,       \* holder of the namespace lock
    hold,       \* holder of Claude Code's locks in the namespace directory
    session,    \* the session: where it is and what it holds
    cache,      \* the usage cache entry
    clock,      \* the time, in steps of the cache's TTL
    window,     \* until when the usage endpoint asked to be left alone
    log,        \* the audit log's entries: which credential, and the outcome
    landed,     \* history: credentials the item has held
    minted,     \* history: credentials refreshes in place were answered with, but for a crash
    run,        \* each process: its place and its locals
    left        \* what the bounds still allow

stores == <<file, pending, item, adopted>>
host == <<grant, valid>>
usage == <<cache, clock, window>>
record == <<log, landed, minted>>
vars == <<host, stale, stores, lock, hold, session, usage, record, run, left>>

-----------------------------------------------------------------------------
(* Helpers.                                                                *)

Creds == 1 .. Len(grant)
Grant(c) == IF c \in Creds THEN grant[c] ELSE None
Own(c) == c \in Creds
Happens(what) == what \in left.beside
At(p, place) == run[p].pc = place

NoPending == [cred |-> None, from |-> None]
Unfetched == [at |-> -1, until |-> 0]
TTL == 1
Retry == 2      \* what a `retry-after` asks for: longer than the TTL

Idle == [pc |-> "idle", cred |-> None, base |-> None, seen |-> None, listed |-> FALSE,
         act |-> "none", put |-> "none", state |-> "ok", way |-> "file", site |-> "none", bypass |-> FALSE,
         network |-> TRUE, mine |-> TRUE, entry |-> Unfetched, at |-> 0, time |-> 0,
         asked |-> FALSE, stop |-> FALSE]

\* Places where a pass holds a credential it was answered with and has not stored.
Answered == {"plan", "look", "write", "line", "claim", "observe", "write item", "confirm"}

\* States a row may make a request in.
Networked == {"ok", "session", "migrated", "adopted", "replayed", "stale"}

Limited(e, now) == e.until > now
Fresh(e, now) == e.at >= 0 /\ now >= e.at /\ now - e.at < TTL

\* Who else is using the namespace, for a process that knows of an item or does not.
Activity(listed) ==
    IF hold # NoProc THEN "session" ELSE IF listed /\ item # None THEN "migrated" ELSE "none"

Finished(r, state) == [Idle EXCEPT !.state = state, !.stop = r.stop]

DecidedOnAge(r) ==
    IF r.cred # None /\ ~r.bypass /\ Fresh(r.entry, r.at) THEN Finished(r, r.state)
                                                          ELSE [r EXCEPT !.pc = "fetch"]

\* What a row does next once its credential is settled: stop inside a server's window,
\* serve the cache, give up, refresh, or ask for the usage.
Decided(r) ==
    CASE Limited(r.entry, r.at) -> Finished(r, "rate limited")
      [] ~Limited(r.entry, r.at) /\ r.cred # None /\ ~r.bypass /\ Fresh(r.entry, r.at) ->
            Finished(r, r.state)
      [] OTHER ->
            CASE ~r.network -> Finished(r, r.state)
              [] r.network /\ r.cred = None -> Finished(r, "needs login")
              [] r.network /\ r.cred \in stale /\ r.mine ->
                    [r EXCEPT !.pc = IF r.way = "item" THEN "owner" ELSE "lock",
                              !.site = "refresh"]
              [] r.network /\ r.cred \in stale /\ ~r.mine -> Finished(r, r.state)
              [] OTHER -> [r EXCEPT !.pc = "fetch"]

\* A trip to the stores is over with credential c, or with nothing and the row finished.
Returned(r, c, state) ==
    CASE c = None -> Finished(r, IF r.site = "retry" /\ state = r.state
                                 THEN "needs login" ELSE state)
      [] c # None /\ r.site = "pending" ->
            Decided([r EXCEPT !.cred = c, !.state = state, !.network = TRUE,
                              !.put = "none", !.site = "none"])
      [] OTHER ->
            [r EXCEPT !.pc = "fetch", !.cred = c, !.put = "none", !.seen = None,
                      !.base = None, !.time = 0, !.asked = FALSE,
                      !.state = IF r.site = "retry" THEN @ ELSE state,
                      !.site = IF r.site = "retry" THEN "retry" ELSE "none"]

Set(p, r) == run' = [run EXCEPT ![p] = r]
Back(p, c, state) == Set(p, Returned(run[p], c, state))

\* The token host's next credential, and how it answers a refresh of c: it rotates the
\* refresh token, leaves it, or rotates it and the answer is lost.
New == Len(grant) + 1
Issue(g) ==
    /\ left.mints > 0
    /\ left' = [left EXCEPT !.mints = @ - 1]
    /\ grant' = Append(grant, g)
Rotates(c) == Grant(c) \in valid /\ Issue(New) /\ valid' = (valid \ {Grant(c)}) \cup {New}
Leaves(c) == Grant(c) \in valid /\ Issue(Grant(c)) /\ UNCHANGED valid
Loses(c) == Grant(c) \in valid /\ valid' = valid \ {Grant(c)} /\ UNCHANGED <<grant, left>>

-----------------------------------------------------------------------------
(* The row: discovery, the cache and the usage request.                    *)

\* A locked keychain lists nothing.
Listed(open) == open /\ item # None

\* Discovery lists the keychain, looks for another user of the namespace and reads the
\* credential from where it found it.
Discover(p) ==
    /\ At(p, "idle") /\ ~run[p].stop /\ left.passes > 0
    /\ left' = [left EXCEPT !.passes = @ - 1]
    /\ \E bypass \in BOOLEAN, open \in {TRUE, ~Happens("locked")} :
         LET listed == Listed(open)
             found == Activity(listed)
             cred == IF found = "migrated" THEN item ELSE file
             state == CASE found # "none" -> found
                        [] found = "none" /\ cred # None -> "ok"
                        [] OTHER -> "needs login"
         IN Set(p, [Idle EXCEPT !.pc = "start", !.listed = listed, !.cred = cred,
                                !.state = state, !.bypass = bypass])
    /\ UNCHANGED <<host, stale, stores, lock, hold, session, usage, record>>

\* Whether the item is the one the registry predicts, listed once and for this account.
Predicted == ~Happens("mismatch")

\* The worker starts: it reads the cache entry once, lets a migrated row refresh its item
\* if the name is the registry's, and resolves a parked write before anything else.
Start(p) ==
    /\ At(p, "start")
    /\ LET r == run[p]
           there == r.state = "migrated" /\ Predicted
           state == IF there THEN "ok" ELSE r.state
           row == [r EXCEPT !.entry = cache, !.at = clock, !.state = state,
                            !.way = IF there THEN "item" ELSE "file",
                            !.network = state \in Networked,
                            !.mine = state \notin {"session", "migrated"}]
       IN Set(p, IF pending # NoPending
                 THEN [row EXCEPT !.pc = "lock", !.site = "pending"]
                 ELSE Decided(row))
    /\ UNCHANGED <<host, stale, stores, lock, hold, session, usage, record, left>>

\* The entry of a 200, and of a 429: the entry this pass had read, if it had read one, with
\* the window counted from the start of the pass.
Answer == [at |-> clock, until |-> 0]
Waiting(r, wait) ==
    IF r.entry = Unfetched THEN cache
    ELSE [r.entry EXCEPT !.until = IF wait = 0 THEN 0 ELSE r.at + wait]

\* The usage request: a 200 replaces the entry, a 401 is worth one refresh, a 429 keeps its
\* window, and any other failure shows what was cached.
Fetch(p) ==
    /\ At(p, "fetch")
    /\ LET r == run[p] IN
       \/ /\ cache' = Answer
          /\ Set(p, Finished(r, r.state))
          /\ UNCHANGED window
       \/ /\ r.mine /\ r.site # "retry"
          /\ Set(p, [r EXCEPT !.pc = IF r.way = "item" THEN "owner" ELSE "lock",
                              !.site = "retry"])
          /\ UNCHANGED <<cache, window>>
       \/ /\ ~r.mine \/ r.site = "retry"
          /\ Set(p, Finished(r, "needs login"))
          /\ UNCHANGED <<cache, window>>
       \/ \E wait \in {0, Retry} :
            /\ window' = IF wait = 0 THEN window ELSE clock + wait
            /\ cache' = Waiting(r, wait)
            /\ Set(p, Finished(r, "rate limited"))
       \/ /\ Set(p, Finished(r, IF r.entry = Unfetched THEN "error" ELSE "stale"))
          /\ UNCHANGED <<cache, window>>
    /\ UNCHANGED <<host, stale, stores, lock, hold, session, clock, record, left>>

-----------------------------------------------------------------------------
(* The file, under the namespace lock.                                     *)

\* The lock is taken, or somebody else kept it until the deadline: then the file is read
\* once more, and a credential that is good again is theirs.
Acquire(p) ==
    /\ At(p, "lock")
    /\ \/ /\ lock = NoProc /\ ~run[p].stop
          /\ lock' = p
          /\ Set(p, [run[p] EXCEPT !.pc = "held"])
       \/ /\ lock # NoProc
          /\ IF file \in Creds \ stale THEN Back(p, file, run[p].state) ELSE Back(p, None, "busy")
          /\ UNCHANGED lock
       \/ /\ run[p].stop
          /\ Back(p, None, "error")
          /\ UNCHANGED lock
       \/ /\ Happens("faults")
          /\ Back(p, None, "lock unavailable")
          /\ UNCHANGED lock
    /\ UNCHANGED <<host, stale, stores, hold, session, usage, record, left>>

\* Under the lock, who else uses the namespace is asked again, with the pass's listing.
Detect(p) ==
    /\ At(p, "held")
    /\ Set(p, [run[p] EXCEPT !.pc = "resolve", !.act = Activity(run[p].listed)])
    /\ UNCHANGED <<host, stale, stores, lock, hold, session, usage, record, left>>

ReplayableAlways == TRUE

\* A parked write replaces the file it derives from, and is dropped when the namespace is
\* somebody else's or the file is no longer that one.
Replayable == pending.from = file
ResolvePending(p) ==
    /\ At(p, "resolve")
    /\ LET r == [run[p] EXCEPT !.pc = "settled"] IN
       \/ /\ pending = NoPending
          /\ Set(p, r)
          /\ UNCHANGED <<file, pending, lock>>
       \/ /\ pending # NoPending /\ r.act = "none" /\ Replayable
          /\ file' = pending.cred
          /\ pending' = NoPending
          /\ Set(p, [r EXCEPT !.put = "replayed"])
          /\ UNCHANGED lock
       \/ /\ pending # NoPending /\ (r.act = "none" => ~Replayable)
          /\ pending' = NoPending
          /\ Set(p, [r EXCEPT !.put = IF r.act = "none" /\ file = None
                                      THEN "needs login" ELSE "discarded"])
          /\ UNCHANGED <<file, lock>>
       \/ /\ pending # NoPending /\ Happens("faults")
          /\ lock' = NoProc
          /\ Back(p, None, "error")
          /\ UNCHANGED <<file, pending>>
    /\ UNCHANGED <<host, stale, item, adopted, hold, session, usage, record, left>>

\* What the lock was taken for, decided on what is there now: nothing in a namespace that
\* is somebody else's, a credential already good, or a refresh of the one in the file.
\* A resolved pending write is what the row reports.
Said(r, state) == IF r.put = "none" THEN state ELSE r.put
Settle(p) ==
    /\ At(p, "settled")
    /\ LET r == run[p] IN
       \/ /\ r.act # "none"
          /\ lock' = NoProc
          /\ Back(p, None, Said(r, r.act))
       \/ /\ r.act = "none" /\ file = None
          /\ lock' = NoProc
          /\ Back(p, None, "needs login")
       \/ /\ r.act = "none" /\ file # None
          /\ file \notin stale \/ r.site = "pending"
          /\ lock' = NoProc
          /\ Back(p, file, Said(r, r.state))
       \/ /\ r.act = "none" /\ file \in stale /\ r.site # "pending"
          /\ Set(p, [r EXCEPT !.pc = "snapshot", !.cred = file, !.base = file])
          /\ UNCHANGED lock
    /\ UNCHANGED <<host, stale, stores, hold, session, usage, record, left>>

\* The file's metadata before the request, for the last look after it.
Snapshot(p) ==
    /\ At(p, "snapshot")
    /\ Set(p, [run[p] EXCEPT !.pc = "post", !.seen = file])
    /\ UNCHANGED <<host, stale, stores, lock, hold, session, usage, record, left>>
\* The request, for either store.  An answer leaves the pass some of its time: nothing, too
\* little to ask for the plan as well, or enough.  A refused grant ends the file's pass; the
\* item is read again first.
Some == 2
Enough == 3
Post(p) ==
    /\ At(p, "post")
    /\ LET r == run[p]
           answered == \E time \in {0, Some, Enough} :
                         Set(p, [r EXCEPT !.pc = "plan", !.cred = New, !.time = time])
           over(state) == Back(p, None, state) /\ lock' = (IF lock = p THEN NoProc ELSE lock)
       IN \/ /\ Rotates(r.cred) \/ Leaves(r.cred)
             /\ answered
             /\ minted' = IF r.way = "item" THEN minted \cup {New} ELSE minted
             /\ UNCHANGED lock
          \/ /\ Loses(r.cred) \/ UNCHANGED <<host, left>>
             /\ over("error")
             /\ UNCHANGED minted
          \/ /\ Grant(r.cred) \notin valid
             /\ IF r.way = "item"
                THEN Set(p, [r EXCEPT !.pc = "refused"]) /\ UNCHANGED lock
                ELSE over("needs login")
             /\ UNCHANGED <<host, left, minted>>
    /\ UNCHANGED <<stale, stores, hold, session, usage, log, landed>>

\* The plan is asked for only with time for the whole request and for what follows it.
AskPlan(p) ==
    /\ At(p, "plan")
    /\ LET r == run[p]
           next == IF r.way = "item" THEN "line" ELSE "look"
       IN \/ Set(p, [r EXCEPT !.pc = next])
          \/ /\ r.time > 2
             /\ \E spent \in {0, 1} :
                  Set(p, [r EXCEPT !.pc = next, !.time = @ - spent, !.asked = TRUE])
    /\ UNCHANGED <<host, stale, stores, lock, hold, session, usage, record, left>>

\* The last look: a file that moved or another user of the namespace discards the answer.
LastLook(p) ==
    /\ At(p, "look")
    /\ LET r == run[p] IN
       \E spent \in {x \in {0, 1} : x <= r.time} :
         IF file # r.seen \/ Activity(r.listed) # "none"
         THEN Back(p, None, "refresh discarded") /\ lock' = NoProc
         ELSE Set(p, [r EXCEPT !.pc = "write", !.time = @ - spent]) /\ UNCHANGED lock
    /\ UNCHANGED <<host, stale, stores, hold, session, usage, record, left>>

\* The staged file is renamed onto the credential, or parked when the rename fails.  A pass
\* that should stop leaves everything as it found it.
ShouldStop(r) == r.stop \/ r.time = 0
WriteFile(p) ==
    /\ At(p, "write")
    /\ lock' = NoProc
    /\ LET r == run[p] IN
       \/ /\ ShouldStop(r)
          /\ Back(p, None, "refresh discarded")
          /\ UNCHANGED <<file, pending>>
       \/ /\ ~ShouldStop(r)
          /\ file' = r.cred
          /\ Back(p, r.cred, Said(r, r.state))
          /\ UNCHANGED pending
       \/ /\ ~ShouldStop(r) /\ Happens("faults")
          /\ pending' = [cred |-> r.cred, from |-> r.base]
          /\ Back(p, r.cred, "error")
          /\ UNCHANGED file
       \/ /\ Happens("faults")
          /\ Back(p, None, "error")
          /\ UNCHANGED <<file, pending>>
    /\ UNCHANGED <<host, stale, item, adopted, hold, session, usage, record, left>>

-----------------------------------------------------------------------------
(* The migrated item, under Claude Code's locks.                           *)

\* An entry for the refresh this pass was answered with, and the end of the pass's trip.
Audited(p, outcome) == log' = log \cup {[cred |-> run[p].cred, outcome |-> outcome]}
Occupied(p) == Back(p, adopted, "adopted")

\* The item must still be this account's.
CheckOwner(p) ==
    /\ At(p, "owner")
    /\ IF Own(run[p].cred)
       THEN Set(p, [run[p] EXCEPT !.pc = "peek", !.base = run[p].cred])
       ELSE Occupied(p)
    /\ UNCHANGED <<host, stale, stores, lock, hold, session, usage, record, left>>

\* One read before the request and one after a refused grant, holding nothing: an item that
\* moved is another account's, or a session's refresh to adopt.
Peek(p) ==
    /\ At(p, "peek") \/ At(p, "refused")
    /\ LET r == run[p] IN
       \/ /\ item # None /\ item # r.base
          /\ IF Own(item) THEN Back(p, item, r.state) ELSE Occupied(p)
       \/ /\ item = r.base
          /\ IF r.pc = "peek" THEN Set(p, [r EXCEPT !.pc = "post"])
                             ELSE Back(p, None, "needs login")
       \/ /\ item = None \/ Happens("faults")
          /\ Back(p, None, "stale")
    /\ UNCHANGED <<host, stale, stores, lock, hold, session, usage, record, left>>

\* From here every way out owes an entry.  The line may be too long for `security`, and the
\* namespace directory may not be there to open.
BuildLine(p) ==
    /\ At(p, "line")
    /\ \/ Set(p, [run[p] EXCEPT !.pc = "claim"]) /\ UNCHANGED log
       \/ Happens("faults") /\ Audited(p, "discarded") /\ Back(p, None, "error")
    /\ UNCHANGED <<host, stale, stores, lock, hold, session, usage, landed, minted, left>>

Claim(p) ==
    /\ At(p, "claim")
    /\ \/ /\ hold = NoProc /\ ~run[p].stop
          /\ hold' = p
          /\ Set(p, [run[p] EXCEPT !.pc = "observe"])
          /\ UNCHANGED log
       \/ /\ \/ hold # NoProc /\ Back(p, None, "busy")
             \/ run[p].stop /\ Back(p, None, "error")
             \/ Happens("faults") /\ Back(p, None, "lock unavailable")
          /\ Audited(p, "discarded")
          /\ UNCHANGED hold
    /\ UNCHANGED <<host, stale, stores, lock, session, usage, landed, minted, left>>

\* The item as it is now, against what the refresh was computed from.  A lock that drifted
\* and an item that cannot be read discard the refresh as well.
Observe(p) ==
    /\ At(p, "observe")
    /\ \/ item = run[p].base /\ Set(p, [run[p] EXCEPT !.pc = "write item"]) /\ UNCHANGED <<hold, log>>
       \/ /\ item # run[p].base \/ Happens("faults")
          /\ hold' = NoProc
          /\ Audited(p, "discarded")
          /\ Back(p, None, "stale")
    /\ UNCHANGED <<host, stale, stores, lock, session, usage, landed, minted, left>>

WriteItemForgets(p) ==
    /\ At(p, "write item")
    /\ hold' = NoProc
    /\ \/ /\ item' = run[p].cred /\ landed' = landed \cup {run[p].cred}
          /\ Set(p, [run[p] EXCEPT !.pc = "confirm"])
       \/ UNCHANGED <<item, landed>> /\ Back(p, None, "stale")
    /\ UNCHANGED <<host, stale, file, pending, adopted, lock, session, usage, log, minted, left>>

\* The write, if the hold's budget allows it.  A `security` that exits with an error wrote
\* nothing; one that ran out of time is followed by a read; one that a signal killed is
\* reported as failed, whatever it had done.
WriteItem(p) ==
    /\ At(p, "write item")
    /\ hold' = NoProc
    /\ LET r == run[p] IN
       \/ /\ Happens("faults")
          /\ UNCHANGED <<item, landed>>
          /\ Audited(p, "discarded") /\ Back(p, None, "stale")
       \/ \E lands \in BOOLEAN :
            /\ lands \/ Happens("faults") \/ r.stop
            /\ item' = IF lands THEN r.cred ELSE item
            /\ landed' = IF lands THEN landed \cup {r.cred} ELSE landed
            /\ \/ Set(p, [r EXCEPT !.pc = "confirm"]) /\ UNCHANGED log
               \/ /\ ~lands \/ r.stop
                  /\ Audited(p, "failed") /\ Back(p, None, "error")
    /\ UNCHANGED <<host, stale, file, pending, adopted, lock, session, usage, minted, left>>

Confirm(p) ==
    /\ At(p, "confirm")
    /\ LET r == run[p] IN
       IF item = r.cred
       THEN Audited(p, "applied") /\ Back(p, r.cred, r.state)
       ELSE Audited(p, "unknown") /\ Back(p, r.cred, "stale")
    /\ UNCHANGED <<host, stale, stores, lock, hold, session, usage, landed, minted, left>>

-----------------------------------------------------------------------------
(* Beside the passes.                                                      *)

\* A pass dies: the kernel gives its namespace lock back, and Claude Code's locks expire.
\* A pass is told to stop.
Crash(p) ==
    /\ Happens("crash") /\ ~At(p, "idle")
    /\ Set(p, [Idle EXCEPT !.state = "none"])
    /\ lock' = IF lock = p THEN NoProc ELSE lock
    /\ hold' = IF hold = p THEN NoProc ELSE hold
    /\ minted' = IF run[p].way = "item" /\ run[p].pc \in Answered THEN minted \ {run[p].cred} ELSE minted
    /\ UNCHANGED <<host, stale, stores, session, usage, log, landed, left>>

Cancel(p) ==
    /\ Happens("cancel") /\ ~At(p, "idle") /\ ~run[p].stop
    /\ Set(p, [run[p] EXCEPT !.stop = TRUE])
    /\ UNCHANGED <<host, stale, stores, lock, hold, session, usage, record, left>>

\* An access token comes within the margin of its expiry, and time passes.
Expire ==
    /\ \E c \in Creds \ stale : stale' = stale \cup {c}
    /\ UNCHANGED <<host, stores, lock, hold, session, usage, record, run, left>>
Tick ==
    /\ left.ticks > 0
    /\ left' = [left EXCEPT !.ticks = @ - 1]
    /\ clock' = clock + 1
    /\ UNCHANGED <<host, stale, stores, lock, hold, session, cache, window, record, run>>

\* A Claude Code session in this namespace refreshes what it runs on, under its own locks,
\* and saves it where it was or in the keychain.
SessionStarts ==
    /\ Happens("session") /\ session.at = "idle" /\ hold = NoProc
    /\ LET mine == IF Own(item) THEN item ELSE file IN
       /\ mine # None /\ item # Occupant
       /\ session' = [at |-> "post", cred |-> mine]
    /\ hold' = Session
    /\ UNCHANGED <<host, stale, stores, lock, usage, record, run, left>>
SessionPosts ==
    /\ session.at = "post"
    /\ \/ /\ Rotates(session.cred) \/ Leaves(session.cred)
          /\ session' = [at |-> "save", cred |-> New]
          /\ UNCHANGED hold
       \/ /\ Grant(session.cred) \notin valid
          /\ session' = [at |-> "idle", cred |-> None]
          /\ hold' = NoProc
          /\ UNCHANGED <<host, left>>
    /\ UNCHANGED <<stale, stores, lock, usage, record, run>>
SessionSaves ==
    /\ session.at = "save"
    /\ session' = [at |-> "idle", cred |-> None]
    /\ hold' = NoProc
    /\ \/ /\ item = None
          /\ file' = session.cred
          /\ UNCHANGED <<item, landed>>
       \/ /\ item # None \/ Happens("migrate")
          /\ item' = session.cred /\ landed' = landed \cup {session.cred}
          /\ file' = None
    /\ UNCHANGED <<host, stale, pending, adopted, lock, usage, log, minted, run, left>>

\* `/login` in that session issues a grant of its own and saves it.
SessionLogin ==
    /\ Happens("relogin") /\ hold = NoProc
    /\ Issue(New) /\ valid' = valid \cup {New}
    /\ \/ item = None /\ file' = New /\ UNCHANGED <<item, landed>>
       \/ item # None /\ item' = New /\ landed' = landed \cup {New} /\ UNCHANGED file
    /\ UNCHANGED <<stale, pending, adopted, lock, hold, session, usage, log, minted, run>>

\* `agctl claude use --live` puts another account's credential in the item and this one's
\* beside it, or the other way round.
Swap ==
    /\ Happens("swap") /\ hold = NoProc /\ item # None
    /\ IF Own(item) THEN item' = Occupant /\ adopted' = item
                    ELSE item' = adopted /\ adopted' = None
    /\ UNCHANGED <<host, stale, file, pending, lock, hold, session, usage, record, run, left>>

\* `agctl claude login` stores a new grant under the namespace lock, clearing what was
\* parked first; when its rename fails it parks the new one, or stores nothing.
Login ==
    /\ Happens("login") /\ lock = NoProc
    /\ Issue(New) /\ valid' = valid \cup {New}
    /\ \/ file' = New /\ pending' = NoPending
       \/ /\ Happens("faults")
          /\ pending' \in {[cred |-> New, from |-> file], NoPending}
          /\ UNCHANGED file
    /\ UNCHANGED <<stale, item, adopted, lock, hold, session, usage, record, run>>

\* `agctl claude accounts remove` deletes the namespace under its lock.
Remove ==
    /\ Happens("remove") /\ lock = NoProc
    /\ file' = None /\ adopted' = None /\ pending' = NoPending
    /\ UNCHANGED <<host, stale, item, lock, hold, session, usage, record, run, left>>

-----------------------------------------------------------------------------
Init ==
    /\ \E c \in Cases :
         /\ left = [procs |-> c.procs, mints |-> c.mints, passes |-> c.passes,
                    ticks |-> c.ticks, beside |-> c.beside]
         /\ \E start \in c.starts :
              /\ file = IF start = "file" THEN 1 ELSE None
              /\ item = IF start = "item" THEN 1 ELSE None
    /\ grant = <<1>> /\ valid = {1} /\ stale \in {{}, {1}}
    /\ pending = NoPending /\ adopted = None
    /\ lock = NoProc /\ hold = NoProc
    /\ session = [at |-> "idle", cred |-> None]
    /\ cache = Unfetched /\ clock = 0 /\ window = 0
    /\ log = {} /\ landed = IF item = None THEN {} ELSE {item}
    /\ minted = {}
    /\ run = [p \in Procs |-> Idle]

Step(p) ==
    \/ Discover(p) \/ Start(p) \/ Fetch(p)
    \/ Acquire(p) \/ Detect(p) \/ ResolvePending(p) \/ Settle(p) \/ Snapshot(p)
    \/ Post(p) \/ AskPlan(p) \/ LastLook(p) \/ WriteFile(p)
    \/ CheckOwner(p) \/ Peek(p) \/ BuildLine(p) \/ Claim(p) \/ Observe(p)
    \/ WriteItem(p) \/ Confirm(p)

Environment ==
    \/ Expire \/ Tick \/ SessionStarts \/ SessionPosts \/ SessionSaves \/ SessionLogin
    \/ Swap \/ Login \/ Remove

Next ==
    \/ \E p \in left.procs : Step(p) \/ Crash(p) \/ Cancel(p)
    \/ Environment

Spec == Init /\ [][Next]_vars

-----------------------------------------------------------------------------
(* Properties.                                                             *)

Places == {"idle", "start", "fetch", "lock", "held", "resolve", "settled", "snapshot", "post",
           "plan", "look", "write", "owner", "peek", "line", "claim", "observe", "refused",
           "write item", "confirm"}
States == {"ok", "session", "migrated", "adopted", "replayed", "discarded", "stale", "busy",
           "needs login", "rate limited", "error", "lock unavailable", "refresh discarded",
           "none"}
Slots == {None, Occupant} \cup Creds
Entries == [at : -1 .. clock, until : 0 .. clock + Retry]
Outcomes == {"applied", "discarded", "failed", "unknown"}
Slips == [at : Int, until : Int]
Rows == [pc : Places, cred : Int, base : Int, seen : Int, listed : BOOLEAN,
         act : {"none", "session", "migrated"},
         put : {"none", "replayed", "needs login", "discarded"}, state : States,
         way : {"file", "item"}, site : {"none", "refresh", "retry", "pending"},
         bypass : BOOLEAN, network : BOOLEAN, mine : BOOLEAN, entry : Slips,
         at : Nat, time : Nat, asked : BOOLEAN, stop : BOOLEAN]

\* Where a pass has the namespace lock, and where it has Claude Code's.
HasLock(r) == \/ r.pc \in {"held", "resolve", "settled", "snapshot", "look", "write"}
              \/ r.pc \in {"post", "plan"} /\ r.way = "file"
HasHold(r) == r.pc \in {"observe", "write item"}

\* A row's locals, the stores, the locks and the cache stay what the code can hold.
TypeOK ==
    /\ grant \in Seq(Nat) /\ valid \subseteq Nat /\ stale \subseteq Creds
    /\ file \in Slots \ {Occupant} /\ item \in Slots /\ adopted \in Slots \ {Occupant}
    /\ pending \in [cred : Slots \ {Occupant}, from : Slots \ {Occupant}]
    /\ lock \in Procs \cup {NoProc} /\ hold \in Procs \cup {NoProc, Session}
    /\ session \in [at : {"idle", "post", "save"}, cred : Slots \ {Occupant}]
    /\ cache \in Entries /\ clock \in Nat /\ window \in 0 .. clock + Retry
    /\ landed \subseteq Creds /\ minted \subseteq Creds
    /\ log \subseteq [cred : Creds, outcome : Outcomes]
    /\ left \in [procs : SUBSET Procs, mints : Nat, passes : Nat, ticks : Nat, beside : SUBSET Beside]
    /\ run \in [Procs -> Rows]
    /\ \A p \in Procs :
         /\ run[p].cred \in Slots /\ run[p].entry \in Entries /\ run[p].at <= clock
         /\ lock = p <=> HasLock(run[p])
         /\ hold = p <=> HasHold(run[p])

\* The refresh tokens some place still has: the stores, a session or a pass about to save
\* what it was answered with.  The other account's, in the item, is always good.
InHand == {run[p].cred : p \in {q \in Procs : run[q].pc \in Answered}}
Held == {Grant(c) : c \in {file, pending.cred, item, adopted, session.cred} \cup InHand}
        \cup ({item} \cap {Occupant})
Good == valid \cup {Occupant}

\* What may end a grant that is still good: the row discards its answer because the file
\* moved or the namespace is somebody else's, because the pass must stop, because neither the
\* write nor its parking went through, or with an entry in the log; a parked one replaces the
\* one it derives from, and goes with the namespace or when the file is no longer that one; a
\* /login in a session between the read and the snapshot, or between the last look and the
\* rename, is overwritten.
MayDrop(p, g) ==
    LET r == run[p] IN
    \/ run'[p].state = "none"
    \/ r.pc = "look"
    \/ /\ r.pc = "write"
       /\ \/ r.seen # r.base \/ file # r.seen
          \/ UNCHANGED <<file, pending>> /\ (ShouldStop(r) \/ Happens("faults"))
    \/ /\ r.pc = "resolve"
       /\ \/ g = Grant(pending.from)
          \/ g = Grant(pending.cred) /\ (r.act # "none" \/ file # pending.from)
    \/ /\ r.pc \in {"line", "claim", "observe", "write item", "confirm"}
       /\ \E e \in log' \ log : e.cred = r.cred /\ e.outcome # "applied"

\* A step of a pass never loses the last copy of a refresh token the server still accepts,
\* but where the row or the audit log says so (commands/status.rs, write_credentials and
\* resolve_pending): no session's credential, no other account's, and no parked one.
GrantKept ==
    [][\A p \in Procs : run'[p] # run[p] =>
         \A g \in (Held \ Held') \cap Good' : MayDrop(p, g)]_vars

\* Every credential a refresh in place was answered with is accounted for: the pass is still
\* on its way or the log has its entry, and the entry is true - applied means the item held
\* it, discarded that it never did (commands/status.rs, WriteAudit).
AuditTold ==
    /\ \A c \in minted :
         \/ \E p \in Procs : run[p].way = "item" /\ run[p].pc \in Answered /\ run[p].cred = c
         \/ \E e \in log : e.cred = c
    /\ \A e \in log : e.outcome = "applied" => e.cred \in landed
    /\ \A e \in log : e.outcome = "discarded" => e.cred \notin landed

\* The write replaces the credential the refresh was computed from and nothing newer, and
\* never the account a swap put there (commands/status.rs, refresh_in_place step 8).
ReplacesItsOwn ==
    [][\A p \in Procs : At(p, "write item") /\ item' # item => item = run[p].base /\ Own(item)]_vars

\* A window the server asked for is forgotten only by a pass that had not seen it
\* (commands/status.rs run_account, usage/cache.rs).
WindowOutlivesThePass ==
    [][cache.until > clock /\ cache'.until <= clock =>
         \E p \in Procs : At(p, "fetch") /\ run[p].entry # cache]_vars

\* The module doc of `left_unknown`: a write that failed did not touch the item
\* (commands/status.rs:1878-1883).
FailedLeavesTheItem == \A e \in log : e.outcome = "failed" => e.cred \notin landed
-----------------------------------------------------------------------------
(* The inductive invariant behind the safety properties.                   *)

\* What a pass is doing fits the store it does it to.
WayOf(p) ==
    /\ run[p].site = "pending" => run[p].pc \in {"lock", "held", "resolve", "settled"}
    /\ run[p].pc \in {"lock", "held", "resolve", "settled"} /\ run[p].site # "pending" => run[p].way = "file"
    /\ run[p].pc \in {"snapshot", "look", "write"} => run[p].way = "file"
    /\ run[p].pc \in {"owner", "peek", "refused", "line", "claim", "observe", "write item", "confirm"}
         => run[p].way = "item"

\* A row that asks for anything is past the window it had read.
WindowOf(p) ==
    run[p].pc \notin {"idle", "start"} /\ run[p].site # "pending" => run[p].entry.until <= run[p].at

\* A refresh is of the credential its pass started from, whose grant is spent by the answer or
\* is the answer's; what the pass is to write over is still there.
Refreshing(p) ==
    /\ run[p].pc \in {"snapshot", "peek", "post", "refused"} => run[p].cred = run[p].base /\ Own(run[p].base)
    /\ run[p].pc \in Answered =>
         /\ Own(run[p].cred) /\ Own(run[p].base)
         /\ Grant(run[p].base) \notin valid \/ Grant(run[p].base) = Grant(run[p].cred)
    /\ lock = p /\ run[p].pc \notin {"held", "resolve"} => pending = NoPending
    /\ run[p].pc = "write item" => item = run[p].base

\* An answer that is not stored is nowhere but with its pass.
Around == {file, pending.cred, item, adopted, session.cred} \cup landed
FreshInv ==
    /\ \A p \in Procs : run[p].pc \in Answered \ {"confirm"} =>
          run[p].cred \notin Around /\ \A q \in Procs \ {p} : run[q].cred # run[p].cred
    /\ \A p, q \in Procs : run[p].pc \in Answered /\ run[q].pc \in Answered /\ run[p].cred = run[q].cred
                             => p = q

\* An answer is recorded by its own pass, once, and one that is recorded as discarded is nowhere.
LogInv ==
    /\ AuditTold
    /\ \A p \in Procs : run[p].way = "item" /\ run[p].pc \in Answered =>
          \A e \in log : e.cred # run[p].cred
    /\ \A e \in log : e.outcome = "discarded" => e.cred \notin Around /\ \A p \in Procs : run[p].cred # e.cred

\* A grant is one of those issued, and a session's is; the item, and its account's copy, hold what the item has held.
GrantsInv ==
    /\ \A c \in Creds : grant[c] \in Creds
    /\ valid \subseteq Creds
    /\ hold = Session <=> session.at # "idle"
    /\ session.at # "idle" => Own(session.cred)
    /\ {item, adopted} \subseteq {None, Occupant} \cup landed

IInv == /\ TypeOK
        /\ \A p \in Procs : WayOf(p) /\ WindowOf(p) /\ Refreshing(p)
        /\ GrantsInv
        /\ FreshInv
        /\ LogInv
=============================================================================
