---------------------------- MODULE NamespaceSwap ----------------------------
(***************************************************************************)
(* `claude use --live`, whichever item it writes, and `use --undo`         *)
(* (commands/use.rs): where the credential that goes in is read, and what  *)
(* becomes of the one that comes out (provider/claude/adopt.rs, decision   *)
(* D-017: adopt the displaced credential or refuse the swap).              *)
(*                                                                         *)
(* Each action is one of AuditLog's, which says what the run does to the   *)
(* items and the log, together with what it does to the credentials an     *)
(* account has beside its item: its `.credentials.json`, its adopted copy, *)
(* and the write of the first that could not be renamed.  A refresh spends *)
(* the credential it is made from; a login spends nothing.                 *)
(***************************************************************************)
EXTENDS AuditLog, Functions

VARIABLES
    store,      \* each namespace's `.credentials.json`: the set of the credential in it
    copy,       \* each namespace's `.credentials.adopted.json`
    parked,     \* each namespace's pending write, and what its metadata says it replaces
    spent,      \* the credentials the server has rotated away
    issued,     \* how many credentials it has issued, from the second on
    plan        \* each run: what Phase A and B decided

homes == <<store, copy, parked>>
server == <<spent, issued>>
swapVars == <<homes, server, plan>>
allVars == <<vars, swapVars>>

-----------------------------------------------------------------------------
(* Helpers.                                                                *)

\* What a run knows beside its AuditLog locals: how far Phase B is, where the credential that goes
\* in is read, the one displaced, where that is to go and what was there, and what a refresh was
\* made from.
NoPlan == [step |-> "decide", source |-> "own", out |-> {}, what |-> "nothing", home |-> Live,
           prior |-> {}, basis |-> {}]

Step(p, step) == plan' = [plan EXCEPT ![p].step = step]
Of(S) == {c.of : c \in S}
Newer(S, T) == \E c \in S, d \in T : c.gen > d.gen
Migrated(a) == a \in Spaces /\ item[a] # {}
Forward(p) == run[p].dir = "forward"
OnLive(p) == run[p].store = Live

\* The credentials at rest, and whether an account has one the server still honours.
AtRest ==
    (UNION {store[a] \cup copy[a] \cup {w.grant : w \in parked[a]} : a \in Accounts})
        \cup (UNION {item[s] : s \in Stores})
Usable(a) == \E c \in AtRest \ spent : c.of = a

\* The file the incoming credential is read from: an adopted copy is the store's own, or for a live
\* undo its owner's.
CopyHome(p) == IF OnLive(p) THEN run[p].of ELSE run[p].store
Source(p) == IF plan[p].source = "own" THEN store[run[p].of] ELSE copy[CopyHome(p)]

\* The server issues a credential of the account, which expires after all those before it.
NextIssued(a) == [of |-> a, gen |-> issued + 1]
Issues == issued < MaxGen /\ issued' = issued + 1

-----------------------------------------------------------------------------
(* Phase A.                                                                *)

Swap(p, s, a) ==
    /\ StartSwap(p, s, a)
    /\ UNCHANGED swapVars

Refresh(p, s) ==
    /\ StartRefresh(p, s)
    /\ UNCHANGED swapVars

\* A namespace's undo reads the store's own adopted copy, which must be what the entry says was
\* displaced, or for a first write anything but what it wrote.
NamespaceReversal(p, e) ==
    /\ e.store # Live
    /\ Of(copy[e.store]) = {run'[p].of}
    /\ IF e.from # {} THEN copy[e.store] = e.from ELSE copy[e.store] # e.to
    /\ plan' = [plan EXCEPT ![p].source = "copy"]

\* A live one finds it by its digest in its account's own namespace, the adopted copy first.
LiveReversal(p, e) ==
    LET a == run'[p].of IN
    /\ e.store = Live
    /\ e.from \in {copy[a], store[a]}
    /\ plan' = [plan EXCEPT ![p].source = IF copy[a] = e.from THEN "copy" ELSE "own"]

Undo(p) ==
    /\ StartUndo(p)
    /\ LET e == did[run'[p].undone] IN NamespaceReversal(p, e) \/ LiveReversal(p, e)
    /\ UNCHANGED <<homes, server>>

\* A namespace that has not migrated serves its file: the item write is a first write.
Displaced(p) ==
    LET now == item[run[p].store] IN
    IF now = {} /\ ~OnLive(p) THEN store[run[p].store] ELSE now

\* The store serves what would go in, or the live item a copy of it that is no older.
AlreadyActive(p) ==
    \/ Displaced(p) = Source(p)
    \/ /\ OnLive(p) /\ Forward(p)
       /\ Of(item[Live]) = {run[p].of} /\ ~Newer(Source(p), item[Live])

\* The item is read once, then the credential to go in, for an undo again: nothing is locked yet.
Read(p) ==
    /\ ReadItem(p)
    /\ IF run'[p].pc = "idle" THEN plan' = [plan EXCEPT ![p] = NoPlan]
       ELSE IF run[p].refresh
            THEN /\ Of(item[run[p].store]) = {run[p].store}
                 /\ Step(p, "renew")
            ELSE /\ run'[p].to = Source(p) /\ ~AlreadyActive(p)
                 /\ OnLive(p) => item[Live] # {}
                 /\ plan' = [plan EXCEPT ![p].out = Displaced(p)]
    /\ UNCHANGED <<homes, server>>

Locks(p) == TakeLocks(p) /\ UNCHANGED swapVars

-----------------------------------------------------------------------------
(* What becomes of the displaced credential.                               *)

\* It is dropped, or is where it would go, which the property below looks at again.
Dropped == [what |-> "nothing", home |-> Live, prior |-> {}]
There(a, out) == [what |-> "nothing", home |-> a, prior |-> out]
InCopy(a) == [what |-> "copy", home |-> a, prior |-> {}]
Staged(a) == [what |-> "staged", home |-> a, prior |-> {}]
InStore(a) == [what |-> "store", home |-> a, prior |-> store[a]]

PlacedRegardless(out, there, answer) ==
    IF there = out THEN {There(answer.home, out)} ELSE {answer}

\* What is there already is replaced where it is strictly older; none of the answers refuses.
Placed(out, there, answer) ==
    IF there = out THEN {There(answer.home, out)}
    ELSE IF there = {} \/ Newer(out, there) THEN {answer} ELSE {}

\* The displaced credential is the incoming account's.  An older copy, or the same, is dropped;
\* a newer one is kept beside the store, but not over another account's, nor for the live store.
IncomingsOwn(p) ==
    LET out == plan[p].out
        s == run[p].store
    IN  IF run[p].to = out \/ Newer(run[p].to, out) THEN {Dropped}
        ELSE IF OnLive(p) THEN {}
        ELSE IF parked[s] # {} \/ ~(Of(copy[s]) \subseteq {run[p].of}) THEN {}
        ELSE Placed(out, copy[s], InCopy(s))

\* It is the store's own.
StoresOwn(p) ==
    LET s == run[p].store IN
    IF parked[s] # {} THEN {} ELSE Placed(plan[p].out, copy[s], InCopy(s))

\* It is a third account's, and goes to its file.
ThirdsStore(p, a) ==
    IF parked[a] # {} \/ Migrated(a) THEN {} ELSE Placed(plan[p].out, store[a], InStore(a))

\* What a live write left in an adopted copy, as the log has it.
ParkedByALiveWrite(S) ==
    \E n \in {e.n : e \in {x \in Range(EntriesIn(Contents(at, files))) : x.event = "write"}} :
        /\ did[n].store = Live
        /\ S = IF did[n].dir = "forward" THEN did[n].from ELSE did[n].to

\* A live swap puts it beside that account's file, unless it is in that file, and replaces only
\* what an earlier live write left there of the same account.
ThirdsCopy(p, a) ==
    LET out == plan[p].out IN
    IF store[a] = out THEN {There(a, out)}
    ELSE IF parked[a] # {} THEN {}
    ELSE IF copy[a] \notin {{}, out} /\ (Of(copy[a]) # {a} \/ ~ParkedByALiveWrite(copy[a])) THEN {}
    ELSE IF copy[a] = out THEN {There(a, out)} ELSE {InCopy(a)}

\* A namespace's undo puts whatever the item holds in the store's adopted copy, in exchange, and
\* renames it there only after the write.
Exchanged(p) ==
    LET s == run[p].store IN
    IF parked[s] # {} THEN {} ELSE IF copy[s] = plan[p].out THEN {Dropped} ELSE {Staged(s)}

Adoption(p) ==
    LET of == Of(plan[p].out)
        thirds == IF OnLive(p) /\ Forward(p) THEN {ThirdsCopy(p, a) : a \in of}
                  ELSE {ThirdsStore(p, a) : a \in of}
    IN  IF plan[p].out = {} THEN {Dropped}
        ELSE IF ~OnLive(p) /\ ~Forward(p) THEN Exchanged(p)
        ELSE IF of = {run[p].store} THEN StoresOwn(p)
        ELSE IF of = {run[p].of} THEN IncomingsOwn(p)
        ELSE UNION thirds

At(p, step) == Place(p, "write") /\ plan[p].step = step

\* Decided before the prompt and the refresh, performed after them.
Decide(p) ==
    /\ At(p, "decide")
    /\ \E answer \in Adoption(p) :
         plan' = [plan EXCEPT ![p] = [NoPlan EXCEPT !.step = "renew", !.source = plan[p].source,
                                                    !.out = plan[p].out, !.what = answer.what,
                                                    !.home = answer.home, !.prior = answer.prior]]
    /\ UNCHANGED <<vars, homes, server>>

-----------------------------------------------------------------------------
(* The refresh of the credential that goes in.                             *)

\* Where the result could be saved, as far as is known before the POST: not in a store that has
\* migrated.
Savable(p) ==
    \/ run[p].refresh
    \/ plan[p].source = "own" /\ ~Migrated(run[p].of)
    \/ plan[p].source = "copy" /\ ~OnLive(p)
    \/ plan[p].source = "copy" /\ OnLive(p) /\ parked[run[p].of] = {} /\ Source(p) = run[p].to

\* The server honours only a credential it has not rotated away.
Post(p) ==
    /\ At(p, "renew") /\ Savable(p)
    /\ run[p].to \cap spent = {}
    /\ Renew(p) /\ Issues
    /\ \A c \in run'[p].to : c.gen = issued'
    /\ spent' = spent \cup run[p].to
    /\ plan' = [plan EXCEPT ![p].basis = run[p].to,
                            ![p].step = IF run[p].refresh THEN "ready" ELSE "save"]
    /\ UNCHANGED homes

\* A pending write is replayed over the file it was to replace, and otherwise discarded.
Replays(a) == parked[a] # {} /\ ~Migrated(a) /\ \A w \in parked[a] : w.over = store[a]
Resolved(a) == IF Replays(a) THEN {w.grant : w \in parked[a]} ELSE store[a]

\* A write of `.credentials.json`: where the rename fails it is parked, and replaces what it says.
Writes(a, S, over, base) ==
    \/ /\ store' = [base EXCEPT ![a] = S]
       /\ parked' = [parked EXCEPT ![a] = {}]
       /\ UNCHANGED left
    \/ /\ Spend("parks")
       /\ store' = base
       /\ parked' = [parked EXCEPT ![a] = {[grant |-> c, over |-> over] : c \in S}]

\* The incoming account's own file takes the result where nothing but a replay changed it, a live
\* undo's copy where nothing did, and a namespace undo's copy never.  A failure is a warning.
Save(p) ==
    LET a == run[p].of
        base == [store EXCEPT ![a] = Resolved(a)]
        own == plan[p].source = "own"
    IN  /\ At(p, "save")
        /\ \/ /\ own /\ ~Migrated(a)
              /\ Replays(a) \/ store[a] = plan[p].basis
              /\ Writes(a, run[p].to, plan[p].basis, base)
              /\ UNCHANGED copy
           \/ /\ own /\ (Migrated(a) \/ ~(Replays(a) \/ store[a] = plan[p].basis))
              /\ store' = base /\ parked' = [parked EXCEPT ![a] = {}]
              /\ UNCHANGED <<copy, left>>
           \/ /\ ~own /\ OnLive(p)
              /\ copy' = IF parked[a] = {} /\ copy[a] = plan[p].basis
                         THEN [copy EXCEPT ![a] = run[p].to] ELSE copy
              /\ UNCHANGED <<store, parked, left>>
           \/ ~own /\ ~OnLive(p) /\ UNCHANGED <<homes, left>>
        /\ Step(p, "adopt")
        /\ UNCHANGED <<logs, item, did, lock, run, server>>

AdoptStaged(p) ==
    LET a == plan[p].home
        out == plan[p].out
    IN  /\ At(p, "adopt") \/ (At(p, "renew") /\ ~run[p].refresh)
        /\ CASE plan[p].what \in {"copy", "staged"} ->
                  copy' = [copy EXCEPT ![a] = out] /\ UNCHANGED <<store, parked, left>>
             [] plan[p].what = "store" ->
                  store[a] = plan[p].prior /\ Writes(a, out, {}, store) /\ UNCHANGED copy
             [] OTHER -> UNCHANGED <<homes, left>>
        /\ Step(p, "ready")
        /\ UNCHANGED <<logs, item, did, lock, run, server>>

\* The displaced credential is put where it was decided, if that is as it was.
Adopt(p) ==
    LET a == plan[p].home
        out == plan[p].out
    IN  /\ At(p, "adopt") \/ (At(p, "renew") /\ ~run[p].refresh)
        /\ CASE plan[p].what = "copy" ->
                  copy' = [copy EXCEPT ![a] = out] /\ UNCHANGED <<store, parked, left>>
             [] plan[p].what = "store" ->
                  store[a] = plan[p].prior /\ Writes(a, out, {}, store) /\ UNCHANGED copy
             [] OTHER -> UNCHANGED <<homes, left>>
        /\ Step(p, "ready")
        /\ UNCHANGED <<logs, item, did, lock, run, server>>

-----------------------------------------------------------------------------
(* Phase C, and what comes after it.                                       *)

Done(p) == plan' = [plan EXCEPT ![p] = IF run'[p].pc = "idle" THEN NoPlan ELSE @]

WriteItem(p) ==
    /\ At(p, "ready")
    /\ Write(p)
    /\ UNCHANGED swapVars

BreakLock(p) ==
    /\ At(p, "ready")
    /\ Break(p)
    /\ UNCHANGED swapVars

\* Refused, declined at the prompt, thrown away, or the locks are busy.
Stop(p) ==
    /\ Withdraw(p)
    /\ Done(p)
    /\ UNCHANGED <<homes, server>>

\* Once the write is confirmed: the staged copy is renamed into place, the file of a store that has
\* migrated by this write is removed, and a live undo's copy of what its account's file holds.
AfterWrite(p) ==
    LET r == run[p]
        confirmed == did[r.wrote].outcome = "applied" /\ ~r.refresh
        first == r.from = {} /\ plan[p].out # {}
        double == OnLive(p) /\ ~Forward(p) /\ plan[p].source = "copy"
                    /\ store[r.of] = r.to /\ copy[r.of] = r.to
    IN  /\ Config(p)
        /\ copy' = CASE confirmed /\ plan[p].what = "staged" -> [copy EXCEPT ![r.store] = plan[p].out]
                     [] confirmed /\ double -> [copy EXCEPT ![r.of] = {}]
                     [] OTHER -> copy
        /\ store' = IF confirmed /\ first THEN [store EXCEPT ![r.store] = {}] ELSE store
        /\ Done(p)
        /\ UNCHANGED <<parked, server>>

Logs(p) ==
    /\ Gate(p) \/ Refuse(p) \/ Write1(p) \/ Write2(p) \/ Over(p)
    /\ Done(p)
    /\ UNCHANGED <<homes, server>>

Dies(p) ==
    /\ Crash(p)
    /\ Done(p)
    /\ UNCHANGED <<homes, server>>

-----------------------------------------------------------------------------
(* What happens beside the runs.                                           *)

\* `status` settles a namespace's pending write, under its lock.
Settle(a) ==
    /\ lock[a] = NoProc /\ parked[a] # {}
    /\ store' = [store EXCEPT ![a] = Resolved(a)]
    /\ parked' = [parked EXCEPT ![a] = {}]
    /\ UNCHANGED <<vars, copy, server, plan>>

\* `status`, or a session that has not migrated, refreshes a namespace's file.
RefreshFile(a) ==
    /\ Spend("logins") /\ Issues
    /\ store[a] # {} /\ store[a] \cap spent = {} /\ ~Migrated(a)
    /\ spent' = spent \cup store[a]
    /\ store' = [store EXCEPT ![a] = {NextIssued(c.of) : c \in @}]
    /\ UNCHANGED <<logs, item, did, lock, run, copy, parked, plan>>

\* A session refreshes what its item holds.
SessionRefreshes(s) ==
    /\ item[s] # {} /\ item[s] \cap spent = {}
    /\ Issues
    /\ Elsewhere(s, {NextIssued(c.of) : c \in item[s]})
    /\ spent' = spent \cup item[s]
    /\ UNCHANGED <<homes, plan>>

\* Somebody logs in.
SessionLogsIn(s, a) ==
    /\ Issues
    /\ Elsewhere(s, {NextIssued(a)})
    /\ UNCHANGED <<homes, spent, plan>>

\* A session moves its store's file into the keychain.
Migrate(s) ==
    /\ item[s] = {} /\ store[s] # {}
    /\ Elsewhere(s, store[s])
    /\ store' = [store EXCEPT ![s] = {}]
    /\ UNCHANGED <<copy, parked, server, plan>>

-----------------------------------------------------------------------------
(* The specification.                                                      *)

\* Each account has logged in, and some namespaces have migrated; the live store has a login of
\* its own.
Init ==
    /\ LogInit
    /\ \E moved \in SUBSET Spaces, a \in Accounts :
         /\ item = [s \in Stores |-> CASE s = Live -> {[of |-> a, gen |-> 1]}
                                       [] s \in moved -> {Grant(s)}
                                       [] OTHER -> {}]
         /\ store = [b \in Accounts |-> IF b \in moved THEN {} ELSE {Grant(b)}]
    /\ copy = [a \in Accounts |-> {}] /\ parked = [a \in Accounts |-> {}]
    /\ spent = {} /\ issued = 1
    /\ plan = [p \in Procs |-> NoPlan]

Next ==
    \/ \E p \in Procs :
         \/ \E s \in Stores, a \in Accounts : Swap(p, s, a)
         \/ \E s \in Stores : Refresh(p, s)
         \/ Undo(p) \/ Read(p) \/ Locks(p) \/ Decide(p) \/ Post(p) \/ Save(p) \/ Adopt(p)
         \/ BreakLock(p) \/ WriteItem(p) \/ Stop(p) \/ Logs(p) \/ AfterWrite(p) \/ Dies(p)
    \/ Tamper /\ UNCHANGED swapVars
    \/ \E a \in Accounts : Settle(a) \/ RefreshFile(a)
    \/ \E s \in Stores : SessionRefreshes(s) \/ \E a \in Accounts : SessionLogsIn(s, a)
    \/ \E s \in Spaces : Migrate(s)

Spec == Init /\ [][Next]_allVars

-----------------------------------------------------------------------------
(* Properties.                                                             *)

Acts(p) == run'[p] # run[p] \/ plan'[p] # plan[p]

\* Step p leaves the account whose credential its swap displaces one the server honours.
KeepsOutgoing(p) == \A c \in plan[p].out : c.of # run[p].of /\ Usable(c.of) => Usable(c.of)'

\* Nobody has taken away what the decision rests on: Claude Code moves and overwrites without
\* agctl's locks.  It goes by expiries, and a live swap's by the log: a displaced credential that has
\* been refreshed is older than any its account has, and replaces none a live swap put by.
Stands(p) ==
    LET a == plan[p].home IN
    /\ run[p].wrote # None \/ run[p].from = item[run[p].store]
    /\ plan[p].what = "nothing" => \A c \in plan[p].prior : c \in store[a] \cup copy[a]
    /\ plan[p].what = "store" => ~Migrated(a)
    /\ \A c \in plan[p].out \cap spent :
         /\ ~(OnLive(p) /\ plan[p].what = "copy")
         /\ \A d \in AtRest \ spent : d.of = c.of => d.gen > c.gen

\* "Adopt the displaced credential or refuse the swap" (adopt.rs:1-10): whatever a swap of an item
\* does and wherever it dies, the account whose credential it displaces keeps one the server
\* honours, in the item, in a file, or parked for the next `status`, while what it read stands.
OutgoingIsKept ==
    [][(\A p \in Procs :
          Forward(p) /\ Acts(p) /\ run[p].from # {} /\ Stands(p) => KeepsOutgoing(p))]_allVars

\* The same of a first write: the file it removes is "a second copy of a credential the adoption
\* has already parked elsewhere" (use.rs:1415-1418).
FileIsASecondCopy ==
    [][(\A p \in Procs :
          Forward(p) /\ Acts(p) /\ run[p].from = {} => KeepsOutgoing(p))]_allVars

\* The adopted copy is the only home of the credential a namespace's undo restores: until its write
\* is confirmed no step of the undo, and no death of it, takes that copy away (use.rs:3344-3356).
RestoredIsKept ==
    [][(\A p \in Procs :
          /\ run[p].dir = "undo" /\ ~OnLive(p) /\ Acts(p)
          /\ run[p].wrote = None \/ did[run[p].wrote].outcome # "applied"
          => run[p].to \cap AtRest \subseteq spent' \cup AtRest')]_allVars

-----------------------------------------------------------------------------
(* The inductive invariant behind them.                                    *)

Plans == [step : {"decide", "renew", "save", "adopt", "ready"}, source : {"own", "copy"},
          out : SUBSET Grants, what : {"nothing", "copy", "staged", "store"},
          home : Accounts \cup {Live}, prior : SUBSET Grants, basis : SUBSET Grants]
Pending == [grant : Grants, over : SUBSET Grants]

\* The variables that are not the log's keep their shape.
SwapTypeOK ==
    /\ store \in [Accounts -> SUBSET Grants] /\ copy \in [Accounts -> SUBSET Grants]
    /\ parked \in [Accounts -> SUBSET Pending]
    /\ spent \in SUBSET Grants /\ issued \in Nat
    /\ plan \in [Procs -> Plans]

\* A run begins with nothing decided, and a namespace's undo reads the store's copy and writes none
\* before its item.
PlanOf(p) ==
    /\ Place(p, "idle") => run[p] = Idle /\ plan[p] = NoPlan
    /\ run[p].dir = "undo" /\ ~OnLive(p) =>
         plan[p].source = "copy" /\ plan[p].what \in {"nothing", "staged"}

SwapInv == LogInv /\ SwapTypeOK /\ \A p \in Procs : PlanOf(p)

-----------------------------------------------------------------------------
(* What it needs beside for the credential that comes out.                 *)

One(S) == \A c, d \in S : c = d
Pends(a) == {w.grant : w \in parked[a]}

\* Every place holds one credential, and an account's file and its pending write its own.
HomesInv ==
    /\ \A a \in Accounts : /\ One(store[a]) /\ One(copy[a]) /\ One(Pends(a))
                           /\ Of(store[a] \cup Pends(a)) \subseteq {a}
    /\ \A s \in Stores : One(item[s])

\* What a run has read: the credential that goes in, and the one that comes out.
HasRead(p) ==
    LET r == run[p]
        out == plan[p].out
    IN  /\ One(r.to) /\ One(out)
        /\ Forward(p) => plan[p].source = "own"
        /\ r.pc \in {"idle", "item"} => out = {}
        /\ r.pc \notin {"idle", "item"} => r.to # {}
        /\ r.refresh => out = {}
        /\ r.pc \notin {"idle", "item"} /\ ~r.refresh =>
             /\ Forward(p) \/ OnLive(p) => \A c \in r.to : c.of = r.of
             /\ IF r.from # {} THEN out = r.from ELSE Of(out) \subseteq {r.store}

\* What it has decided is of a namespace it has locked, and is decided on what is there.
HasDecided(p) ==
    LET r == run[p]
        x == plan[p]
    IN  /\ r.pc \in {"idle", "item", "lock", "gate"} =>
             x.what = "nothing" /\ (x.step = "decide" \/ (r.refresh /\ r.pc # "item"))
        /\ r.refresh => x.what = "nothing" /\ x.step # "save"
        /\ r.wrote # None => r.refresh \/ x.step = "ready"
        /\ x.what # "nothing" => x.home \in Accounts /\ x.home \in Locked(r)
        /\ x.what = "staged" => ~Forward(p) /\ ~OnLive(p)
        /\ x.what = "store" => Of(x.out) \subseteq {x.home} /\ x.home # r.of
        /\ x.what = "nothing" /\ x.step # "decide" /\ Forward(p) =>
             Of(x.out) \subseteq {r.of} \/ (x.prior = x.out /\ x.home \in Accounts)

\* Before the displaced credential is put by, what it replaces is older; afterwards it is there.
Weighed(p) ==
    LET x == plan[p] IN
    Forward(p) /\ x.step \in {"renew", "save", "adopt"} =>
        /\ x.what = "copy" /\ ~OnLive(p) => copy[x.home] = {} \/ Newer(x.out, copy[x.home])
        /\ x.what = "store" => parked[x.home] = {} /\ (x.prior = {} \/ Newer(x.out, x.prior))
PutBy(p) ==
    LET x == plan[p] IN
    Forward(p) /\ x.step = "ready" /\ run[p].wrote = None =>
        /\ x.what = "copy" => copy[x.home] = x.out
        /\ x.what = "store" => Migrated(x.home) \/ x.out \subseteq spent \cup store[x.home] \cup Pends(x.home)

KeptInv == HomesInv /\ \A p \in Procs : HasRead(p) /\ HasDecided(p) /\ Weighed(p) /\ PutBy(p)
=============================================================================
