--------------------------- MODULE LiveSwapProofs ---------------------------
(***************************************************************************)
(* What LiveSwap guarantees for any number of processes, accounts,         *)
(* commands and credentials.                                               *)
(***************************************************************************)
EXTENDS LiveSwapInvariant, TLAPS

LEMMA Element ==
    ASSUME NEW S, NEW s \in Seq(S), NEW i \in 1 .. Len(s)
    PROVE  s[i] \in S
OBVIOUS

LEMMA OwnerType ==
    ASSUME TypeOK, NEW c \in Creds
    PROVE  owner[c] \in Accounts
BY Element DEF TypeOK, Creds

LEMMA StoreTypes ==
    ASSUME TypeOK, NEW a \in Accounts
    PROVE  /\ home[a] \in Creds \cup {None} /\ parked[a] \in Creds \cup {None}
           /\ moved[a] \in Creds \cup {None}
<1>1. /\ home \in [Accounts -> Creds \cup {None}] /\ parked \in [Accounts -> Creds \cup {None}]
      /\ moved \in [Accounts -> Creds \cup {None}]
  BY DEF TypeOK
<1> QED
  BY <1>1

LEMMA EntryType ==
    ASSUME TypeOK, NEW i \in DOMAIN log
    PROVE  log[i] \in Entries /\ log[i].inc \in Accounts /\ log[i].to \in Creds
<1>1. log \in Seq(Entries) /\ i \in 1 .. Len(log)
  BY DEF TypeOK
<1>2. log[i] \in Entries
  BY <1>1, Element
<1> QED
  BY <1>2 DEF Entries

\* What a command and a new credential leave of the limits.
LEMMA FewerRuns ==
    ASSUME left \in Limits, left.runs > 0
    PROVE  [left EXCEPT !.runs = @ - 1] \in Limits
<1>1. left.runs \in Nat
  BY Zenon DEF Limits
<1>2. left.runs - 1 \in Nat
  BY <1>1
<1> QED
  BY <1>2, Zenon DEF Limits

LEMMA FewerMints ==
    ASSUME left \in Limits, left.mints > 0
    PROVE  [left EXCEPT !.mints = @ - 1] \in Limits
<1>1. left.mints \in Nat
  BY Zenon DEF Limits
<1>2. left.mints - 1 \in Nat
  BY <1>1
<1> QED
  BY <1>2, Zenon DEF Limits

USE DEF Accounts, None, Creds, At

----------------------------------------------------------------------------
(* Growth: credentials are only added, and so are the log's lines.         *)

LEMMA Minting ==
    ASSUME owner \in Seq(Accounts), NEW a \in Accounts, owner' = Append(owner, a)
    PROVE  /\ owner' \in Seq(Accounts) /\ Len(owner') = Len(owner) + 1
           /\ \A c \in Creds : c \in Creds' /\ owner'[c] = owner[c]
           /\ Minted \in Creds' /\ owner'[Minted] = a /\ Minted \notin Creds
           /\ \A c \in Creds' : c \in Creds \/ c = Minted
           /\ \A c \in Creds : c < Minted
BY DEF Minted

LEMMA Logging ==
    ASSUME log \in Seq(Entries), NEW e \in Entries, log' = Append(log, e)
    PROVE  /\ \A i \in DOMAIN log : i \in DOMAIN log' /\ log'[i] = log[i]
           /\ \A i \in DOMAIN log' : i \in DOMAIN log \/ log'[i] = e
           /\ \A c \in Creds \cup {None} : ParkedByLive(c) => ParkedByLive(c)'
<1>1. /\ \A i \in DOMAIN log : i \in DOMAIN log' /\ log'[i] = log[i]
      /\ \A i \in DOMAIN log' : i \in DOMAIN log \/ log'[i] = e
  <2> HIDE DEF Accounts, Creds
  <2> QED
    OBVIOUS
<1>2. \A c \in Creds \cup {None} : ParkedByLive(c) => ParkedByLive(c)'
  BY <1>1 DEF ParkedByLive
<1> QED
  BY <1>1, <1>2

----------------------------------------------------------------------------
(* A run that does not move while another does.                            *)

\* What every step keeps of the credentials, the log and what was given up.
Grows ==
    /\ \A c \in Creds : c \in Creds' /\ owner'[c] = owner[c]
    /\ spent \subseteq spent' /\ given \subseteq given'
    /\ \A c \in Creds \cup {None} : ParkedByLive(c) => ParkedByLive(c)'

\* The step keeps the locks of q, and what q found under them.
KeepsNamespaces(q) ==
    \A a \in Accounts :
        nslock[a] = q =>
            /\ nslock'[a] = q
            /\ parked'[a] = parked[a]
            /\ moved[a] # None => moved'[a] = moved[a]
            /\ home'[a] = home[a] \/ home[a] \in spent' \cup given' \cup {moved'[a]}

\* It rotates away no credential of an account q has locked, but the item's, and then it
\* is replaced; nor does it install one.
KeepsCreds(q) ==
    /\ \A c \in Creds : c \in spent' \ spent =>
           nslock[owner[c]] # q \/ (c = item /\ item' # item)
    /\ item' # item => \/ item' \notin Creds
                       \/ nslock[owner[item']] # q
    /\ item' # item => hold # q
    /\ item' # item /\ At(q, "config") => owner'[item'] = owner[item] \/ nslock[owner[item]] # q

LEMMA BesideSound ==
    ASSUME TypeOK, TypeOK', NEW q \in Procs, Sound(q), Grows, KeepsNamespaces(q), KeepsCreds(q),
           run'[q] = run[q]
    PROVE  Sound(q)'
<1> DEFINE r == run[q]
<1>1. r \in Runs /\ r' = r /\ r'.pc = r.pc
  BY DEF TypeOK
<1>2. LocalsOf(q)'
  <2>1. LocalsOf(q)
    BY DEF Sound
  <2>2. r.unsaved => r.pc \in Carrying
    BY <2>1, Zenon DEF LocalsOf
  <2>3. /\ r.pc \in Reading => r.from \in Creds' /\ owner'[r.from] = r.who
        /\ r.pc \in Chosen => r.cred \in Creds' /\ owner'[r.cred] = r.inc
        /\ r.pc = "save" => r.base \in spent'
    BY <2>1 DEF LocalsOf, Grows
  <2> QED
    BY <1>1, <2>1, <2>2, <2>3, Zenon DEF LocalsOf
<1>3. LocksOf(q)'
  <2>1. r.pc \in Locked => Needed(r) \subseteq Accounts /\ \A a \in Needed(r) : nslock[a] = q
    BY <1>1 DEF LocksOf, Sound, Needed, LocalsOf, Reading, Locked
  <2> QED
    BY <1>1, <2>1 DEF LocksOf, KeepsNamespaces, Needed
<1>4. PlanOf(q)'
  <2>1. r.plan # "none" => nslock[r.who] = q /\ r.who \in Accounts
    BY <1>1 DEF LocksOf, Sound, Needed, LocalsOf, Locked, Reading, Decided
  <2> QED
    BY <1>1, <2>1 DEF PlanOf, Sound, KeepsNamespaces, Grows, TypeOK
<1>5. DisplacedOf(q)'
  <2> SUFFICES ASSUME r.pc \in Filed \/ (r.pc \in Decided /\ r.plan = "none"), ~Discards(r)
               PROVE  r.who # r.inc /\ Elsewhere(r.from, r.who)'
    BY <1>1 DEF DisplacedOf, Discards
  <2>1. nslock[r.who] = q /\ r.who \in Accounts /\ r.who # r.inc /\ Elsewhere(r.from, r.who) /\ r.from \in Creds
    BY <1>1 DEF LocksOf, Sound, Needed, LocalsOf, Locked, Reading, Decided, Filed, DisplacedOf
  <2> QED
    BY <1>1, <2>1 DEF Elsewhere, KeepsNamespaces, Grows, TypeOK
<1>6. InstallOf(q)'
  <2> SUFFICES ASSUME r.pc \in Fresh
               PROVE  r.cred \notin spent' \/ item' # r.from
    BY <1>1 DEF InstallOf
  <2>1. /\ r.cred \in Creds /\ owner[r.cred] = r.inc /\ nslock[r.inc] = q
        /\ r.from \in Creds /\ owner[r.from] = r.who /\ nslock[r.who] = q
    BY <1>1 DEF LocksOf, Sound, Needed, LocalsOf, Locked, Reading, Chosen, Fresh
  <2>2. r.cred \notin spent \/ item # r.from
    BY DEF Sound, InstallOf
  <2> QED
    BY <1>1, <2>1, <2>2 DEF KeepsCreds
<1>7. ItemOf(q)'
  <2>1. r.pc = "write" => hold = q
    BY <1>1 DEF TypeOK
  <2>2. r.pc = "config" => nslock[r.inc] = q /\ r.inc \in Accounts
    BY <1>1 DEF LocksOf, Sound, Needed, LocalsOf, Locked
  <2> QED
    BY <1>1, <2>1, <2>2 DEF ItemOf, Sound, KeepsCreds, Grows, TypeOK
<1> QED
  BY <1>2, <1>3, <1>4, <1>5, <1>6, <1>7 DEF Sound

----------------------------------------------------------------------------
(* The steps of a run.                                                     *)

\* A step of p that leaves the other runs and their locks alone.
OnlyRun(p) ==
    /\ run' \in [Procs -> Runs]
    /\ \A q \in Procs \ {p} : run'[q] = run[q]

OnlyLocks(p) ==
    /\ nslock' \in [Accounts -> Procs \cup {NoProc}]
    /\ \A a \in Accounts : nslock'[a] = nslock[a] \/ {nslock[a], nslock'[a]} \subseteq {p, NoProc}
    /\ \A a \in Accounts : nslock'[a] = p => a \in Needed(run'[p]) /\ run'[p].pc \in Chosen
    /\ hold' = hold \/ {hold, hold'} \subseteq {p, NoProc}
    /\ hold' = p <=> run'[p].pc \in {"reread", "write"}

LEMMA LocksType ==
    ASSUME TypeOK, NEW p \in Procs, \A q \in Procs \ {p} : run'[q] = run[q], OnlyLocks(p)
    PROVE  /\ hold' \in Procs \cup {NoProc}
           /\ \A a \in Accounts, q \in Procs :
                nslock'[a] = q => a \in Needed(run'[q]) /\ run'[q].pc \in Locked \cup {"locks"}
           /\ \A q \in Procs : hold' = q <=> run'[q].pc \in {"reread", "write"}
BY ProcsAssumption DEF TypeOK, OnlyLocks, Chosen

\* What a step of p must show, once.
OwnStep(p) ==
    /\ OnlyRun(p) /\ OnlyLocks(p) /\ Sound(p)'
    /\ Grows /\ given' \subseteq Creds' /\ spent' \subseteq Creds'
    /\ left' \in Limits /\ name' \in Accounts
    /\ InHand(run[p]) \subseteq InHand(run'[p]) \cup given' \cup spent' \cup AtRest'

LEMMA OthersSound ==
    ASSUME SwapInv, TypeOK', Grows, NEW p \in Procs, Sound(p)',
           \A q \in Procs \ {p} : run'[q] = run[q] /\ KeepsNamespaces(q) /\ KeepsCreds(q)
    PROVE  \A q \in Procs : Sound(q)'
<1> SUFFICES ASSUME NEW q \in Procs \ {p} PROVE Sound(q)'
  OBVIOUS
<1> QED
  BY BesideSound DEF SwapInv

\* A step that changes no credential, no store and no line of the log.
LEMMA QuietStep ==
    ASSUME SwapInv, NEW p \in Procs, OwnStep(p), UNCHANGED <<owner, spent, clock, store, log>>
    PROVE  SwapInv'
<1>1. TypeOK'
  <2>1. /\ hold' \in Procs \cup {NoProc}
        /\ \A a \in Accounts, q \in Procs :
             nslock'[a] = q => a \in Needed(run'[q]) /\ run'[q].pc \in Locked \cup {"locks"}
        /\ \A q \in Procs : hold' = q <=> run'[q].pc \in {"reread", "write"}
    BY LocksType DEF OwnStep, OnlyRun, SwapInv
  <2> QED
    BY <2>1 DEF TypeOK, SwapInv, OwnStep, OnlyRun, OnlyLocks, store, Entries, Needed, Runs
<1>2. Kept'
  BY DEF Kept, SwapInv, OwnStep, OnlyRun, AtRest, store, Grows
<1>3. FiledAtHome' /\ SpentExpired'
  BY DEF FiledAtHome, SpentExpired, SwapInv, store, Stale
<1>4. ASSUME NEW q \in Procs \ {p} PROVE KeepsNamespaces(q) /\ KeepsCreds(q)
  BY ProcsAssumption DEF KeepsNamespaces, KeepsCreds, OwnStep, OnlyLocks, store
<1> QED
  BY <1>1, <1>2, <1>3, <1>4, OthersSound DEF SwapInv, OwnStep, OnlyRun

----------------------------------------------------------------------------
(* The end of a run.                                                       *)

LEMMA IdleType == Idle \in Runs /\ Idle.pc = "idle" /\ Idle.plan = "none" /\ ~Idle.unsaved
BY DEF Idle, Runs, Points

LEMMA InHandType ==
    ASSUME SwapInv, NEW p \in Procs
    PROVE  InHand(run[p]) \subseteq Creds
<1>1. LocalsOf(p)
  BY DEF SwapInv, Sound
<1>2. run[p].unsaved => run[p].pc \in Carrying
  BY <1>1, Zenon DEF LocalsOf
<1> QED
  BY <1>1, <1>2 DEF InHand, LocalsOf, Carrying, Fresh, Chosen, Locked

LEMMA Ending ==
    ASSUME SwapInv, NEW p \in Procs, End(p), hold' = hold \/ (hold = p /\ hold' = NoProc),
           hold' = hold => run[p].pc \notin {"reread", "write"}
    PROVE  /\ OnlyRun(p) /\ OnlyLocks(p) /\ Sound(p)'
           /\ given \subseteq given' /\ given' \subseteq Creds /\ InHand(run[p]) \subseteq given'
<1>1. OnlyRun(p) /\ run'[p] = Idle
  BY IdleType DEF End, OnlyRun, SwapInv, TypeOK
<1>2. OnlyLocks(p)
  BY <1>1, IdleType, ProcsAssumption DEF End, OnlyLocks, SwapInv, TypeOK
<1>3. Sound(p)'
  <2>1. LocalsOf(p)'
    BY <1>1, IdleType, Zenon DEF LocalsOf, Reading, Chosen, Locked, Carrying, Fresh
  <2> QED
    BY <1>1, <2>1, IdleType
    DEF Sound, LocksOf, PlanOf, DisplacedOf, InstallOf, ItemOf, Locked, Filed, Decided, Fresh
<1> QED
  BY <1>1, <1>2, <1>3, InHandType DEF End, SwapInv, TypeOK

LEMMA SoundTypes ==
    ASSUME SwapInv, NEW p \in Procs
    PROVE  /\ TypeOK /\ Sound(p) /\ run[p] \in Runs /\ LocalsOf(p)
           /\ run[p].pc \in Locked =>
                /\ run[p].inc \in Accounts /\ run[p].who \in Accounts
                /\ nslock[run[p].inc] = p /\ nslock[run[p].who] = p
                /\ run[p].cred \in Creds /\ run[p].from \in Creds
                /\ owner[run[p].cred] = run[p].inc /\ owner[run[p].from] = run[p].who
BY DEF SwapInv, TypeOK, Sound, LocalsOf, LocksOf, Needed, Reading, Chosen, Locked

LEMMA QuietEnd ==
    ASSUME SwapInv, NEW p \in Procs, End(p), hold' = hold \/ (hold = p /\ hold' = NoProc),
           hold' = hold => run[p].pc \notin {"reread", "write"},
           UNCHANGED <<owner, spent, clock, store, log, left>>, name' \in Accounts
    PROVE  SwapInv'
<1>1. OwnStep(p)
  BY Ending DEF OwnStep, Grows, SwapInv, TypeOK, ParkedByLive
<1> QED
  BY <1>1, QuietStep

LEMMA CatchUpInv ==
    ASSUME SwapInv, NEW p \in Procs, CatchUp(p)
    PROVE  SwapInv'
<1>1. name' \in Accounts
  BY DEF CatchUp, SwapInv, Sound, LocalsOf, TypeOK
<1> QED
  BY <1>1, QuietEnd DEF CatchUp

LEMMA ConfigInv ==
    ASSUME SwapInv, NEW p \in Procs, Config(p)
    PROVE  SwapInv'
<1>1. name' \in Accounts
  BY SoundTypes DEF Config, SwapInv, TypeOK, Locked
<1> QED
  BY <1>1, QuietEnd DEF Config

LEMMA RefuseInv ==
    ASSUME SwapInv, NEW p \in Procs, Refuse(p)
    PROVE  SwapInv'
<1>1. name' \in Accounts /\ (hold = p <=> run[p].pc \in {"reread", "write"})
  BY DEF Refuse, SwapInv, TypeOK
<1> QED
  BY <1>1, QuietEnd, ProcsAssumption DEF Refuse

LEMMA CrashInv ==
    ASSUME SwapInv, NEW p \in Procs, Crash(p)
    PROVE  SwapInv'
<1>1. name' \in Accounts /\ (hold = p <=> run[p].pc \in {"reread", "write"})
  BY DEF Crash, SwapInv, TypeOK
<1> QED
  BY <1>1, QuietEnd, ProcsAssumption DEF Crash

----------------------------------------------------------------------------
(* The steps up to the locks.                                              *)

\* A step of p to m that leaves its locks, and all but its locals, as they are.
LEMMA QuietMove ==
    ASSUME SwapInv, NEW p \in Procs, NEW m \in Runs, run' = [run EXCEPT ![p] = m], Sound(p)',
           UNCHANGED <<owner, spent, clock, store, log, name, locks, given>>, left' \in Limits,
           \A a \in Accounts : nslock[a] = p => a \in Needed(m) /\ m.pc \in Chosen,
           m.pc \in {"reread", "write"} <=> run[p].pc \in {"reread", "write"},
           InHand(run[p]) \subseteq InHand(m) \cup spent
    PROVE  SwapInv'
<1>1. run'[p] = m /\ OnlyRun(p)
  BY DEF OnlyRun, SwapInv, TypeOK
<1>2. OnlyLocks(p)
  BY <1>1, SMT DEF OnlyLocks, SwapInv, TypeOK, locks
<1>3. Grows
  BY DEF Grows, ParkedByLive
<1>4. OwnStep(p)
  BY <1>1, <1>2, <1>3 DEF OwnStep, SwapInv, TypeOK
<1> QED
  BY <1>4, QuietStep

LEMMA EarlySound ==
    ASSUME NEW p \in Procs, NEW m \in Runs, run'[p] = m,
           m.pc \in {"item", "incoming", "catchup"}, m.plan = "none", ~m.unsaved,
           m.inc \in Accounts, m.pc = "catchup" => m.who \in Accounts,
           m.pc = "incoming" => m.from \in Creds' /\ m.who \in Accounts /\ owner'[m.from] = m.who
    PROVE  Sound(p)'
<1>1. LocalsOf(p)'
  BY Zenon DEF LocalsOf, Reading, Chosen, Locked, Decided, Carrying, Fresh
<1> QED
  BY <1>1 DEF Sound, LocksOf, PlanOf, DisplacedOf, InstallOf, ItemOf, Locked, Filed, Decided, Fresh

\* Before the locks a run has no decision and nothing in hand.
LEMMA EarlyLocals ==
    ASSUME SwapInv, NEW p \in Procs, run[p].pc \in {"idle", "item", "incoming", "locks"}
    PROVE  run[p].plan = "none" /\ ~run[p].unsaved
<1>1. LocalsOf(p)
  BY DEF SwapInv, Sound
<1> QED
  BY <1>1, Zenon DEF LocalsOf, Decided, Carrying, Fresh

LEMMA EarlyMove ==
    ASSUME SwapInv, NEW p \in Procs, run[p].pc \in {"idle", "item", "incoming"},
           NEW m \in Runs, run' = [run EXCEPT ![p] = m], Sound(p)',
           m.pc \in {"item", "incoming", "catchup", "locks"},
           UNCHANGED <<owner, spent, clock, store, log, name, locks, given>>, left' \in Limits
    PROVE  SwapInv'
<1>1. InHand(run[p]) = {}
  BY EarlyLocals DEF InHand
<1>2. \A a \in Accounts : nslock[a] # p
  BY DEF SwapInv, TypeOK, Locked
<1> QED
  BY <1>1, <1>2, QuietMove

LEMMA StartForwardInv ==
    ASSUME SwapInv, NEW p \in Procs, NEW a \in Accounts, StartForward(p, a)
    PROVE  SwapInv'
<1> DEFINE m == [run[p] EXCEPT !.pc = "item", !.inc = a]
<1>1. run[p] \in Runs /\ TypeOK /\ LocalsOf(p)
  BY SoundTypes
<1>2. m \in Runs /\ m.pc = "item" /\ m.inc = a /\ m.plan = run[p].plan /\ m.unsaved = run[p].unsaved
  BY <1>1 DEF Runs, Points
<1>3. run' = [run EXCEPT ![p] = m] /\ run'[p] = m
  BY <1>1, <1>2 DEF StartForward, TypeOK
<1>4. run[p].plan = "none" /\ ~run[p].unsaved
  BY EarlyLocals DEF StartForward
<1>5. Sound(p)'
  BY <1>2, <1>3, <1>4, EarlySound
<1>6. left' \in Limits
  BY <1>1, FewerRuns DEF StartForward, TypeOK
<1> QED
  BY <1>2, <1>3, <1>5, <1>6, EarlyMove DEF StartForward

LEMMA StartUndoInv ==
    ASSUME SwapInv, NEW p \in Procs, StartUndo(p)
    PROVE  SwapInv'
<1>1. run[p] \in Runs /\ TypeOK
  BY SoundTypes
<1>10. PICK i \in Selected : \E x \in Places(log[i].from) :
        run' = [run EXCEPT ![p] = [@ EXCEPT !.pc = "item", !.dir = "undo", !.inc = x[1],
                                            !.src = x[2], !.done = log[i].inc]]
  BY DEF StartUndo
<1>2. PICK x \in Places(log[i].from) :
        run' = [run EXCEPT ![p] = [@ EXCEPT !.pc = "item", !.dir = "undo", !.inc = x[1],
                                            !.src = x[2], !.done = log[i].inc]]
  BY <1>10
<1> DEFINE m == [run[p] EXCEPT !.pc = "item", !.dir = "undo", !.inc = x[1],
                               !.src = x[2], !.done = log[i].inc]
<1>3. x[1] \in Accounts /\ x[2] \in {"own", "adopted"}
  BY DEF Places
<1>4. i \in DOMAIN log
  BY DEF Selected, Outstanding, Newest, Reversible
<1>5. log[i].inc \in Accounts
  BY <1>1, <1>4, EntryType
<1>6. /\ m \in Runs /\ m.pc = "item" /\ m.inc \in Accounts
      /\ m.plan = run[p].plan /\ m.unsaved = run[p].unsaved
  <2>1. "item" \in Points /\ x[1] \in Accounts \cup {None} /\ log[i].inc \in Accounts \cup {None}
    BY <1>3, <1>5 DEF Points
  <2>2. m \in Runs
    <3> HIDE DEF Accounts, Creds, None
    <3> QED
      BY <1>1, <1>3, <2>1, Zenon DEF Runs
  <2>3. m.pc = "item" /\ m.inc = x[1] /\ m.plan = run[p].plan /\ m.unsaved = run[p].unsaved
    BY <1>1, Zenon DEF Runs
  <2> QED
    BY <1>3, <2>2, <2>3
<1>7. run' = [run EXCEPT ![p] = m] /\ run'[p] = m
  BY <1>1, <1>2, <1>6 DEF TypeOK
<1>8. Sound(p)'
  BY <1>6, <1>7, EarlyLocals, EarlySound DEF StartUndo
<1>9. left' \in Limits
  BY <1>1, FewerRuns DEF StartUndo, TypeOK
<1> QED
  BY <1>6, <1>7, <1>8, <1>9, EarlyMove DEF StartUndo

\* Whose the item is, asked of the server or read off the log.
LEMMA WhoseItem ==
    ASSUME SwapInv, NEW asked \in BOOLEAN,
           NEW who \in IF asked THEN {owner[item]} ELSE OwnWrite(item)
    PROVE  who \in Accounts /\ who = owner[item]
<1>1. TypeOK /\ FiledAtHome
  BY DEF SwapInv
<1>2. CASE asked
  BY <1>1, <1>2, OwnerType DEF TypeOK
<1>3. CASE ~asked
  <2>1. PICK i \in DOMAIN log : who = log[i].inc /\ log[i].to = item
    BY <1>3 DEF OwnWrite, Newest, Reversible
  <2> QED
    BY <2>1, <1>1, EntryType DEF FiledAtHome
<1> QED
  BY <1>2, <1>3

LEMMA ReadItemInv ==
    ASSUME SwapInv, NEW p \in Procs, ReadItem(p)
    PROVE  SwapInv'
<1>1. run[p] \in Runs /\ TypeOK /\ run[p].inc \in Accounts
  BY SoundTypes DEF ReadItem, LocalsOf
<1>8. item \in Creds
  BY <1>1 DEF TypeOK
<1>2. run[p].plan = "none" /\ ~run[p].unsaved
  BY EarlyLocals DEF ReadItem
<1>7. PICK asked \in BOOLEAN : \E who \in IF asked THEN {owner[item]} ELSE OwnWrite(item) :
        \/ run' = [run EXCEPT ![p].pc = "incoming", ![p].from = item,
                              ![p].who = who, ![p].prof = asked]
        \/ run' = [run EXCEPT ![p].pc = "catchup", ![p].who = who, ![p].prof = asked]
  BY DEF ReadItem
<1>3. PICK who \in IF asked THEN {owner[item]} ELSE OwnWrite(item) :
        \/ run' = [run EXCEPT ![p].pc = "incoming", ![p].from = item,
                              ![p].who = who, ![p].prof = asked]
        \/ run' = [run EXCEPT ![p].pc = "catchup", ![p].who = who, ![p].prof = asked]
  BY <1>7
<1>4. who \in Accounts /\ who = owner[item]
  BY <1>3, WhoseItem
<1> DEFINE m == [run[p] EXCEPT !.pc = "incoming", !.from = item, !.who = who, !.prof = asked]
           n == [run[p] EXCEPT !.pc = "catchup", !.who = who, !.prof = asked]
<1>5. CASE run' = [run EXCEPT ![p].pc = "incoming", ![p].from = item,
                              ![p].who = who, ![p].prof = asked]
  <2>1. /\ m \in Runs /\ m.pc = "incoming" /\ m.inc \in Accounts /\ m.from = item /\ m.who = who
        /\ m.plan = run[p].plan /\ m.unsaved = run[p].unsaved
    <3>1. m.pc = "incoming" /\ m.inc = run[p].inc /\ m.who = who /\ m.from = item
          /\ m.plan = run[p].plan /\ m.unsaved = run[p].unsaved
      BY <1>1 DEF Runs
    <3>2. "incoming" \in Points /\ who \in Accounts \cup {None} /\ item \in Creds \cup {None}
      BY <1>4, <1>8 DEF Points
    <3>3. m \in Runs
      <4> HIDE DEF Accounts, Creds, None
      <4> QED
        BY <1>1, <3>2, Zenon DEF Runs
    <3> QED
      BY <1>1, <3>1, <3>3
  <2>2. run' = [run EXCEPT ![p] = m] /\ run'[p] = m
    BY <1>1, <1>5, <2>1 DEF TypeOK
  <2>3. Sound(p)'
    <3>1. item \in Creds' /\ owner' = owner
      BY <1>1 DEF TypeOK, ReadItem
    <3> QED
      BY <1>2, <1>4, <2>1, <2>2, <3>1, EarlySound
  <2> QED
    BY <1>1, <2>1, <2>2, <2>3, EarlyMove DEF ReadItem, TypeOK
<1>6. CASE run' = [run EXCEPT ![p].pc = "catchup", ![p].who = who, ![p].prof = asked]
  <2>1. /\ n \in Runs /\ n.pc = "catchup" /\ n.inc \in Accounts /\ n.who = who
        /\ n.plan = run[p].plan /\ n.unsaved = run[p].unsaved
    <3>1. n.pc = "catchup" /\ n.inc = run[p].inc /\ n.who = who
          /\ n.plan = run[p].plan /\ n.unsaved = run[p].unsaved
      BY <1>1 DEF Runs
    <3>2. "catchup" \in Points /\ who \in Accounts \cup {None} /\ item \in Creds \cup {None}
      BY <1>4, <1>8 DEF Points
    <3>3. n \in Runs
      <4> HIDE DEF Accounts, Creds, None
      <4> QED
        BY <1>1, <3>2, Zenon DEF Runs
    <3> QED
      BY <1>1, <3>1, <3>3
  <2>2. run' = [run EXCEPT ![p] = n] /\ run'[p] = n
    BY <1>1, <1>6, <2>1 DEF TypeOK
  <2>3. Sound(p)'
    BY <1>1, <1>2, <1>4, <2>1, <2>2, EarlySound
  <2> QED
    BY <1>1, <2>1, <2>2, <2>3, EarlyMove DEF ReadItem, TypeOK
<1> QED
  BY <1>3, <1>5, <1>6

LEMMA ReadIncomingInv ==
    ASSUME SwapInv, NEW p \in Procs, ReadIncoming(p)
    PROVE  SwapInv'
<1> DEFINE r == run[p]
           c == Source(r)
           m == [r EXCEPT !.pc = "catchup", !.from = None]
           n == [r EXCEPT !.pc = "locks", !.cred = c, !.prof = FALSE]
<1>1. /\ r \in Runs /\ TypeOK /\ LocalsOf(p) /\ r.pc = "incoming"
      /\ r.inc \in Accounts /\ r.who \in Accounts /\ r.from \in Creds /\ owner[r.from] = r.who
  BY SoundTypes DEF ReadIncoming, LocalsOf, Reading
<1>2. r.plan = "none" /\ ~r.unsaved
  BY <1>1, EarlyLocals
<1>3. c # None /\ run'[p] \in {m, n} /\ run' = [run EXCEPT ![p] = run'[p]]
  BY <1>1 DEF ReadIncoming, TypeOK
<1>4. CASE run'[p] = m
  <2>1. /\ m \in Runs /\ m.pc = "catchup" /\ m.inc = r.inc /\ m.who = r.who
        /\ m.plan = r.plan /\ m.unsaved = r.unsaved
    BY <1>1 DEF Runs, Points
  <2>2. Sound(p)'
    BY <1>1, <1>2, <1>4, <2>1, EarlySound
  <2> QED
    BY <1>1, <1>3, <1>4, <2>1, <2>2, EarlyMove DEF ReadIncoming, TypeOK
<1>5. CASE run'[p] = n
  <2>1. c \in Creds /\ owner[c] = r.inc
    BY <1>1, <1>3 DEF Source, SwapInv, FiledAtHome, TypeOK
  <2>2. /\ n \in Runs /\ n.pc = "locks" /\ n.inc = r.inc /\ n.who = r.who /\ n.from = r.from
        /\ n.cred = c /\ n.plan = r.plan /\ n.unsaved = r.unsaved
    BY <1>1, <2>1 DEF Runs, Points
  <2>3. LocalsOf(p)'
    <3>1. UNCHANGED owner
      BY DEF ReadIncoming
    <3> QED
      BY <1>1, <1>2, <1>5, <2>1, <2>2, <3>1, Zenon DEF LocalsOf
  <2>4. Sound(p)'
    BY <1>2, <1>5, <2>2, <2>3
    DEF Sound, LocksOf, PlanOf, DisplacedOf, InstallOf, ItemOf, Locked, Filed, Decided, Fresh
  <2> QED
    BY <1>1, <1>3, <1>5, <2>2, <2>4, EarlyMove DEF ReadIncoming, TypeOK
<1> QED
  BY <1>3, <1>4, <1>5

----------------------------------------------------------------------------
(* The steps under the locks that change only the run's place.             *)

LEMMA PlaceMove ==
    ASSUME SwapInv, NEW p \in Procs, run[p].pc \in Chosen,
           NEW m \in Runs, run' = [run EXCEPT ![p] = m], OnlyLocks(p),
           UNCHANGED <<owner, spent, clock, store, log, name, given, left>>,
           m.inc = run[p].inc, m.who = run[p].who, m.from = run[p].from, m.cred = run[p].cred,
           m.plan = run[p].plan, m.prior = run[p].prior, m.unsaved = run[p].unsaved,
           m.pc \in Chosen \ {"save", "config"},
           m.pc \in Locked => \A a \in Needed(m) : nslock'[a] = p,
           m.pc \in Decided <=> run[p].pc \in Decided,
           m.pc \in Filed => run[p].pc \in Filed,
           m.pc \in Fresh => run[p].pc \in Fresh \/ m.cred \notin spent,
           run[p].pc \in Carrying => m.pc \in Carrying,
           m.pc = "write" => item = m.from
    PROVE  SwapInv'
<1>1. run'[p] = m /\ OnlyRun(p) /\ TypeOK /\ Sound(p) /\ LocalsOf(p)
  BY SoundTypes DEF OnlyRun, TypeOK
<1>2. LocalsOf(p)'
  <2>1. m.unsaved => m.pc \in Carrying
    BY <1>1, Zenon DEF LocalsOf
  <2>2. m.inc \in Accounts /\ m.who \in Accounts /\ m.from \in Creds /\ m.cred \in Creds
        /\ owner[m.from] = m.who /\ owner[m.cred] = m.inc
    BY <1>1 DEF LocalsOf, Chosen, Reading, Locked
  <2>3. (m.plan # "none" => m.pc \in Decided) /\ m.pc \notin {"save", "catchup"} /\ UNCHANGED owner
    BY <1>1 DEF LocalsOf, Chosen, Locked
  <2> QED
    BY <1>1, <2>1, <2>2, <2>3, Zenon DEF LocalsOf
<1>3. PlanOf(p)' /\ DisplacedOf(p)'
  BY <1>1 DEF Sound, PlanOf, DisplacedOf, Discards, Elsewhere, store, ParkedByLive
<1>4. LocksOf(p)' /\ InstallOf(p)' /\ ItemOf(p)'
  BY <1>1 DEF Sound, LocksOf, InstallOf, ItemOf, Needed, store
<1>5. InHand(run[p]) \subseteq InHand(run'[p])
  BY <1>1 DEF InHand
<1>6. Grows
  BY DEF Grows, ParkedByLive
<1>7. OwnStep(p)
  BY <1>1, <1>2, <1>3, <1>4, <1>5, <1>6 DEF OwnStep, Sound, TypeOK
<1> QED
  BY <1>7, QuietStep

LEMMA TakeNamespaceInv ==
    ASSUME SwapInv, NEW p \in Procs, NEW a \in Accounts, TakeNamespace(p, a)
    PROVE  SwapInv'
<1> DEFINE m == [run[p] EXCEPT !.pc = IF \A b \in Needed(run[p]) : b <= a
                                      THEN "decide" ELSE "locks"]
<1>1. run[p] \in Runs /\ TypeOK /\ run[p].pc = "locks" /\ LocalsOf(p)
  BY SoundTypes DEF TakeNamespace
<1>2. m \in Runs /\ m.pc \in {"decide", "locks"}
  <2> DEFINE x == IF \A b \in Needed(run[p]) : b <= a THEN "decide" ELSE "locks"
  <2>1. x \in {"decide", "locks"} /\ x \in Points
    BY DEF Points, Locked
  <2> HIDE DEF x
  <2>2. [run[p] EXCEPT !.pc = x] \in Runs
    <3> HIDE DEF Accounts, Creds, None
    <3> QED
      BY <1>1, <2>1, Zenon DEF Runs
  <2>3. [run[p] EXCEPT !.pc = x].pc = x
    BY <1>1, Zenon DEF Runs
  <2> QED
    BY <2>1, <2>2, <2>3 DEF x
<1>3. /\ m.inc = run[p].inc /\ m.who = run[p].who /\ m.from = run[p].from /\ m.cred = run[p].cred
      /\ m.plan = run[p].plan /\ m.prior = run[p].prior /\ m.unsaved = run[p].unsaved
  BY <1>1 DEF Runs
<1>4. run' = [run EXCEPT ![p] = m] /\ run'[p] = m
  BY <1>1, <1>2 DEF TakeNamespace, TypeOK
<1>5. OnlyLocks(p)
  BY <1>1, <1>2, <1>3, <1>4 DEF OnlyLocks, TakeNamespace, TypeOK, Chosen, Locked, Needed
<1>6. m.pc \in Locked => \A b \in Needed(m) : nslock'[b] = p
  <2>1. m.pc \in Locked => \A b \in Needed(run[p]) : b <= a
    BY <1>1 DEF Locked, Runs
  <2>2. Needed(run[p]) \subseteq Accounts
    BY <1>1 DEF Needed, LocalsOf, Reading
  <2> QED
    BY <1>1, <1>3, <2>1, <2>2 DEF TakeNamespace, TypeOK, Needed
<1> QED
  BY <1>1, <1>2, <1>3, <1>4, <1>5, <1>6, PlaceMove
  DEF TakeNamespace, Chosen, Decided, Filed, Fresh, Carrying, Locked

LEMMA SkipRefreshInv ==
    ASSUME SwapInv, NEW p \in Procs, SkipRefresh(p)
    PROVE  SwapInv'
<1> DEFINE m == [run[p] EXCEPT !.pc = "adopt"]
<1>1. run[p] \in Runs /\ TypeOK /\ run[p].pc = "refresh" /\ LocksOf(p)
  BY SoundTypes DEF SkipRefresh, Sound
<1>2. m \in Runs /\ m.pc = "adopt"
  <2>1. "adopt" \in Points
    BY <1>1 DEF Points, Locked
  <2>2. m \in Runs
    <3> HIDE DEF Accounts, Creds, None
    <3> QED
      BY <1>1, <2>1, Zenon DEF Runs
  <2>3. m.pc = "adopt"
    BY <1>1, Zenon DEF Runs
  <2> QED
    BY <2>1, <2>2, <2>3
<1>3. /\ m.inc = run[p].inc /\ m.who = run[p].who /\ m.from = run[p].from /\ m.cred = run[p].cred
      /\ m.plan = run[p].plan /\ m.prior = run[p].prior /\ m.unsaved = run[p].unsaved
  BY <1>1 DEF Runs
<1>4. run' = [run EXCEPT ![p] = m] /\ run'[p] = m
  BY <1>1, <1>2 DEF SkipRefresh, TypeOK
<1>5. OnlyLocks(p)
  BY <1>1, <1>2, <1>3, <1>4 DEF OnlyLocks, SkipRefresh, TypeOK, Chosen, Locked, Needed, locks
<1>6. m.cred \notin spent
  BY <1>3 DEF SkipRefresh, SwapInv, SpentExpired
<1>7. \A b \in Needed(m) : nslock'[b] = p
  BY <1>1, <1>3 DEF LocksOf, Needed, SkipRefresh, locks, Locked
<1> QED
  BY <1>1, <1>2, <1>3, <1>4, <1>5, <1>6, <1>7, PlaceMove
  DEF SkipRefresh, Chosen, Decided, Filed, Fresh, Carrying, Locked

LEMMA SaveFailsInv ==
    ASSUME SwapInv, NEW p \in Procs, SaveFails(p)
    PROVE  SwapInv'
<1> DEFINE m == [run[p] EXCEPT !.pc = "adopt", !.base = None]
<1>1. run[p] \in Runs /\ TypeOK /\ run[p].pc = "save" /\ LocksOf(p)
  BY SoundTypes DEF SaveFails, Sound
<1>2. m \in Runs /\ m.pc = "adopt"
  <2>1. "adopt" \in Points /\ None \in Creds \cup {None}
    BY <1>1 DEF Points, Locked
  <2>2. m \in Runs
    <3> HIDE DEF Accounts, Creds, None
    <3> QED
      BY <1>1, <2>1, Zenon DEF Runs
  <2>3. m.pc = "adopt"
    BY <1>1, Zenon DEF Runs
  <2> QED
    BY <2>1, <2>2, <2>3
<1>3. /\ m.inc = run[p].inc /\ m.who = run[p].who /\ m.from = run[p].from /\ m.cred = run[p].cred
      /\ m.plan = run[p].plan /\ m.prior = run[p].prior /\ m.unsaved = run[p].unsaved
  BY <1>1 DEF Runs
<1>4. run' = [run EXCEPT ![p] = m] /\ run'[p] = m
  BY <1>1, <1>2 DEF SaveFails, TypeOK
<1>5. OnlyLocks(p)
  BY <1>1, <1>2, <1>3, <1>4, ProcsAssumption
  DEF OnlyLocks, SaveFails, TypeOK, Chosen, Locked, Needed, locks
<1>6. \A b \in Needed(m) : nslock'[b] = p
  BY <1>1, <1>3 DEF LocksOf, Needed, SaveFails, locks, Locked
<1> QED
  BY <1>1, <1>2, <1>3, <1>4, <1>5, <1>6, PlaceMove
  DEF SaveFails, Chosen, Decided, Filed, Fresh, Carrying, Locked

LEMMA TakeHoldInv ==
    ASSUME SwapInv, NEW p \in Procs, TakeHold(p)
    PROVE  SwapInv'
<1> DEFINE m == [run[p] EXCEPT !.pc = "reread"]
<1>1. run[p] \in Runs /\ TypeOK /\ run[p].pc = "hold" /\ LocksOf(p)
  BY SoundTypes DEF TakeHold, Sound
<1>2. m \in Runs /\ m.pc = "reread"
  <2>1. "reread" \in Points
    BY <1>1 DEF Points, Locked
  <2>2. m \in Runs
    <3> HIDE DEF Accounts, Creds, None
    <3> QED
      BY <1>1, <2>1, Zenon DEF Runs
  <2>3. m.pc = "reread"
    BY <1>1, Zenon DEF Runs
  <2> QED
    BY <2>1, <2>2, <2>3
<1>3. /\ m.inc = run[p].inc /\ m.who = run[p].who /\ m.from = run[p].from /\ m.cred = run[p].cred
      /\ m.plan = run[p].plan /\ m.prior = run[p].prior /\ m.unsaved = run[p].unsaved
  BY <1>1 DEF Runs
<1>4. run' = [run EXCEPT ![p] = m] /\ run'[p] = m
  BY <1>1, <1>2 DEF TakeHold, TypeOK
<1>5. OnlyLocks(p)
  BY <1>1, <1>2, <1>3, <1>4, ProcsAssumption
  DEF OnlyLocks, TakeHold, TypeOK, Chosen, Locked, Needed, locks
<1>6. \A b \in Needed(m) : nslock'[b] = p
  BY <1>1, <1>3 DEF LocksOf, Needed, TakeHold, locks, Locked
<1> QED
  BY <1>1, <1>2, <1>3, <1>4, <1>5, <1>6, PlaceMove
  DEF TakeHold, Chosen, Decided, Filed, Fresh, Carrying, Locked

LEMMA RereadInv ==
    ASSUME SwapInv, NEW p \in Procs, Reread(p)
    PROVE  SwapInv'
<1> DEFINE m == [run[p] EXCEPT !.pc = "write"]
<1>1. run[p] \in Runs /\ TypeOK /\ run[p].pc = "reread" /\ LocksOf(p)
  BY SoundTypes DEF Reread, Sound
<1>2. m \in Runs /\ m.pc = "write"
  <2>1. "write" \in Points
    BY <1>1 DEF Points, Locked
  <2>2. m \in Runs
    <3> HIDE DEF Accounts, Creds, None
    <3> QED
      BY <1>1, <2>1, Zenon DEF Runs
  <2>3. m.pc = "write"
    BY <1>1, Zenon DEF Runs
  <2> QED
    BY <2>1, <2>2, <2>3
<1>3. /\ m.inc = run[p].inc /\ m.who = run[p].who /\ m.from = run[p].from /\ m.cred = run[p].cred
      /\ m.plan = run[p].plan /\ m.prior = run[p].prior /\ m.unsaved = run[p].unsaved
  BY <1>1 DEF Runs
<1>4. run' = [run EXCEPT ![p] = m] /\ run'[p] = m
  BY <1>1, <1>2 DEF Reread, TypeOK
<1>5. OnlyLocks(p)
  BY <1>1, <1>2, <1>3, <1>4, ProcsAssumption
  DEF OnlyLocks, Reread, TypeOK, Chosen, Locked, Needed, locks
<1>6. \A b \in Needed(m) : nslock'[b] = p
  BY <1>1, <1>3 DEF LocksOf, Needed, Reread, locks, Locked
<1> QED
  BY <1>1, <1>2, <1>3, <1>4, <1>5, <1>6, PlaceMove
  DEF Reread, Chosen, Decided, Filed, Fresh, Carrying, Locked

LEMMA WriteFailsInv ==
    ASSUME SwapInv, NEW p \in Procs, WriteFails(p)
    PROVE  SwapInv'
<1>7. PICK x \in {"failed", "verify"} : run' = [run EXCEPT ![p].pc = x]
  BY DEF WriteFails
<1> DEFINE m == [run[p] EXCEPT !.pc = x]
<1>1. run[p] \in Runs /\ TypeOK /\ run[p].pc = "write" /\ LocksOf(p)
  BY SoundTypes DEF WriteFails, Sound
<1>2. m \in Runs /\ m.pc = x
  <2>1. x \in Points
    BY <1>1, <1>7 DEF Points, Locked
  <2>2. m \in Runs
    <3> HIDE DEF Accounts, Creds, None
    <3> QED
      BY <1>1, <1>7, <2>1, Zenon DEF Runs
  <2>3. m.pc = x
    BY <1>1, <1>7, Zenon DEF Runs
  <2> QED
    BY <2>1, <2>2, <2>3
<1>3. /\ m.inc = run[p].inc /\ m.who = run[p].who /\ m.from = run[p].from /\ m.cred = run[p].cred
      /\ m.plan = run[p].plan /\ m.prior = run[p].prior /\ m.unsaved = run[p].unsaved
  BY <1>1 DEF Runs
<1>4. run' = [run EXCEPT ![p] = m] /\ run'[p] = m
  BY <1>1, <1>2, <1>7 DEF WriteFails, TypeOK
<1>5. OnlyLocks(p)
  BY <1>1, <1>7, <1>2, <1>3, <1>4, ProcsAssumption
  DEF OnlyLocks, WriteFails, TypeOK, Chosen, Locked, Needed, locks
<1>6. \A b \in Needed(m) : nslock'[b] = p
  BY <1>1, <1>3 DEF LocksOf, Needed, WriteFails, locks, Locked
<1> QED
  BY <1>1, <1>2, <1>3, <1>4, <1>5, <1>6, PlaceMove
  DEF WriteFails, Chosen, Decided, Filed, Fresh, Carrying, Locked

LEMMA DecideInv ==
    ASSUME SwapInv, NEW p \in Procs, Decide(p)
    PROVE  SwapInv'
<1> DEFINE r == run[p]
           m(plan, prior) == [r EXCEPT !.pc = "refresh", !.plan = plan, !.prior = prior]
<1>1. /\ r \in Runs /\ TypeOK /\ r.pc = "decide" /\ Sound(p) /\ FiledAtHome
      /\ r.inc \in Accounts /\ r.who \in Accounts /\ r.from \in Creds /\ r.cred \in Creds
      /\ owner[r.from] = r.who /\ owner[r.cred] = r.inc
  BY SoundTypes DEF Decide, Locked, SwapInv
\* What each of the ways to decide stands on.
<1>2. PICK plan \in {"none", "park", "file"}, prior \in Creds \cup {None} :
        /\ run' = [run EXCEPT ![p] = m(plan, prior)]
        /\ plan = "none" => Discards(r) \/ (r.who # r.inc /\ Elsewhere(r.from, r.who))
        /\ plan = "park" => r.who # r.inc /\ (parked[r.who] = None \/ ParkedByLive(parked[r.who]))
        /\ plan = "file" => r.who # r.inc /\ prior < r.from
  <2>1. CASE (Discards(r) \/ AtHome(r)) /\ run' = [run EXCEPT ![p] = m("none", None)]
    BY <2>1 DEF AtHome, Elsewhere
  <2>2. CASE Parks(r) /\ run' = [run EXCEPT ![p] = m(IF parked[r.who] = r.from THEN "none" ELSE "park", None)]
    BY <2>2 DEF Parks, Elsewhere
  <2>3. CASE /\ Files(r)
             /\ run' = [run EXCEPT ![p] = m(IF home[r.who] = r.from THEN "none" ELSE "file", home[r.who])]
    <3>1. home[r.who] \in Creds \cup {None}
      BY <1>1, StoreTypes
    <3>2. CASE home[r.who] = r.from
      BY <2>3, <3>1, <3>2 DEF Elsewhere, Files
    <3>3. CASE home[r.who] # r.from
      <4>1. home[r.who] < r.from
        BY <1>1, <2>3, <3>1, <3>3 DEF Files
      <4> QED
        BY <2>3, <3>1, <3>3, <4>1 DEF Files
    <3> QED
      BY <3>2, <3>3
  <2> QED
    BY <2>1, <2>2, <2>3 DEF Decide
<1> DEFINE n == m(plan, prior)
<1>3. /\ n \in Runs /\ n.pc = "refresh" /\ n.plan = plan /\ n.prior = prior
      /\ n.inc = r.inc /\ n.who = r.who /\ n.from = r.from /\ n.cred = r.cred
      /\ n.unsaved = r.unsaved
  <2>1. "refresh" \in Points
    BY DEF Points, Locked
  <2>2. n \in Runs
    <3> HIDE DEF Accounts, Creds, None
    <3> QED
      BY <1>1, <1>2, <2>1, Zenon DEF Runs
  <2>3. n.pc = "refresh" /\ n.plan = plan /\ n.prior = prior
    BY <1>1, Zenon DEF Runs
  <2>4. n.inc = r.inc /\ n.who = r.who /\ n.from = r.from /\ n.cred = r.cred /\ n.unsaved = r.unsaved
    BY <1>1, Zenon DEF Runs
  <2> QED
    BY <2>2, <2>3, <2>4
<1>4. run'[p] = n
  BY <1>1, <1>2, <1>3 DEF TypeOK
<1> HIDE DEF n
<1>5. UNCHANGED <<owner, spent, clock, store, log, name, locks, given, left>>
  BY DEF Decide
<1>6. LocalsOf(p)'
  <2>1. ~r.unsaved
    BY <1>1, Zenon DEF Sound, LocalsOf, Carrying, Fresh
  <2> QED
    BY <1>1, <1>3, <1>4, <1>5, <2>1, Zenon DEF LocalsOf, Decided
<1>7. LocksOf(p)' /\ PlanOf(p)' /\ DisplacedOf(p)' /\ InstallOf(p)' /\ ItemOf(p)'
  BY <1>1, <1>2, <1>3, <1>4, <1>5
  DEF Sound, LocksOf, PlanOf, DisplacedOf, InstallOf, ItemOf, Locked, Filed, Decided, Fresh,
      Needed, locks, store, ParkedByLive, Discards, Elsewhere
<1>8. Sound(p)' /\ InHand(r) = InHand(n) /\ Needed(r) = Needed(n)
  BY <1>3, <1>6, <1>7 DEF Sound, InHand, Needed
<1>9. left' \in Limits /\ \A a \in Accounts : nslock[a] = p => a \in Needed(r)
  BY <1>1, <1>5 DEF TypeOK
<1>10. run' = [run EXCEPT ![p] = n]
  BY <1>2 DEF n
<1>11. n.pc \in Chosen /\ n.pc \notin {"reread", "write"} /\ r.pc \notin {"reread", "write"}
  BY <1>1, <1>3 DEF Chosen, Locked
<1> QED
  BY <1>3, <1>5, <1>8, <1>9, <1>10, <1>11, QuietMove

----------------------------------------------------------------------------
(* The steps that record the write.                                        *)

LEMMA EntryOf ==
    ASSUME SwapInv, NEW p \in Procs, run[p].pc \in Locked,
           NEW outcome \in {"applied", "unknown", "failed"}
    PROVE  Entry(run[p], outcome) \in Entries /\ owner[Entry(run[p], outcome).to] = Entry(run[p], outcome).inc
<1>1. run[p].dir \in {"forward", "undo"}
  BY SoundTypes DEF Runs
<1> QED
  BY <1>1, SoundTypes DEF Entry, Entries

\* A line of the log, and perhaps a copy dropped that .credentials.json repeats.
LEMMA LogStep ==
    ASSUME SwapInv, NEW p \in Procs, OwnStep(p),
           NEW e \in Entries, owner[e.to] = e.inc, log' = Append(log, e),
           UNCHANGED <<owner, spent, clock, item, home, moved>>, NEW a \in Accounts,
           parked' = parked \/ (/\ parked' = [parked EXCEPT ![a] = None]
                                /\ nslock[a] = p /\ home[a] = parked[a])
    PROVE  SwapInv'
<1>1. TypeOK'
  <2>1. /\ hold' \in Procs \cup {NoProc}
        /\ \A b \in Accounts, q \in Procs :
             nslock'[b] = q => b \in Needed(run'[q]) /\ run'[q].pc \in Locked \cup {"locks"}
        /\ \A q \in Procs : hold' = q <=> run'[q].pc \in {"reread", "write"}
    BY LocksType DEF OwnStep, OnlyRun, SwapInv
  <2>2. log' \in Seq(Entries)
    <3> HIDE DEF Creds, Accounts
    <3> QED
      BY DEF SwapInv, TypeOK
  <2>3. log' \in Seq(Entries')
    BY <2>2 DEF Entries
  <2>4. parked' \in [Accounts -> Creds \cup {None}]
    BY DEF SwapInv, TypeOK
  <2> QED
    BY <2>1, <2>3, <2>4 DEF TypeOK, SwapInv, OwnStep, OnlyRun, OnlyLocks, Needed, Runs
<1>2. AtRest \subseteq AtRest'
  <2>1. \A b \in Accounts : parked[b] = parked'[b] \/ (parked[b] = home[b] /\ nslock[b] = p)
    BY DEF SwapInv, TypeOK
  <2> QED
    BY <2>1 DEF AtRest
<1>3. Kept'
  BY <1>2 DEF Kept, SwapInv, OwnStep, OnlyRun, Grows
<1>4. FiledAtHome' /\ SpentExpired'
  <2>1. \A i \in DOMAIN log' : (i \in DOMAIN log /\ log'[i] = log[i]) \/ log'[i] = e
    BY Logging DEF SwapInv, TypeOK
  <2>2. \A i \in DOMAIN log' : owner[log'[i].to] = log'[i].inc
    BY <2>1 DEF SwapInv, FiledAtHome
  <2>3. \A b \in Accounts : parked'[b] \in {parked[b], None}
    BY DEF SwapInv, TypeOK
  <2> QED
    BY <2>2, <2>3 DEF FiledAtHome, SpentExpired, SwapInv, Stale
<1>5. ASSUME NEW q \in Procs \ {p} PROVE KeepsNamespaces(q) /\ KeepsCreds(q)
  <2>1. \A b \in Accounts : parked'[b] = parked[b] \/ nslock[b] = p
    BY DEF SwapInv, TypeOK
  <2> QED
    BY <2>1, ProcsAssumption DEF KeepsNamespaces, KeepsCreds, OwnStep, OnlyLocks
<1> QED
  BY <1>1, <1>3, <1>4, <1>5, OthersSound DEF SwapInv, OwnStep, OnlyRun

LEMMA LogGrows ==
    ASSUME TypeOK, NEW e \in Entries, log' = Append(log, e), UNCHANGED <<owner, spent>>,
           given \subseteq given'
    PROVE  Grows
BY Logging DEF Grows, TypeOK

LEMMA LogEnd ==
    ASSUME SwapInv, NEW p \in Procs, run[p].pc \in {"failed", "verify"},
           NEW outcome \in {"unknown", "failed"}, log' = Append(log, Entry(run[p], outcome)),
           End(p), UNCHANGED <<owner, spent, clock, store, name, hold, left>>
    PROVE  SwapInv'
<1>1. /\ Entry(run[p], outcome) \in Entries
      /\ owner[Entry(run[p], outcome).to] = Entry(run[p], outcome).inc
      /\ run[p].inc \in Accounts
  BY EntryOf, SoundTypes DEF Locked
<1>2. Grows
  BY <1>1, LogGrows, Ending DEF SwapInv
<1>3. OwnStep(p)
  BY <1>2, Ending DEF OwnStep, SwapInv, TypeOK
<1> QED
  BY <1>1, <1>3, LogStep DEF store

LEMMA ReportFailedInv ==
    ASSUME SwapInv, NEW p \in Procs, ReportFailed(p)
    PROVE  SwapInv'
BY LogEnd DEF ReportFailed

LEMMA UnknownInv ==
    ASSUME SwapInv, NEW p \in Procs, Unknown(p)
    PROVE  SwapInv'
BY LogEnd DEF Unknown

LEMMA AppliedInv ==
    ASSUME SwapInv, NEW p \in Procs, Applied(p)
    PROVE  SwapInv'
<1> DEFINE r == run[p]
           m == [r EXCEPT !.pc = "config"]
           e == Entry(r, "applied")
<1>1. /\ r \in Runs /\ TypeOK /\ LocalsOf(p) /\ LocksOf(p) /\ r.pc = "verify"
      /\ r.inc \in Accounts /\ r.who \in Accounts /\ r.from \in Creds /\ r.cred \in Creds
      /\ owner[r.from] = r.who /\ owner[r.cred] = r.inc /\ nslock[r.inc] = p
  BY SoundTypes DEF Applied, Locked, Sound
<1>2. e \in Entries /\ owner[e.to] = e.inc
  BY <1>1, EntryOf DEF Locked
<1>3. /\ m \in Runs /\ m.pc = "config" /\ m.inc = r.inc /\ m.who = r.who /\ m.from = r.from
      /\ m.cred = r.cred /\ m.plan = r.plan /\ m.unsaved = r.unsaved /\ m.login = r.login
  BY <1>1 DEF Runs, Points, Locked
<1>4. run'[p] = m /\ OnlyRun(p)
  BY <1>1, <1>3 DEF Applied, TypeOK, OnlyRun
<1>5. OnlyLocks(p)
  BY <1>1, <1>3, <1>4 DEF OnlyLocks, Applied, TypeOK, Chosen, Locked, Needed, locks
<1>6. Grows
  BY <1>1, <1>2, LogGrows DEF Applied
<1> HIDE DEF m
<1>7. r.plan = "none"
  BY <1>1 DEF LocalsOf, Decided
<1>8. LocalsOf(p)'
  <2>1. UNCHANGED owner
    BY DEF Applied
  <2> QED
    BY <1>1, <1>3, <1>4, <1>7, <2>1, Zenon DEF LocalsOf, Carrying
<1>9. LocksOf(p)' /\ PlanOf(p)' /\ DisplacedOf(p)' /\ InstallOf(p)' /\ ItemOf(p)'
  BY <1>1, <1>3, <1>4, <1>7
  DEF LocksOf, PlanOf, DisplacedOf, InstallOf, ItemOf, Locked, Filed, Decided, Fresh, Needed,
      Applied, locks
<1>10. OwnStep(p)
  <2>1. InHand(r) \subseteq InHand(run'[p])
    BY <1>3, <1>4 DEF InHand
  <2> QED
    BY <1>1, <1>4, <1>5, <1>6, <1>8, <1>9, <2>1 DEF OwnStep, Sound, Applied, TypeOK
<1>11. parked' = parked \/ (parked' = [parked EXCEPT ![r.inc] = None] /\ home[r.inc] = parked[r.inc])
  BY DEF Applied, Repeats
<1> QED
  BY <1>1, <1>2, <1>10, <1>11, LogStep DEF Applied

----------------------------------------------------------------------------
(* The refresh.                                                            *)

\* A refresh whose answer is lost: the credential is rotated away.
LEMMA RefreshLostInv ==
    ASSUME SwapInv, NEW p \in Procs, RefreshLost(p)
    PROVE  SwapInv'
<1> DEFINE r == run[p]
<1>1. /\ TypeOK /\ r.pc = "refresh" /\ r.inc \in Accounts /\ r.cred \in Creds
      /\ owner[r.cred] = r.inc /\ nslock[r.inc] = p /\ Stale(r.cred)
  BY SoundTypes DEF RefreshLost, Locked, MayRefresh
<1>2. /\ OnlyRun(p) /\ OnlyLocks(p) /\ Sound(p)'
      /\ given \subseteq given' /\ given' \subseteq Creds /\ InHand(r) \subseteq given'
  BY <1>1, Ending DEF RefreshLost
<1>3. Grows
  BY <1>2 DEF Grows, RefreshLost, ParkedByLive
<1>4. TypeOK'
  <2>1. /\ hold' \in Procs \cup {NoProc}
        /\ \A a \in Accounts, q \in Procs :
             nslock'[a] = q => a \in Needed(run'[q]) /\ run'[q].pc \in Locked \cup {"locks"}
        /\ \A q \in Procs : hold' = q <=> run'[q].pc \in {"reread", "write"}
    BY <1>1, <1>2, LocksType DEF OnlyRun
  <2>2. spent' \subseteq Creds /\ UNCHANGED <<owner, clock, store, log, name, left>>
    BY <1>1 DEF RefreshLost, TypeOK
  <2>3. run' \in [Procs -> Runs] /\ nslock' \in [Accounts -> Procs \cup {NoProc}]
    BY <1>2 DEF OnlyRun, OnlyLocks
  <2> QED
    BY <1>1, <1>2, <2>1, <2>2, <2>3 DEF TypeOK, store, Entries, Runs
<1>5. Kept'
  BY <1>2, <1>3 DEF Kept, SwapInv, OnlyRun, AtRest, store, Grows, RefreshLost
<1>6. FiledAtHome' /\ SpentExpired'
  BY <1>1 DEF FiledAtHome, SpentExpired, SwapInv, store, Stale, RefreshLost
<1>7. ASSUME NEW q \in Procs \ {p} PROVE KeepsNamespaces(q) /\ KeepsCreds(q)
  BY <1>1, <1>2, ProcsAssumption DEF KeepsNamespaces, KeepsCreds, OnlyLocks, store, RefreshLost
<1> QED
  BY <1>2, <1>3, <1>4, <1>5, <1>6, <1>7, OthersSound DEF SwapInv, OnlyRun

\* What a new credential leaves as it was typed.
LEMMA MintTypes ==
    ASSUME TypeOK, NEW a \in Accounts, Mint(a)
    PROVE  /\ owner' \in Seq(Accounts) /\ clock \in 0 .. Len(owner') /\ left' \in Limits
           /\ Creds \subseteq Creds' /\ Minted \in Creds' /\ Minted \notin Creds
           /\ \A c \in Creds' : c \in Creds \/ c = Minted
           /\ \A c \in Creds : owner'[c] = owner[c] /\ c < Minted
           /\ owner'[Minted] = a
           /\ \A m \in Runs : m \in Runs'
           /\ log \in Seq(Entries')
<1>1. /\ owner' \in Seq(Accounts) /\ Len(owner') = Len(owner) + 1
      /\ \A c \in Creds : c \in Creds' /\ owner'[c] = owner[c]
      /\ Minted \in Creds' /\ owner'[Minted] = a /\ Minted \notin Creds
      /\ \A c \in Creds' : c \in Creds \/ c = Minted
      /\ \A c \in Creds : c < Minted
  BY Minting DEF Mint, TypeOK
<1>2. left' \in Limits
  BY FewerMints DEF Mint, TypeOK
<1>3. Creds \subseteq Creds'
  BY <1>1
<1>4. \A m \in Runs : m \in Runs'
  <2> HIDE DEF Creds
  <2> QED
    BY <1>3, Zenon DEF Runs
<1>5. log \in Seq(Entries')
  <2> HIDE DEF Creds
  <2>1. Entries \subseteq Entries'
    BY <1>3 DEF Entries
  <2>2. log \in Seq(Entries)
    BY DEF TypeOK
  <2> QED
    BY <2>1, <2>2
<1>6. clock \in 0 .. Len(owner')
  BY <1>1 DEF TypeOK
<1> QED
  BY <1>1, <1>2, <1>3, <1>4, <1>5, <1>6

LEMMA RefreshInv ==
    ASSUME SwapInv, NEW p \in Procs, Refresh(p)
    PROVE  SwapInv'
<1> DEFINE r == run[p]
           m == [r EXCEPT !.pc = "save", !.base = r.cred, !.cred = Minted, !.unsaved = TRUE]
<1>1. /\ TypeOK /\ Sound(p) /\ r \in Runs /\ r.pc = "refresh" /\ r.inc \in Accounts
      /\ r.who \in Accounts /\ r.cred \in Creds /\ r.from \in Creds
      /\ owner[r.cred] = r.inc /\ owner[r.from] = r.who /\ nslock[r.inc] = p /\ nslock[r.who] = p
      /\ Stale(r.cred) /\ Mint(r.inc) /\ spent' = spent \cup {r.cred}
      /\ UNCHANGED <<clock, store, log, name, locks, given>>
  BY SoundTypes DEF Refresh, Locked, MayRefresh
<1>2. /\ owner' \in Seq(Accounts) /\ clock \in 0 .. Len(owner') /\ left' \in Limits
      /\ Creds \subseteq Creds' /\ Minted \in Creds' /\ Minted \notin Creds
      /\ \A c \in Creds' : c \in Creds \/ c = Minted
      /\ \A c \in Creds : owner'[c] = owner[c] /\ c < Minted
      /\ owner'[Minted] = r.inc
      /\ \A n \in Runs : n \in Runs'
      /\ log \in Seq(Entries')
  BY <1>1, MintTypes
<1>3. r \in Runs' /\ Minted \in Creds' /\ r.cred \in Creds'
  BY <1>1, <1>2
<1>4. /\ m \in Runs' /\ m.pc = "save" /\ m.base = r.cred /\ m.cred = Minted /\ m.unsaved
      /\ m.inc = r.inc /\ m.who = r.who /\ m.from = r.from /\ m.plan = r.plan /\ m.prior = r.prior
  <2>1. "save" \in Points /\ Minted \in Creds' \cup {None} /\ r.cred \in Creds' \cup {None}
    BY <1>3 DEF Points, Locked
  <2>2. m \in Runs'
    <3> HIDE DEF Accounts, Creds, None
    <3> QED
      BY <1>3, <2>1, Zenon DEF Runs
  <2>3. m.pc = "save" /\ m.base = r.cred /\ m.cred = Minted /\ m.unsaved
    BY <1>1, Zenon DEF Runs
  <2>4. m.inc = r.inc /\ m.who = r.who /\ m.from = r.from /\ m.plan = r.plan /\ m.prior = r.prior
    BY <1>1, Zenon DEF Runs
  <2> QED
    BY <2>2, <2>3, <2>4
<1>5. run'[p] = m /\ run' \in [Procs -> Runs'] /\ \A q \in Procs \ {p} : run'[q] = run[q]
  BY <1>1, <1>2, <1>4 DEF TypeOK, Refresh
<1> HIDE DEF m
<1>6. Grows
  BY <1>1, <1>2 DEF Grows, ParkedByLive
<1>7. TypeOK'
  <2>1. OnlyLocks(p)
    BY <1>1, <1>4, <1>5 DEF OnlyLocks, TypeOK, locks, Needed, Chosen, Locked
  <2>2. /\ hold' \in Procs \cup {NoProc}
        /\ \A a \in Accounts, q \in Procs :
             nslock'[a] = q => a \in Needed(run'[q]) /\ run'[q].pc \in Locked \cup {"locks"}
        /\ \A q \in Procs : hold' = q <=> run'[q].pc \in {"reread", "write"}
    BY <1>1, <1>5, <2>1, LocksType
  <2>3. spent' \subseteq Creds' /\ given' \subseteq Creds' /\ item' \in Creds'
        /\ {home', parked', moved'} \subseteq [Accounts -> Creds' \cup {None}]
    <3>1. /\ spent \subseteq Creds /\ given \subseteq Creds /\ item \in Creds
          /\ home \in [Accounts -> Creds \cup {None}] /\ parked \in [Accounts -> Creds \cup {None}]
          /\ moved \in [Accounts -> Creds \cup {None}]
      BY <1>1 DEF TypeOK
    <3> HIDE DEF Creds
    <3> QED
      BY <1>1, <1>2, <3>1 DEF store
  <2> QED
    BY <1>1, <1>2, <1>5, <2>1, <2>2, <2>3 DEF TypeOK, locks
<1>8. Kept'
  <2> SUFFICES ASSUME NEW c \in Creds' \ (spent' \cup given')
               PROVE  c \in AtRest' \/ \E q \in Procs : c \in InHand(run'[q])
    BY DEF Kept
  <2>1. CASE c = Minted
    BY <1>4, <1>5, <2>1 DEF InHand
  <2>2. CASE c \in Creds
    <3>1. c \in AtRest \/ \E q \in Procs : c \in InHand(run[q])
      BY <1>1, <2>2 DEF Kept, SwapInv
    <3> QED
      BY <1>1, <1>5, <3>1 DEF AtRest, store, InHand
  <2> QED
    BY <1>2, <2>1, <2>2
<1>9. FiledAtHome' /\ SpentExpired'
  <2>1. \A a \in Accounts : home[a] \in Creds \cup {None} /\ parked[a] \in Creds \cup {None}
                            /\ moved[a] \in Creds \cup {None}
    BY <1>1, StoreTypes
  <2>2. \A i \in DOMAIN log : log[i].to \in Creds
    BY <1>1, EntryType
  <2>3. \A a \in Accounts : \A c \in {home[a], parked[a], moved[a]} \ {None} : owner'[c] = a
    <3>1. \A a \in Accounts : \A c \in {home[a], parked[a], moved[a]} \ {None} :
            c \in Creds /\ owner[c] = a
      BY <2>1 DEF FiledAtHome, SwapInv
    <3>2. \A c \in Creds : owner'[c] = owner[c]
      BY <1>2
    <3> QED
      BY <3>1, <3>2
  <2>4. \A i \in DOMAIN log : owner'[log[i].to] = log[i].inc
    BY <1>2, <2>2 DEF FiledAtHome, SwapInv
  <2>5. SpentExpired'
    BY <1>1 DEF SpentExpired, SwapInv, Stale
  <2> QED
    BY <1>1, <2>3, <2>4, <2>5 DEF FiledAtHome, store
<1>10. Sound(p)'
  <2>1. LocalsOf(p)'
    <3>1. m.from \in Creds' /\ owner'[m.from] = m.who /\ m.base \in spent'
      BY <1>1, <1>2, <1>4
    <3> QED
      BY <1>1, <1>2, <1>4, <1>5, <3>1, Zenon DEF LocalsOf, Carrying, Fresh, Decided
  <2>2. InstallOf(p)'
    BY <1>1, <1>2, <1>4, <1>5 DEF InstallOf, TypeOK
  <2>3. LocksOf(p)' /\ PlanOf(p)' /\ ItemOf(p)'
    BY <1>1, <1>4, <1>5
    DEF Sound, LocksOf, PlanOf, ItemOf, Needed, Locked, store, locks, ParkedByLive
  <2>4. DisplacedOf(p)'
    <3>1. m.from < m.cred
      BY <1>1, <1>2, <1>4
    <3>2. r.plan = "none" => Discards(r) \/ (r.who # r.inc /\ Elsewhere(r.from, r.who))
      BY <1>1 DEF Sound, DisplacedOf, Decided
    <3> QED
      BY <1>1, <1>4, <1>5, <3>1, <3>2 DEF DisplacedOf, Discards, Elsewhere, Filed, store
  <2> QED
    BY <2>1, <2>2, <2>3, <2>4 DEF Sound
<1>11. ASSUME NEW q \in Procs \ {p} PROVE KeepsNamespaces(q) /\ KeepsCreds(q)
  BY <1>1 DEF KeepsNamespaces, KeepsCreds, store, locks
<1> QED
  BY <1>5, <1>6, <1>7, <1>8, <1>9, <1>10, <1>11, OthersSound DEF SwapInv

----------------------------------------------------------------------------
(* The steps that write a store.                                           *)

\* What the step of a run that mints nothing, logs nothing and rotates nothing must show.
LEMMA StoreStep ==
    ASSUME SwapInv, NEW p \in Procs, OwnStep(p), Kept', UNCHANGED <<owner, spent, clock, moved, log>>,
           item' \in Creds, home' \in [Accounts -> Creds \cup {None}],
           parked' \in [Accounts -> Creds \cup {None}],
           \A a \in Accounts :
              nslock[a] = p \/ (home'[a] = home[a] /\ parked'[a] = parked[a]),
           \A a \in Accounts : /\ home'[a] \in {home[a], None} \/ owner[home'[a]] = a
                               /\ parked'[a] \in {parked[a], None} \/ owner[parked'[a]] = a,
           item' = item \/ (hold = p /\ nslock[owner[item']] = p /\ nslock[owner[item]] = p)
    PROVE  SwapInv'
<1>1. TypeOK'
  <2>1. /\ hold' \in Procs \cup {NoProc}
        /\ \A b \in Accounts, q \in Procs :
             nslock'[b] = q => b \in Needed(run'[q]) /\ run'[q].pc \in Locked \cup {"locks"}
        /\ \A q \in Procs : hold' = q <=> run'[q].pc \in {"reread", "write"}
    BY LocksType DEF OwnStep, OnlyRun, SwapInv
  <2> QED
    BY <2>1 DEF TypeOK, SwapInv, OwnStep, OnlyRun, OnlyLocks, Entries, Needed, Runs
<1>2. FiledAtHome' /\ SpentExpired'
  BY DEF FiledAtHome, SpentExpired, SwapInv, Stale
<1>3. ASSUME NEW q \in Procs \ {p} PROVE KeepsNamespaces(q) /\ KeepsCreds(q)
  BY ProcsAssumption DEF KeepsNamespaces, KeepsCreds, OwnStep, OnlyLocks
<1> QED
  BY <1>1, <1>2, <1>3, OthersSound DEF SwapInv, OwnStep, OnlyRun

LEMMA SaveInv ==
    ASSUME SwapInv, NEW p \in Procs, Save(p)
    PROVE  SwapInv'
<1> DEFINE r == run[p]
           m == [r EXCEPT !.pc = "adopt", !.base = None, !.unsaved = FALSE]
<1>1. /\ TypeOK /\ Sound(p) /\ r \in Runs /\ r.pc = "save" /\ r.inc \in Accounts
      /\ r.who \in Accounts /\ r.cred \in Creds /\ r.from \in Creds
      /\ owner[r.cred] = r.inc /\ owner[r.from] = r.who /\ nslock[r.inc] = p /\ nslock[r.who] = p
      /\ CanSave(r) /\ r.base \in spent
      /\ UNCHANGED <<owner, spent, clock, item, moved, log, name, locks, given, left>>
  BY SoundTypes DEF Save, Locked, LocalsOf
<1>2. /\ m \in Runs /\ m.pc = "adopt" /\ m.cred = r.cred /\ ~m.unsaved
      /\ m.inc = r.inc /\ m.who = r.who /\ m.from = r.from /\ m.plan = r.plan /\ m.prior = r.prior
  BY <1>1, Zenon DEF Runs, Points, Locked
<1>3. run'[p] = m /\ OnlyRun(p)
  BY <1>1, <1>2 DEF TypeOK, Save, OnlyRun
<1> HIDE DEF m
\* One of the two files of the incoming account, and what it replaces is rotated away.
<1>4. /\ home' \in [Accounts -> Creds \cup {None}] /\ parked' \in [Accounts -> Creds \cup {None}]
      /\ \A a \in Accounts : a # r.inc => home'[a] = home[a] /\ parked'[a] = parked[a]
      /\ home'[r.inc] = home[r.inc] \/ (home'[r.inc] = r.cred /\ home[r.inc] \in spent)
      /\ parked'[r.inc] = parked[r.inc] \/ (parked'[r.inc] = r.cred /\ parked[r.inc] \in spent)
      /\ home'[r.inc] = r.cred \/ parked'[r.inc] = r.cred
  <2>1. home \in [Accounts -> Creds \cup {None}] /\ parked \in [Accounts -> Creds \cup {None}]
    BY <1>1 DEF TypeOK
  <2> QED
    BY <1>1, <2>1 DEF Save, CanSave
<1>5. OnlyLocks(p)
  BY <1>1, <1>2, <1>3 DEF OnlyLocks, TypeOK, locks, Needed, Chosen, Locked
<1>6. Grows
  BY <1>1 DEF Grows, ParkedByLive
<1>7. Sound(p)'
  <2>1. LocalsOf(p)'
    <3>1. r.plan # "none" => r.pc \in Decided
      BY <1>1 DEF Sound, LocalsOf
    <3> QED
      BY <1>1, <1>2, <1>3, <3>1, Zenon DEF LocalsOf, Decided
  <2>2. LocksOf(p)' /\ InstallOf(p)' /\ ItemOf(p)'
    BY <1>1, <1>2, <1>3 DEF Sound, LocksOf, InstallOf, ItemOf, Needed, Locked, locks, Fresh
  <2>3. PlanOf(p)'
    BY <1>1, <1>2, <1>3, <1>4 DEF Sound, PlanOf, ParkedByLive
  <2>4. DisplacedOf(p)'
    BY <1>1, <1>2, <1>3, <1>4 DEF Sound, DisplacedOf, Discards, Elsewhere, Decided, Filed
  <2> QED
    BY <2>1, <2>2, <2>3, <2>4 DEF Sound
<1>8. r.cred \in AtRest' /\ InHand(r) \subseteq {r.cred}
  BY <1>1, <1>4 DEF AtRest, InHand
<1>9. OwnStep(p)
  BY <1>1, <1>3, <1>5, <1>6, <1>7, <1>8 DEF OwnStep, TypeOK
<1>10. Kept'
  <2>1. AtRest \subseteq AtRest' \cup spent
    BY <1>1, <1>4 DEF AtRest
  <2> QED
    BY <1>1, <1>3, <1>8, <2>1 DEF Kept, SwapInv, OnlyRun, InHand
<1>11. \A a \in Accounts : /\ home'[a] \in {home[a], None} \/ owner[home'[a]] = a
                           /\ parked'[a] \in {parked[a], None} \/ owner[parked'[a]] = a
  BY <1>1, <1>4
<1> QED
  BY <1>1, <1>4, <1>9, <1>10, <1>11, StoreStep DEF TypeOK

LEMMA WriteInv ==
    ASSUME SwapInv, NEW p \in Procs, Write(p)
    PROVE  SwapInv'
<1> DEFINE r == run[p]
           m == [r EXCEPT !.pc = "verify", !.unsaved = FALSE]
<1>1. /\ TypeOK /\ Sound(p) /\ r \in Runs /\ r.pc = "write" /\ r.inc \in Accounts
      /\ r.who \in Accounts /\ r.cred \in Creds /\ r.from \in Creds
      /\ owner[r.cred] = r.inc /\ owner[r.from] = r.who /\ nslock[r.inc] = p /\ nslock[r.who] = p
      /\ hold = p /\ item = r.from /\ item' = r.cred /\ hold' = NoProc
      /\ UNCHANGED <<owner, spent, clock, home, parked, moved, log, name, nslock, left>>
  BY SoundTypes DEF Write, Locked, Sound, ItemOf, TypeOK
<1>2. /\ m \in Runs /\ m.pc = "verify" /\ m.cred = r.cred /\ ~m.unsaved
      /\ m.inc = r.inc /\ m.who = r.who /\ m.from = r.from /\ m.plan = r.plan
  BY <1>1, Zenon DEF Runs, Points, Locked
<1>3. run'[p] = m /\ OnlyRun(p)
  BY <1>1, <1>2 DEF TypeOK, Write, OnlyRun
<1> HIDE DEF m
<1>4. OnlyLocks(p)
  BY <1>1, <1>2, <1>3, ProcsAssumption DEF OnlyLocks, TypeOK, Needed, Chosen, Locked
<1>5. given \subseteq given' /\ given' \subseteq Creds /\ (Discards(r) => r.from \in given')
  BY <1>1 DEF Write, TypeOK
<1>6. Grows
  BY <1>1, <1>5 DEF Grows, ParkedByLive
<1>7. Sound(p)'
  <2>1. r.plan = "none"
    BY <1>1 DEF Sound, LocalsOf, Decided
  <2>2. LocalsOf(p)'
    BY <1>1, <1>2, <1>3, <2>1, Zenon DEF LocalsOf
  <2>3. LocksOf(p)' /\ InstallOf(p)' /\ ItemOf(p)' /\ PlanOf(p)' /\ DisplacedOf(p)'
    BY <1>1, <1>2, <1>3, <2>1
    DEF Sound, LocksOf, InstallOf, ItemOf, PlanOf, DisplacedOf, Needed, Locked, Fresh, Filed, Decided
  <2> QED
    BY <2>2, <2>3 DEF Sound
<1>8. r.cred \in AtRest' /\ InHand(r) \subseteq {r.cred}
  BY <1>1 DEF AtRest, InHand
<1>9. OwnStep(p)
  BY <1>1, <1>3, <1>4, <1>5, <1>6, <1>7, <1>8 DEF OwnStep, TypeOK
<1>10. Kept'
  \* What the item held is given up or elsewhere.
  <2>1. r.from \in given' \/ Elsewhere(r.from, r.who)
    BY <1>1, <1>5 DEF Sound, DisplacedOf, Filed
  <2>2. AtRest \subseteq AtRest' \cup spent \cup given'
    BY <1>1, <1>5, <2>1 DEF AtRest, Elsewhere
  <2> QED
    BY <1>1, <1>3, <1>5, <1>8, <2>2 DEF Kept, SwapInv, OnlyRun, InHand
<1> QED
  BY <1>1, <1>9, <1>10, StoreStep DEF TypeOK

LEMMA AdoptInv ==
    ASSUME SwapInv, NEW p \in Procs, Adopt(p)
    PROVE  SwapInv'
<1> DEFINE r == run[p]
           Over == IF r.plan = "park" THEN parked[r.who] ELSE home[r.who]
           m(asked) == [r EXCEPT !.pc = "hold", !.plan = "none", !.prior = None, !.prof = asked]
<1>1. /\ TypeOK /\ Sound(p) /\ r \in Runs /\ r.pc = "adopt" /\ r.inc \in Accounts
      /\ r.who \in Accounts /\ r.cred \in Creds /\ r.from \in Creds
      /\ owner[r.cred] = r.inc /\ owner[r.from] = r.who /\ nslock[r.inc] = p /\ nslock[r.who] = p
      /\ UNCHANGED <<owner, spent, clock, item, moved, log, name, locks, left>>
      /\ r.plan \in {"none", "park", "file"}
  BY SoundTypes DEF Adopt, Locked, Runs
<1>2. PICK asked \in BOOLEAN : run' = [run EXCEPT ![p] = m(asked)]
  BY DEF Adopt
<1> DEFINE n == m(asked)
<1>3. /\ n \in Runs /\ n.pc = "hold" /\ n.cred = r.cred /\ n.unsaved = r.unsaved /\ n.plan = "none"
      /\ n.inc = r.inc /\ n.who = r.who /\ n.from = r.from
  BY <1>1, Zenon DEF Runs, Points, Locked
<1>4. run'[p] = n /\ OnlyRun(p)
  BY <1>1, <1>2, <1>3 DEF TypeOK, OnlyRun
<1> HIDE DEF n
\* One of the two files of the displaced credential's own account, and what it replaces
\* is nothing or given up.
<1>5. /\ given \subseteq given' /\ given' \subseteq Creds
      /\ home' \in [Accounts -> Creds \cup {None}] /\ parked' \in [Accounts -> Creds \cup {None}]
      /\ \A a \in Accounts : a # r.who => home'[a] = home[a] /\ parked'[a] = parked[a]
      /\ home'[r.who] = home[r.who] \/ (home'[r.who] = r.from /\ home[r.who] \in given' \cup {None})
      /\ parked'[r.who] = parked[r.who]
         \/ (parked'[r.who] = r.from /\ parked[r.who] \in given' \cup {None})
      /\ r.plan # "none" => r.who # r.inc /\ r.from \in {home'[r.who], parked'[r.who]}
  <2>1. /\ home \in [Accounts -> Creds \cup {None}] /\ parked \in [Accounts -> Creds \cup {None}]
        /\ given \subseteq Creds
    BY <1>1 DEF TypeOK
  <2>2. given' = given \cup IF \/ r.plan = "park" /\ ParkedByLive(Over)
                               \/ r.plan = "file" /\ Over < r.from
                            THEN {Over} \ {None} ELSE {}
    BY DEF Adopt
  <2>3. CASE r.plan = "none"
    BY <2>1, <2>2, <2>3 DEF Adopt
  <2>4. CASE r.plan = "park"
    <3>1. home' = home /\ parked' = [parked EXCEPT ![r.who] = r.from]
      BY <2>4 DEF Adopt
    <3>2. r.who # r.inc /\ (parked[r.who] = None \/ ParkedByLive(parked[r.who]))
      BY <1>1, <2>4 DEF Sound, PlanOf
    <3> QED
      BY <1>1, <2>1, <2>2, <2>4, <3>1, <3>2
  <2>5. CASE r.plan = "file"
    <3>1. parked' = parked /\ home' = [home EXCEPT ![r.who] = r.from] /\ home[r.who] = r.prior
      BY <2>5 DEF Adopt
    <3>2. r.who # r.inc /\ r.prior < r.from
      BY <1>1, <2>5 DEF Sound, PlanOf
    <3> QED
      BY <1>1, <2>1, <2>2, <2>5, <3>1, <3>2
  <2> QED
    BY <1>1, <2>3, <2>4, <2>5
<1>6. OnlyLocks(p)
  BY <1>1, <1>3, <1>4 DEF OnlyLocks, TypeOK, locks, Needed, Chosen, Locked
<1>7. Grows
  BY <1>1, <1>5 DEF Grows, ParkedByLive
<1>8. Sound(p)'
  <2>1. LocalsOf(p)'
    BY <1>1, <1>3, <1>4, Zenon DEF LocalsOf, Carrying, Fresh
  <2>2. LocksOf(p)' /\ InstallOf(p)' /\ ItemOf(p)' /\ PlanOf(p)'
    BY <1>1, <1>3, <1>4
    DEF Sound, LocksOf, InstallOf, ItemOf, PlanOf, Needed, Locked, locks, Fresh
  <2>3. DisplacedOf(p)'
    BY <1>1, <1>3, <1>4, <1>5 DEF Sound, DisplacedOf, Discards, Elsewhere, Decided, Filed
  <2> QED
    BY <2>1, <2>2, <2>3 DEF Sound
<1>9. InHand(r) = InHand(run'[p])
  BY <1>3, <1>4 DEF InHand
<1>10. OwnStep(p)
  BY <1>1, <1>4, <1>5, <1>6, <1>7, <1>8, <1>9 DEF OwnStep, TypeOK
<1>11. Kept'
  <2>1. AtRest \subseteq AtRest' \cup given' \cup {None}
    BY <1>1, <1>5 DEF AtRest
  <2>2. \A q \in Procs : InHand(run'[q]) = InHand(run[q])
    BY <1>4, <1>9 DEF OnlyRun
  <2>3. Creds' = Creds /\ spent' = spent /\ given \subseteq given' /\ Kept /\ None \notin Creds
    BY <1>1, <1>5 DEF SwapInv
  <2> QED
    BY <2>1, <2>2, <2>3 DEF Kept
<1>12. \A a \in Accounts : /\ home'[a] \in {home[a], None} \/ owner[home'[a]] = a
                           /\ parked'[a] \in {parked[a], None} \/ owner[parked'[a]] = a
  BY <1>1, <1>5
<1>13. \A a \in Accounts : nslock[a] = p \/ (home'[a] = home[a] /\ parked'[a] = parked[a])
  BY <1>1, <1>5
<1> QED
  BY <1>1, <1>5, <1>10, <1>11, <1>12, <1>13, StoreStep DEF TypeOK

----------------------------------------------------------------------------
(* The steps beside the runs.                                              *)

\* A new credential of account a is put in the item or in the account's namespace.
LEMMA MintStep ==
    ASSUME SwapInv, NEW a \in Accounts, Mint(a), UNCHANGED <<clock, parked, moved, log, locks>>,
           spent \subseteq spent', given \subseteq given', given' \subseteq Creds,
           \A c \in spent' : c \in Creds /\ Stale(c),
           name' \in Accounts, run' \in [Procs -> Runs],
           \A q \in Procs : /\ run'[q].pc = run[q].pc /\ Needed(run'[q]) = Needed(run[q])
                            /\ InHand(run'[q]) = InHand(run[q]),
           item' = item \/ (item' = Minted /\ item \in spent' \cup given'),
           home' = home \/ (home' = [home EXCEPT ![a] = Minted] /\ home[a] \in spent' \cup given' \cup {None}),
           Minted \in AtRest'
    PROVE  TypeOK' /\ Kept' /\ FiledAtHome' /\ SpentExpired' /\ Grows
<1>1. /\ owner' \in Seq(Accounts) /\ clock \in 0 .. Len(owner') /\ left' \in Limits
      /\ Creds \subseteq Creds' /\ Minted \in Creds' /\ Minted \notin Creds
      /\ \A c \in Creds' : c \in Creds \/ c = Minted
      /\ \A c \in Creds : owner'[c] = owner[c] /\ c < Minted
      /\ owner'[Minted] = a
      /\ \A n \in Runs : n \in Runs'
      /\ log \in Seq(Entries')
  BY MintTypes DEF SwapInv
<1>2. Grows
  BY <1>1 DEF Grows, ParkedByLive
<1>3. TypeOK'
  <2>1. spent' \subseteq Creds' /\ given' \subseteq Creds' /\ item' \in Creds'
    BY <1>1 DEF SwapInv, TypeOK
  <2>2. {home', parked', moved'} \subseteq [Accounts -> Creds' \cup {None}]
    <3>1. /\ home \in [Accounts -> Creds \cup {None}] /\ parked \in [Accounts -> Creds \cup {None}]
          /\ moved \in [Accounts -> Creds \cup {None}]
      BY DEF SwapInv, TypeOK
    <3> HIDE DEF Creds
    <3> QED
      BY <1>1, <3>1
  <2>3. run' \in [Procs -> Runs']
    BY <1>1
  <2>4. \A b \in Accounts, q \in Procs :
          nslock'[b] = q => b \in Needed(run'[q]) /\ run'[q].pc \in Locked \cup {"locks"}
    BY DEF SwapInv, TypeOK, locks
  <2>5. \A q \in Procs : hold' = q <=> run'[q].pc \in {"reread", "write"}
    BY DEF SwapInv, TypeOK, locks
  <2>6. nslock' \in [Accounts -> Procs \cup {NoProc}] /\ hold' \in Procs \cup {NoProc}
    BY DEF SwapInv, TypeOK, locks
  <2> QED
    BY <1>1, <2>1, <2>2, <2>3, <2>4, <2>5, <2>6 DEF TypeOK
<1>4. Kept'
  <2>1. AtRest \subseteq AtRest' \cup spent' \cup given' \cup {None}
    <3>1. \A b \in Accounts : home'[b] = home[b] \/ home[b] \in spent' \cup given' \cup {None}
      BY DEF SwapInv, TypeOK
    <3> QED
      BY <3>1 DEF AtRest
  <2> SUFFICES ASSUME NEW c \in Creds' \ (spent' \cup given')
               PROVE  c \in AtRest' \/ \E q \in Procs : c \in InHand(run'[q])
    BY DEF Kept
  <2>2. CASE c = Minted
    BY <2>2
  <2>3. CASE c \in Creds
    <3>1. c \in AtRest \/ \E q \in Procs : c \in InHand(run[q])
      BY <2>3 DEF Kept, SwapInv
    <3> QED
      BY <2>1, <2>3, <3>1
  <2> QED
    BY <1>1, <2>2, <2>3
<1>5. FiledAtHome'
  <2>1. \A b \in Accounts : home[b] \in Creds \cup {None} /\ parked[b] \in Creds \cup {None}
                            /\ moved[b] \in Creds \cup {None}
    BY StoreTypes DEF SwapInv
  <2>2. \A b \in Accounts : home'[b] = home[b] \/ (home'[b] = Minted /\ b = a)
    BY DEF SwapInv, TypeOK
  <2>3. \A b \in Accounts : \A c \in {home'[b], parked[b], moved[b]} \ {None} : owner'[c] = b
    <3>1. \A b \in Accounts : \A c \in {home[b], parked[b], moved[b]} \ {None} :
            c \in Creds /\ owner[c] = b
      BY <2>1 DEF FiledAtHome, SwapInv
    <3>2. (\A c \in Creds : owner'[c] = owner[c]) /\ owner'[Minted] = a
      BY <1>1
    <3>3. ASSUME NEW b \in Accounts, NEW c \in {home'[b], parked[b], moved[b]} \ {None}
          PROVE  owner'[c] = b
      <4>1. CASE c = home'[b] /\ home'[b] # home[b]
        BY <2>2, <3>2, <4>1
      <4>2. CASE c \in {home[b], parked[b], moved[b]}
        BY <3>1, <3>2, <3>3, <4>2
      <4> QED
        BY <3>3, <4>1, <4>2
    <3> QED
      BY <3>3
  <2>4. \A i \in DOMAIN log : log[i].to \in Creds
    BY EntryType DEF SwapInv
  <2>5. \A i \in DOMAIN log : owner'[log[i].to] = log[i].inc
    BY <1>1, <2>4 DEF FiledAtHome, SwapInv
  <2> QED
    BY <2>3, <2>5 DEF FiledAtHome
<1>6. SpentExpired'
  BY DEF SpentExpired, Stale
<1> QED
  BY <1>2, <1>3, <1>4, <1>5, <1>6

\* When the runs stay as they are.
LEMMA BesideStep ==
    ASSUME SwapInv, TypeOK', Kept', FiledAtHome', SpentExpired', Grows, UNCHANGED run,
           \A q \in Procs : KeepsNamespaces(q) /\ KeepsCreds(q)
    PROVE  SwapInv'
<1>1. ASSUME NEW q \in Procs PROVE Sound(q)'
  BY BesideSound DEF SwapInv
<1> QED
  BY <1>1 DEF SwapInv

LEMMA TickInv ==
    ASSUME SwapInv, Tick
    PROVE  SwapInv'
<1>1. TypeOK /\ clock' \in 0 .. Len(owner) /\ clock < clock'
  BY DEF Tick, SwapInv, TypeOK
<1>2. TypeOK'
  BY <1>1 DEF Tick, TypeOK, store, locks, Entries, Runs
<1>3. Kept' /\ FiledAtHome' /\ Grows
  BY DEF Tick, SwapInv, Kept, FiledAtHome, Grows, AtRest, store, ParkedByLive
<1>4. SpentExpired'
  BY <1>1 DEF Tick, SwapInv, SpentExpired, Stale, TypeOK
<1>5. \A q \in Procs : KeepsNamespaces(q) /\ KeepsCreds(q)
  BY DEF Tick, KeepsNamespaces, KeepsCreds, store, locks
<1> QED
  BY <1>2, <1>3, <1>4, <1>5, BesideStep DEF Tick

LEMMA SessionRefreshInv ==
    ASSUME SwapInv, SessionRefresh
    PROVE  SwapInv'
<1>1. TypeOK /\ item \in Creds /\ owner[item] \in Accounts /\ item \notin spent
  BY OwnerType DEF SessionRefresh, SwapInv, TypeOK
<1>2. Minted \in AtRest'
  BY DEF AtRest, SessionRefresh
<1>3. \A c \in spent' : c \in Creds /\ Stale(c)
  BY <1>1 DEF SessionRefresh, SwapInv, TypeOK, SpentExpired
<1>4. TypeOK' /\ Kept' /\ FiledAtHome' /\ SpentExpired' /\ Grows
  BY <1>1, <1>2, <1>3, MintStep DEF SessionRefresh, TypeOK
<1>5. Minted \notin Creds /\ owner'[Minted] = owner[item]
  BY <1>1, MintTypes DEF SessionRefresh
<1>6. ASSUME NEW q \in Procs PROVE KeepsNamespaces(q) /\ KeepsCreds(q)
  BY <1>1, <1>5, ProcsAssumption DEF KeepsNamespaces, KeepsCreds, SessionRefresh, locks
<1> QED
  BY <1>4, <1>6, BesideStep DEF SessionRefresh

LEMMA StatusInv ==
    ASSUME SwapInv, NEW a \in Accounts, Status(a)
    PROVE  SwapInv'
<1>1. TypeOK /\ home[a] \in Creds /\ owner[home[a]] = a /\ home \in [Accounts -> Creds \cup {None}]
  BY DEF Status, SwapInv, TypeOK, FiledAtHome
<1>2. Minted \in AtRest'
  BY <1>1 DEF AtRest, Status
<1>3. \A c \in spent' : c \in Creds /\ Stale(c)
  BY <1>1 DEF Status, SwapInv, TypeOK, SpentExpired
<1>4. TypeOK' /\ Kept' /\ FiledAtHome' /\ SpentExpired' /\ Grows
  BY <1>1, <1>2, <1>3, MintStep DEF Status, TypeOK
<1>5. ASSUME NEW q \in Procs PROVE KeepsNamespaces(q) /\ KeepsCreds(q)
  BY <1>1, ProcsAssumption DEF KeepsNamespaces, KeepsCreds, Status, locks
<1> QED
  BY <1>4, <1>5, BesideStep DEF Status

LEMMA LoginInv ==
    ASSUME SwapInv, NEW a \in Accounts, Login(a)
    PROVE  SwapInv'
<1>1. TypeOK /\ home[a] \in Creds \cup {None} /\ home \in [Accounts -> Creds \cup {None}]
  <2>1. TypeOK
    BY DEF SwapInv
  <2>2. home \in [Accounts -> Creds \cup {None}]
    BY <2>1 DEF TypeOK
  <2> QED
    BY <2>1, <2>2
<1>2. Minted \in AtRest'
  <2>1. home'[a] = Minted
    BY <1>1 DEF Login
  <2> QED
    BY <2>1 DEF AtRest
<1>3. /\ \A c \in spent' : c \in Creds /\ Stale(c)
      /\ given \subseteq given' /\ given' \subseteq Creds /\ home[a] \in given' \cup {None}
  <2>1. given \subseteq Creds /\ spent \subseteq Creds /\ spent' = spent
    BY <1>1 DEF TypeOK, Login
  <2>2. given' = given \cup ({home[a]} \ {None})
    BY DEF Login
  <2> QED
    BY <1>1, <2>1, <2>2 DEF SwapInv, SpentExpired
<1>4. TypeOK' /\ Kept' /\ FiledAtHome' /\ SpentExpired' /\ Grows
  <2>1. run \in [Procs -> Runs] /\ name \in Accounts
    BY <1>1 DEF TypeOK
  <2>2. home[a] \in spent' \cup given' \cup {None}
    BY <1>3
  <2> QED
    BY <1>2, <1>3, <2>1, <2>2, MintStep DEF Login
<1>5. ASSUME NEW q \in Procs PROVE KeepsNamespaces(q) /\ KeepsCreds(q)
  BY <1>1, ProcsAssumption DEF KeepsNamespaces, KeepsCreds, Login, locks
<1> QED
  BY <1>4, <1>5, BesideStep DEF Login

LEMMA MigrateInv ==
    ASSUME SwapInv, NEW a \in Accounts, Migrate(a)
    PROVE  SwapInv'
<1>1. /\ TypeOK /\ home[a] \in Creds /\ owner[home[a]] = a /\ home \in [Accounts -> Creds \cup {None}]
      /\ moved \in [Accounts -> Creds \cup {None}]
  <2>1. /\ TypeOK /\ home \in [Accounts -> Creds \cup {None}]
        /\ moved \in [Accounts -> Creds \cup {None}]
    BY DEF SwapInv, TypeOK
  <2>2. home[a] \in Creds
    BY <2>1 DEF Migrate
  <2> QED
    BY <2>1, <2>2 DEF SwapInv, FiledAtHome
<1>2. home' \in [Accounts -> Creds \cup {None}] /\ moved' \in [Accounts -> Creds \cup {None}]
  BY <1>1 DEF Migrate
<1>3. TypeOK'
  BY <1>1, <1>2 DEF Migrate, TypeOK, locks, Entries, Runs
<1>4. Kept'
  <2>1. AtRest \subseteq AtRest'
    BY <1>1 DEF AtRest, Migrate
  <2> QED
    BY <2>1 DEF Kept, SwapInv, Migrate
<1>5. FiledAtHome' /\ SpentExpired' /\ Grows
  BY <1>1 DEF Migrate, SwapInv, FiledAtHome, SpentExpired, Stale, Grows, ParkedByLive
<1>6. ASSUME NEW q \in Procs PROVE KeepsNamespaces(q) /\ KeepsCreds(q)
  BY <1>1 DEF KeepsNamespaces, KeepsCreds, Migrate, locks
<1> QED
  BY <1>3, <1>4, <1>5, <1>6, BesideStep DEF Migrate

\* A session that logs in while a run is between its write and .claude.json is noted there.
LEMMA NotedSound ==
    ASSUME SwapInv, NEW q \in Procs, At(q, "config"), Grows, UNCHANGED nslock,
           run'[q] = [run[q] EXCEPT !.login = TRUE]
    PROVE  Sound(q)' /\ run'[q] \in Runs /\ InHand(run'[q]) = InHand(run[q])
           /\ run'[q].pc = run[q].pc /\ Needed(run'[q]) = Needed(run[q])
<1> DEFINE r == run[q]
           m == [r EXCEPT !.login = TRUE]
<1>1. /\ Sound(q) /\ LocalsOf(q) /\ r \in Runs /\ r.pc = "config" /\ r.inc \in Accounts
      /\ r.who \in Accounts /\ r.cred \in Creds /\ r.from \in Creds
      /\ owner[r.cred] = r.inc /\ owner[r.from] = r.who
  BY SoundTypes DEF Locked
<1>2. /\ m \in Runs /\ m.pc = "config" /\ m.cred = r.cred /\ m.unsaved = r.unsaved /\ m.login
      /\ m.inc = r.inc /\ m.who = r.who /\ m.from = r.from /\ m.plan = r.plan
  BY <1>1, Zenon DEF Runs
<1> HIDE DEF m
<1>3. run'[q] = m /\ r.plan = "none"
  BY <1>1 DEF LocalsOf, Decided, m
<1>4. LocalsOf(q)'
  <2>1. r.from \in Creds' /\ r.cred \in Creds' /\ owner'[r.cred] = r.inc /\ owner'[r.from] = r.who
    BY <1>1 DEF Grows
  <2> QED
    BY <1>1, <1>2, <1>3, <2>1, Zenon DEF LocalsOf, Carrying
<1>5. ItemOf(q)'
  BY <1>2, <1>3, Zenon DEF ItemOf
<1>6. LocksOf(q)' /\ PlanOf(q)' /\ DisplacedOf(q)' /\ InstallOf(q)'
  BY <1>1, <1>2, <1>3
  DEF Sound, LocksOf, PlanOf, DisplacedOf, InstallOf, Needed, Locked, Filed, Decided, Fresh
<1> QED
  BY <1>2, <1>3, <1>4, <1>5, <1>6 DEF Sound, InHand, Needed

LEMMA SessionLoginInv ==
    ASSUME SwapInv, NEW a \in Accounts, SessionLogin(a)
    PROVE  SwapInv'
<1>1. TypeOK /\ run \in [Procs -> Runs] /\ item \in Creds
  BY DEF SwapInv, TypeOK
<1>2. Minted \in AtRest'
  BY DEF AtRest, SessionLogin
<1>3. /\ \A c \in spent' : c \in Creds /\ Stale(c)
      /\ given \subseteq given' /\ given' \subseteq Creds /\ item \in given'
  BY <1>1 DEF SessionLogin, SwapInv, TypeOK, SpentExpired
<1>4. \A q \in Procs : run'[q] = IF At(q, "config") THEN [run[q] EXCEPT !.login = TRUE] ELSE run[q]
  BY DEF SessionLogin
<1>5. Minted \notin Creds /\ Grows
  BY <1>1, <1>3, MintTypes DEF SessionLogin, Grows, ParkedByLive
<1>6. \A q \in Procs :
        /\ run'[q] \in Runs /\ InHand(run'[q]) = InHand(run[q])
        /\ run'[q].pc = run[q].pc /\ Needed(run'[q]) = Needed(run[q])
        /\ At(q, "config") => Sound(q)'
  <2> SUFFICES ASSUME NEW q \in Procs
               PROVE  /\ run'[q] \in Runs /\ InHand(run'[q]) = InHand(run[q])
                      /\ run'[q].pc = run[q].pc /\ Needed(run'[q]) = Needed(run[q])
                      /\ At(q, "config") => Sound(q)'
    OBVIOUS
  <2>1. CASE At(q, "config")
    BY <1>4, <1>5, <2>1, NotedSound DEF SessionLogin, locks
  <2>2. CASE ~At(q, "config")
    BY <1>1, <1>4, <2>2
  <2> QED
    BY <2>1, <2>2
<1>7. run' \in [Procs -> Runs]
  BY <1>6 DEF SessionLogin
<1>8. TypeOK' /\ Kept' /\ FiledAtHome' /\ SpentExpired'
  BY <1>2, <1>3, <1>6, <1>7, MintStep DEF SessionLogin
<1>9. ASSUME NEW q \in Procs, ~At(q, "config") PROVE Sound(q)'
  <2>1. KeepsNamespaces(q) /\ KeepsCreds(q)
    BY <1>5, <1>9, ProcsAssumption DEF KeepsNamespaces, KeepsCreds, SessionLogin, locks
  <2> QED
    BY <1>1, <1>4, <1>5, <1>8, <1>9, <2>1, BesideSound DEF SwapInv
<1> QED
  BY <1>6, <1>8, <1>9 DEF SwapInv

----------------------------------------------------------------------------
(* The invariant.                                                          *)

LEMMA NextInv ==
    ASSUME SwapInv, [Next]_vars
    PROVE  SwapInv'
<1>1. left.procs \subseteq Procs /\ left.accounts \subseteq Accounts
  <2>1. left \in Limits
    BY DEF SwapInv, TypeOK
  <2> QED
    BY <2>1, Zenon DEF Limits
<1>2. ASSUME NEW p \in Procs, Step(p) PROVE SwapInv'
  BY <1>2, StartForwardInv, TakeNamespaceInv, StartUndoInv, ReadItemInv, ReadIncomingInv, CatchUpInv,
     DecideInv, SkipRefreshInv, RefreshInv, RefreshLostInv, SaveInv, SaveFailsInv, AdoptInv,
     TakeHoldInv, RereadInv, WriteInv, WriteFailsInv, ReportFailedInv, AppliedInv, UnknownInv,
     ConfigInv, RefuseInv, CrashInv DEF Step
<1>3. CASE \E a \in left.accounts : SessionLogin(a) \/ Status(a) \/ Login(a) \/ Migrate(a)
  BY <1>1, <1>3, SessionLoginInv, StatusInv, LoginInv, MigrateInv
<1>4. CASE UNCHANGED vars
  <2>1. \A q \in Procs : KeepsNamespaces(q) /\ KeepsCreds(q)
    BY <1>4 DEF vars, store, locks, KeepsNamespaces, KeepsCreds
  <2>2. Kept' /\ FiledAtHome' /\ SpentExpired' /\ Grows
    BY <1>4 DEF vars, store, SwapInv, Kept, FiledAtHome, SpentExpired, Stale, Grows, AtRest, ParkedByLive
  <2>3. TypeOK'
    BY <1>4 DEF vars, store, locks, SwapInv, TypeOK, Entries, Runs
  <2> QED
    BY <1>4, <2>1, <2>2, <2>3, BesideStep DEF vars
<1> QED
  BY <1>1, <1>2, <1>3, <1>4, SessionRefreshInv, TickInv DEF Next

LEMMA InitOwners ==
    (owner = <<1>> \o [a \in Accounts |-> a])
        => /\ owner \in Seq(Accounts) /\ Len(owner) = N + 1
           /\ owner[1] = 1 /\ \A a \in Accounts : owner[a + 1] = a
<1> HAVE owner = <<1>> \o [a \in Accounts |-> a]
<1> DEFINE s == [a \in Accounts |-> a]
<1>1. s \in Seq(Accounts) /\ Len(s) = N /\ \A a \in Accounts : s[a] = a
  BY AccountsAssumption
<1>2. <<1>> \in Seq(Accounts) /\ Len(<<1>>) = 1 /\ <<1>>[1] = 1
  BY AccountsAssumption
<1> HIDE DEF s
<1>3. owner = <<1>> \o s
  BY DEF s
<1> QED
  BY <1>1, <1>2, <1>3, AccountsAssumption

LEMMA InitInv ==
    ASSUME Init
    PROVE  SwapInv
<1>1. /\ owner \in Seq(Accounts) /\ Len(owner) = N + 1
      /\ owner[1] = 1 /\ \A a \in Accounts : owner[a + 1] = a
  BY InitOwners DEF Init
<1>2. \A c \in Creds : c = 1 \/ c - 1 \in Accounts
  BY <1>1, AccountsAssumption
<1>3. home \in [Accounts -> Creds \cup {None}] /\ \A a \in Accounts : home[a] = a + 1
  BY <1>1, AccountsAssumption DEF Init
<1>4. moved \in [Accounts -> Creds \cup {None}] /\ \A a \in Accounts : moved[a] = None
  BY <1>1, AccountsAssumption DEF Init
\* Before a swap, and after one to the second account.
<1>5. /\ item \in Creds /\ name \in Accounts /\ log \in Seq(Entries)
      /\ parked \in [Accounts -> Creds \cup {None}]
      /\ \A a \in Accounts : parked[a] # None => parked[a] = 1 /\ a = 1
      /\ \A i \in DOMAIN log : owner[log[i].to] = log[i].inc
      /\ item = 1 \/ parked[1] = 1
  <2>1. CASE /\ item = 1 /\ name = 1 /\ log = <<>>
             /\ parked = [a \in Accounts |-> None]
    BY <1>1, <2>1, AccountsAssumption
  <2>2. CASE /\ item = 3 /\ name = 2
             /\ log = <<[dir |-> "forward", from |-> 1, to |-> 3, inc |-> 2, outcome |-> "applied"]>>
             /\ parked = [a \in Accounts |-> IF a = 1 THEN 1 ELSE None]
    <3> DEFINE e == [dir |-> "forward", from |-> 1, to |-> 3, inc |-> 2, outcome |-> "applied"]
    <3>1. 1 \in Creds /\ 3 \in Creds /\ 2 \in Accounts /\ 1 \in Accounts /\ owner[3] = 2
      <4>1. 2 + 1 = 3 /\ 2 \in Accounts
        BY AccountsAssumption
      <4> QED
        BY <1>1, <4>1, AccountsAssumption
    <3>2. e \in Entries /\ e.to = 3 /\ e.inc = 2
      BY <3>1 DEF Entries
    <3> HIDE DEF e
    <3>3. log \in Seq(Entries) /\ \A i \in DOMAIN log : log[i] = e
      <4>1. log = <<e>>
        BY <2>2 DEF e
      <4> QED
        BY <3>2, <4>1
    <3> QED
      BY <2>2, <3>1, <3>2, <3>3
  <2> QED
    BY <2>1, <2>2 DEF Init
<1>6. \A p \in Procs : run[p] = Idle
  BY DEF Init
<1>7. TypeOK
  <2>1. left \in Limits
    BY BoundsAssumption DEF Init
  <2>2. run \in [Procs -> Runs] /\ \A p \in Procs : hold = p <=> run[p].pc \in {"reread", "write"}
    BY IdleType, ProcsAssumption DEF Init
  <2>3. /\ nslock \in [Accounts -> Procs \cup {NoProc}] /\ hold \in Procs \cup {NoProc}
        /\ \A a \in Accounts, p \in Procs : nslock[a] # p
    BY ProcsAssumption DEF Init
  <2>4. spent \subseteq Creds /\ given \subseteq Creds /\ clock \in 0 .. Len(owner)
    BY <1>1, AccountsAssumption DEF Init
  <2> QED
    BY <1>1, <1>3, <1>4, <1>5, <2>1, <2>2, <2>3, <2>4 DEF TypeOK
<1>8. Kept
  <2> SUFFICES ASSUME NEW c \in Creds PROVE c \in AtRest
    BY DEF Kept
  <2>1. CASE c = 1
    BY <1>5, <2>1, AccountsAssumption DEF AtRest
  <2>2. CASE c - 1 \in Accounts
    <3>1. home[c - 1] = c
      BY <1>3, <2>2
    <3> QED
      BY <2>2, <3>1 DEF AtRest
  <2> QED
    BY <1>2, <2>1, <2>2
<1>9. FiledAtHome /\ SpentExpired
  BY <1>1, <1>3, <1>4, <1>5 DEF FiledAtHome, SpentExpired, Init
<1>10. ASSUME NEW p \in Procs PROVE Sound(p)
  <2>1. LocalsOf(p)
    BY <1>6, IdleType, Zenon DEF LocalsOf, Reading, Chosen, Locked, Carrying, Fresh
  <2> QED
    BY <1>6, <2>1, IdleType
    DEF Sound, LocksOf, PlanOf, DisplacedOf, InstallOf, ItemOf, Locked, Filed, Decided, Fresh
<1> QED
  BY <1>7, <1>8, <1>9, <1>10 DEF SwapInv

\* The inductive invariant holds in every reachable state.
THEOREM SwapInvariant == Spec => []SwapInv
BY InitInv, NextInv, PTL DEF Spec

----------------------------------------------------------------------------
(* What the commands promise.                                              *)

\* Types, and which locks a run holds at each of its steps (use.rs phases A to C).
THEOREM TypesHold == Spec => []TypeOK
<1>1. SwapInv => TypeOK
  BY DEF SwapInv
<1> QED
  BY <1>1, SwapInvariant, PTL

\* No credential the server still honours is lost, whatever runs, dies, logs in, refreshes
\* or migrates beside the swaps, but by a rule the code states (adopt.rs:1-7).
THEOREM NothingIsLost == Spec => []Kept
<1>1. SwapInv => Kept
  BY DEF SwapInv
<1> QED
  BY <1>1, SwapInvariant, PTL

\* Credentials are filed with their own accounts, and the audit log says whose they are
\* (use.rs:1893-1986).
THEOREM FiledByOwner == Spec => []FiledAtHome
<1>1. SwapInv => FiledAtHome
  BY DEF SwapInv
<1> QED
  BY <1>1, SwapInvariant, PTL

\* Only the run that holds Claude Code's locks writes the item while they are held.
LEMMA WhoWrites ==
    ASSUME SwapInv, [Next]_vars, NEW p \in Procs, At(p, "write"), hold = p, item' # item
    PROVE  Write(p)
<1>1. left.procs \subseteq Procs /\ hold # NoProc
  <2>1. left \in Limits
    BY DEF SwapInv, TypeOK
  <2> QED
    BY <2>1, ProcsAssumption, Zenon DEF Limits
<1>2. PICK q \in Procs : Step(q)
  BY <1>1 DEF Next, vars, store, SessionLogin, Status, Login, Migrate, SessionRefresh, Tick
<1>3. Write(q)
  BY <1>2 DEF Step, StartForward, TakeNamespace, StartUndo, ReadItem, ReadIncoming, CatchUp, Decide,
     SkipRefresh, Refresh, RefreshLost, Save, SaveFails, Adopt, TakeHold, Reread, WriteFails,
     ReportFailed, Applied, Unknown, Config, Refuse, Crash, store
<1>4. hold = q
  BY <1>3 DEF Write, SwapInv, TypeOK
<1> QED
  BY <1>3, <1>4

\* A run that ends with .claude.json rewritten after its write is at its last step.
LEMMA WhoNames ==
    ASSUME SwapInv, [Next]_vars, NEW p \in Procs, At(p, "config"), name' # name, run'[p].pc = "idle"
    PROVE  Config(p)
<1>1. left.procs \subseteq Procs /\ run \in [Procs -> Runs]
  <2>1. left \in Limits /\ run \in [Procs -> Runs]
    BY DEF SwapInv, TypeOK
  <2> QED
    BY <2>1, Zenon DEF Limits
<1>2. ASSUME NEW a \in left.accounts, SessionLogin(a)
      PROVE  FALSE
  BY <1>2 DEF SessionLogin
<1>3. PICK q \in Procs : Step(q)
  BY <1>1, <1>2 DEF Next, vars, Status, Login, Migrate, SessionRefresh, Tick
<1>4. CatchUp(q) \/ Config(q)
  BY <1>3 DEF Step, StartForward, TakeNamespace, StartUndo, ReadItem, ReadIncoming, Decide,
     SkipRefresh, Refresh, RefreshLost, Save, SaveFails, Adopt, TakeHold, Reread, Write, WriteFails,
     ReportFailed, Applied, Unknown, Refuse, Crash
<1>5. q = p
  BY <1>1, <1>4 DEF CatchUp, Config, End
<1> QED
  BY <1>4, <1>5 DEF CatchUp

\* What is written into the item was not rotated away since it was read (use.rs:1213-1282).
THEOREM InstallsTheLiving == Spec => InstalledIsLive
<1>1. ASSUME SwapInv, [Next]_vars, NEW p \in Procs, At(p, "write"), item' # item
      PROVE  item' \notin spent
  <2>1. hold = p /\ NoProc \notin Procs
    BY <1>1, ProcsAssumption DEF SwapInv, TypeOK
  <2>2. Write(p)
    BY <1>1, <2>1, WhoWrites
  <2> QED
    BY <1>1, <2>2 DEF Write, SwapInv, Sound, InstallOf, ItemOf, Fresh
<1>2. SwapInv /\ [Next]_vars =>
        [\A p \in Procs : At(p, "write") /\ item' # item => item' \notin spent]_vars
  BY <1>1
<1> QED
  BY <1>2, SwapInvariant, PTL DEF Spec, InstalledIsLive

\* .claude.json ends at the account the item holds (use.rs:1444-1452).
THEOREM ConfigNamesTheInstalled == Spec => ConfigNamesTheItem
<1>1. ASSUME SwapInv, [Next]_vars, NEW p \in Procs, At(p, "config"), name' # name,
             run'[p].pc = "idle", ~run[p].login
      PROVE  name' = owner[item]
  <2>1. Config(p)
    BY <1>1, WhoNames
  <2> QED
    BY <1>1, <2>1 DEF Config, SwapInv, Sound, ItemOf
<1>2. SwapInv /\ [Next]_vars =>
        [\A p \in Procs : At(p, "config") /\ name' # name /\ run'[p].pc = "idle" /\ ~run[p].login
             => name' = owner[item]]_vars
  BY <1>1
<1> QED
  BY <1>2, SwapInvariant, PTL DEF Spec, ConfigNamesTheItem
=============================================================================
