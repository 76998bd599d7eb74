-------------------------- MODULE CodexLoginProofs --------------------------
(***************************************************************************)
(* What CodexLogin guarantees for any number of processes, accounts and    *)
(* grants.                                                                 *)
(***************************************************************************)
EXTENDS CodexLogin, SequenceTheorems, TLAPS

USE DEF None

-----------------------------------------------------------------------------
(* What one step does to the processes.                                    *)

\* The other processes are as they were.
Others(p) == \A q \in Procs \ {p} : run'[q] = run[q]

\* What a command is about.
Same(p) == run'[p].op = run[p].op /\ run'[p].key = run[p].key

LEMMA MovesFrame ==
    ASSUME TypeOK, NEW p \in Procs, NEW x \in Places, Moves(p, x)
    PROVE  /\ run' \in [Procs -> Runs] /\ Others(p) /\ Same(p)
           /\ run'[p].pc = x /\ run'[p].gained = run[p].gained
           /\ run'[p].grant = run[p].grant /\ run'[p].how = run[p].how
<1>1. run[p] \in Runs /\ [run[p] EXCEPT !.pc = x] \in Runs
  BY ZenonT(60) DEF TypeOK, Runs
<1>2. run' \in [Procs -> Runs] /\ run'[p] = [run[p] EXCEPT !.pc = x] /\ Others(p)
  BY <1>1 DEF TypeOK, Moves, Others
<1> QED BY <1>1, <1>2 DEF Same, Runs

LEMMA EndsFrame ==
    ASSUME TypeOK, NEW p \in Procs, NEW x \in Places, NEW h \in {"done", "failed"}, Ends(p, x, h)
    PROVE  /\ run' \in [Procs -> Runs] /\ Others(p) /\ Same(p)
           /\ run'[p].pc = x /\ run'[p].gained = run[p].gained
           /\ run'[p].grant = run[p].grant /\ run'[p].how = h
<1> DEFINE r == [run[p] EXCEPT !.pc = x, !.how = h]
<1>1. run[p] \in Runs /\ r \in Runs
  BY ZenonT(60) DEF TypeOK, Runs
<1>2. run' \in [Procs -> Runs] /\ run'[p] = r /\ Others(p)
  BY <1>1 DEF TypeOK, Ends, Others
<1> QED BY <1>1, <1>2 DEF Same, Runs

LEMMA IdleTypes ==
    ASSUME NEW k \in Keys
    PROVE  /\ Idle \in Runs /\ Idle.pc = "idle" /\ Idle.op = "none" /\ Idle.gained = {}
           /\ Idle.how = "failed"
<1>1. (CHOOSE i \in Keys : TRUE) \in Keys
  OBVIOUS
<1>2. [pc |-> "idle", op |-> "none", key |-> CHOOSE i \in Keys : TRUE, secret |-> FALSE,
         before |-> {}, gained |-> {}, clean |-> FALSE, grant |-> None, asked |-> FALSE,
         warned |-> FALSE, how |-> "failed"] \in Runs
  <2>1. "idle" \in Places
    BY DEF Places
  <2> QED BY <1>1, <2>1 DEF Runs
<1> QED BY <1>2 DEF Idle

LEMMA FinishesFrame ==
    ASSUME TypeOK, NEW p \in Procs, NEW how \in Over, Finishes(p, how)
    PROVE  /\ run' \in [Procs -> Runs] /\ Others(p) /\ Same(p)
           /\ run'[p].pc = how /\ run'[p].gained = {}
<1> DEFINE r == [Idle EXCEPT !.op = run[p].op, !.key = run[p].key, !.pc = how]
<1>1. run[p] \in Runs /\ how \in Places
  BY DEF TypeOK, Places
<1>2. PICK k \in Keys : k = run[p].key
  BY <1>1 DEF Runs
<1>3. Idle \in Runs /\ Idle.gained = {}
  BY <1>2, IdleTypes
<1>4. r \in Runs /\ r.op = run[p].op /\ r.key = run[p].key /\ r.pc = how /\ r.gained = {}
  BY <1>1, <1>3 DEF Runs
<1>5. run' \in [Procs -> Runs] /\ run'[p] = r /\ Others(p)
  BY <1>4 DEF TypeOK, Finishes, Others
<1> QED BY <1>4, <1>5 DEF Same

-----------------------------------------------------------------------------
(* What one process does leaves the others where they were.                *)

\* TypeOK but for the processes.
Types ==
    /\ lifecycle \in Procs \cup {NoProc}
    /\ home \in [Procs -> [there : BOOLEAN, old : BOOLEAN, cred : Grants \cup {None}]]
    /\ child \in [Procs -> {"none", "running", "gone"}]
    /\ left \subseteq Procs
    /\ named \subseteq keychain /\ keychain \subseteq Items
    /\ file \in [Keys -> Grants \cup {None}]
    /\ lock \in [Keys -> Procs \cup {NoProc}]
    /\ registry \in [Keys -> Kinds]
    /\ owner \in Seq(Keys) /\ Len(owner) <= MaxGrants
    /\ owes \in [Procs -> Grants \cup {None}]

\* Items and grants are only added.
Grown == /\ keychain \subseteq keychain'
         /\ Len(owner) <= Len(owner')
         /\ \A i \in 1 .. Len(owner) : owner'[i] = owner[i]

\* What another process holds, it holds still, and it is given no home.
LetBe(q) == /\ lifecycle' = q <=> lifecycle = q
            /\ \A k \in Keys : lock'[k] = q <=> lock[k] = q
            /\ home'[q].there => home[q].there

\* Who answers for a credential that no record names as agctl's.
Answers(p, k) ==
    /\ run[p].key = k /\ owes[p] = file[k]
    /\ \/ run[p].op = "login" /\ run[p].pc \in {"unlink", "audit", "record", "failed", "dead"}
       \/ run[p].op = "login" /\ run[p].pc \in {"discard", "unlock"} /\ run[p].how = "failed"
       \/ run[p].op = "remove" /\ run[p].pc = "done"

\* The other processes owe what they did.
Debts(p) == \A q \in Procs \ {p} : owes'[q] = owes[q]

LEMMA OwnedMeans ==
    StoredIsOwned <=>
        \A k \in Keys : file[k] # None /\ registry[k] # "owned" => \E p \in Procs : Answers(p, k)
BY DEF StoredIsOwned, Answers, At

\* A credential is answered for as it was, or by the process that moved.
LEMMA OwnedKeeps ==
    ASSUME StoredIsOwned, NEW p \in Procs, Others(p), Debts(p),
           \A k \in Keys : file'[k] # None /\ registry'[k] # "owned" =>
              \/ Answers(p, k)'
              \/ file'[k] = file[k] /\ registry[k] # "owned" /\ ~Answers(p, k)
    PROVE  StoredIsOwned'
<1>1. ASSUME NEW k \in Keys, file'[k] # None, registry'[k] # "owned"
      PROVE  \E q \in Procs : Answers(q, k)'
  <2>1. CASE Answers(p, k)'
    BY <2>1
  <2>2. CASE file'[k] = file[k] /\ registry[k] # "owned" /\ ~Answers(p, k)
    <3>1. PICK q \in Procs : Answers(q, k)
      BY <1>1, <2>2, OwnedMeans
    <3> QED BY <2>2, <3>1 DEF Answers, Others, Debts
  <2> QED BY <1>1, <2>1, <2>2
<1>2. \A k \in Keys : file'[k] # None /\ registry'[k] # "owned" => \E q \in Procs : Answers(q, k)'
  BY <1>1
<1> QED BY <1>2 DEF StoredIsOwned, Answers, At

\* What is stored is of its own account, where what is new is.
LEMMA IssuedKeeps ==
    ASSUME TypeOK, Types', IssuedInv, InstalledIsVerified, Grown,
           \A k \in Keys : \/ file'[k] \in {file[k], None}
                           \/ file'[k] \in 1 .. Len(owner) /\ owner[file'[k]] = k,
           \A q \in Procs : home'[q].cred \in {home[q].cred, None, Len(owner')}
    PROVE  IssuedInv' /\ InstalledIsVerified'
<1>1. Len(owner) \in Nat /\ Len(owner') \in Nat
  BY DEF TypeOK, Types
<1>2. \A k \in Keys : file[k] \in Nat /\ file'[k] \in Nat
  BY BoundsAssumption DEF TypeOK, Types, Grants
<1>3. \A q \in Procs : home[q].cred \in Nat
  BY BoundsAssumption DEF TypeOK, Grants
<1>4. \A q \in Procs : home'[q].cred <= Len(owner')
  BY <1>1, <1>3 DEF IssuedInv, Grown
<1>5. ASSUME NEW k \in Keys, file'[k] # None PROVE file'[k] <= Len(owner') /\ owner'[file'[k]] = k
  <2>1. file'[k] \in 1 .. Len(owner) /\ owner[file'[k]] = k
    BY <1>1, <1>2, <1>5 DEF IssuedInv, InstalledIsVerified
  <2> QED BY <1>1, <2>1 DEF Grown
<1>6. \A k \in Keys : file'[k] <= Len(owner')
  BY <1>1, <1>2, <1>5
<1> QED BY <1>4, <1>5, <1>6 DEF IssuedInv, InstalledIsVerified

\* A step of one process keeps the invariant if it keeps what is said of that process.
LEMMA StepKeeps ==
    ASSUME IInv, NEW p \in Procs, run' \in [Procs -> Runs], Others(p), Types', Grown,
           \A q \in Procs \ {p} : LetBe(q),
           LocksOf(p)', ProcessOf(p)',
           IssuedInv', InstalledIsVerified', StoredIsOwned'
    PROVE  IInv'
<1>0. TypeOK /\ \A q \in Procs : LocksOf(q) /\ ProcessOf(q)
  BY DEF IInv, TypeOK
<1>1. ASSUME NEW q \in Procs \ {p} PROVE LocksOf(q)' /\ ProcessOf(q)'
  <2>1. run'[q] = run[q] /\ LetBe(q)
    BY DEF Others
  <2>2. LocksOf(q)'
    BY <1>0, <2>1 DEF LocksOf, LetBe, Running, At
  <2>3. run[q].grant \in 1 .. Len(owner) =>
          run[q].grant \in 1 .. Len(owner') /\ owner'[run[q].grant] = owner[run[q].grant]
    <3>1. Len(owner) \in Nat /\ Len(owner') \in Nat
      BY <1>0 DEF TypeOK, Types
    <3> QED BY <3>1 DEF Grown
  <2>4. ProcessOf(q)'
    BY <1>0, <2>1, <2>3 DEF ProcessOf, LetBe, Grown
  <2> QED BY <2>2, <2>4
<1>2. TypeOK'
  BY <1>1 DEF TypeOK, Types
<1> QED BY <1>1, <1>2 DEF IInv

\* A step that changes nothing but its own process, and what the log names.
LEMMA AloneKeeps ==
    ASSUME IInv, NEW p \in Procs, run' \in [Procs -> Runs], Others(p),
           UNCHANGED <<lifecycle, home, stores, outside>>, named' \subseteq keychain,
           LocksOf(p)', ProcessOf(p)',
           \A k \in Keys : Answers(p, k) => Answers(p, k)'
    PROVE  IInv'
<1>0. TypeOK /\ IssuedInv /\ InstalledIsVerified /\ StoredIsOwned
  BY DEF IInv
<1>u. UNCHANGED <<lifecycle, home, file, lock, registry, child, left, keychain, owner, owes>>
  BY DEF stores, outside
<1>1. Types'
  BY <1>0, <1>u DEF TypeOK, Types
<1>2. Grown /\ Len(owner) \in Nat
  BY <1>0, <1>u DEF Grown, TypeOK
<1>3. \A q \in Procs \ {p} : LetBe(q)
  BY <1>u DEF LetBe
<1>4. IssuedInv' /\ InstalledIsVerified'
  BY <1>0, <1>u DEF IssuedInv, InstalledIsVerified
<1>5. StoredIsOwned'
  BY <1>0, <1>u, OwnedKeeps DEF Debts
<1> QED BY <1>1, <1>2, <1>3, <1>4, <1>5, StepKeeps

\* A step on which the process goes on with its command, holding what it held.
LEMMA OnKeeps ==
    ASSUME IInv, NEW p \in Procs, run' \in [Procs -> Runs], Others(p), Same(p),
           UNCHANGED <<lifecycle, home, stores, outside>>, named' \subseteq keychain,
           run[p].pc \notin {"idle", "install", "unlink", "audit", "erase"} \cup Over,
           run'[p].pc \in Track(run[p].op) \cup Over,
           run'[p].pc \notin {"idle", "install", "unlink", "audit", "erase"},
           run[p].op = "login" /\ run[p].pc # "lifecycle" => run'[p].pc \notin Over \cup {"lifecycle"},
           run[p].op = "login" /\ run[p].pc = "lifecycle" => run'[p].pc \in Over,
           run'[p].pc \in Early => run[p].pc \in Early,
           run'[p].gained \subseteq keychain,
           run[p].op = "login" /\ run'[p].pc \in {"ask", "lock"} =>
             /\ run'[p].grant \in 1 .. Len(owner)
             /\ owner[run'[p].grant] = run[p].key,
           \A k \in Keys : Answers(p, k) => Answers(p, k)'
    PROVE  IInv'
<1>0. /\ LocksOf(p) /\ ProcessOf(p)
      /\ UNCHANGED <<lifecycle, home, file, lock, registry, child, left, keychain, owner, owes>>
  BY DEF IInv, TypeOK, stores, outside
<1>1. LocksOf(p)'
  BY <1>0 DEF LocksOf, Running, At, Same, Over
<1>2. ProcessOf(p)'
  BY <1>0 DEF ProcessOf, Same
<1> QED BY <1>1, <1>2, AloneKeeps
-----------------------------------------------------------------------------
(* A login, as far as the verdict.                                         *)

LEMMA ArePlaces ==
    {"idle", "done", "failed", "dead", "lifecycle", "sweep", "list", "create", "child", "survey",
     "list again", "verify", "ask", "lock", "install", "unlink", "audit", "record", "discard",
     "unlock", "resolve", "erase", "drop", "read", "add"} \subseteq Places
BY DEF Places, Over

\* What a process's place says of its command.
LEMMA Tracks ==
    ASSUME IInv, NEW p \in Procs
    PROVE  /\ run[p] \in Runs
           /\ run[p].pc \in {"lifecycle", "sweep", "list", "create", "child", "survey", "list again",
                             "verify", "ask", "install", "unlink", "audit", "record", "discard",
                             "unlock"} => run[p].op = "login"
           /\ run[p].pc \in {"resolve", "erase", "drop"} => run[p].op = "remove"
           /\ run[p].pc = "lock" => run[p].op \in {"login", "remove"}
           /\ run[p].pc \in {"read", "add"} => run[p].op = "import"
           /\ run[p].pc = "idle" => run[p].op = "none"
<1>1. run[p] \in Runs /\ run[p].pc \in Track(run[p].op) \cup Over
  BY DEF IInv, TypeOK, ProcessOf
<1>2. run[p].op \in {"none", "login", "remove", "import"}
  BY <1>1 DEF Runs
<1> QED BY <1>1, <1>2 DEF Track, Over

LEMMA BeginKeeps == ASSUME IInv, NEW p \in Procs, Begin(p) PROVE IInv'
<1>0. TypeOK /\ LocksOf(p) /\ ProcessOf(p) /\ run[p].pc = "idle" /\ run[p].op = "none"
  BY Tracks DEF IInv, TypeOK, Begin, At
<1>1. PICK o \in Orders :
         run' = [run EXCEPT ![p] = [Idle EXCEPT !.op = o.op, !.key = o.key, !.secret = o.secret,
                    !.pc = CASE o.op = "login" -> "lifecycle"
                             [] o.op = "import" -> "read"
                             [] OTHER -> "resolve"]]
  BY DEF Begin
<1>2. o.op \in {"login", "remove", "import"} /\ o.key \in Keys /\ o.secret \in BOOLEAN
  BY OrdersAssumption
<1>3. PICK x \in {"lifecycle", "read", "resolve"} :
        x = CASE o.op = "login" -> "lifecycle" [] o.op = "import" -> "read" [] OTHER -> "resolve"
  OBVIOUS
<1>4. x \in Track(o.op) /\ x \in Places
  BY <1>2, <1>3 DEF Track, Places
<1> DEFINE r == [Idle EXCEPT !.op = o.op, !.key = o.key, !.secret = o.secret, !.pc = x]
<1>5. r \in Runs /\ r.op = o.op /\ r.pc = x /\ r.gained = {}
  BY <1>2, <1>4, IdleTypes DEF Runs
<1>6. run' \in [Procs -> Runs] /\ run'[p] = r /\ Others(p)
  BY <1>0, <1>1, <1>3, <1>5 DEF TypeOK, Others
<1> HIDE DEF r
<1>u. UNCHANGED <<lifecycle, home, named, file, lock, registry, child, left, keychain, owner, owes>>
  BY DEF Begin, stores, outside
<1>7. LocksOf(p)'
  <2>1. lifecycle # p /\ \A k \in Keys : lock[k] # p
    BY <1>0 DEF LocksOf, Running, At
  <2>2. x \notin {"install", "unlink", "audit", "erase"} /\ (o.op = "login" => x = "lifecycle")
    BY <1>3
  <2> QED BY <1>5, <1>6, <1>u, <2>1, <2>2 DEF LocksOf, Running, At
<1>8. ProcessOf(p)'
  BY <1>0, <1>3, <1>4, <1>5, <1>6, <1>u DEF ProcessOf
<1>9. \A k \in Keys : ~Answers(p, k)
  BY <1>0 DEF Answers
<1>10. named' \subseteq keychain
  BY <1>0, <1>u DEF TypeOK
<1> QED BY <1>6, <1>7, <1>8, <1>9, <1>10, AloneKeeps DEF Begin

LEMMA TakeLifecycleKeeps == ASSUME IInv, NEW p \in Procs, TakeLifecycle(p) PROVE IInv'
<1>0. /\ TypeOK /\ LocksOf(p) /\ ProcessOf(p) /\ run[p].pc = "lifecycle" /\ run[p].op = "login"
      /\ IssuedInv /\ InstalledIsVerified /\ StoredIsOwned
  BY Tracks DEF IInv, TypeOK, TakeLifecycle, At
<1>u. /\ lifecycle = NoProc /\ lifecycle' = p
      /\ UNCHANGED <<home, named, file, lock, registry, child, left, keychain, owner, owes>>
  BY DEF TakeLifecycle, stores, outside
<1>1. /\ run' \in [Procs -> Runs] /\ Others(p) /\ Same(p)
      /\ run'[p].pc = "sweep" /\ run'[p].gained = run[p].gained
  <2>1. "sweep" \in Places
    BY DEF Places
  <2> QED BY <1>0, <2>1, MovesFrame DEF TakeLifecycle
<1>2. Types' /\ Grown
  BY <1>0, <1>u DEF TypeOK, Types, Grown
<1>3. \A q \in Procs \ {p} : LetBe(q)
  BY <1>u, ProcsAssumption DEF LetBe
<1>4. LocksOf(p)'
  BY <1>0, <1>u, <1>1 DEF LocksOf, Running, At, Same, Over
<1>5. ProcessOf(p)'
  BY <1>0, <1>u, <1>1 DEF ProcessOf, Same, Track, Early
<1>6. IssuedInv' /\ InstalledIsVerified'
  BY <1>0, <1>u DEF IssuedInv, InstalledIsVerified
<1>7. StoredIsOwned'
  <2>1. \A k \in Keys : ~Answers(p, k)
    BY <1>0 DEF Answers
  <2> QED BY <1>0, <1>u, <1>1, <2>1, OwnedKeeps DEF Debts
<1> QED BY <1>1, <1>2, <1>3, <1>4, <1>5, <1>6, <1>7, StepKeeps

LEMMA SweepKeeps == ASSUME IInv, NEW p \in Procs, Sweep(p) PROVE IInv'
<1>0. /\ TypeOK /\ LocksOf(p) /\ ProcessOf(p) /\ run[p].pc = "sweep" /\ run[p].op = "login"
      /\ IssuedInv /\ InstalledIsVerified /\ StoredIsOwned
  BY Tracks DEF IInv, TypeOK, Sweep, At
<1>u. UNCHANGED <<lifecycle, named, file, lock, registry, child, keychain, owner, owes>>
  BY DEF Sweep, stores
<1>k. \A k \in Keys : ~Answers(p, k)
  BY <1>0 DEF Answers
<1>1. ASSUME NEW swept \in SUBSET Procs,
             home' = [q \in Procs |-> IF q \in swept THEN Gone ELSE home[q]],
             left' = left \ swept, Moves(p, "list")
      PROVE  IInv'
  <2>1. /\ run' \in [Procs -> Runs] /\ Others(p) /\ Same(p)
        /\ run'[p].pc = "list" /\ run'[p].gained = run[p].gained
    <3>1. "list" \in Places
      BY DEF Places
    <3> QED BY <1>0, <1>1, <3>1, MovesFrame
  <2>2. /\ Gone \in [there : BOOLEAN, old : BOOLEAN, cred : Grants \cup {None}]
        /\ ~Gone.there /\ Gone.cred = None
    BY DEF Gone
  <2>3. Types' /\ Grown
    BY <1>0, <1>u, <1>1, <2>2 DEF TypeOK, Types, Grown
  <2>4. \A q \in Procs : /\ home'[q].there => home[q].there
                         /\ home'[q].cred \in {home[q].cred, None}
    BY <1>1, <2>2
  <2>5. \A q \in Procs \ {p} : LetBe(q)
    BY <1>u, <2>4 DEF LetBe
  <2>6. LocksOf(p)'
    BY <1>0, <1>u, <2>1 DEF LocksOf, Running, At, Same, Over
  <2>7. ProcessOf(p)'
    BY <1>0, <1>u, <2>1, <2>4 DEF ProcessOf, Same, Track, Early
  <2>8. IssuedInv' /\ InstalledIsVerified'
    BY <1>0, <1>u, <2>3, <2>4, IssuedKeeps
  <2>9. StoredIsOwned'
    BY <1>0, <1>k, <1>u, <2>1, OwnedKeeps DEF Debts
  <2> QED BY <2>1, <2>3, <2>5, <2>6, <2>7, <2>8, <2>9, StepKeeps
<1>2. CASE Ends(p, "unlock", "failed") /\ UNCHANGED <<home, left>>
  <2>1. /\ run' \in [Procs -> Runs] /\ Others(p) /\ Same(p)
        /\ run'[p].pc = "unlock" /\ run'[p].gained = run[p].gained
    <3>1. "unlock" \in Places
      BY DEF Places
    <3> QED BY <1>0, <1>2, <3>1, EndsFrame
  <2>2. "unlock" \in Track("login") /\ "unlock" \notin Early /\ "unlock" \notin Over
    BY DEF Track, Early, Over
  <2>3. LocksOf(p)'
    BY <1>0, <1>u, <2>1 DEF LocksOf, Running, At, Same, Over
  <2>4. ProcessOf(p)'
    BY <1>0, <1>u, <1>2, <2>1, <2>2 DEF ProcessOf, Same
  <2>5. UNCHANGED <<lifecycle, home, stores, outside>> /\ named' \subseteq keychain
    BY <1>0, <1>u, <1>2 DEF stores, outside, TypeOK
  <2> QED BY <1>k, <2>1, <2>3, <2>4, <2>5, AloneKeeps
<1> QED BY <1>1, <1>2 DEF Sweep

LEMMA CreateKeeps == ASSUME IInv, NEW p \in Procs, Create(p) PROVE IInv'
<1>0. /\ TypeOK /\ LocksOf(p) /\ ProcessOf(p) /\ run[p].pc = "create" /\ run[p].op = "login"
      /\ IssuedInv /\ InstalledIsVerified /\ StoredIsOwned
  BY Tracks DEF IInv, TypeOK, Create, At
<1>u. /\ home' = [home EXCEPT ![p] = Fresh]
      /\ UNCHANGED <<lifecycle, named, file, lock, registry, left, keychain, owner, owes>>
      /\ child' \in [Procs -> {"none", "running", "gone"}]
  BY <1>0 DEF Create, stores, TypeOK
<1>1. /\ run' \in [Procs -> Runs] /\ Others(p) /\ Same(p)
      /\ run'[p].pc \in {"child", "discard"} /\ run'[p].gained = run[p].gained
  <2>1. "child" \in Places /\ "discard" \in Places
    BY DEF Places
  <2>2. CASE Moves(p, "child")
    BY <1>0, <2>1, <2>2, MovesFrame
  <2>3. CASE Ends(p, "discard", "failed")
    BY <1>0, <2>1, <2>3, EndsFrame
  <2> QED BY <2>2, <2>3 DEF Create
<1>2. Fresh \in [there : BOOLEAN, old : BOOLEAN, cred : Grants \cup {None}] /\ Fresh.cred = None
  BY DEF Gone, Fresh
<1>3. Types' /\ Grown
  BY <1>0, <1>u, <1>2 DEF TypeOK, Types, Grown
<1>4. /\ \A q \in Procs \ {p} : home'[q] = home[q]
      /\ home'[p].cred = None
  BY <1>0, <1>u, <1>2 DEF TypeOK
<1>5. \A q \in Procs \ {p} : LetBe(q)
  BY <1>u, <1>4 DEF LetBe
<1>6. LocksOf(p)'
  BY <1>0, <1>u, <1>1 DEF LocksOf, Running, At, Same, Over
<1>7. ProcessOf(p)'
  BY <1>0, <1>u, <1>1 DEF ProcessOf, Same, Track, Early
<1>8. IssuedInv' /\ InstalledIsVerified'
  BY <1>0, <1>u, <1>3, <1>4, IssuedKeeps
<1>9. StoredIsOwned'
  <2>1. \A k \in Keys : ~Answers(p, k)
    BY <1>0 DEF Answers
  <2> QED BY <1>0, <1>u, <1>1, <2>1, OwnedKeeps DEF Debts
<1> QED BY <1>1, <1>3, <1>5, <1>6, <1>7, <1>8, <1>9, StepKeeps

\* A login's own step up to the install, where it changes nothing but its process.
LEMMA LoginOnKeeps ==
    ASSUME IInv, NEW p \in Procs, run' \in [Procs -> Runs], Others(p), Same(p),
           UNCHANGED <<lifecycle, home, stores, outside>>, named' \subseteq keychain,
           run[p].pc \in {"sweep", "list", "child", "survey", "list again", "verify", "ask", "lock"},
           run[p].op = "login",
           run'[p].pc \in {"create", "child", "survey", "list again", "verify", "lock", "discard",
                           "unlock"},
           run'[p].pc = "create" => run[p].pc = "list",
           run'[p].pc = "lock" => run[p].pc = "ask" /\ run'[p].grant = run[p].grant,
           run'[p].gained \subseteq keychain
    PROVE  IInv'
<1>1. ProcessOf(p)
  BY DEF IInv
<1>2. run[p].pc \notin {"idle", "install", "unlink", "audit", "erase"} \cup Over
  BY DEF Over
<1>3. run'[p].pc \in Track(run[p].op) /\ run'[p].pc \notin Over
  BY DEF Track, Over
<1>4. run'[p].pc \in Early => run[p].pc \in Early
  BY DEF Early
<1>5. run[p].op = "login" /\ run'[p].pc \in {"ask", "lock"} =>
             /\ run'[p].grant \in 1 .. Len(owner)
             /\ owner[run'[p].grant] = run[p].key
  BY <1>1 DEF ProcessOf
<1>6. \A k \in Keys : ~Answers(p, k)
  BY DEF Answers
<1> QED BY <1>2, <1>3, <1>4, <1>5, <1>6, OnKeeps

\* A login that is refused before it has installed anything.
LEMMA RefusedKeeps ==
    ASSUME IInv, NEW p \in Procs, NEW x \in {"discard", "unlock"}, Ends(p, x, "failed"),
           UNCHANGED <<lifecycle, home, stores, outside>>, named' \subseteq keychain,
           run[p].pc \in {"sweep", "list", "list again", "ask", "lock"}, run[p].op = "login"
    PROVE  IInv'
<1>0. TypeOK /\ run[p].gained \subseteq keychain
  BY DEF IInv, ProcessOf
<1>1. /\ run' \in [Procs -> Runs] /\ Others(p) /\ Same(p) /\ run'[p].pc = x
      /\ run'[p].gained = run[p].gained
  BY <1>0, EndsFrame, ArePlaces
<1> QED BY <1>0, <1>1, LoginOnKeeps

LEMMA ListKeeps == ASSUME IInv, NEW p \in Procs, List(p) PROVE IInv'
<1>0. /\ run[p] \in Runs /\ keychain \subseteq Items
      /\ TypeOK /\ ProcessOf(p) /\ run[p].pc = "list" /\ run[p].op = "login"
      /\ UNCHANGED <<lifecycle, home, stores, outside>> /\ named' \subseteq keychain
  BY Tracks DEF IInv, TypeOK, List, At
<1>1. CASE run' = [run EXCEPT ![p].before = keychain, ![p].pc = "create"]
  <2> DEFINE r == [run[p] EXCEPT !.before = keychain, !.pc = "create"]
  <2>1. r \in Runs
    BY <1>0, ArePlaces DEF Runs
  <2>2. run' \in [Procs -> Runs] /\ run'[p] = r /\ Others(p)
    BY <1>0, <1>1, <2>1 DEF TypeOK, Others
  <2>3. Same(p) /\ run'[p].pc = "create" /\ run'[p].gained = run[p].gained
    BY <1>0, <2>1, <2>2 DEF Same, Runs
  <2> QED BY <1>0, <2>2, <2>3, LoginOnKeeps DEF ProcessOf
<1>2. CASE Ends(p, "unlock", "failed")
  BY <1>0, <1>2, RefusedKeeps, ArePlaces
<1> QED BY <1>1, <1>2 DEF List

LEMMA WaitKeeps == ASSUME IInv, NEW p \in Procs, Wait(p) PROVE IInv'
<1>0. /\ run[p] \in Runs /\ TypeOK /\ ProcessOf(p) /\ run[p].pc = "child" /\ run[p].op = "login"
      /\ UNCHANGED <<lifecycle, home, stores, outside>> /\ named' \subseteq keychain
      /\ Moves(p, "survey")
  BY Tracks DEF IInv, TypeOK, Wait, At
<1>1. run' \in [Procs -> Runs] /\ Others(p) /\ Same(p) /\ run'[p].pc = "survey"
      /\ run'[p].gained = run[p].gained
  BY <1>0, MovesFrame, ArePlaces
<1> QED BY <1>0, <1>1, LoginOnKeeps DEF ProcessOf

LEMMA SurveyKeeps == ASSUME IInv, NEW p \in Procs, Survey(p) PROVE IInv'
<1>0. /\ run[p] \in Runs /\ TypeOK /\ ProcessOf(p) /\ run[p].pc = "survey" /\ run[p].op = "login"
      /\ UNCHANGED <<lifecycle, home, stores, outside>> /\ named' \subseteq keychain
  BY Tracks DEF IInv, TypeOK, Survey, At
<1>1. PICK clean \in BOOLEAN : run' = [run EXCEPT ![p].clean = clean, ![p].pc = "list again"]
  BY DEF Survey
<1> DEFINE r == [run[p] EXCEPT !.clean = clean, !.pc = "list again"]
<1>2. r \in Runs
  BY <1>0, ArePlaces DEF Runs
<1>3. run' \in [Procs -> Runs] /\ run'[p] = r /\ Others(p)
  BY <1>0, <1>1, <1>2 DEF TypeOK, Others
<1>4. Same(p) /\ run'[p].pc = "list again" /\ run'[p].gained = run[p].gained
  BY <1>0, <1>2, <1>3 DEF Same, Runs
<1> QED BY <1>0, <1>3, <1>4, LoginOnKeeps DEF ProcessOf

LEMMA ListAgainKeeps == ASSUME IInv, NEW p \in Procs, ListAgain(p) PROVE IInv'
<1>0. /\ run[p] \in Runs /\ TypeOK /\ ProcessOf(p) /\ run[p].pc = "list again" /\ run[p].op = "login"
      /\ UNCHANGED <<lifecycle, home, stores, outside>> /\ named' \subseteq keychain
  BY Tracks DEF IInv, TypeOK, ListAgain, At
<1>1. CASE run' = [run EXCEPT ![p].gained = keychain \ run[p].before, ![p].before = {}, ![p].pc = "verify"]
  <2>0. PICK g \in SUBSET Items : g = keychain \ run[p].before /\ g \subseteq keychain
    BY <1>0 DEF TypeOK
  <2> DEFINE r == [run[p] EXCEPT !.gained = g, !.before = {}, !.pc = "verify"]
  <2>1. r \in Runs
    BY <1>0, ArePlaces DEF Runs
  <2>2. run' \in [Procs -> Runs] /\ run'[p] = r /\ Others(p)
    BY <1>0, <1>1, <2>0, <2>1 DEF TypeOK, Others
  <2>3. Same(p) /\ run'[p].pc = "verify" /\ run'[p].gained = g
    BY <1>0, <2>1, <2>2 DEF Same, Runs
  <2> QED BY <1>0, <2>0, <2>2, <2>3, LoginOnKeeps
<1>2. CASE Ends(p, "discard", "failed")
  BY <1>0, <1>2, RefusedKeeps, ArePlaces
<1> QED BY <1>1, <1>2 DEF ListAgain

LEMMA VerifyKeeps == ASSUME IInv, NEW p \in Procs, Verify(p) PROVE IInv'
<1>0. /\ run[p] \in Runs /\ TypeOK /\ LocksOf(p) /\ ProcessOf(p) /\ IssuedInv
      /\ run[p].pc = "verify" /\ run[p].op = "login"
      /\ UNCHANGED <<lifecycle, home, stores, outside>>
  BY Tracks DEF IInv, TypeOK, Verify, At
<1>u. UNCHANGED <<lifecycle, home, file, lock, registry, child, left, keychain, owner, owes>>
  BY <1>0 DEF stores, outside
<1>k. \A k \in Keys : ~Answers(p, k)
  BY <1>0 DEF Answers
<1>1. CASE /\ home[p].cred # None
           /\ run' = [run EXCEPT ![p].grant = home[p].cred, ![p].key = owner[home[p].cred],
                                 ![p].clean = FALSE, ![p].pc = "ask"]
           /\ UNCHANGED named
  <2>1. PICK g \in Grants : g = home[p].cred /\ g \in 1 .. Len(owner)
    <3>1. home[p].cred \in Grants /\ home[p].cred <= Len(owner) /\ Len(owner) \in Nat
      BY <1>0, <1>1 DEF TypeOK, IssuedInv
    <3> QED BY <3>1 DEF Grants
  <2>2. PICK k \in Keys : k = owner[g]
    BY <1>0, <2>1 DEF TypeOK
  <2> DEFINE r == [run[p] EXCEPT !.grant = g, !.key = k, !.clean = FALSE, !.pc = "ask"]
  <2>3. r \in Runs
    BY <1>0, ArePlaces DEF Runs
  <2>4. run' \in [Procs -> Runs] /\ run'[p] = r /\ Others(p)
    BY <1>0, <1>1, <2>1, <2>2, <2>3 DEF TypeOK, Others
  <2>5. /\ run'[p].op = "login" /\ run'[p].key = k /\ run'[p].grant = g /\ run'[p].pc = "ask"
        /\ run'[p].gained = run[p].gained
    BY <1>0, <2>3, <2>4 DEF Runs
  <2>6. LocksOf(p)'
    BY <1>0, <1>u, <2>5 DEF LocksOf, Running, At, Over
  <2>7. ProcessOf(p)'
    BY <1>0, <1>u, <2>1, <2>2, <2>5 DEF ProcessOf, Track, Early
  <2>8. named' \subseteq keychain
    BY <1>0, <1>1 DEF TypeOK
  <2> QED BY <1>0, <1>k, <2>4, <2>6, <2>7, <2>8, AloneKeeps
<1>2. ASSUME NEW warned \in BOOLEAN,
             named' = IF warned THEN named ELSE named \cup run[p].gained,
             run' = [run EXCEPT ![p].warned = warned, ![p].pc = "discard", ![p].how = "failed"]
      PROVE  IInv'
  <2> DEFINE r == [run[p] EXCEPT !.warned = warned, !.pc = "discard", !.how = "failed"]
  <2>1. r \in Runs
    BY <1>0, ArePlaces DEF Runs
  <2>2. run' \in [Procs -> Runs] /\ run'[p] = r /\ Others(p)
    BY <1>0, <1>2, <2>1 DEF TypeOK, Others
  <2>3. Same(p) /\ run'[p].pc = "discard" /\ run'[p].gained = run[p].gained
    BY <1>0, <2>1, <2>2 DEF Same, Runs
  <2>4. named' \subseteq keychain /\ run[p].gained \subseteq keychain
    BY <1>0, <1>2 DEF TypeOK, ProcessOf
  <2> QED BY <1>0, <2>2, <2>3, <2>4, LoginOnKeeps
<1> QED BY <1>1, <1>2 DEF Verify

LEMMA AskKeeps == ASSUME IInv, NEW p \in Procs, Ask(p) PROVE IInv'
<1>0. /\ run[p] \in Runs /\ TypeOK /\ ProcessOf(p) /\ run[p].pc = "ask" /\ run[p].op = "login"
      /\ UNCHANGED <<lifecycle, home, stores, outside>> /\ named' \subseteq keychain
  BY Tracks DEF IInv, TypeOK, Ask, At
<1>1. PICK known \in BOOLEAN : known = (registry[run[p].key] = "owned")
  OBVIOUS
<1>2. CASE run' = [run EXCEPT ![p].asked = known, ![p].pc = "lock"]
  <2> DEFINE r == [run[p] EXCEPT !.asked = known, !.pc = "lock"]
  <2>1. r \in Runs
    BY <1>0, ArePlaces DEF Runs
  <2>2. run' \in [Procs -> Runs] /\ run'[p] = r /\ Others(p)
    BY <1>0, <1>2, <2>1 DEF TypeOK, Others
  <2>3. Same(p) /\ run'[p].pc = "lock" /\ run'[p].gained = run[p].gained /\ run'[p].grant = run[p].grant
    BY <1>0, <2>1, <2>2 DEF Same, Runs
  <2> QED BY <1>0, <2>2, <2>3, LoginOnKeeps DEF ProcessOf
<1>3. CASE Ends(p, "discard", "failed")
  BY <1>0, <1>3, RefusedKeeps, ArePlaces
<1> QED BY <1>1, <1>2, <1>3 DEF Ask

-----------------------------------------------------------------------------
(* From the namespace's lock to the end of a command.                      *)

\* A step of a process that goes on with its command, whatever it does to its home, its namespace
\* and the registry.
LEMMA WorksKeeps ==
    ASSUME IInv, NEW p \in Procs, run' \in [Procs -> Runs], Others(p), Same(p), Types', Debts(p),
           UNCHANGED <<keychain, owner>>,
           \A q \in Procs \ {p} : (lifecycle' = q <=> lifecycle = q) /\ home'[q] = home[q],
           \A q \in Procs \ {p}, k \in Keys : lock'[k] = q <=> lock[k] = q,
           LocksOf(p)',
           home'[p].there => home[p].there,
           home'[p].cred \in {home[p].cred, None},
           run'[p].pc \in Track(run[p].op) \cup Over,
           run'[p].pc \notin Early,
           run'[p].gained \subseteq keychain,
           run[p].op = "login" /\ run'[p].pc \in {"ask", "lock", "install"} =>
             run[p].pc \in {"ask", "lock", "install"} /\ run'[p].grant = run[p].grant,
           \A k \in Keys : \/ file'[k] \in {file[k], None}
                           \/ file'[k] \in 1 .. Len(owner) /\ owner[file'[k]] = k,
           \A k \in Keys : file'[k] # None /\ registry'[k] # "owned" =>
              \/ Answers(p, k)'
              \/ file'[k] = file[k] /\ registry[k] # "owned" /\ ~Answers(p, k)
    PROVE  IInv'
<1>0. TypeOK /\ ProcessOf(p) /\ IssuedInv /\ InstalledIsVerified /\ StoredIsOwned
  BY DEF IInv
<1>1. Grown
  BY <1>0 DEF Grown, TypeOK
<1>2. \A q \in Procs \ {p} : LetBe(q)
  BY DEF LetBe
<1>3. ProcessOf(p)'
  BY <1>0 DEF ProcessOf, Same
<1>4. IssuedInv' /\ InstalledIsVerified'
  BY <1>0, <1>1, IssuedKeeps
<1>5. StoredIsOwned'
  BY <1>0, OwnedKeeps
<1> QED BY <1>1, <1>2, <1>3, <1>4, <1>5, StepKeeps

LEMMA GiveUpKeeps == ASSUME IInv, NEW p \in Procs, GiveUp(p) PROVE IInv'
<1>0. /\ TypeOK /\ LocksOf(p) /\ ProcessOf(p) /\ run[p].pc = "child" /\ run[p].op = "login"
      /\ UNCHANGED <<lifecycle, home, named, file, lock, registry, keychain, owner, owes>>
      /\ Leaves(p) /\ Ends(p, "discard", "failed")
  BY Tracks DEF IInv, TypeOK, GiveUp, At, stores
<1>1. /\ run' \in [Procs -> Runs] /\ Others(p) /\ Same(p) /\ run'[p].pc = "discard"
      /\ run'[p].gained = run[p].gained
  BY <1>0, EndsFrame, ArePlaces
<1>2. Types'
  BY <1>0 DEF TypeOK, Types, Leaves
<1>3. LocksOf(p)'
  BY <1>0, <1>1 DEF LocksOf, Running, At, Same, Over
<1>4. "discard" \in Track("login") /\ "discard" \notin Early
  BY DEF Track, Early
<1>5. \A k \in Keys : ~Answers(p, k)
  BY <1>0 DEF Answers
<1> QED BY <1>0, <1>1, <1>2, <1>3, <1>4, <1>5, WorksKeeps DEF ProcessOf, Debts

LEMMA TakeNamespaceKeeps == ASSUME IInv, NEW p \in Procs, TakeNamespace(p) PROVE IInv'
<1>0. /\ run[p] \in Runs /\ TypeOK /\ LocksOf(p) /\ ProcessOf(p) /\ run[p].pc = "lock"
      /\ run[p].op \in {"login", "remove"}
      /\ UNCHANGED <<lifecycle, home, named, file, registry, child, left, keychain, owner, owes>>
  BY Tracks DEF IInv, TypeOK, TakeNamespace, At, outside
<1>k. PICK k \in Keys : k = run[p].key
  BY <1>0 DEF Runs
<1>x. PICK x \in {"install", "erase"} : x = IF run[p].op = "login" THEN "install" ELSE "erase"
  OBVIOUS
<1>m. Moves(p, x) /\ lock[k] = NoProc /\ lock' = [lock EXCEPT ![k] = p]
  BY <1>k, <1>x DEF TakeNamespace
<1>1. /\ run' \in [Procs -> Runs] /\ Others(p) /\ Same(p) /\ run'[p].pc = x
      /\ run'[p].gained = run[p].gained /\ run'[p].grant = run[p].grant
  BY <1>0, <1>m, MovesFrame, ArePlaces
<1>2. Types'
  BY <1>0, <1>m DEF TypeOK, Types
<1>3. \A i \in Keys : lock'[i] = IF i = k THEN p ELSE lock[i]
  BY <1>0, <1>m DEF TypeOK
<1>4. LocksOf(p)'
  <2>1. \A i \in Keys : lock[i] # p
    BY <1>0 DEF LocksOf
  <2>2. \A i \in Keys : lock'[i] = p <=> i = k
    BY <1>3, <2>1
  <2> QED BY <1>0, <1>k, <1>1, <2>2 DEF LocksOf, Running, At, Same, Over
<1>5. \A q \in Procs \ {p}, i \in Keys : lock'[i] = q <=> lock[i] = q
  BY <1>m, <1>3, ProcsAssumption
<1>6. x \in Track(run[p].op) /\ x \notin Early
  BY <1>0, <1>x DEF Track, Early
<1>7. \A i \in Keys : Answers(p, i) => Answers(p, i)'
  BY <1>0, <1>1 DEF Answers, Same
<1> QED BY <1>0, <1>1, <1>2, <1>4, <1>5, <1>6, <1>7, WorksKeeps DEF ProcessOf, Debts

LEMMA BusyKeeps == ASSUME IInv, NEW p \in Procs, Busy(p) PROVE IInv'
<1>0. /\ run[p] \in Runs /\ TypeOK /\ ProcessOf(p)
      /\ UNCHANGED <<lifecycle, home, stores, outside>> /\ named' \subseteq keychain
  BY Tracks DEF IInv, TypeOK, Busy
<1>1. CASE run[p].pc = "lock" /\ run[p].op = "login" /\ Ends(p, "discard", "failed")
  BY <1>0, <1>1, RefusedKeeps
<1>2. CASE /\ Finishes(p, "failed")
           /\ run[p].pc = "lifecycle" \/ (run[p].pc = "lock" /\ run[p].op # "login")
  <2>1. /\ run' \in [Procs -> Runs] /\ Others(p) /\ Same(p) /\ run'[p].pc = "failed"
        /\ run'[p].gained = {}
    BY <1>0, <1>2, FinishesFrame DEF Over
  <2>2. run[p].pc \notin {"idle", "install", "unlink", "audit", "erase"} \cup Over
    BY <1>2 DEF Over
  <2>3. /\ run'[p].pc \in Over /\ run'[p].pc \notin Early /\ run'[p].gained \subseteq keychain
        /\ run'[p].pc \notin {"idle", "install", "unlink", "audit", "erase", "ask", "lock"}
    BY <2>1 DEF Over, Early
  <2>4. \A k \in Keys : Answers(p, k) => Answers(p, k)'
    BY <1>2, <2>1 DEF Answers, Same
  <2>5. /\ run[p].op = "login" /\ run[p].pc # "lifecycle" => run'[p].pc \notin Over \cup {"lifecycle"}
        /\ run[p].op = "login" /\ run[p].pc = "lifecycle" => run'[p].pc \in Over
        /\ run'[p].pc \in Track(run[p].op) \cup Over
        /\ run'[p].pc \in Early => run[p].pc \in Early
        /\ run[p].op = "login" /\ run'[p].pc \in {"ask", "lock"} =>
             /\ run'[p].grant \in 1 .. Len(owner)
             /\ owner[run'[p].grant] = run[p].key
    BY <1>2, <2>3
  <2> QED BY <1>0, <2>1, <2>2, <2>3, <2>4, <2>5, OnKeeps
<1> QED BY <1>1, <1>2 DEF Busy, At

LEMMA InstallKeeps == ASSUME IInv, NEW p \in Procs, Install(p) PROVE IInv'
<1>0. /\ run[p] \in Runs /\ TypeOK /\ LocksOf(p) /\ ProcessOf(p) /\ run[p].pc = "install"
      /\ run[p].op = "login"
      /\ UNCHANGED <<lifecycle, home, named, registry, child, left, keychain, owner>>
  BY Tracks DEF IInv, TypeOK, Install, At, outside
<1>k. PICK k \in Keys, g \in Grants \cup {None} : k = run[p].key /\ g = run[p].grant
  BY <1>0 DEF Runs
<1>g. g \in 1 .. Len(owner) /\ owner[g] = k
  BY <1>0, <1>k DEF ProcessOf
<1>l. \A i \in Keys : lock[i] = p <=> i = k
  BY <1>0, <1>k DEF LocksOf
<1>a. \A i \in Keys : ~Answers(p, i)
  BY <1>0 DEF Answers
<1>1. CASE /\ file' = [file EXCEPT ![k] = g]
           /\ run' = [run EXCEPT ![p].grant = None, ![p].asked = FALSE, ![p].pc = "unlink"]
           /\ owes' = [owes EXCEPT ![p] = g]
           /\ UNCHANGED lock
  <2> DEFINE r == [run[p] EXCEPT !.grant = None, !.asked = FALSE, !.pc = "unlink"]
  <2>1. r \in Runs
    BY <1>0, ArePlaces DEF Runs
  <2>2. run' \in [Procs -> Runs] /\ run'[p] = r /\ Others(p)
    BY <1>0, <1>1, <2>1 DEF TypeOK, Others
  <2>3. Same(p) /\ run'[p].pc = "unlink" /\ run'[p].gained = run[p].gained
    BY <1>0, <2>1, <2>2 DEF Same, Runs
  <2>4. /\ Types' /\ \A i \in Keys : file'[i] = IF i = k THEN g ELSE file[i]
        /\ owes'[p] = g /\ Debts(p)
    BY <1>0, <1>1 DEF TypeOK, Types, Debts
  <2>5. LocksOf(p)'
    BY <1>0, <1>k, <1>l, <1>1, <2>3 DEF LocksOf, Running, At, Same, Over
  <2>6. "unlink" \in Track("login") /\ "unlink" \notin Early
    BY DEF Track, Early
  <2>7. Answers(p, k)'
    BY <1>0, <1>k, <2>3, <2>4 DEF Answers, Same
  <2>8. \A i \in Keys : file'[i] # None /\ registry'[i] # "owned" =>
              \/ Answers(p, i)'
              \/ file'[i] = file[i] /\ registry[i] # "owned" /\ ~Answers(p, i)
    BY <1>0, <1>a, <2>4, <2>7
  <2> QED BY <1>0, <1>g, <1>1, <2>2, <2>3, <2>4, <2>5, <2>6, <2>8, WorksKeeps DEF ProcessOf, Debts
<1>2. CASE /\ lock' = [lock EXCEPT ![k] = NoProc] /\ Ends(p, "discard", "failed")
           /\ UNCHANGED <<file, owes>>
  <2>1. /\ run' \in [Procs -> Runs] /\ Others(p) /\ Same(p) /\ run'[p].pc = "discard"
        /\ run'[p].gained = run[p].gained
    BY <1>0, <1>2, EndsFrame, ArePlaces
  <2>2. Types' /\ \A i \in Keys : lock'[i] = IF i = k THEN NoProc ELSE lock[i]
    BY <1>0, <1>2 DEF TypeOK, Types
  <2>3. LocksOf(p)'
    <3>1. \A i \in Keys : lock'[i] # p
      BY <1>l, <2>2, ProcsAssumption
    <3> QED BY <1>0, <2>1, <3>1 DEF LocksOf, Running, At, Same, Over
  <2>4. \A q \in Procs \ {p}, i \in Keys : lock'[i] = q <=> lock[i] = q
    BY <1>l, <2>2, ProcsAssumption
  <2>5. "discard" \in Track("login") /\ "discard" \notin Early
    BY DEF Track, Early
  <2> QED BY <1>0, <1>a, <1>2, <2>1, <2>2, <2>3, <2>4, <2>5, WorksKeeps DEF ProcessOf, Debts
<1> QED BY <1>k, <1>1, <1>2 DEF Install

LEMMA UnlinkKeeps == ASSUME IInv, NEW p \in Procs, Unlink(p) PROVE IInv'
<1>0. /\ run[p] \in Runs /\ TypeOK /\ LocksOf(p) /\ ProcessOf(p) /\ run[p].pc = "unlink"
      /\ run[p].op = "login"
      /\ UNCHANGED <<lifecycle, named, file, lock, registry, child, left, keychain, owner, owes>>
      /\ home' = [home EXCEPT ![p].cred = None] /\ Moves(p, "audit")
  BY Tracks DEF IInv, TypeOK, Unlink, At, outside, stores
<1>1. /\ run' \in [Procs -> Runs] /\ Others(p) /\ Same(p) /\ run'[p].pc = "audit"
      /\ run'[p].gained = run[p].gained
  BY <1>0, MovesFrame, ArePlaces
<1>2. /\ Types' /\ home'[p].there = home[p].there /\ home'[p].cred = None
      /\ \A q \in Procs \ {p} : home'[q] = home[q]
  BY <1>0 DEF TypeOK, Types
<1>3. LocksOf(p)'
  BY <1>0, <1>1 DEF LocksOf, Running, At, Same, Over
<1>4. "audit" \in Track("login") /\ "audit" \notin Early
  BY DEF Track, Early
<1>5. \A k \in Keys : Answers(p, k) => Answers(p, k)'
  BY <1>0, <1>1 DEF Answers, Same
<1> QED BY <1>0, <1>1, <1>2, <1>3, <1>4, <1>5, WorksKeeps DEF ProcessOf, Debts

LEMMA AuditKeeps == ASSUME IInv, NEW p \in Procs, Audit(p) PROVE IInv'
<1>0. /\ run[p] \in Runs /\ TypeOK /\ LocksOf(p) /\ ProcessOf(p) /\ run[p].pc = "audit"
      /\ run[p].op = "login"
      /\ UNCHANGED <<lifecycle, home, named, file, registry, child, left, keychain, owner, owes>>
  BY Tracks DEF IInv, TypeOK, Audit, At, outside
<1>k. PICK k \in Keys : k = run[p].key /\ lock' = [lock EXCEPT ![k] = NoProc]
  BY <1>0 DEF Runs, Audit
<1>l. \A i \in Keys : lock[i] = p <=> i = k
  BY <1>0, <1>k DEF LocksOf
<1>1. /\ run' \in [Procs -> Runs] /\ Others(p) /\ Same(p)
      /\ run'[p].pc = "record" \/ (run'[p].pc = "discard" /\ run'[p].how = "failed")
      /\ run'[p].gained = run[p].gained
  <2>0. "record" \in Places /\ "discard" \in Places
    BY ArePlaces
  <2>1. CASE Moves(p, "record")
    <3>1. /\ run' \in [Procs -> Runs] /\ Others(p) /\ Same(p) /\ run'[p].pc = "record"
          /\ run'[p].gained = run[p].gained
      BY <1>0, <2>0, <2>1, MovesFrame
    <3> QED BY <3>1
  <2>2. CASE Ends(p, "discard", "failed")
    BY <1>0, <2>0, <2>2, EndsFrame
  <2> QED BY <2>1, <2>2 DEF Audit
<1>2. Types' /\ \A i \in Keys : lock'[i] = IF i = k THEN NoProc ELSE lock[i]
  BY <1>0, <1>k DEF TypeOK, Types
<1>3. LocksOf(p)'
  <2>1. \A i \in Keys : lock'[i] # p
    BY <1>l, <1>2, ProcsAssumption
  <2> QED BY <1>0, <1>1, <2>1 DEF LocksOf, Running, At, Same, Over
<1>4. \A q \in Procs \ {p}, i \in Keys : lock'[i] = q <=> lock[i] = q
  BY <1>l, <1>2, ProcsAssumption
<1>5. {"record", "discard"} \subseteq Track("login") \ Early
  BY DEF Track, Early
<1>6. \A i \in Keys : Answers(p, i) => Answers(p, i)'
  BY <1>0, <1>1 DEF Answers, Same
<1> QED BY <1>0, <1>1, <1>2, <1>3, <1>4, <1>5, <1>6, WorksKeeps DEF ProcessOf, Debts

LEMMA RecordKeeps == ASSUME IInv, NEW p \in Procs, Record(p) PROVE IInv'
<1>0. /\ run[p] \in Runs /\ TypeOK /\ LocksOf(p) /\ ProcessOf(p) /\ run[p].pc = "record"
      /\ run[p].op = "login"
      /\ UNCHANGED <<lifecycle, home, named, file, lock, child, left, keychain, owner>>
  BY Tracks DEF IInv, TypeOK, Record, At, outside
<1>k. PICK k \in Keys : k = run[p].key
  BY <1>0 DEF Runs
<1>h. PICK h \in {"done", "failed"} :
        /\ Ends(p, "discard", h)
        /\ \/ /\ h = "done" /\ registry' = [registry EXCEPT ![k] = "owned"]
              /\ owes' = [owes EXCEPT ![p] = None]
           \/ h = "failed" /\ registry' = registry /\ owes' = owes
  BY <1>k DEF Record
<1>1. /\ run' \in [Procs -> Runs] /\ Others(p) /\ Same(p) /\ run'[p].pc = "discard"
      /\ run'[p].gained = run[p].gained /\ run'[p].how = h
  <2>1. "discard" \in Places
    BY ArePlaces
  <2> QED BY <1>0, <1>h, <2>1, EndsFrame
<1>2. /\ Types' /\ Debts(p)
      /\ h = "done" => \A i \in Keys : registry'[i] = IF i = k THEN "owned" ELSE registry[i]
  BY <1>0, <1>h DEF TypeOK, Types, Kinds, Debts
<1>3. LocksOf(p)'
  BY <1>0, <1>1 DEF LocksOf, Running, At, Same, Over
<1>4. "discard" \in Track("login") /\ "discard" \notin Early
  BY DEF Track, Early
<1>5. \A i \in Keys : file'[i] # None /\ registry'[i] # "owned" =>
              \/ Answers(p, i)'
              \/ file'[i] = file[i] /\ registry[i] # "owned" /\ ~Answers(p, i)
  <2>1. CASE h = "done"
    BY <1>0, <1>k, <1>2, <2>1 DEF Answers
  <2>2. CASE h = "failed"
    BY <1>0, <1>h, <1>1, <2>2 DEF Answers, Same
  <2> QED BY <2>1, <2>2
<1> QED BY <1>0, <1>1, <1>2, <1>3, <1>4, <1>5, WorksKeeps DEF ProcessOf, Debts

LEMMA DiscardKeeps == ASSUME IInv, NEW p \in Procs, Discard(p) PROVE IInv'
<1>0. /\ run[p] \in Runs /\ TypeOK /\ LocksOf(p) /\ ProcessOf(p) /\ run[p].pc = "discard"
      /\ run[p].op = "login"
      /\ UNCHANGED <<lifecycle, named, file, lock, registry, child, keychain, owner, owes>>
      /\ Moves(p, "unlock")
  BY Tracks DEF IInv, TypeOK, Discard, At, stores
<1>1. /\ run' \in [Procs -> Runs] /\ Others(p) /\ Same(p) /\ run'[p].pc = "unlock"
      /\ run'[p].gained = run[p].gained /\ run'[p].how = run[p].how
  BY <1>0, MovesFrame, ArePlaces
<1>2. /\ Types'
      /\ home'[p].there => home[p].there
      /\ home'[p].cred = None
      /\ \A q \in Procs \ {p} : home'[q] = home[q]
  <2>1. /\ Gone \in [there : BOOLEAN, old : BOOLEAN, cred : Grants \cup {None}]
        /\ ~Gone.there /\ Gone.cred = None
    BY DEF Gone
  <2>2. CASE home' = [home EXCEPT ![p] = Gone] /\ left' = left \ {p}
    BY <1>0, <2>1, <2>2 DEF TypeOK, Types
  <2>3. CASE home' = [home EXCEPT ![p].cred = None] /\ UNCHANGED left
    BY <1>0, <2>3 DEF TypeOK, Types
  <2> QED BY <2>2, <2>3 DEF Discard
<1>3. LocksOf(p)'
  BY <1>0, <1>1 DEF LocksOf, Running, At, Same, Over
<1>4. "unlock" \in Track("login") /\ "unlock" \notin Early
  BY DEF Track, Early
<1>5. \A k \in Keys : Answers(p, k) => Answers(p, k)'
  BY <1>0, <1>1 DEF Answers, Same
<1>6. \A k \in Keys : file'[k] # None /\ registry'[k] # "owned" =>
              \/ Answers(p, k)'
              \/ file'[k] = file[k] /\ registry[k] # "owned" /\ ~Answers(p, k)
  BY <1>0, <1>5
<1>7. /\ run'[p].pc \in Track(run[p].op) \cup Over /\ run'[p].pc \notin Early
      /\ run'[p].pc \notin {"ask", "lock", "install"} /\ run'[p].gained \subseteq keychain
  BY <1>0, <1>1, <1>4 DEF ProcessOf
<1> QED BY <1>0, <1>1, <1>2, <1>3, <1>6, <1>7, WorksKeeps DEF Debts

LEMMA UnlockKeeps == ASSUME IInv, NEW p \in Procs, Unlock(p) PROVE IInv'
<1>0. /\ run[p] \in Runs /\ TypeOK /\ LocksOf(p) /\ ProcessOf(p) /\ run[p].pc = "unlock"
      /\ run[p].op = "login" /\ lifecycle = p
      /\ UNCHANGED <<home, named, file, lock, registry, child, left, keychain, owner, owes>>
      /\ lifecycle' = NoProc /\ Finishes(p, run[p].how)
  BY Tracks DEF IInv, TypeOK, Unlock, At, stores, outside, LocksOf, Running, Over
<1>1. /\ run' \in [Procs -> Runs] /\ Others(p) /\ Same(p) /\ run'[p].pc = run[p].how
      /\ run'[p].gained = {} /\ run[p].how \in {"done", "failed"}
  <2>1. run[p].how \in {"done", "failed"}
    BY <1>0 DEF Runs
  <2> QED BY <1>0, <2>1, FinishesFrame DEF Over
<1>2. Types'
  BY <1>0 DEF TypeOK, Types
<1>3. LocksOf(p)'
  BY <1>0, <1>1, ProcsAssumption DEF LocksOf, Running, At, Same, Over
<1>4. run'[p].pc \in Over /\ run'[p].pc \notin Early /\ run'[p].pc \notin {"ask", "lock", "install"}
  BY <1>1 DEF Over, Early
<1>5. \A k \in Keys : Answers(p, k) => Answers(p, k)'
  BY <1>0, <1>1 DEF Answers, Same
<1>6. \A q \in Procs \ {p} : lifecycle' = q <=> lifecycle = q
  BY <1>0, ProcsAssumption
<1> QED BY <1>0, <1>1, <1>2, <1>3, <1>4, <1>5, <1>6, WorksKeeps DEF ProcessOf, Debts

-----------------------------------------------------------------------------
(* remove and import.                                                      *)

LEMMA ResolveKeeps == ASSUME IInv, NEW p \in Procs, Resolve(p) PROVE IInv'
<1>0. /\ run[p] \in Runs /\ TypeOK /\ ProcessOf(p) /\ run[p].pc = "resolve" /\ run[p].op = "remove"
      /\ UNCHANGED <<lifecycle, home, stores, outside>> /\ named' \subseteq keychain
  BY Tracks DEF IInv, TypeOK, Resolve, At
<1>1. PICK x \in {"failed", "lock", "drop"} :
        /\ run' \in [Procs -> Runs] /\ Others(p) /\ Same(p) /\ run'[p].pc = x
        /\ run'[p].gained \subseteq keychain
  <2>1. CASE Finishes(p, "failed")
    BY <1>0, <2>1, FinishesFrame DEF Over
  <2>2. CASE Moves(p, "lock")
    BY <1>0, <2>2, MovesFrame, ArePlaces DEF ProcessOf
  <2>3. CASE Moves(p, "drop")
    BY <1>0, <2>3, MovesFrame, ArePlaces DEF ProcessOf
  <2> QED BY <2>1, <2>2, <2>3 DEF Resolve
<1>2. x \in Track("remove") \cup Over /\ x \notin Early
  BY DEF Track, Over, Early
<1>3. \A k \in Keys : Answers(p, k) => Answers(p, k)'
  BY <1>0, <1>1 DEF Answers, Same
<1>4. run[p].pc \notin {"idle", "install", "unlink", "audit", "erase"} \cup Over
  BY <1>0 DEF Over
<1> QED BY <1>0, <1>1, <1>2, <1>3, <1>4, OnKeeps

LEMMA EraseKeeps == ASSUME IInv, NEW p \in Procs, Erase(p) PROVE IInv'
<1>0. /\ run[p] \in Runs /\ TypeOK /\ LocksOf(p) /\ ProcessOf(p) /\ run[p].pc = "erase"
      /\ run[p].op = "remove"
      /\ UNCHANGED <<lifecycle, home, named, registry, child, left, keychain, owner, owes>>
  BY Tracks DEF IInv, TypeOK, Erase, At, outside
<1>k. PICK k \in Keys :
        /\ k = run[p].key /\ lock' = [lock EXCEPT ![k] = NoProc]
        /\ file' = [file EXCEPT ![k] = None] \/ file' = file
  BY <1>0 DEF Runs, Erase
<1>l. \A i \in Keys : lock[i] = p <=> i = k
  BY <1>0, <1>k DEF LocksOf
<1>1. /\ run' \in [Procs -> Runs] /\ Others(p) /\ Same(p)
      /\ run'[p].pc \in {"drop", "failed"} /\ run'[p].gained \subseteq keychain
  <2>1. CASE Moves(p, "drop")
    BY <1>0, <2>1, MovesFrame, ArePlaces DEF ProcessOf
  <2>2. CASE Finishes(p, "failed")
    BY <1>0, <2>2, FinishesFrame DEF Over
  <2> QED BY <2>1, <2>2 DEF Erase
<1>2. /\ Types'
      /\ \A i \in Keys : lock'[i] = IF i = k THEN NoProc ELSE lock[i]
      /\ \A i \in Keys : file'[i] \in {file[i], None}
  BY <1>0, <1>k DEF TypeOK, Types
<1>3. LocksOf(p)'
  <2>1. \A i \in Keys : lock'[i] # p
    BY <1>l, <1>2, ProcsAssumption
  <2> QED BY <1>0, <1>1, <2>1 DEF LocksOf, Running, At, Same, Over
<1>4. \A q \in Procs \ {p}, i \in Keys : lock'[i] = q <=> lock[i] = q
  BY <1>l, <1>2, ProcsAssumption
<1>5. {"drop", "failed"} \subseteq (Track("remove") \cup Over) \ Early
  BY DEF Track, Early, Over
<1>6. \A i \in Keys : file'[i] # None /\ registry'[i] # "owned" =>
              \/ Answers(p, i)'
              \/ file'[i] = file[i] /\ registry[i] # "owned" /\ ~Answers(p, i)
  BY <1>0, <1>1, <1>2 DEF Answers, Same
<1> QED BY <1>0, <1>1, <1>2, <1>3, <1>4, <1>5, <1>6, WorksKeeps DEF Debts

LEMMA DropKeeps == ASSUME IInv, NEW p \in Procs, Drop(p) PROVE IInv'
<1>0. /\ run[p] \in Runs /\ TypeOK /\ LocksOf(p) /\ ProcessOf(p) /\ run[p].pc = "drop"
      /\ run[p].op = "remove"
      /\ UNCHANGED <<lifecycle, home, named, file, lock, child, left, keychain, owner>>
  BY Tracks DEF IInv, TypeOK, Drop, At, outside
<1>k. PICK k \in Keys :
        /\ k = run[p].key
        /\ \/ /\ registry' = [registry EXCEPT ![k] = "none"]
              /\ owes' = [owes EXCEPT ![p] = file[k]] /\ Finishes(p, "done")
           \/ registry' = registry /\ owes' = owes /\ Finishes(p, "failed")
  BY <1>0 DEF Runs, Drop
<1>1. /\ run' \in [Procs -> Runs] /\ Others(p) /\ Same(p)
      /\ run'[p].pc \in Over /\ run'[p].gained = {}
      /\ registry' # registry => run'[p].pc = "done"
  BY <1>0, <1>k, FinishesFrame DEF Over
<1>2. /\ Types' /\ Debts(p)
      /\ \A i \in Keys : i # k => registry'[i] = registry[i]
      /\ registry' # registry => owes'[p] = file[k]
  BY <1>0, <1>k DEF TypeOK, Types, Kinds, Debts
<1>3. LocksOf(p)'
  BY <1>0, <1>1 DEF LocksOf, Running, At, Same, Over
<1>4. run'[p].pc \notin Early
  BY <1>1 DEF Early, Over
<1>5. \A i \in Keys : file'[i] # None /\ registry'[i] # "owned" =>
              \/ Answers(p, i)'
              \/ file'[i] = file[i] /\ registry[i] # "owned" /\ ~Answers(p, i)
  BY <1>0, <1>k, <1>1, <1>2 DEF Answers, Same
<1> QED BY <1>0, <1>1, <1>2, <1>3, <1>4, <1>5, WorksKeeps DEF Debts

LEMMA ReadKeeps == ASSUME IInv, NEW p \in Procs, Read(p) PROVE IInv'
<1>0. /\ run[p] \in Runs /\ TypeOK /\ ProcessOf(p) /\ run[p].pc = "read" /\ run[p].op = "import"
      /\ UNCHANGED <<lifecycle, home, stores, outside>> /\ named' \subseteq keychain
  BY Tracks DEF IInv, TypeOK, Read, At
<1>1. PICK x \in {"failed", "done", "add"} :
        /\ run' \in [Procs -> Runs] /\ Others(p) /\ Same(p) /\ run'[p].pc = x
        /\ run'[p].gained \subseteq keychain
  <2>1. CASE Finishes(p, "failed")
    BY <1>0, <2>1, FinishesFrame DEF Over
  <2>2. CASE Finishes(p, "done")
    BY <1>0, <2>2, FinishesFrame DEF Over
  <2>3. CASE Moves(p, "add")
    BY <1>0, <2>3, MovesFrame, ArePlaces DEF ProcessOf
  <2> QED BY <2>1, <2>2, <2>3 DEF Read
<1>2. x \in Track("import") \cup Over /\ x \notin Early
  BY DEF Track, Over, Early
<1>3. \A k \in Keys : ~Answers(p, k)
  BY <1>0 DEF Answers
<1>4. run[p].pc \notin {"idle", "install", "unlink", "audit", "erase"} \cup Over
  BY <1>0 DEF Over
<1> QED BY <1>0, <1>1, <1>2, <1>3, <1>4, OnKeeps

LEMMA AddKeeps == ASSUME IInv, NEW p \in Procs, Add(p) PROVE IInv'
<1>0. /\ run[p] \in Runs /\ TypeOK /\ LocksOf(p) /\ ProcessOf(p) /\ run[p].pc = "add"
      /\ run[p].op = "import"
      /\ UNCHANGED <<lifecycle, home, named, file, lock, child, left, keychain, owner, owes>>
  BY Tracks DEF IInv, TypeOK, Add, At, outside
<1>k. PICK k \in Keys :
        registry' = [registry EXCEPT ![k] = IF registry[k] = "none" THEN "imported" ELSE registry[k]]
  BY <1>0 DEF Runs, Add
<1>1. /\ run' \in [Procs -> Runs] /\ Others(p) /\ Same(p)
      /\ run'[p].pc = "done" /\ run'[p].gained = {}
  BY <1>0, FinishesFrame DEF Over, Add
<1>2. /\ Types'
      /\ \A i \in Keys : registry'[i] # "owned" => registry[i] # "owned"
  BY <1>0, <1>k DEF TypeOK, Types, Kinds
<1>3. LocksOf(p)'
  BY <1>0, <1>1 DEF LocksOf, Running, At, Same, Over
<1>4. "done" \in Over /\ "done" \notin Early
  BY DEF Early, Over
<1>5. \A i \in Keys : ~Answers(p, i)
  BY <1>0 DEF Answers
<1> QED BY <1>0, <1>1, <1>2, <1>3, <1>4, <1>5, WorksKeeps DEF Debts

-----------------------------------------------------------------------------
(* The ends nobody chose, and what runs beside.                            *)

LEMMA FreesKeeps ==
    ASSUME IInv, NEW p \in Procs, Frees(p), Running(p), Types',
           UNCHANGED <<file, registry, keychain, owner, owes>>,
           \A q \in Procs \ {p} : home'[q] = home[q],
           home'[p].there = home[p].there,
           home'[p].cred \in {home[p].cred, None}
    PROVE  IInv'
<1>0. TypeOK /\ LocksOf(p) /\ ProcessOf(p)
  BY DEF IInv, TypeOK
<1>1. /\ run' \in [Procs -> Runs] /\ Others(p) /\ Same(p) /\ run'[p].pc = "dead"
      /\ run'[p].gained = {}
  BY <1>0, FinishesFrame DEF Over, Frees
<1>2. /\ lifecycle' = IF lifecycle = p THEN NoProc ELSE lifecycle
      /\ \A k \in Keys : lock'[k] = IF lock[k] = p THEN NoProc ELSE lock[k]
  BY DEF Frees
<1>3. LocksOf(p)'
  BY <1>1, <1>2, ProcsAssumption DEF LocksOf, Running, At, Over
<1>4. /\ \A q \in Procs \ {p} : lifecycle' = q <=> lifecycle = q
      /\ \A q \in Procs \ {p}, k \in Keys : lock'[k] = q <=> lock[k] = q
  BY <1>2, ProcsAssumption
<1>5. "dead" \in Over /\ "dead" \notin Early
  BY DEF Over, Early
<1>6. \A k \in Keys : Answers(p, k) => Answers(p, k)'
  BY <1>1 DEF Answers, Same, Running, Over
<1>7. \A k \in Keys : file'[k] # None /\ registry'[k] # "owned" =>
              \/ Answers(p, k)'
              \/ file'[k] = file[k] /\ registry[k] # "owned" /\ ~Answers(p, k)
  BY <1>6
<1> QED BY <1>0, <1>1, <1>3, <1>4, <1>5, <1>7, WorksKeeps DEF Debts

LEMMA SignalKeeps == ASSUME IInv, NEW p \in Procs, Signal(p) PROVE IInv'
<1>0. /\ TypeOK /\ Frees(p) /\ Running(p) /\ home' = [home EXCEPT ![p].cred = None]
      /\ UNCHANGED <<named, file, registry, keychain, owner, owes>>
      /\ child' \in [Procs -> {"none", "running", "gone"}] /\ left' \subseteq Procs
  BY DEF IInv, TypeOK, Signal, Leaves
<1>1. /\ home' \in [Procs -> [there : BOOLEAN, old : BOOLEAN, cred : Grants \cup {None}]]
      /\ \A q \in Procs \ {p} : home'[q] = home[q]
      /\ home'[p].there = home[p].there
      /\ home'[p].cred = None
  BY <1>0 DEF TypeOK
<1>2. /\ lifecycle' \in Procs \cup {NoProc}
      /\ lock' \in [Keys -> Procs \cup {NoProc}]
  BY <1>0 DEF TypeOK, Frees
<1>3. Types'
  BY <1>0, <1>1, <1>2 DEF TypeOK, Types
<1> QED BY <1>0, <1>1, <1>3, FreesKeeps

LEMMA CrashKeeps == ASSUME IInv, NEW p \in Procs, Crash(p) PROVE IInv'
<1>0. /\ TypeOK /\ Frees(p) /\ Running(p)
      /\ UNCHANGED <<home, named, file, registry, child, left, keychain, owner, owes>>
  BY DEF IInv, Crash, outside
<1>1. /\ lifecycle' \in Procs \cup {NoProc}
      /\ lock' \in [Keys -> Procs \cup {NoProc}]
  BY <1>0 DEF TypeOK, Frees
<1>2. Types'
  BY <1>0, <1>1 DEF TypeOK, Types
<1> QED BY <1>0, <1>2, FreesKeeps

\* What no process of agctl's does: a credential may come, and no home does.
LEMMA BesideKeeps ==
    ASSUME IInv, Types', Grown, UNCHANGED <<lifecycle, file, lock, registry, run, owes>>,
           \A q \in Procs : home'[q].there = home[q].there
                            /\ home'[q].cred \in {home[q].cred, None, Len(owner')}
    PROVE  IInv'
<1>0. /\ TypeOK /\ IssuedInv /\ InstalledIsVerified /\ StoredIsOwned
      /\ \A q \in Procs : LocksOf(q) /\ ProcessOf(q)
  BY DEF IInv, TypeOK
<1>1. ASSUME NEW q \in Procs PROVE LocksOf(q)' /\ ProcessOf(q)'
  <2>1. LocksOf(q)'
    BY <1>0 DEF LocksOf, Running, At
  <2>2. run[q].grant \in 1 .. Len(owner) =>
          run[q].grant \in 1 .. Len(owner') /\ owner'[run[q].grant] = owner[run[q].grant]
    <3>1. Len(owner) \in Nat /\ Len(owner') \in Nat
      BY <1>0 DEF TypeOK, Types
    <3> QED BY <3>1 DEF Grown
  <2>3. ProcessOf(q)'
    BY <1>0, <2>2 DEF ProcessOf, Grown
  <2> QED BY <2>1, <2>3
<1>2. TypeOK'
  BY <1>0, <1>1 DEF TypeOK, Types
<1>3. IssuedInv' /\ InstalledIsVerified'
  BY <1>0, IssuedKeeps
<1>4. StoredIsOwned'
  BY <1>0 DEF StoredIsOwned, At
<1> QED BY <1>1, <1>2, <1>3, <1>4 DEF IInv

LEMMA IssueFacts ==
    ASSUME owner \in Seq(Keys), NEW k \in Keys, Issue(k)
    PROVE  /\ owner' \in Seq(Keys) /\ Len(owner') <= MaxGrants
           /\ Len(owner') \in Grants
           /\ Len(owner) <= Len(owner') /\ \A i \in 1 .. Len(owner) : owner'[i] = owner[i]
<1>1. owner' = Append(owner, k) /\ Len(owner) < MaxGrants /\ Len(owner) \in Nat /\ MaxGrants \in Nat
  BY BoundsAssumption DEF Issue
<1>2. /\ owner' \in Seq(Keys) /\ Len(owner') = Len(owner) + 1
      /\ \A i \in 1 .. Len(owner) : owner'[i] = owner[i]
  BY <1>1
<1> QED BY <1>1, <1>2 DEF Grants

LEMMA ChildKeeps == ASSUME IInv, NEW p \in Procs, Child(p) PROVE IInv'
<1>0. TypeOK
  BY DEF IInv
<1>h. /\ home \in [Procs -> [there : BOOLEAN, old : BOOLEAN, cred : Grants \cup {None}]]
      /\ home[p] \in [there : BOOLEAN, old : BOOLEAN, cred : Grants \cup {None}]
  BY <1>0 DEF TypeOK
<1>1. CASE ChildLogsIn(p) \/ LeftWrites(p)
  <2>1. /\ UNCHANGED <<lifecycle, named, file, lock, registry, run, child, left, owes>>
        /\ keychain' \in {keychain, keychain \cup {p}}
        /\ home' \in {home, [home EXCEPT ![p].cred = Len(owner')]}
    BY <1>1 DEF ChildLogsIn, LeftWrites, stores
  <2>2. PICK k \in Keys : Issue(k)
    BY <1>1 DEF ChildLogsIn, LeftWrites
  <2>3. /\ owner' \in Seq(Keys) /\ Len(owner') <= MaxGrants
        /\ Len(owner') \in Grants
        /\ Len(owner) <= Len(owner') /\ \A i \in 1 .. Len(owner) : owner'[i] = owner[i]
    BY <1>0, <2>2, IssueFacts DEF TypeOK
  <2>4. /\ home' \in [Procs -> [there : BOOLEAN, old : BOOLEAN, cred : Grants \cup {None}]]
        /\ \A q \in Procs : home'[q].there = home[q].there
                            /\ home'[q].cred \in {home[q].cred, None, Len(owner')}
    BY <1>h, <2>1, <2>3
  <2>5. keychain \subseteq keychain' /\ keychain' \subseteq Items
    BY <1>0, <2>1 DEF TypeOK, Items
  <2>6. Types' /\ Grown
    BY <1>0, <2>1, <2>3, <2>4, <2>5 DEF TypeOK, Types, Grown
  <2> QED BY <2>1, <2>4, <2>6, BesideKeeps
<1>2. CASE ChildExits(p)
  <2>1. /\ UNCHANGED <<lifecycle, home, named, file, lock, registry, keychain, owner, run, owes>>
        /\ child' \in [Procs -> {"none", "running", "gone"}] /\ left' \subseteq Procs
    BY <1>0, <1>2 DEF ChildExits, Leaves, stores, TypeOK
  <2>2. Types' /\ Grown
    BY <1>0, <2>1 DEF TypeOK, Types, Grown
  <2> QED BY <2>1, <2>2, BesideKeeps
<1>3. CASE Age(p)
  <2>1. /\ UNCHANGED <<lifecycle, named, file, lock, registry, child, left, keychain, owner, run, owes>>
        /\ home' = [home EXCEPT ![p].old = TRUE]
    BY <1>3 DEF Age, stores, outside
  <2>2. /\ home' \in [Procs -> [there : BOOLEAN, old : BOOLEAN, cred : Grants \cup {None}]]
        /\ \A q \in Procs : home'[q].there = home[q].there /\ home'[q].cred = home[q].cred
    BY <1>0, <1>h, <2>1 DEF TypeOK
  <2>3. Types' /\ Grown
    BY <1>0, <2>1, <2>2 DEF TypeOK, Types, Grown
  <2> QED BY <2>1, <2>2, <2>3, BesideKeeps
<1> QED BY <1>1, <1>2, <1>3 DEF Child

LEMMA OtherHomeKeeps == ASSUME IInv, OtherHome PROVE IInv'
<1>0. /\ TypeOK /\ keychain' = keychain \cup {Elsewhere}
      /\ UNCHANGED <<lifecycle, home, named, file, lock, registry, child, left, owner, run, owes>>
  BY DEF IInv, OtherHome, stores
<1>1. Types' /\ Grown
  BY <1>0 DEF TypeOK, Types, Grown, Items
<1> QED BY <1>0, <1>1, BesideKeeps

LEMMA StutterKeeps == ASSUME IInv, UNCHANGED vars PROVE IInv'
<1>0. /\ TypeOK
      /\ UNCHANGED <<lifecycle, home, named, file, lock, registry, child, left, keychain, owner, run, owes>>
  BY DEF IInv, vars, stores, outside
<1>1. Types' /\ Grown
  BY <1>0 DEF TypeOK, Types, Grown
<1> QED BY <1>0, <1>1, BesideKeeps

-----------------------------------------------------------------------------
(* The invariant holds of every behaviour.                                 *)

LEMMA InvInit == Init => IInv
<1> SUFFICES ASSUME Init PROVE IInv
  OBVIOUS
<1>1. PICK k \in Keys :
         /\ \A j \in Keys : registry[j] = "owned" => j = k
         /\ owner = IF registry[k] = "owned" THEN <<k>> ELSE <<>>
         /\ file = [j \in Keys |-> IF registry[j] = "owned" THEN 1 ELSE None]
  BY DEF Init
<1>2. /\ lifecycle = NoProc /\ home = [p \in Procs |-> Gone] /\ child = [p \in Procs |-> "none"]
      /\ left = {} /\ keychain = {} /\ named = {} /\ lock = [i \in Keys |-> NoProc]
      /\ run = [p \in Procs |-> Idle] /\ owes = [p \in Procs |-> None]
      /\ registry \in [Keys -> {"none", "owned", "imported"}]
  BY StartsAssumption DEF Init
<1>3. \A p \in Procs : run[p] \in Runs /\ run[p].pc = "idle" /\ run[p].op = "none" /\ run[p].gained = {}
  BY <1>2, IdleTypes
<1>4. MaxGrants \in Nat /\ 1 \in Grants
  BY BoundsAssumption DEF Grants
<1>5. /\ owner \in Seq(Keys) /\ Len(owner) \in Nat /\ Len(owner) <= MaxGrants
      /\ \A j \in Keys : registry[j] = "owned" => Len(owner) = 1 /\ owner[1] = j
  <2>1. CASE registry[k] = "owned"
    <3>1. owner = <<k>>
      BY <1>1, <2>1
    <3>2. <<k>> \in Seq(Keys) /\ Len(<<k>>) = 1 /\ <<k>>[1] = k
      OBVIOUS
    <3> QED BY <1>1, <1>4, <3>1, <3>2 DEF Grants
  <2>2. CASE registry[k] # "owned"
    <3>1. owner = <<>>
      BY <1>1, <2>2
    <3>2. <<>> \in Seq(Keys) /\ Len(<<>>) = 0
      OBVIOUS
    <3> QED BY <1>1, <1>4, <2>2, <3>1, <3>2
  <2> QED BY <2>1, <2>2
<1>6. /\ Gone \in [there : BOOLEAN, old : BOOLEAN, cred : Grants \cup {None}]
      /\ ~Gone.there /\ Gone.cred = None
  BY DEF Gone
<1>7. TypeOK
  <2>1. \A p \in Procs : LocksOf(p)
    BY <1>2, <1>3, ProcsAssumption DEF LocksOf, Running
  <2>2. /\ home \in [Procs -> [there : BOOLEAN, old : BOOLEAN, cred : Grants \cup {None}]]
        /\ run \in [Procs -> Runs]
        /\ file \in [Keys -> Grants \cup {None}] /\ owes \in [Procs -> Grants \cup {None}]
        /\ registry \in [Keys -> Kinds]
    BY <1>1, <1>2, <1>3, <1>4, <1>6 DEF Kinds
  <2> QED BY <1>2, <1>5, <2>1, <2>2 DEF TypeOK
<1>8. \A p \in Procs : ProcessOf(p)
  BY <1>2, <1>3, <1>6 DEF ProcessOf, Track
<1>9. IssuedInv /\ InstalledIsVerified
  <2>1. \A j \in Keys : file[j] = None \/ (file[j] = 1 /\ registry[j] = "owned")
    BY <1>1
  <2>2. \A p \in Procs : home[p].cred = None
    BY <1>2, <1>6
  <2> QED BY <1>5, <2>1, <2>2 DEF IssuedInv, InstalledIsVerified
<1>10. StoredIsOwned
  BY <1>1 DEF StoredIsOwned
<1> QED BY <1>7, <1>8, <1>9, <1>10 DEF IInv

LEMMA InvStep == IInv /\ [Next]_vars => IInv'
<1> SUFFICES ASSUME IInv, [Next]_vars PROVE IInv'
  OBVIOUS
<1>1. ASSUME NEW p \in Procs, Step(p) PROVE IInv'
  BY <1>1, BeginKeeps, TakeLifecycleKeeps, SweepKeeps, ListKeeps, CreateKeeps, WaitKeeps,
     GiveUpKeeps, SurveyKeeps, ListAgainKeeps, VerifyKeeps, AskKeeps, TakeNamespaceKeeps,
     InstallKeeps, UnlinkKeeps, AuditKeeps, RecordKeeps, DiscardKeeps, UnlockKeeps, ResolveKeeps,
     EraseKeeps, DropKeeps, ReadKeeps, AddKeeps DEF Step
<1>2. ASSUME NEW p \in Procs, Busy(p) \/ Child(p) \/ Signal(p) \/ Crash(p) PROVE IInv'
  BY <1>2, BusyKeeps, ChildKeeps, SignalKeeps, CrashKeeps
<1> QED BY <1>1, <1>2, OtherHomeKeeps, StutterKeeps DEF Next

LEMMA InvAlways == Spec => []IInv
BY InvInit, InvStep, PTL DEF Spec

\* Every variable keeps its type, and every lock is held where its holder means to hold it: one
\* login at a time is past the lifecycle lock, and one command in a namespace.
THEOREM TypeCorrect == Spec => []TypeOK
<1>1. IInv => TypeOK
  BY DEF IInv
<1> QED BY <1>1, InvAlways, PTL

\* What a login installs is the grant that was verified, of the account it is installed for,
\* whatever the child left running has put into the scratch home since.
THEOREM InstallsTheVerified == Spec => []InstalledIsVerified
<1>1. IInv => InstalledIsVerified
  BY DEF IInv
<1> QED BY <1>1, InvAlways, PTL

\* Every stored credential is recorded as agctl's own, or is the very grant that a login installed
\* and has not recorded, being between the two or having failed or died there, or that a removal
\* left when it took the record.
THEOREM StoredIsRecorded == Spec => []StoredIsOwned
<1>1. IInv => StoredIsOwned
  BY DEF IInv
<1> QED BY <1>1, InvAlways, PTL

\* Only a sweep, and a login's own end, remove a scratch home.
LEMMA OnlySweeps ==
    ASSUME IInv, Next, NEW p \in Procs, home[p].there, ~home'[p].there
    PROVE  Discard(p) \/ \E q \in Procs : Sweep(q)
<1>0. home \in [Procs -> [there : BOOLEAN, old : BOOLEAN, cred : Grants \cup {None}]]
  BY DEF IInv, TypeOK
<1>1. ASSUME NEW q \in Procs, Step(q), ~Sweep(q), ~(q = p /\ Discard(q))
      PROVE  home'[p].there = home[p].there
  <2>1. CASE Create(q)
    <3>1. Fresh.there
      BY DEF Fresh, Gone
    <3>2. home' = [home EXCEPT ![q] = Fresh]
      BY <2>1 DEF Create
    <3> QED BY <1>0, <3>1, <3>2
  <2>2. CASE Unlink(q)
    BY <1>0, <2>2 DEF Unlink
  <2>3. CASE Discard(q)
    BY <1>0, <1>1, <2>3 DEF Discard
  <2>4. CASE ~Create(q) /\ ~Unlink(q) /\ ~Discard(q)
    BY <1>1, <2>4 DEF Step, Begin, TakeLifecycle, List, Wait, GiveUp, Survey, ListAgain, Verify,
       Ask, TakeNamespace, Install, Audit, Record, Unlock, Resolve, Erase, Drop, Read, Add
  <2> QED BY <2>1, <2>2, <2>3, <2>4
<1>2. ASSUME NEW q \in Procs, Busy(q) \/ Child(q) \/ Signal(q) \/ Crash(q)
      PROVE  home'[p].there = home[p].there
  BY <1>0, <1>2 DEF Busy, Child, ChildLogsIn, ChildExits, LeftWrites, Age, Signal, Crash
<1>3. OtherHome => home'[p].there = home[p].there
  BY DEF OtherHome
<1> QED BY <1>1, <1>2, <1>3 DEF Next

\* The scratch home of a login that is under way is removed by that login alone, however long its
\* child runs and whatever logins are begun and killed beside it.
THEOREM SweepsSpareTheLiving == Spec => SweepSparesTheLiving
<1>1. ASSUME IInv, [Next]_vars, NEW p \in Procs, home[p].there, ~home'[p].there, Running(p)
      PROVE  At(p, "discard")
  <2>1. Next
    BY <1>1 DEF vars
  <2>2. CASE Discard(p)
    BY <2>2 DEF Discard
  <2>3. ASSUME NEW q \in Procs, Sweep(q) PROVE FALSE
    <3>1. LocksOf(p) /\ LocksOf(q) /\ ProcessOf(p) /\ run[q].pc = "sweep" /\ run[q].op = "login"
      BY <1>1, <2>3, Tracks DEF IInv, TypeOK, Sweep, At
    <3>2. lifecycle = p
      BY <1>1, <3>1 DEF LocksOf, ProcessOf, At, Early
    <3>3. lifecycle = q
      BY <3>1 DEF LocksOf, Running, At, Over
    <3>4. run[p].pc \notin Early
      BY <1>1, <3>1 DEF ProcessOf
    <3> QED BY <3>1, <3>2, <3>3, <3>4 DEF Early
  <2> QED BY <1>1, <2>1, <2>2, <2>3, OnlySweeps
<1>2. IInv /\ [Next]_vars =>
        [\A p \in Procs : home[p].there /\ ~home'[p].there /\ Running(p) => At(p, "discard")]_vars
  BY <1>1
<1> QED BY <1>2, InvAlways, PTL DEF Spec, SweepSparesTheLiving

=============================================================================
