--------------------------- MODULE AccountsProofs ---------------------------
(***************************************************************************)
(* What Accounts guarantees for any number of processes, accounts and      *)
(* grants.                                                                 *)
(***************************************************************************)
EXTENDS Accounts, FiniteSetTheorems, TLAPS

USE DEF None

----------------------------------------------------------------------------
(* What one step does to the processes.                                    *)

LEMMA IdleTypes == /\ NoRecord \in Records
                   /\ Idle.read \in Registries
                   /\ Idle \in Runs
                   /\ Idle.op = "none" /\ Idle.pc = "idle" /\ Idle.hand = None /\ ~Idle.emptied /\ ~Idle.resumed
<1>1. NoRecord \in Records
  BY DEF NoRecord, Records
<1>2. [record |-> [k \in Keys |-> NoRecord], hidden |-> {}] \in Registries
  BY <1>1 DEF Registries
<1>3. [pc |-> "idle", op |-> "none", key |-> Unknown, secret |-> FALSE, to |-> Unknown,
         hand |-> None, probe |-> None, tries |-> 0, plan |-> {}, record |-> NoRecord,
         read |-> [record |-> [k \in Keys |-> NoRecord], hidden |-> {}],
         resumed |-> FALSE, emptied |-> FALSE] \in Runs
  BY <1>1, <1>2, KeysAssumption DEF Runs, Places
<1> QED BY <1>1, <1>2, <1>3 DEF Idle

\* The other processes are as they were.
Others(p) == \A q \in Procs \ {p} : run'[q] = run[q]

\* What a command is about, which it settles before it locks anything.
Same(p) == /\ run'[p].op = run[p].op /\ run'[p].key = run[p].key
           /\ run'[p].to = run[p].to /\ run'[p].probe = run[p].probe
           /\ run'[p].plan = run[p].plan

\* What it has read and holds on the way.
Rest(p) == /\ run'[p].hand = run[p].hand /\ run'[p].record = run[p].record
           /\ run'[p].read = run[p].read /\ run'[p].resumed = run[p].resumed
           /\ run'[p].emptied = run[p].emptied

LEMMA MovesFrame ==
    ASSUME TypeOK, NEW p \in Procs, NEW x \in Places, Moves(p, x)
    PROVE  /\ run' \in [Procs -> Runs] /\ Others(p) /\ Same(p) /\ Rest(p)
           /\ run'[p].pc = x
<1>1. run[p] \in Runs /\ [run[p] EXCEPT !.pc = x] \in Runs
  BY DEF TypeOK, Runs
<1>2. run'[p] = [run[p] EXCEPT !.pc = x] /\ Others(p)
  BY DEF TypeOK, Moves, Others
<1>3. run' \in [Procs -> Runs]
  BY <1>1 DEF TypeOK, Moves
<1>4. Same(p) /\ Rest(p) /\ run'[p].pc = x
  BY <1>1, <1>2 DEF Same, Rest, Runs
<1> QED BY <1>2, <1>3, <1>4

LEMMA EndsFrame ==
    ASSUME TypeOK, NEW p \in Procs, NEW how \in Places, Ends(p, how)
    PROVE  /\ run' \in [Procs -> Runs] /\ Others(p) /\ Same(p)
           /\ run'[p].pc = how /\ run'[p].hand = None /\ ~run'[p].resumed
           /\ run'[p].emptied = run[p].emptied
           /\ lock' \in [Keys -> Procs \cup {NoProc}]
           /\ \A k \in Keys : lock'[k] = IF lock[k] = p THEN NoProc ELSE lock[k]
<1> DEFINE r == [run[p] EXCEPT !.pc = how, !.hand = None, !.tries = 0, !.resumed = FALSE,
                               !.record = NoRecord, !.read = Idle.read]
<1>1. run[p] \in Runs /\ r \in Runs
  BY ZenonT(60), IdleTypes DEF TypeOK, Runs
<1>2. run'[p] = r /\ Others(p)
  BY DEF TypeOK, Ends, Others
<1>3. run' \in [Procs -> Runs]
  BY <1>1 DEF TypeOK, Ends
<1>4. /\ Same(p)
      /\ run'[p].pc = how /\ run'[p].hand = None /\ ~run'[p].resumed
      /\ run'[p].emptied = run[p].emptied
  BY <1>1, <1>2 DEF Same, Runs
<1>5. /\ lock' \in [Keys -> Procs \cup {NoProc}]
      /\ \A k \in Keys : lock'[k] = IF lock[k] = p THEN NoProc ELSE lock[k]
  BY DEF Ends, TypeOK
<1> QED BY <1>2, <1>3, <1>4, <1>5

LEMMA BeginFrame ==
    ASSUME TypeOK, NEW p \in Procs, Begin(p)
    PROVE  /\ UNCHANGED <<registry, config, stores, lock, issued, spent>>
           /\ run' \in [Procs -> Runs] /\ Others(p)
           /\ At(p, "idle")
           /\ run'[p].op \in Ops
           /\ run'[p].op = "login" => run'[p].pc = "authorize"
           /\ run'[p].op = "remove" => run'[p].pc = "resolve"
           /\ run'[p].op = "relocate" => run'[p].pc = "resolve"
           /\ run'[p].op = "import" => run'[p].pc = "plan"
           /\ run'[p].op = "forget" => run'[p].pc = "config"
           /\ ~run'[p].emptied /\ ~run'[p].resumed
<1>1. PICK o \in Orders :
         run' = [run EXCEPT ![p] = [Idle EXCEPT !.op = o.op, !.key = o.key, !.secret = o.secret,
                    !.pc = CASE o.op = "login" -> "authorize"
                             [] o.op = "import" -> "plan"
                             [] o.op = "forget" -> "config"
                             [] OTHER -> "resolve"]]
  BY DEF Begin
<1> DEFINE x == CASE o.op = "login" -> "authorize"
                             [] o.op = "import" -> "plan"
                             [] o.op = "forget" -> "config"
                             [] OTHER -> "resolve"
<1> DEFINE r == [Idle EXCEPT !.op = o.op, !.key = o.key, !.secret = o.secret, !.pc = x]
<1>2. o.op \in Ops /\ o.key \in Keys /\ o.secret \in BOOLEAN
  BY OrdersAssumption
<1>3. /\ x \in Places
      /\ o.op = "login" => x = "authorize"
      /\ o.op = "remove" => x = "resolve"
      /\ o.op = "relocate" => x = "resolve"
      /\ o.op = "import" => x = "plan"
      /\ o.op = "forget" => x = "config"
  BY <1>2 DEF Ops, Places
<1> HIDE DEF x
<1>4. r \in Runs /\ r.op = o.op /\ r.pc = x /\ ~r.emptied /\ ~r.resumed
  BY <1>2, <1>3, IdleTypes DEF Runs
<1>5. run'[p] = r /\ Others(p)
  BY <1>1 DEF TypeOK, Others, x
<1>6. run' \in [Procs -> Runs]
  BY <1>1, <1>4 DEF TypeOK, x
<1> QED BY <1>2, <1>3, <1>4, <1>5, <1>6 DEF Begin, stores

----------------------------------------------------------------------------
(* What one process does leaves the others where they were.                *)

\* The namespaces a process holds are left alone.
LetBe(q) ==
    \A i \in Keys : lock[i] = q =>
        /\ lock'[i] = q /\ file'[i] = file[i] /\ pending'[i] = pending[i]
        /\ IsOwned(i)' => IsOwned(i)

LEMMA OtherKeeps ==
    ASSUME TypeOK, NEW q \in Procs, PlaceOf(q), MoveOf(q), LoginOf(q), EmptiedOf(q),
           run'[q] = run[q], LetBe(q)
    PROVE  PlaceOf(q)' /\ MoveOf(q)' /\ LoginOf(q)' /\ EmptiedOf(q)'
<1>1. run[q].key \in Keys /\ run[q].to \in Keys /\ run[q] \in Runs /\ Unknown \in Keys
  BY KeysAssumption DEF TypeOK, Runs
<1>2. PlaceOf(q)' /\ EmptiedOf(q)'
  BY <1>1 DEF PlaceOf, EmptiedOf, LetBe
<1>3. LoginOf(q)'
  <2>1. run[q].op = "login" /\ run[q].pc \in {"config", "update"} => lock[run[q].key] = q
    BY <1>1 DEF PlaceOf, Holding
  <2> QED BY <1>1, <2>1 DEF LoginOf, LetBe, Current
<1>4. MoveOf(q)'
  <2> SUFFICES ASSUME run[q].op = "relocate", run[q].pc \notin Over \cup {"resolve"}
               PROVE  MoveOf(q)'
    BY DEF MoveOf
  <2>1. run[q].pc \in HoldingBoth => lock[Unknown] = q /\ lock[run[q].to] = q
    BY <1>1 DEF PlaceOf, MoveOf, Holding, HoldingBoth, At
  <2>2. run[q].pc \in HoldingBoth =>
          /\ lock'[run[q].to] = q /\ file'[Unknown] = file[Unknown]
          /\ file'[run[q].to] = file[run[q].to] /\ pending'[run[q].to] = pending[run[q].to]
          /\ IsOwned(Unknown)' => IsOwned(Unknown)
          /\ pending'[Unknown] = pending[Unknown]
    BY <1>1, <2>1 DEF LetBe
  <2>3. {"clear", "write", "config", "update", "erase", "release"} \subseteq HoldingBoth
    BY DEF HoldingBoth
  <2> QED BY <2>2, <2>3 DEF MoveOf, At, Current
<1> QED BY <1>2, <1>3, <1>4

\* Who answered for a credential still does.
LEMMA OthersAnswer ==
    ASSUME NEW p \in Procs, Others(p), NEW q \in Procs \ {p}, NEW k \in Keys
    PROVE  Answers(q, k) <=> Answers(q, k)'
BY DEF Answers, At, Others, Touches

\* No namespace is given a grant another may have.
LEMMA SharedKeeps ==
    ASSUME SharedInv, NEW p \in Procs, Others(p), spent \subseteq spent',
           \A k \in Keys, g \in Grants \ spent' : Holds(k, g)' => Holds(k, g),
           run[p].op = "relocate" /\ run[p].pc \in {"failed", "dead"} \cup HoldingBoth =>
             /\ Same(p)
             /\ run'[p].pc \in {"failed", "dead"} \cup HoldingBoth
             /\ run[p].pc \in {"failed", "dead"} => run'[p].pc \in {"failed", "dead"}
    PROVE  SharedInv'
BY DEF SharedInv, Others, Same

\* What logins hold stays theirs alone: a grant that appears somewhere is a new one, or
\* that of a login that has stored it.
LEMMA HandedKeeps ==
    ASSUME TypeOK, TypeOK', HandedInv, issued <= issued',
           \A k \in Keys, g \in Grants \cup {None} : Holds(k, g)' =>
             \/ g = None \/ \E i \in Keys : Holds(i, g)
             \/ g = issued' /\ issued < issued'
             \/ \E q \in Handed \ Handed' : g = run[q].hand,
           Handed' \subseteq Handed,
           \A q \in Handed' : run'[q].hand = run[q].hand
    PROVE  HandedInv'
<1>1. issued \in Nat /\ issued' \in Nat
  BY BoundsAssumption DEF TypeOK
<1>2. ASSUME NEW k \in Keys, NEW g \in Grants \cup {None}, Holds(k, g)' PROVE g <= issued'
  <2>1. CASE \E i \in Keys : Holds(i, g)
    BY <1>1, <2>1 DEF HandedInv, Holds, TypeOK, Grants
  <2>2. CASE \E q \in Handed : g = run[q].hand
    BY <1>1, <2>2 DEF HandedInv
  <2> QED BY <1>1, <1>2, <2>1, <2>2
<1>3. \A k \in Keys : file'[k] <= issued' /\ pending'[k] <= issued'
  <2>1. \A k \in Keys : file'[k] \in Grants \cup {None} /\ pending'[k] \in Grants \cup {None}
    BY DEF TypeOK
  <2> QED BY <1>2, <2>1 DEF Holds
<1>4. ASSUME NEW q \in Handed'
      PROVE  /\ run'[q].hand = run[q].hand /\ run[q].hand \in 1 .. issued /\ run[q].hand \in Grants
             /\ run[q].hand \in 1 .. issued'
             /\ \A r \in Handed \ {q} : run[r].hand # run[q].hand
  <2>1. q \in Handed /\ MaxGrants \in Nat /\ issued <= MaxGrants
    BY BoundsAssumption DEF TypeOK
  <2> QED BY <1>1, <2>1 DEF HandedInv, Grants
<1>5. ASSUME NEW q \in Handed', NEW k \in Keys PROVE ~Holds(k, run[q].hand)'
  <2>1. PICK g \in Grants : g = run[q].hand
    BY <1>4
  <2>2. \A i \in Keys : ~Holds(i, g)
    BY <2>1 DEF HandedInv
  <2>3. ~Holds(k, g)'
    BY <1>1, <1>4, <2>1, <2>2 DEF Grants
  <2> QED BY <1>4, <2>1, <2>3 DEF Holds
<1> QED BY <1>3, <1>4, <1>5 DEF HandedInv

LEMMA HandedStays ==
    ASSUME TypeOK, TypeOK', HandedInv, issued' = issued,
           \A k \in Keys, g \in Grants : Holds(k, g)' => \E i \in Keys : Holds(i, g),
           Handed' \subseteq Handed,
           \A q \in Handed' : run'[q].hand = run[q].hand
    PROVE  HandedInv'
<1>1. issued <= issued'
  BY BoundsAssumption DEF TypeOK
<1>2. \A k \in Keys, g \in Grants \cup {None} : Holds(k, g)' =>
        g = None \/ \E i \in Keys : Holds(i, g)
  OBVIOUS
<1> QED BY <1>1, <1>2, HandedKeeps

\* An account that cannot be read is answered for as it was.
LEMMA ReadableKeeps ==
    ASSUME RecordIsReadable, NEW p \in Procs, Others(p),
           \A k \in Keys : IsOwned(k)' /\ Current(k)' = None =>
             \/ run'[p].emptied /\ run'[p].key = k /\ run'[p].pc # "done"
             \/ IsOwned(k) /\ Current(k) = None /\ ~(run[p].emptied /\ run[p].key = k)
    PROVE  RecordIsReadable'
<1> SUFFICES ASSUME NEW k \in Keys, IsOwned(k)', Current(k)' = None
             PROVE  \E q \in Procs : run'[q].emptied /\ run'[q].key = k /\ ~At(q, "done")'
  BY DEF RecordIsReadable
<1>1. CASE run'[p].emptied /\ run'[p].key = k /\ run'[p].pc # "done"
  BY <1>1 DEF At
<1>2. CASE IsOwned(k) /\ Current(k) = None /\ ~(run[p].emptied /\ run[p].key = k)
  <2>1. PICK q \in Procs : run[q].emptied /\ run[q].key = k /\ ~At(q, "done")
    BY <1>2 DEF RecordIsReadable
  <2> QED BY <1>2, <2>1 DEF Others, At
<1> QED BY <1>1, <1>2

\* A credential without a record is answered for as it was, or by the process that moved.
LEMMA RecordedKeeps ==
    ASSUME RecordedInv, NEW p \in Procs, Others(p),
           \A k \in Keys : Current(k)' # None /\ ~IsOwned(k)' =>
             \/ Answers(p, k)'
             \/ Current(k) # None /\ ~IsOwned(k) /\ ~Answers(p, k)
    PROVE  RecordedInv'
BY OthersAnswer DEF RecordedInv

\* A step of one process keeps the invariant if it keeps what is said of that process.
LEMMA StepKeeps ==
    ASSUME IInv, NEW p \in Procs, Others(p), TypeOK', ConfigInv',
           \A q \in Procs \ {p} : LetBe(q),
           PlaceOf(p)', MoveOf(p)', LoginOf(p)', EmptiedOf(p)',
           HandedInv', SharedInv', RecordIsReadable', RecordedInv'
    PROVE  IInv'
<1>1. ASSUME NEW q \in Procs PROVE PlaceOf(q)' /\ MoveOf(q)' /\ LoginOf(q)' /\ EmptiedOf(q)'
  <2>1. CASE q = p
    BY <2>1
  <2>2. CASE q # p
    <3>1. TypeOK /\ PlaceOf(q) /\ MoveOf(q) /\ LoginOf(q) /\ EmptiedOf(q)
      BY DEF IInv, ProcessInv
    <3> QED BY <2>2, <3>1, OtherKeeps DEF Others
  <2> QED BY <2>1, <2>2
<1> QED BY <1>1 DEF IInv, ProcessInv

----------------------------------------------------------------------------
(* Before a command holds anything.                                        *)

Early == {"idle", "authorize", "exchange", "ask", "resolve", "probe", "confirm", "plan", "lock"}

\* A command that holds nothing moves on, holding nothing.
LEMMA EarlyKeeps ==
    ASSUME IInv, NEW p \in Procs,
           UNCHANGED <<registry, config, file, pending, adopted, made, lock, spent>>,
           issued' \in issued .. MaxGrants,
           run' \in [Procs -> Runs], Others(p),
           run[p].pc \in Early,
           run'[p].pc \in Track(run'[p].op) \cup {"done"},
           run'[p].pc \in Early \/ (run'[p].pc = "config" /\ run'[p].op \notin {"login", "relocate"})
                          \/ (run'[p].pc = "done" /\ run'[p].op = "import" /\ run'[p].plan = {}),
           run'[p].emptied = FALSE \/ run'[p].emptied = run[p].emptied,
           run'[p].resumed = FALSE \/ run'[p].resumed = run[p].resumed,
           run'[p].op = "relocate" /\ run'[p].pc # "resolve" =>
             /\ run'[p].key = Unknown /\ run'[p].record.kind = "owned"
             /\ run'[p].pc # "probe" => run'[p].to # Unknown /\ run'[p].probe # None,
           run'[p].op = "login" /\ run'[p].pc \in {"ask", "lock"} =>
             \/ run[p].op = "login" /\ run[p].pc = "ask" /\ run'[p].hand = run[p].hand
             \/ issued' = issued + 1 /\ run'[p].hand = issued'
    PROVE  IInv'
<1>0. /\ TypeOK /\ ConfigInv /\ PlaceOf(p) /\ MoveOf(p) /\ LoginOf(p) /\ EmptiedOf(p)
      /\ HandedInv /\ SharedInv /\ RecordIsReadable /\ RecordedInv
  BY DEF IInv, ProcessInv
<1>1. TypeOK'
  BY <1>0 DEF TypeOK
<1>2. ConfigInv'
  BY <1>0 DEF ConfigInv, At, Early, Others
<1>3. \A q \in Procs \ {p} : LetBe(q)
  BY DEF LetBe, IsOwned
<1>4. PlaceOf(p)' /\ MoveOf(p)' /\ LoginOf(p)'
  <2>1. run'[p].pc \notin Holding(run'[p].op) \cup HoldingBoth \/ run'[p].op \notin {"login", "relocate"}
    BY DEF Holding, HoldingBoth, Early
  <2>2. run'[p].pc \notin Holding(run'[p].op)
    BY DEF Holding, Early
  <2>3. PlaceOf(p)'
    BY <2>2 DEF PlaceOf, Over
  <2>4. MoveOf(p)'
    <3>1. run'[p].resumed = FALSE
      BY <1>0 DEF MoveOf, Early, HoldingBoth, Over, TypeOK, Runs
    <3> QED BY <2>1, <3>1 DEF MoveOf, Over, At, HoldingBoth, Early
  <2>5. LoginOf(p)'
    BY DEF LoginOf, Early
  <2> QED BY <2>3, <2>4, <2>5
<1>5. ~run[p].emptied /\ EmptiedOf(p)'
  BY <1>0 DEF EmptiedOf, Early, Over
<1>6. SharedInv'
  BY <1>0, SharedKeeps DEF Holds, Early, HoldingBoth
<1>7. HandedInv'
  <2>1. \A k \in Keys : file'[k] <= issued' /\ pending'[k] <= issued'
    BY <1>0 DEF HandedInv, TypeOK, Grants
  <2>2. Handed' \subseteq Handed \cup {p}
    BY DEF Handed, Others
  <2>3. ASSUME NEW q \in Handed', q # p
        PROVE  q \in Handed /\ run'[q].hand = run[q].hand /\ run'[q].hand \in 1 .. issued
    BY <1>0, <2>2, <2>3 DEF HandedInv, Handed, Others
  <2>4. ASSUME p \in Handed'
        PROVE  \/ p \in Handed /\ run'[p].hand = run[p].hand /\ run'[p].hand \in 1 .. issued
               \/ issued' = issued + 1 /\ run'[p].hand = issued'
    BY <1>0, <2>4 DEF HandedInv, Handed, Early
  <2>5. issued \in Nat /\ issued' \in Nat
    BY <1>0 DEF TypeOK, BoundsAssumption
  <2>6. ASSUME NEW q \in Handed'
        PROVE  /\ run'[q].hand \in 1 .. issued'
               /\ \A k \in Keys : ~Holds(k, run'[q].hand)
    <3>1. CASE q \in Handed /\ run'[q].hand = run[q].hand /\ run'[q].hand \in 1 .. issued
      BY <1>0, <2>5, <3>1 DEF HandedInv
    <3>2. CASE issued' = issued + 1 /\ run'[q].hand = issued'
      BY <1>0, <2>5, <3>2 DEF HandedInv, Holds, TypeOK, Grants
    <3> QED BY <2>3, <2>4, <2>6, <3>1, <3>2
  <2>7. ASSUME NEW q \in Handed', NEW r \in Handed' \ {q} PROVE run'[q].hand # run'[r].hand
    <3>1. CASE q # p /\ r # p
      BY <1>0, <2>3, <2>7, <3>1 DEF HandedInv
    <3>2. CASE q = p \/ r = p
      BY <1>0, <2>3, <2>4, <2>5, <2>7, <3>2 DEF HandedInv
    <3> QED BY <3>1, <3>2
  <2>8. \A k \in Keys, q \in Procs : Holds(k, run[q].hand)' <=> Holds(k, run'[q].hand)
    BY DEF Holds
  <2>9. Handed' \subseteq Procs
    BY DEF Handed
  <2> QED BY <2>1, <2>6, <2>7, <2>8, <2>9 DEF HandedInv
<1>8. RecordIsReadable'
  BY <1>0, <1>5 DEF RecordIsReadable, Others, Current, IsOwned, At, Early, Over
<1>9. RecordedInv'
  <2>1. \A k \in Keys : ~Answers(p, k)
    BY DEF Answers, At, Early
  <2> QED BY <1>0, <2>1, OthersAnswer DEF RecordedInv, Current, IsOwned
<1> QED BY <1>1, <1>2, <1>3, <1>4, <1>5, <1>6, <1>7, <1>8, <1>9, StepKeeps

\* A command that stops, by itself or because its process died, lets go of what it holds.
LEMMA EndedKeeps ==
    ASSUME IInv, NEW p \in Procs, NEW how \in {"failed", "dead"}, Ends(p, how),
           run[p].pc \notin {"idle"} \cup Over,
           UNCHANGED <<registry, file, pending, adopted, issued, spent>>,
           made' \subseteq Keys,
           config' = IF config = p THEN NoProc ELSE config
    PROVE  IInv'
<1>0. /\ TypeOK /\ ConfigInv /\ PlaceOf(p) /\ MoveOf(p) /\ LoginOf(p) /\ EmptiedOf(p)
      /\ HandedInv /\ SharedInv /\ RecordIsReadable /\ RecordedInv
  BY DEF IInv, ProcessInv
<1>f. /\ run' \in [Procs -> Runs] /\ Others(p) /\ Same(p)
      /\ run'[p].pc = how /\ run'[p].hand = None /\ ~run'[p].resumed
      /\ run'[p].emptied = run[p].emptied
      /\ lock' \in [Keys -> Procs \cup {NoProc}]
      /\ \A k \in Keys : lock'[k] = IF lock[k] = p THEN NoProc ELSE lock[k]
  <2>1. how \in Places
    BY DEF Places
  <2> QED BY <1>0, <2>1, EndsFrame
<1>1. TypeOK'
  BY <1>0, <1>f DEF TypeOK
<1>2. ConfigInv'
  BY <1>0, <1>f, ProcsAssumption DEF ConfigInv, At, Others
<1>3. \A q \in Procs \ {p} : LetBe(q)
  BY <1>f DEF LetBe, IsOwned
<1>4. PlaceOf(p)' /\ MoveOf(p)' /\ LoginOf(p)'
  BY <1>f DEF PlaceOf, MoveOf, LoginOf, Over, Holding
<1>5. EmptiedOf(p)'
  BY <1>0, <1>f DEF EmptiedOf, Same, Over
<1>6. SharedInv'
  BY <1>0, <1>f, SharedKeeps DEF Holds, Over
<1>7. HandedInv'
  <2>1. Handed' \subseteq Handed /\ \A q \in Handed' : run'[q].hand = run[q].hand
    BY <1>f DEF Handed, Others
  <2> QED BY <1>0, <1>1, <2>1, HandedKeeps, BoundsAssumption DEF Holds, TypeOK
<1>8. RecordIsReadable'
  BY <1>0, <1>f DEF RecordIsReadable, Others, Same, Current, IsOwned, At, Over
<1>9. RecordedInv'
  <2>1. \A k \in Keys : Answers(p, k) => Answers(p, k)'
    BY <1>f DEF Answers, At, Touches, Same, Over
  <2> QED BY <1>0, <1>f, <2>1, OthersAnswer DEF RecordedInv, Current, IsOwned
<1> QED BY <1>1, <1>2, <1>3, <1>4, <1>5, <1>6, <1>7, <1>8, <1>9, <1>f, StepKeeps

LEMMA FailKeeps ==
    ASSUME IInv, NEW p \in Procs, Fail(p), run[p].pc \notin {"idle", "update"} \cup Over
    PROVE  IInv'
<1>1. Ends(p, "failed") /\ UNCHANGED <<registry, config, file, pending, adopted, made, issued, spent>>
  BY DEF Fail, stores
<1>2. config # p /\ made \subseteq Keys
  BY DEF IInv, TypeOK, ConfigInv, At
<1> QED BY <1>1, <1>2, EndedKeeps

LEMMA BeginKeeps == ASSUME IInv, NEW p \in Procs, Begin(p) PROVE IInv'
<1>1. /\ UNCHANGED <<registry, config, stores, lock, issued, spent>>
      /\ run' \in [Procs -> Runs] /\ Others(p)
      /\ At(p, "idle")
      /\ run'[p].op \in Ops
      /\ run'[p].op = "login" => run'[p].pc = "authorize"
      /\ run'[p].op = "remove" => run'[p].pc = "resolve"
      /\ run'[p].op = "relocate" => run'[p].pc = "resolve"
      /\ run'[p].op = "import" => run'[p].pc = "plan"
      /\ run'[p].op = "forget" => run'[p].pc = "config"
      /\ ~run'[p].emptied /\ ~run'[p].resumed
  BY BeginFrame DEF IInv
<1>2. run'[p].pc \in Track(run'[p].op)
  BY <1>1 DEF Track, Ops
<1>3. run'[p].emptied = FALSE /\ run'[p].resumed = FALSE
  BY <1>1 DEF Runs
<1>4. issued' \in issued .. MaxGrants
  BY <1>1 DEF IInv, TypeOK, BoundsAssumption
<1>5. run'[p].pc \in Early \/ (run'[p].pc = "config" /\ run'[p].op \notin {"login", "relocate"})
  BY <1>1 DEF Ops, Early
<1>6. run[p].pc \in Early
  BY <1>1 DEF At, Early
<1> QED BY <1>1, <1>2, <1>3, <1>4, <1>5, <1>6, EarlyKeeps DEF stores, Ops

\* Each of the steps before the locks, where it does not end the command.
LEMMA MoveOnKeeps ==
    ASSUME IInv, NEW p \in Procs, NEW x \in Places, Moves(p, x),
           UNCHANGED <<registry, config, stores, lock, issued, spent>>,
           \/ At(p, "authorize") /\ x = "exchange"
           \/ At(p, "ask") /\ x = "lock"
           \/ At(p, "confirm") /\ x = "lock"
    PROVE  IInv'
<1>1. run' \in [Procs -> Runs] /\ Others(p) /\ Same(p) /\ Rest(p) /\ run'[p].pc = x
  BY MovesFrame DEF IInv
<1>2. run[p].pc \in Track(run[p].op) \cup Over
  BY DEF IInv, ProcessInv, PlaceOf
<1>3. run'[p].pc \in Track(run'[p].op) /\ run'[p].pc \in Early /\ run[p].pc \in Early
  BY <1>1, <1>2 DEF Track, Same, At, Over, Early
<1>4. issued' \in issued .. MaxGrants
  BY DEF IInv, TypeOK, BoundsAssumption
<1>5. run'[p].op = "relocate" =>
        /\ run'[p].key = Unknown /\ run'[p].record.kind = "owned"
        /\ run'[p].to # Unknown /\ run'[p].probe # None
  BY ZenonT(60), <1>1, <1>2 DEF IInv, ProcessInv, MoveOf, Same, Rest, At, Over, Track
<1>6. run'[p].op = "login" /\ run'[p].pc \in {"ask", "lock"} =>
         run[p].op = "login" /\ run[p].pc = "ask" /\ run'[p].hand = run[p].hand
  BY <1>1, <1>2 DEF Same, Rest, At, Over, Track
<1> QED BY <1>1, <1>3, <1>4, <1>5, <1>6, EarlyKeeps DEF stores, Rest

LEMMA AuthorizeKeeps == ASSUME IInv, NEW p \in Procs, Authorize(p) PROVE IInv'
BY MoveOnKeeps, FailKeeps DEF Authorize, At, Over, Places

LEMMA AskKeeps == ASSUME IInv, NEW p \in Procs, Ask(p) PROVE IInv'
BY MoveOnKeeps, FailKeeps DEF Ask, At, Over, Places

LEMMA ConfirmKeeps == ASSUME IInv, NEW p \in Procs, Confirm(p) PROVE IInv'
BY MoveOnKeeps, FailKeeps DEF Confirm, At, Over, Places

LEMMA ExchangeKeeps == ASSUME IInv, NEW p \in Procs, Exchange(p) PROVE IInv'
<1>t. TypeOK /\ run[p] \in Runs
  BY DEF IInv, TypeOK
<1>p. At(p, "exchange") /\ run[p].pc \in Track(run[p].op) \cup Over
  BY DEF Exchange, IInv, ProcessInv, PlaceOf
<1>o. run[p].op = "login"
  BY <1>p DEF At, Track, Over
<1>n. issued \in Nat /\ MaxGrants \in Nat /\ issued <= MaxGrants
  BY <1>t, BoundsAssumption DEF TypeOK
<1>1. CASE Fail(p)
  BY <1>1, <1>p, FailKeeps DEF At, Over
<1>2. ASSUME issued < MaxGrants, issued' = issued + 1, NEW k \in Keys,
             run' = [run EXCEPT ![p].hand = issued + 1, ![p].key = k, ![p].pc = "ask"],
             UNCHANGED <<registry, config, stores, lock, spent>>
      PROVE  IInv'
  <2> DEFINE r == [run[p] EXCEPT !.hand = issued + 1, !.key = k, !.pc = "ask"]
  <2>0. issued + 1 \in Grants
    BY <1>2, <1>n DEF Grants
  <2>1. r \in Runs
    BY <1>t, <2>0 DEF Runs, Places
  <2>2. r.op = "login" /\ r.pc = "ask" /\ r.hand = issued + 1 /\ r.emptied = run[p].emptied /\ r.resumed = run[p].resumed
    BY <1>t, <1>o DEF Runs
  <2>3. run' \in [Procs -> Runs] /\ run'[p] = r /\ Others(p)
    BY <1>t, <1>2, <2>1 DEF TypeOK, Others
  <2>4. issued' \in issued .. MaxGrants
    BY <1>2, <1>n
  <2>5. run[p].pc \in Early /\ "ask" \in Early /\ "ask" \in Track("login")
    BY <1>p DEF At, Early, Track
  <2> HIDE DEF r
  <2> QED BY <1>2, <2>2, <2>3, <2>4, <2>5, EarlyKeeps DEF stores
<1>3. CASE run' = [run EXCEPT ![p].tries = 1] /\ UNCHANGED <<registry, config, stores, lock, issued, spent>>
  <2> DEFINE r == [run[p] EXCEPT !.tries = 1]
  <2>1. r \in Runs
    BY <1>t DEF Runs
  <2>2. r.op = "login" /\ r.pc = "exchange" /\ r.emptied = run[p].emptied /\ r.resumed = run[p].resumed
    BY <1>t, <1>o, <1>p DEF Runs, At
  <2>3. run' \in [Procs -> Runs] /\ run'[p] = r /\ Others(p)
    BY <1>t, <1>3, <2>1 DEF TypeOK, Others
  <2>4. issued' \in issued .. MaxGrants
    BY <1>3, <1>n
  <2>5. run[p].pc \in Early /\ "exchange" \in Early /\ "exchange" \in Track("login")
    BY <1>p DEF At, Early, Track
  <2> HIDE DEF r
  <2> QED BY <1>3, <2>2, <2>3, <2>4, <2>5, EarlyKeeps DEF stores
<1>4. \A e \in Exchanged, b \in BOOLEAN : Identified(e, b) \subseteq Keys
  BY KeysAssumption DEF Identified, Exchanged
<1> QED BY <1>1, <1>2, <1>3, <1>4 DEF Exchange

LEMMA ResolveKeeps == ASSUME IInv, NEW p \in Procs, Resolve(p) PROVE IInv'
<1>t. TypeOK /\ run[p] \in Runs
  BY DEF IInv, TypeOK
<1>p. At(p, "resolve") /\ run[p].pc \in Track(run[p].op) \cup Over
  BY DEF Resolve, IInv, ProcessInv, PlaceOf
<1>o. run[p].op \in {"remove", "relocate"}
  BY <1>p, <1>t DEF At, Track, Over, Runs, Ops
<1>1. CASE Fail(p)
  BY <1>1, <1>p, FailKeeps DEF At, Over
<1>2. CASE ~Fail(p)
  <2> DEFINE x == CASE run[p].op = "relocate" -> "probe"
                    [] run[p].op = "remove" /\ run[p].secret -> "confirm"
                    [] OTHER -> "config"
             r == [run[p] EXCEPT !.record = registry.record[run[p].key], !.pc = x]
  <2>1. /\ IsOwned(run[p].key) /\ Movable(run[p])
        /\ run' = [run EXCEPT ![p].record = registry.record[run[p].key], ![p].pc = x]
        /\ UNCHANGED <<registry, config, stores, lock, issued, spent>>
    BY <1>2 DEF Resolve
  <2>2. registry.record[run[p].key] \in Records /\ registry.record[run[p].key].kind = "owned"
    BY <1>t, <2>1 DEF TypeOK, Runs, Registries, IsOwned
  <2>3. /\ x \in Places /\ x \in Track(run[p].op)
        /\ run[p].op = "relocate" => x = "probe"
        /\ run[p].op = "remove" => x \in {"confirm", "config"}
    BY <1>o DEF Places, Track
  <2> HIDE DEF x
  <2>4. r \in Runs
    BY <1>t, <2>2, <2>3 DEF Runs
  <2>5. /\ r.op = run[p].op /\ r.pc = x /\ r.emptied = run[p].emptied /\ r.resumed = run[p].resumed
        /\ r.key = run[p].key /\ r.record.kind = "owned"
    BY <1>t, <2>2 DEF Runs
  <2>6. run' \in [Procs -> Runs] /\ run'[p] = r /\ Others(p)
    BY <1>t, <2>1, <2>4 DEF TypeOK, Others
  <2>7. issued' \in issued .. MaxGrants
    BY <1>t, <2>1, BoundsAssumption DEF TypeOK
  <2>8. run[p].pc \in Early /\ {"probe", "confirm"} \subseteq Early
    BY <1>p DEF At, Early
  <2>9. run[p].op = "relocate" => r.key = Unknown
    BY <2>1, <2>5 DEF Movable
  <2> HIDE DEF r
  <2> QED BY <1>o, <2>1, <2>3, <2>5, <2>6, <2>7, <2>8, <2>9, EarlyKeeps DEF stores
<1> QED BY <1>1, <1>2

LEMMA ProbeKeeps == ASSUME IInv, NEW p \in Procs, Probe(p) PROVE IInv'
<1>t. TypeOK /\ run[p] \in Runs
  BY DEF IInv, TypeOK
<1>p. At(p, "probe") /\ run[p].pc \in Track(run[p].op) \cup Over
  BY DEF Probe, IInv, ProcessInv, PlaceOf
<1>o. run[p].op = "relocate"
  BY <1>p, <1>t DEF At, Track, Over, Runs, Ops
<1>1. CASE Fail(p)
  BY <1>1, <1>p, FailKeeps DEF At, Over
<1>2. CASE ~Fail(p)
  <2>1. PICK k \in Keys \ {Unknown} :
          /\ file[Unknown] # None
          /\ run' = [run EXCEPT ![p].probe = file[Unknown], ![p].to = k, ![p].pc = "confirm"]
          /\ UNCHANGED <<registry, config, stores, lock, issued, spent>>
    BY <1>2 DEF Probe
  <2> DEFINE r == [run[p] EXCEPT !.probe = file[Unknown], !.to = k, !.pc = "confirm"]
  <2>2. file[Unknown] \in Grants \cup {None}
    BY <1>t, KeysAssumption DEF TypeOK
  <2>4. r \in Runs
    BY <1>t, <2>2 DEF Runs, Places
  <2>5. /\ r.op = run[p].op /\ r.pc = "confirm" /\ r.emptied = run[p].emptied /\ r.resumed = run[p].resumed
        /\ r.key = run[p].key /\ r.record = run[p].record /\ r.to = k /\ r.probe = file[Unknown]
    BY <1>t DEF Runs
  <2>6. run' \in [Procs -> Runs] /\ run'[p] = r /\ Others(p)
    BY <1>t, <2>1, <2>4 DEF TypeOK, Others
  <2>7. issued' \in issued .. MaxGrants
    BY <1>t, <2>1, BoundsAssumption DEF TypeOK
  <2>8. run[p].pc \in Early /\ "confirm" \in Early /\ "confirm" \in Track("relocate")
    BY <1>p DEF At, Early, Track
  <2>9. run[p].key = Unknown /\ run[p].record.kind = "owned"
    BY <1>o, <1>p DEF IInv, ProcessInv, MoveOf, At, Over
  <2> HIDE DEF r
  <2>10. /\ run'[p].op = "relocate" /\ run'[p].pc = "confirm" /\ run'[p].emptied = run[p].emptied
         /\ run'[p].resumed = run[p].resumed
         /\ run'[p].key = Unknown /\ run'[p].record.kind = "owned"
         /\ run'[p].to # Unknown /\ run'[p].probe # None
    BY <1>o, <2>1, <2>5, <2>6, <2>9
  <2>11. UNCHANGED <<registry, config, stores, lock, issued, spent>>
    BY <2>1
  <2> QED BY <2>6, <2>7, <2>8, <2>10, <2>11, EarlyKeeps DEF stores
<1> QED BY <1>1, <1>2

LEMMA PlanKeeps == ASSUME IInv, NEW p \in Procs, Plan(p) PROVE IInv'
<1>t. TypeOK /\ run[p] \in Runs
  BY DEF IInv, TypeOK
<1>p. At(p, "plan") /\ run[p].pc \in Track(run[p].op) \cup Over
  BY DEF Plan, IInv, ProcessInv, PlaceOf
<1>o. run[p].op = "import"
  BY <1>p, <1>t DEF At, Track, Over, Runs, Ops
<1>1. CASE Fail(p)
  BY <1>1, <1>p, FailKeeps DEF At, Over
<1>2. CASE ~Fail(p)
  <2>1. PICK items \in SUBSET Keys :
          LET plan == {k \in items : registry.record[k] = NoRecord} IN
          run' = [run EXCEPT ![p].plan = plan, ![p].pc = IF plan = {} THEN "done" ELSE "config"]
    BY <1>2 DEF Plan
  <2> DEFINE plan == {k \in items : registry.record[k] = NoRecord}
             x == IF plan = {} THEN "done" ELSE "config"
             r == [run[p] EXCEPT !.plan = plan, !.pc = x]
  <2>2. UNCHANGED <<registry, config, stores, lock, issued, spent>>
    BY <1>2 DEF Plan
  <2>3. /\ plan \in SUBSET Keys /\ x \in Places
        /\ (x = "done" /\ plan = {}) \/ x = "config"
    BY DEF Places
  <2>6a. run' = [run EXCEPT ![p].plan = plan, ![p].pc = x]
    BY <2>1
  <2> HIDE DEF x, plan
  <2>4. r \in Runs
    BY <1>t, <2>3 DEF Runs
  <2>5. r.op = "import" /\ r.pc = x /\ r.emptied = run[p].emptied /\ r.resumed = run[p].resumed /\ r.plan = plan
    BY <1>t, <1>o DEF Runs
  <2>6. run' \in [Procs -> Runs] /\ run'[p] = r /\ Others(p)
    BY <1>t, <2>6a, <2>4 DEF TypeOK, Others
  <2>7. issued' \in issued .. MaxGrants
    BY <1>t, <2>2, BoundsAssumption DEF TypeOK
  <2>8. run[p].pc \in Early /\ "config" \in Track("import")
    BY <1>p DEF At, Early, Track
  <2> HIDE DEF r
  <2> QED BY <2>2, <2>3, <2>5, <2>6, <2>7, <2>8, EarlyKeeps DEF stores
<1> QED BY <1>1, <1>2

LEMMA BusyKeeps == ASSUME IInv, NEW p \in Procs, Busy(p) PROVE IInv'
BY FailKeeps DEF Busy, At, Over

LEMMA CrashKeeps == ASSUME IInv, NEW p \in Procs, Crash(p) PROVE IInv'
<1>1. made \subseteq Keys
  BY DEF IInv, TypeOK
<1> QED BY <1>1, EndedKeeps DEF Crash, Over, stores

----------------------------------------------------------------------------
(* Under the namespaces' locks.                                            *)

LEMMA AcquireKeeps == ASSUME IInv, NEW p \in Procs, Acquire(p) PROVE IInv'
<1>0. /\ TypeOK /\ ConfigInv /\ PlaceOf(p) /\ MoveOf(p) /\ LoginOf(p) /\ EmptiedOf(p)
      /\ HandedInv /\ SharedInv /\ RecordIsReadable /\ RecordedInv
  BY DEF IInv, ProcessInv
<1> DEFINE r == run[p]
           k == Wanted(r)
           x == CASE r.op = "login" -> "clear"
                  [] r.op = "remove" -> "erase"
                  [] r.op = "relocate" /\ r.pc = "lock" -> "lock target"
                  [] OTHER -> "check"
<1>1. /\ r.pc \in {"lock", "lock target"}
      /\ lock[k] = NoProc /\ lock' = [lock EXCEPT ![k] = p] /\ Moves(p, x)
      /\ UNCHANGED <<registry, config, file, pending, adopted, made, issued, spent>>
  BY DEF Acquire, At, stores
<1>2. /\ k \in Keys
      /\ r.pc = "lock" => k = r.key
      /\ r.pc = "lock target" => k = r.to
      /\ r.pc \in Track(r.op)
  BY <1>0, <1>1 DEF Wanted, TypeOK, Runs, PlaceOf, Over
<1>3. /\ x \in Places
      /\ \/ r.pc = "lock" /\ r.op = "login" /\ x = "clear"
         \/ r.pc = "lock" /\ r.op = "remove" /\ x = "erase"
         \/ r.pc = "lock" /\ r.op = "relocate" /\ x = "lock target"
         \/ r.pc = "lock target" /\ r.op = "relocate" /\ x = "check"
  BY <1>0, <1>1, <1>2 DEF Places, Track, TypeOK, Runs, Ops
<1>4. run' \in [Procs -> Runs] /\ Others(p) /\ Same(p) /\ Rest(p) /\ run'[p].pc = x
  BY <1>0, <1>1, <1>3, MovesFrame
<1> HIDE DEF k, x
<1>5. /\ lock'[k] = p
      /\ \A i \in Keys, q \in Procs : lock[i] = q => lock'[i] = q
      /\ lock' \in [Keys -> Procs \cup {NoProc}]
  BY <1>0, <1>1, <1>2, ProcsAssumption DEF TypeOK
<1>6. run[p].key \in Keys /\ run[p].to \in Keys
  BY <1>0 DEF TypeOK, Runs
<1>7. r.pc \notin HoldingBoth \cup {"update"} \cup Over /\ run'[p].pc \notin {"config", "update"} \cup Over
  BY <1>1, <1>3, <1>4 DEF HoldingBoth, Over
<1>a. TypeOK'
  BY <1>0, <1>1, <1>4, <1>5 DEF TypeOK
<1>b. ConfigInv'
  BY <1>0, <1>1, <1>4, <1>7 DEF ConfigInv, At, Others
<1>c. \A q \in Procs \ {p} : LetBe(q)
  BY <1>1, <1>5 DEF LetBe, IsOwned
<1>d. PlaceOf(p)'
  <2>1. run'[p].pc \in Track(run'[p].op)
    BY <1>3, <1>4 DEF Track, Same
  <2>2. lock'[run'[p].key] = p
    <3>1. r.pc = "lock" => lock'[r.key] = p
      BY <1>2, <1>5
    <3>2. r.pc = "lock target" => r.op = "relocate" /\ lock[r.key] = p
      BY <1>0, <1>3 DEF PlaceOf, Holding
    <3> QED BY <1>1, <1>4, <1>5, <1>6, <3>1, <3>2 DEF Same
  <2> QED BY <2>1, <2>2 DEF PlaceOf
<1>e. MoveOf(p)' /\ LoginOf(p)'
  <2>1. ASSUME run[p].op = "relocate"
        PROVE  /\ run[p].key = Unknown /\ run[p].record.kind = "owned"
               /\ run[p].to # Unknown /\ run[p].probe # None
    BY <1>0, <1>1, <2>1 DEF MoveOf, At, Over
  <2>2. x \in {"clear", "erase", "lock target", "check"} /\ (x = "check" => lock'[run[p].to] = p)
    BY <1>2, <1>3, <1>5
  <2>3. run[p].op = "relocate" => x \in {"lock target", "check"}
    BY <1>3
  <2>4. ~run'[p].resumed
    BY <1>0, <1>4, <1>7 DEF MoveOf, Rest
  <2> QED BY <1>4, <2>1, <2>2, <2>3, <2>4 DEF MoveOf, LoginOf, Same, Rest, HoldingBoth, At
<1>f. ~run[p].emptied /\ EmptiedOf(p)'
  BY <1>0, <1>1, <1>4 DEF EmptiedOf, Rest, Over
<1>g. SharedInv'
  BY <1>0, <1>1, <1>4, <1>7, SharedKeeps DEF Holds, Over
<1>h. HandedInv'
  <2>1. Handed' \subseteq Handed /\ \A q \in Handed' : run'[q].hand = run[q].hand
    BY <1>1, <1>3, <1>4 DEF Handed, Others, Same, Rest
  <2> QED BY <1>0, <1>1, <1>a, <2>1, HandedStays DEF Holds
<1>i. RecordIsReadable'
  BY <1>0, <1>1, <1>4, <1>f, ReadableKeeps DEF Current, IsOwned
<1>j. RecordedInv'
  <2>1. \A i \in Keys : ~Answers(p, i)
    BY <1>1 DEF Answers, At
  <2> QED BY <1>0, <1>1, <1>4, <2>1, OthersAnswer DEF RecordedInv, Current, IsOwned
<1> QED BY <1>4, <1>a, <1>b, <1>c, <1>d, <1>e, <1>f, <1>g, <1>h, <1>i, <1>j, StepKeeps

LEMMA CheckKeeps == ASSUME IInv, NEW p \in Procs, Check(p) PROVE IInv'
<1>0. /\ TypeOK /\ ConfigInv /\ PlaceOf(p) /\ MoveOf(p) /\ LoginOf(p) /\ EmptiedOf(p)
      /\ HandedInv /\ SharedInv /\ RecordIsReadable /\ RecordedInv
  BY DEF IInv, ProcessInv
<1>p. At(p, "check") /\ run[p].pc \in Track(run[p].op) \cup Over
  BY <1>0 DEF Check, PlaceOf
<1>o. run[p].op = "relocate"
  BY <1>0, <1>p DEF At, Track, Over, TypeOK, Runs, Ops
<1>1. CASE Fail(p)
  BY <1>1, <1>p, FailKeeps DEF At, Over
<1>2. CASE ~Fail(p)
  <2> DEFINE resumed == file[run[p].to] = file[Unknown]
  <2>1. /\ file[Unknown] # None /\ Unmoved(p)
        /\ run' = [run EXCEPT ![p].resumed = resumed, ![p].pc = "clear"]
        /\ UNCHANGED <<registry, config, file, pending, adopted, made, lock, issued, spent>>
    BY <1>2 DEF Check, stores
  <2>2. PICK b \in BOOLEAN : b <=> resumed
    OBVIOUS
  <2>3. run' = [run EXCEPT ![p].resumed = b, ![p].pc = "clear"]
    BY <2>1, <2>2
  <2> DEFINE r == [run[p] EXCEPT !.resumed = b, !.pc = "clear"]
  <2>4. run[p] \in Runs /\ r \in Runs
    <3>1. "clear" \in Places /\ run[p] \in Runs
      BY <1>0 DEF Places, TypeOK
    <3> QED BY <3>1 DEF Runs
  <2>5. run' \in [Procs -> Runs] /\ run'[p] = r /\ Others(p)
    BY <1>0, <2>3, <2>4 DEF TypeOK, Others
  <2>6. /\ Same(p) /\ run'[p].record = run[p].record /\ run'[p].emptied = run[p].emptied
        /\ run'[p].pc = "clear" /\ run'[p].resumed = b /\ run'[p].op = "relocate"
    BY <1>o, <2>4, <2>5 DEF Same, Runs
  <2>a. TypeOK'
    BY <1>0, <2>1, <2>5 DEF TypeOK
  <2>b. ConfigInv'
    BY <1>0, <1>p, <2>1, <2>5, <2>6 DEF ConfigInv, At, Others
  <2>c. \A q \in Procs \ {p} : LetBe(q)
    BY <2>1 DEF LetBe, IsOwned
  <2>d. PlaceOf(p)' /\ LoginOf(p)'
    <3>1. lock[run[p].key] = p
      BY <1>0, <1>o, <1>p DEF PlaceOf, Holding, At
    <3>2. "clear" \in Track("relocate")
      BY DEF Track
    <3> QED BY <2>1, <2>6, <3>1, <3>2 DEF PlaceOf, LoginOf, Same
  <2>e. MoveOf(p)'
    <3>1. file[Unknown] = run[p].probe
      BY <2>1 DEF Unmoved
    <3>2. b => file[run[p].to] = run[p].probe
      BY <2>2, <3>1
    <3>3. /\ run[p].key = Unknown /\ run[p].record.kind = "owned" /\ run[p].to # Unknown
          /\ run[p].probe # None /\ lock[run[p].to] = p
      BY <1>0, <1>o, <1>p DEF MoveOf, At, Over, HoldingBoth
    <3>4. "clear" \in HoldingBoth
      BY DEF HoldingBoth
    <3> QED BY <2>1, <2>6, <3>1, <3>2, <3>3, <3>4 DEF MoveOf, Same, At
  <2>f. ~run[p].emptied /\ EmptiedOf(p)'
    BY <1>0, <1>o, <2>6 DEF EmptiedOf
  <2>g. SharedInv'
    BY <1>0, <1>p, <2>1, <2>5, <2>6, SharedKeeps DEF Holds, At, HoldingBoth
  <2>h. HandedInv'
    <3>1. Handed' \subseteq Handed /\ \A q \in Handed' : run'[q].hand = run[q].hand
      BY ZenonT(60), <2>5, <2>6 DEF Handed, Others
    <3> QED BY <1>0, <2>1, <2>a, <3>1, HandedStays DEF Holds
  <2>i. RecordIsReadable'
    BY <1>0, <2>1, <2>5, <2>f, ReadableKeeps DEF Current, IsOwned
  <2>j. RecordedInv'
    <3>1. \A i \in Keys : ~Answers(p, i)
      BY <1>p DEF Answers, At
    <3> QED BY <1>0, <2>1, <2>5, <3>1, OthersAnswer DEF RecordedInv, Current, IsOwned
  <2> QED BY <2>5, <2>a, <2>b, <2>c, <2>d, <2>e, <2>f, <2>g, <2>h, <2>i, <2>j, StepKeeps
<1> QED BY <1>1, <1>2

LEMMA ClearStaleKeeps == ASSUME IInv, NEW p \in Procs, ClearStale(p) PROVE IInv'
<1>0. /\ TypeOK /\ ConfigInv /\ PlaceOf(p) /\ MoveOf(p) /\ LoginOf(p) /\ EmptiedOf(p)
      /\ HandedInv /\ SharedInv /\ RecordIsReadable /\ RecordedInv
  BY DEF IInv, ProcessInv
<1>p. At(p, "clear") /\ run[p].pc \in Track(run[p].op) \cup Over
  BY <1>0 DEF ClearStale, PlaceOf
<1>o. run[p].op \in {"login", "relocate"}
  BY <1>0, <1>p DEF At, Track, Over, TypeOK, Runs, Ops
<1>l. lock[run[p].key] = p /\ run[p].key \in Keys /\ run[p].to \in Keys
  BY <1>0, <1>o, <1>p DEF PlaceOf, Holding, At, TypeOK, Runs
<1>1. CASE Fail(p)
  BY <1>1, <1>p, FailKeeps DEF At, Over
<1>2. CASE ~Fail(p)
  <2>1. PICK b \in BOOLEAN : b <=> run[p].op = "login" /\ pending[run[p].key] # None
    OBVIOUS
  <2>2. PICK x \in {"config", "write"} : x = IF run[p].resumed THEN "config" ELSE "write"
    OBVIOUS
  <2> DEFINE r == [run[p] EXCEPT !.emptied = b, !.pc = x]
  <2>3. /\ pending' = [pending EXCEPT ![run[p].key] = None]
        /\ run' = [run EXCEPT ![p].emptied = b, ![p].pc = x]
        /\ UNCHANGED <<registry, config, file, adopted, made, lock, issued, spent>>
    BY <1>2, <2>1, <2>2 DEF ClearStale
  <2>4. run[p] \in Runs /\ r \in Runs
    <3>1. x \in Places /\ run[p] \in Runs
      BY <1>0 DEF Places, TypeOK
    <3> QED BY <3>1 DEF Runs
  <2>5. run' \in [Procs -> Runs] /\ run'[p] = r /\ Others(p)
    BY <1>0, <2>3, <2>4 DEF TypeOK, Others
  <2>6. /\ Same(p) /\ run'[p].record = run[p].record /\ run'[p].emptied = b
        /\ run'[p].pc = x /\ run'[p].resumed = run[p].resumed /\ run'[p].hand = run[p].hand
    BY <2>4, <2>5 DEF Same, Runs
  <2>7. /\ pending'[run[p].key] = None
        /\ \A i \in Keys \ {run[p].key} : pending'[i] = pending[i]
        /\ pending' \in [Keys -> Grants \cup {None}]
    BY <1>0, <1>l, <2>3 DEF TypeOK
  <2>a. TypeOK'
    BY <1>0, <2>3, <2>5, <2>7 DEF TypeOK
  <2>b. ConfigInv'
    BY <1>0, <1>p, <2>3, <2>5, <2>6 DEF ConfigInv, At, Others
  <2>c. \A q \in Procs \ {p} : LetBe(q)
    BY <1>l, <2>3, <2>7 DEF LetBe, IsOwned
  <2>d. PlaceOf(p)'
    <3>1. x \in Track("login") /\ x \in Track("relocate")
      BY DEF Track
    <3> QED BY <1>o, <1>l, <2>3, <2>6, <3>1 DEF PlaceOf, Same
  <2>e. MoveOf(p)'
    <3>1. CASE run[p].op = "relocate"
      <4>1. /\ run[p].key = Unknown /\ run[p].record.kind = "owned" /\ run[p].to # Unknown
            /\ run[p].probe # None /\ lock[run[p].to] = p
            /\ file[Unknown] = run[p].probe
            /\ run[p].resumed => file[run[p].to] = run[p].probe
        BY <1>0, <1>p, <3>1 DEF MoveOf, At, Over, HoldingBoth
      <4>2. x \in HoldingBoth
        BY DEF HoldingBoth
      <4>4. run'[p].to = run[p].to
        BY <2>6 DEF Same
      <4>3. x = "config" => Current(run[p].to)' # None
        <5>1. pending'[run[p].to] = pending[run[p].to] /\ file' = file
          BY <1>l, <2>3, <2>7, <4>1
        <5>2. x = "config" => file[run[p].to] # None
          BY <2>2, <4>1
        <5> QED BY <4>4, <5>1, <5>2 DEF Current
      <4> QED BY <2>3, <2>6, <3>1, <4>1, <4>2, <4>3, <4>4 DEF MoveOf, Same, At, Current
    <3>2. CASE run[p].op = "login"
      BY <1>0, <2>6, <3>2 DEF MoveOf, Same
    <3> QED BY <1>o, <3>1, <3>2
  <2>f. LoginOf(p)'
    <3>1. run[p].op = "login" => ~run[p].resumed
      BY <1>0 DEF MoveOf
    <3> QED BY <2>2, <2>6, <3>1 DEF LoginOf, Same
  <2>g. EmptiedOf(p)'
    <3>1. b => run[p].op = "login" /\ x = "write"
      BY <1>0, <2>1, <2>2 DEF MoveOf
    <3> QED BY <2>6, <3>1 DEF EmptiedOf, Same
  <2>h. SharedInv'
    <3>1. \A i \in Keys, g \in Grants : Holds(i, g)' => Holds(i, g)
      BY <2>3, <2>7 DEF Holds, Grants
    <3>2. x \in HoldingBoth /\ run[p].pc \notin {"failed", "dead"}
      BY <1>p DEF HoldingBoth, At
    <3> QED BY <1>0, <2>3, <2>5, <2>6, <3>1, <3>2, SharedKeeps
  <2>i. HandedInv'
    <3>0. run[p].pc = "clear"
      BY <1>p DEF At
    <3>1. Handed' \subseteq Handed
      BY ZenonT(60), <2>5, <2>6, <3>0 DEF Handed, Others, Same
    <3>3. \A q \in Procs : run'[q].hand = run[q].hand
      BY <2>5, <2>6 DEF Others
    <3>2. \A i \in Keys, g \in Grants : Holds(i, g)' => Holds(i, g)
      BY <2>3, <2>7 DEF Holds, Grants
    <3> QED BY <1>0, <2>3, <2>a, <3>1, <3>2, <3>3, HandedStays DEF Handed
  <2>j. RecordIsReadable'
    <3>1. ~run[p].emptied
      BY <1>0, <1>p DEF EmptiedOf, At, Over
    <3> SUFFICES ASSUME NEW i \in Keys, IsOwned(i)', Current(i)' = None
                 PROVE  \/ run'[p].emptied /\ run'[p].key = i /\ run'[p].pc # "done"
                        \/ IsOwned(i) /\ Current(i) = None
      BY <1>0, <2>5, <3>1, ReadableKeeps
    <3>2. IsOwned(i)
      BY <2>3 DEF IsOwned
    <3>3. CASE i # run[p].key
      BY <2>3, <2>7, <3>2, <3>3 DEF Current
    <3>4. CASE i = run[p].key /\ pending[i] # None
      <4>1. run[p].op = "relocate" => file[i] # None
        BY <1>0, <1>p, <3>4 DEF MoveOf, At, Over
      <4>2. file[i] = None
        BY <2>3, <2>7, <3>4 DEF Current
      <4> QED BY <1>o, <2>1, <2>6, <3>4, <4>1, <4>2 DEF Same
    <3>5. CASE i = run[p].key /\ pending[i] = None
      BY <2>3, <2>7, <3>2, <3>5 DEF Current
    <3> QED BY <3>3, <3>4, <3>5
  <2>k. RecordedInv'
    <3>1. \A i \in Keys : ~Answers(p, i)
      BY <1>p DEF Answers, At
    <3>2. \A i \in Keys : Current(i)' # None => Current(i) # None
      BY <2>3, <2>7 DEF Current
    <3>3. \A i \in Keys : IsOwned(i)' = IsOwned(i)
      BY <2>3 DEF IsOwned
    <3> QED BY <1>0, <2>5, <3>1, <3>2, <3>3, RecordedKeeps
  <2> QED BY <2>5, <2>a, <2>b, <2>c, <2>d, <2>e, <2>f, <2>g, <2>h, <2>i, <2>j, <2>k, StepKeeps
<1> QED BY <1>1, <1>2

LEMMA WriteKeeps == ASSUME IInv, NEW p \in Procs, Write(p) PROVE IInv'
<1>0. /\ TypeOK /\ ConfigInv /\ PlaceOf(p) /\ MoveOf(p) /\ LoginOf(p) /\ EmptiedOf(p)
      /\ HandedInv /\ SharedInv /\ RecordIsReadable /\ RecordedInv
  BY DEF IInv, ProcessInv
<1>p. run[p].pc = "write" /\ run[p].pc \in Track(run[p].op) \cup Over
  BY <1>0 DEF Write, At, PlaceOf
<1>o. run[p].op \in {"login", "relocate"}
  BY <1>0, <1>p DEF Track, Over, TypeOK, Runs, Ops
<1>l. lock[run[p].key] = p /\ run[p].key \in Keys /\ run[p].to \in Keys
  BY <1>0, <1>o, <1>p DEF PlaceOf, Holding, TypeOK, Runs
<1>k. PICK k \in Keys, g \in Grants :
        /\ lock[k] = p
        /\ \/ run[p].op = "login" /\ k = run[p].key /\ g = run[p].hand /\ p \in Handed
           \/ run[p].op = "relocate" /\ k = run[p].to /\ g = run[p].probe /\ file[Unknown] = g
  <2>1. CASE run[p].op = "login"
    <3>1. p \in Handed /\ run[p].hand \in Grants
      BY <1>0, <1>p, <2>1, BoundsAssumption DEF Handed, HandedInv, TypeOK, Runs, Grants
    <3> QED BY <1>l, <2>1, <3>1
  <2>2. CASE run[p].op = "relocate"
    <3>1. /\ lock[run[p].to] = p /\ file[Unknown] = run[p].probe /\ run[p].probe # None
          /\ run[p].probe \in Grants \cup {None}
      BY <1>0, <1>p, <2>2 DEF MoveOf, HoldingBoth, Over, At, TypeOK, Runs
    <3> QED BY <1>l, <2>2, <3>1
  <2> QED BY <1>o, <2>1, <2>2
<1>x. made \cup {k} \subseteq Keys
  BY <1>0 DEF TypeOK
<1>1. CASE Ends(p, "failed") /\ UNCHANGED <<registry, config, file, pending, adopted, issued, spent>>
           /\ made' = made \cup {k}
  <2>1. config # p
    BY <1>0, <1>p DEF ConfigInv, At
  <2> QED BY <1>1, <1>p, <1>x, <2>1, EndedKeeps DEF Over
<1>2. CASE /\ \/ file' = [file EXCEPT ![k] = g] /\ UNCHANGED pending
              \/ pending' = [pending EXCEPT ![k] = g] /\ UNCHANGED file
           /\ run' = [run EXCEPT ![p].emptied = FALSE, ![p].pc = "config"]
           /\ made' = made \cup {k}
           /\ UNCHANGED <<registry, config, adopted, lock, issued, spent>>
  <2> DEFINE r == [run[p] EXCEPT !.emptied = FALSE, !.pc = "config"]
  <2>4. run[p] \in Runs /\ r \in Runs
    <3>1. "config" \in Places /\ run[p] \in Runs
      BY <1>0 DEF Places, TypeOK
    <3> QED BY <3>1 DEF Runs
  <2>5. run' \in [Procs -> Runs] /\ run'[p] = r /\ Others(p)
    BY <1>0, <1>2, <2>4 DEF TypeOK, Others
  <2>6. /\ Same(p) /\ run'[p].record = run[p].record /\ ~run'[p].emptied
        /\ run'[p].pc = "config" /\ run'[p].resumed = run[p].resumed
    BY <2>4, <2>5 DEF Same, Runs
  <2>7. /\ file' \in [Keys -> Grants \cup {None}] /\ pending' \in [Keys -> Grants \cup {None}]
        /\ \A i \in Keys \ {k} : pending'[i] = pending[i] /\ file'[i] = file[i]
        /\ \A h \in Grants : Holds(k, h)' => Holds(k, h) \/ h = g
        /\ Current(k)' # None
    BY <1>0, <1>2 DEF TypeOK, Holds, Current, Grants
  <2>8. \A i \in Keys \ {k} : Current(i)' = Current(i) /\ \A h : Holds(i, h)' <=> Holds(i, h)
    BY <2>7 DEF Current, Holds
  <2>9. \A i \in Keys : IsOwned(i)' = IsOwned(i)
    BY <1>2 DEF IsOwned
  <2>a. TypeOK'
    BY <1>0, <1>2, <1>x, <2>5, <2>7 DEF TypeOK
  <2>b. ConfigInv'
    BY <1>0, <1>p, <1>2, <2>5, <2>6 DEF ConfigInv, At, Others
  <2>c. \A q \in Procs \ {p} : LetBe(q)
    BY <1>k, <1>2, <2>7, <2>9 DEF LetBe
  <2>d. PlaceOf(p)'
    <3>1. "config" \in Track("login") /\ "config" \in Track("relocate")
      BY DEF Track
    <3> QED BY <1>o, <1>l, <1>2, <2>6, <3>1 DEF PlaceOf, Same
  <2>e. MoveOf(p)'
    <3>1. CASE run[p].op = "relocate"
      <4>1. /\ run[p].key = Unknown /\ run[p].record.kind = "owned" /\ run[p].to # Unknown
            /\ run[p].probe # None /\ lock[run[p].to] = p
        BY <1>0, <1>p, <3>1 DEF MoveOf, At, Over, HoldingBoth
      <4>2. "config" \in HoldingBoth
        BY DEF HoldingBoth
      <4>3. run'[p].to = k
        BY <1>k, <2>6, <3>1 DEF Same
      <4>4. Current(run[p].to)' # None
        BY <2>7, <4>3 DEF Current
      <4> QED BY <1>2, <2>6, <3>1, <4>1, <4>2, <4>4 DEF MoveOf, Same, At, Current
    <3>2. CASE run[p].op = "login"
      BY <1>0, <2>6, <3>2 DEF MoveOf, Same
    <3> QED BY <1>o, <3>1, <3>2
  <2>f. LoginOf(p)'
    <3>1. run[p].op = "login" => run'[p].key = k
      BY <1>k, <2>6 DEF Same
    <3> QED BY <2>6, <2>7, <3>1 DEF LoginOf, Same, Current
  <2>g. EmptiedOf(p)'
    BY <2>6 DEF EmptiedOf
  <2>h. SharedInv'
    <3> SUFFICES ASSUME NEW i \in Keys, NEW j \in Keys, NEW h \in Grants \ spent, i # j,
                        Holds(i, h)', Holds(j, h)'
                 PROVE  \E q \in Procs :
                          /\ run'[q].op = "relocate" /\ run'[q].probe = h
                          /\ \/ run'[q].pc \in {"failed", "dead"}
                             \/ run'[q].pc \in HoldingBoth /\ {i, j} = {Unknown, run'[q].to}
      <4>1. spent' = spent
        BY <1>2
      <4> QED BY <4>1 DEF SharedInv
    <3>1. CASE Holds(i, h) /\ Holds(j, h)
      <4>1. PICK q \in Procs :
              /\ run[q].op = "relocate" /\ run[q].probe = h
              /\ \/ run[q].pc \in {"failed", "dead"}
                 \/ run[q].pc \in HoldingBoth /\ {i, j} = {Unknown, run[q].to}
        BY <1>0, <3>1 DEF SharedInv
      <4>2. CASE q = p
        BY <1>p, <2>6, <4>1, <4>2 DEF Same, HoldingBoth
      <4>3. CASE q # p
        BY <2>5, <4>1, <4>3 DEF Others
      <4> QED BY <4>2, <4>3
    <3>2. CASE ~(Holds(i, h) /\ Holds(j, h))
      <4>1. PICK m \in Keys \ {k} : {i, j} = {k, m} /\ h = g /\ Holds(m, g)
        BY <2>7, <2>8, <3>2
      <4>2. run[p].op = "relocate"
        <5>1. CASE p \in Handed /\ g = run[p].hand
          BY <1>0, <4>1, <5>1 DEF HandedInv
        <5> QED BY <1>k, <5>1
      <4>3. run[p].probe = g /\ run[p].to = k /\ file[Unknown] = g /\ k # Unknown
        BY <1>0, <1>k, <1>p, <4>2 DEF MoveOf, At, Over
      <4>4. CASE m = Unknown
        BY <2>6, <4>1, <4>2, <4>3, <4>4 DEF Same, HoldingBoth
      <4>5. CASE m # Unknown
        <5>1. Holds(Unknown, g) /\ Unknown \in Keys
          BY <4>3, KeysAssumption DEF Holds
        <5>2. PICK q \in Procs :
                /\ run[q].op = "relocate" /\ run[q].probe = g
                /\ \/ run[q].pc \in {"failed", "dead"}
                   \/ run[q].pc \in HoldingBoth /\ {Unknown, m} = {Unknown, run[q].to}
          BY <1>0, <4>1, <4>5, <5>1 DEF SharedInv
        <5>3. q # p
          BY <1>p, <4>1, <4>3, <4>5, <5>2
        <5>4. run[q].pc \notin HoldingBoth
          <6> SUFFICES ASSUME run[q].pc \in HoldingBoth PROVE FALSE
            OBVIOUS
          <6>1. PlaceOf(q) /\ MoveOf(q)
            BY DEF IInv, ProcessInv
          <6>2. lock[Unknown] = q
            BY <5>2, <6>1 DEF PlaceOf, MoveOf, Holding, HoldingBoth, Over
          <6>3. lock[Unknown] = p
            BY <1>0, <1>l, <1>p, <4>2 DEF MoveOf, Over
          <6> QED BY <5>3, <6>2, <6>3
        <5>5. run'[q] = run[q]
          BY <2>5, <5>3 DEF Others
        <5> QED BY <4>1, <5>2, <5>4, <5>5
      <4> QED BY <4>4, <4>5
    <3> QED BY <3>1, <3>2
  <2>i. HandedInv'
    <3>1. Handed' \subseteq Handed \ {p} /\ \A q \in Handed' : run'[q].hand = run[q].hand
      BY <2>5, <2>6 DEF Handed, Others
    <3>2. ASSUME NEW i \in Keys, NEW h \in Grants \cup {None}, Holds(i, h)'
          PROVE  \/ h = None \/ \E j \in Keys : Holds(j, h)
                 \/ \E q \in Handed \ Handed' : h = run[q].hand
      <4>1. CASE h = None \/ Holds(i, h)
        BY <4>1
      <4>2. CASE h # None /\ ~Holds(i, h)
        <5>1. i = k /\ h = g
          BY <2>7, <2>8, <3>2, <4>2
        <5>2. Unknown \in Keys
          BY KeysAssumption
        <5> QED BY <1>k, <3>1, <5>1, <5>2 DEF Holds
      <4> QED BY <4>1, <4>2
    <3>3. issued <= issued'
      BY <1>0, <1>2, BoundsAssumption DEF TypeOK
    <3> QED BY <1>0, <2>a, <3>1, <3>2, <3>3, HandedKeeps
  <2>j. RecordIsReadable'
    <3>1. run[p].emptied => run[p].key = k
      BY <1>0, <1>k DEF EmptiedOf
    <3>2. \A i \in Keys : IsOwned(i)' /\ Current(i)' = None =>
             IsOwned(i) /\ Current(i) = None /\ i # k
      BY <2>7, <2>8, <2>9
    <3> QED BY <1>0, <2>5, <3>1, <3>2, ReadableKeeps
  <2>k. RecordedInv'
    <3>1. \A i \in Keys : ~Answers(p, i)
      BY <1>p DEF Answers, At
    <3>2. k \in Touches(p)'
      BY <1>k, <2>6 DEF Touches, Same
    <3>3. Answers(p, k)'
      BY <1>o, <2>6, <3>2 DEF Answers, Same, Touches
    <3> QED BY <1>0, <2>5, <2>8, <2>9, <3>1, <3>3, RecordedKeeps
  <2> QED BY <2>5, <2>a, <2>b, <2>c, <2>d, <2>e, <2>f, <2>g, <2>h, <2>i, <2>j, <2>k, StepKeeps
<1>3. CASE run[p].op = "login"
  BY <1>o, <1>k, <1>1, <1>2, <1>3 DEF Write
<1>4. CASE run[p].op = "relocate"
  BY <1>o, <1>k, <1>1, <1>2, <1>4 DEF Write
<1> QED BY <1>o, <1>3, <1>4

LEMMA EraseKeeps == ASSUME IInv, NEW p \in Procs, Erase(p) PROVE IInv'
<1>0. /\ TypeOK /\ ConfigInv /\ PlaceOf(p) /\ MoveOf(p) /\ LoginOf(p) /\ EmptiedOf(p)
      /\ HandedInv /\ SharedInv /\ RecordIsReadable /\ RecordedInv
  BY DEF IInv, ProcessInv
<1>p. run[p].pc = "erase" /\ run[p].pc \in Track(run[p].op) \cup Over
  BY <1>0 DEF Erase, At, PlaceOf
<1>o. run[p].op \in {"remove", "relocate"}
  BY <1>0, <1>p DEF Track, Over, TypeOK, Runs, Ops
<1>k. PICK k \in Keys : k = run[p].key /\ lock[k] = p
  BY <1>0, <1>o, <1>p DEF PlaceOf, Holding, TypeOK, Runs
<1>m. run[p].op = "relocate" =>
        /\ k = Unknown /\ run[p].record.kind = "owned" /\ run[p].to # Unknown
        /\ run[p].probe # None /\ lock[run[p].to] = p /\ ~IsOwned(Unknown) /\ run[p].to \in Keys
  BY <1>0, <1>k, <1>p DEF MoveOf, At, Over, HoldingBoth, TypeOK, Runs
<1>n. PICK n \in 0 .. 3 :
         /\ file' = [file EXCEPT ![k] = IF n >= 1 THEN None ELSE @]
         /\ adopted' = [adopted EXCEPT ![k] = IF n >= 2 THEN None ELSE @]
         /\ pending' = [pending EXCEPT ![k] = IF n = 3 THEN None ELSE @]
         /\ made' = IF n = 3 THEN made \ {k} ELSE made
         /\ run' = [run EXCEPT ![p].emptied = run[p].op = "remove" /\ n >= 1,
                               ![p].pc = IF n = 3 THEN "release" ELSE "failed"]
         /\ lock' = [j \in Keys |-> IF n < 3 /\ lock[j] = p THEN NoProc ELSE lock[j]]
         /\ UNCHANGED <<registry, config, issued, spent>>
  <2>1. run[p].key = k
    BY <1>k
  <2>2. (IF Fails("write") THEN 0 .. 3 ELSE {3}) \subseteq 0 .. 3
    OBVIOUS
  <2> QED BY <2>1, <2>2, Zenon DEF Erase
<1>b. PICK b \in BOOLEAN : b <=> run[p].op = "remove" /\ n >= 1
  OBVIOUS
<1>x. PICK x \in {"release", "failed"} : x = IF n = 3 THEN "release" ELSE "failed"
  OBVIOUS
<1> DEFINE r == [run[p] EXCEPT !.emptied = b, !.pc = x]
<1>1. run' = [run EXCEPT ![p].emptied = b, ![p].pc = x]
  BY <1>n, <1>b, <1>x
<1>2. run[p] \in Runs /\ r \in Runs
  <2>1. x \in Places /\ run[p] \in Runs
    BY <1>0 DEF Places, TypeOK
  <2> QED BY <2>1 DEF Runs
<1>3. run' \in [Procs -> Runs] /\ run'[p] = r /\ Others(p)
  BY <1>0, <1>1, <1>2 DEF TypeOK, Others
<1>4. /\ Same(p) /\ run'[p].record = run[p].record /\ run'[p].emptied = b
      /\ run'[p].pc = x /\ run'[p].resumed = run[p].resumed
  BY <1>2, <1>3 DEF Same, Runs
<1>5. /\ file' \in [Keys -> Grants \cup {None}] /\ pending' \in [Keys -> Grants \cup {None}]
      /\ adopted' \in [Keys -> Grants \cup {None}]
      /\ \A i \in Keys \ {k} : pending'[i] = pending[i] /\ file'[i] = file[i]
      /\ \A i \in Keys : (pending'[i] = None \/ pending'[i] = pending[i]) /\ (file'[i] = None \/ file'[i] = file[i])
      /\ n = 0 => file' = file
      /\ n # 3 => pending' = pending
      /\ n = 3 => file'[k] = None /\ pending'[k] = None
  BY <1>0, <1>n DEF TypeOK
<1>6. /\ lock' \in [Keys -> Procs \cup {NoProc}]
      /\ \A i \in Keys : lock[i] # p => lock'[i] = lock[i]
      /\ n = 3 => \A i \in Keys : lock'[i] = lock[i]
  BY <1>0, <1>n DEF TypeOK
<1>7. \A i \in Keys : IsOwned(i)' = IsOwned(i)
  BY <1>n DEF IsOwned
<1>a. TypeOK'
  <2>1. made' \subseteq Keys
    BY <1>0, <1>n DEF TypeOK
  <2> QED BY <1>0, <1>n, <1>3, <1>5, <1>6, <2>1 DEF TypeOK
<1>c. ConfigInv'
  BY <1>0, <1>p, <1>n, <1>3, <1>4 DEF ConfigInv, At, Others
<1>d. \A q \in Procs \ {p} : LetBe(q)
  BY <1>k, <1>5, <1>6, <1>7 DEF LetBe
<1>e. PlaceOf(p)'
  <2>1. "release" \in Track("remove") /\ "release" \in Track("relocate") /\ "failed" \in Over
    BY DEF Track, Over
  <2>2. "failed" \notin Holding("remove") /\ "failed" \notin Holding("relocate")
    BY DEF Holding
  <2>3. x = "release" => lock'[k] = p
    BY <1>k, <1>x, <1>6
  <2> QED BY <1>o, <1>k, <1>4, <2>1, <2>2, <2>3 DEF PlaceOf, Same
<1>f. MoveOf(p)' /\ LoginOf(p)'
  <2>1. "release" \in HoldingBoth /\ "failed" \in Over
    BY DEF HoldingBoth, Over
  <2>2. run[p].resumed => run[p].op = "relocate"
    BY <1>0 DEF MoveOf
  <2>3. x = "release" => n = 3
    BY <1>x
  <2>4. CASE run[p].op = "relocate"
    <3>1. x = "release" => lock'[run[p].to] = p /\ file'[Unknown] = None /\ pending'[Unknown] = None
      BY <1>m, <1>5, <1>6, <2>3, <2>4
    <3>2. /\ run'[p].op = "relocate" /\ run'[p].key = Unknown /\ run'[p].record.kind = "owned"
          /\ run'[p].to = run[p].to /\ run'[p].to # Unknown /\ run'[p].probe # None
          /\ run'[p].pc = x
      BY <1>m, <1>k, <1>4, <2>4 DEF Same
    <3>3. LoginOf(p)'
      BY <3>2 DEF LoginOf
    <3>4. CASE x = "failed"
      BY <2>1, <3>2, <3>3, <3>4 DEF MoveOf, Over
    <3>5. CASE x = "release"
      BY <2>1, <3>1, <3>2, <3>3, <3>5 DEF MoveOf, At, Over
    <3> QED BY <3>3, <3>4, <3>5
  <2>5. CASE run[p].op = "remove"
    BY <1>4, <2>2, <2>5 DEF MoveOf, LoginOf, Same
  <2> QED BY <1>o, <2>4, <2>5
<1>g. EmptiedOf(p)'
  BY <1>b, <1>4 DEF EmptiedOf, Same, Over
<1>h. SharedInv'
  <2>1. \A i \in Keys, g \in Grants : Holds(i, g)' => Holds(i, g)
    BY <1>5 DEF Holds, Grants
  <2>2. x \in {"failed", "dead"} \cup HoldingBoth /\ run[p].pc \notin {"failed", "dead"}
    BY <1>p DEF HoldingBoth
  <2> QED BY <1>0, <1>n, <1>3, <1>4, <2>1, <2>2, SharedKeeps
<1>i. HandedInv'
  <2>1. Handed' \subseteq Handed \ {p} /\ \A q \in Handed' : run'[q].hand = run[q].hand
    BY <1>3, <1>4 DEF Handed, Others
  <2>2. \A i \in Keys, g \in Grants : Holds(i, g)' => Holds(i, g)
    BY <1>5 DEF Holds, Grants
  <2> QED BY <1>0, <1>n, <1>a, <2>1, <2>2, HandedStays
<1>j. RecordIsReadable'
  <2>1. ~run[p].emptied
    BY <1>0, <1>p DEF EmptiedOf, Over
  <2> SUFFICES ASSUME NEW i \in Keys, IsOwned(i)', Current(i)' = None
               PROVE  \/ run'[p].emptied /\ run'[p].key = i /\ run'[p].pc # "done"
                      \/ IsOwned(i) /\ Current(i) = None
    BY <1>0, <1>3, <2>1, ReadableKeeps
  <2>2. CASE i # k
    BY <1>5, <1>7, <2>2 DEF Current
  <2>3. CASE i = k /\ n = 0
    BY <1>5, <1>7, <2>3 DEF Current
  <2>4. CASE i = k /\ n # 0
    <3>1. run[p].op = "remove"
      BY <1>o, <1>m, <1>7, <2>4
    <3>2. b
      BY <1>b, <2>4, <3>1
    <3> QED BY <1>k, <1>4, <2>4, <3>2 DEF Same
  <2> QED BY <2>2, <2>3, <2>4
<1>l. RecordedInv'
  <2> SUFFICES ASSUME NEW i \in Keys, Current(i)' # None, ~IsOwned(i)'
               PROVE  Answers(p, i)' \/ (Current(i) # None /\ ~IsOwned(i) /\ ~Answers(p, i))
    BY <1>0, <1>3, RecordedKeeps
  <2>1. Current(i) # None /\ ~IsOwned(i)
    BY <1>5, <1>7 DEF Current
  <2>2. CASE run[p].op = "remove"
    BY <1>p, <2>1, <2>2 DEF Answers, At
  <2>3. CASE run[p].op = "relocate" /\ i # Unknown
    BY <1>p, <2>1, <2>3 DEF Answers, At
  <2>4. CASE run[p].op = "relocate" /\ i = Unknown
    <3>1. n # 3
      BY <1>m, <1>5, <2>4 DEF Current
    <3>2. x = "failed"
      BY <1>x, <3>1
    <3> QED BY <1>4, <2>4, <3>2 DEF Answers, Same, Touches
  <2> QED BY <1>o, <2>2, <2>3, <2>4
<1> QED BY <1>3, <1>a, <1>c, <1>d, <1>e, <1>f, <1>g, <1>h, <1>i, <1>j, <1>l, StepKeeps

LEMMA ReleaseKeeps == ASSUME IInv, NEW p \in Procs, Release(p) PROVE IInv'
<1>0. /\ TypeOK /\ ConfigInv /\ PlaceOf(p) /\ MoveOf(p) /\ LoginOf(p) /\ EmptiedOf(p)
      /\ HandedInv /\ SharedInv /\ RecordIsReadable /\ RecordedInv
  BY DEF IInv, ProcessInv
<1>p. run[p].pc = "release" /\ run[p].pc \in Track(run[p].op) \cup Over
  BY <1>0 DEF Release, At, PlaceOf
<1>o. run[p].op \in {"login", "remove", "relocate"}
  BY <1>0, <1>p DEF Track, Over, TypeOK, Runs, Ops
<1>x. PICK x \in {"config", "done"} :
        /\ x = IF run[p].op = "remove" THEN "config" ELSE "done"
        /\ Ends(p, x) /\ UNCHANGED <<registry, config, file, pending, adopted, made, issued, spent>>
  BY DEF Release, stores
<1>1. x \in Places
  BY DEF Places
<1>2. /\ run' \in [Procs -> Runs] /\ Others(p) /\ Same(p)
      /\ run'[p].pc = x /\ ~run'[p].resumed
      /\ run'[p].emptied = run[p].emptied
      /\ lock' \in [Keys -> Procs \cup {NoProc}]
      /\ \A k \in Keys : lock'[k] = IF lock[k] = p THEN NoProc ELSE lock[k]
  BY <1>0, <1>x, <1>1, EndsFrame
<1>a. TypeOK'
  BY <1>0, <1>x, <1>2 DEF TypeOK
<1>b. ConfigInv'
  BY <1>0, <1>p, <1>x, <1>2 DEF ConfigInv, At, Others
<1>c. \A q \in Procs \ {p} : LetBe(q)
  BY <1>x, <1>2 DEF LetBe, IsOwned
<1>d. PlaceOf(p)' /\ MoveOf(p)' /\ LoginOf(p)'
  <2>1. "config" \in Track("remove") /\ "config" \notin Holding("remove")
    BY DEF Track, Holding
  <2>2. "done" \in Over /\ "done" \notin Holding(run[p].op)
    BY <1>o DEF Over, Holding
  <2> QED BY <1>o, <1>x, <1>2, <2>1, <2>2 DEF PlaceOf, MoveOf, LoginOf, Same
<1>e. EmptiedOf(p)'
  BY <1>0, <1>p, <1>x, <1>2 DEF EmptiedOf, Same, Over
<1>f. HandedInv'
  <2>1. Handed' \subseteq Handed \ {p} /\ \A q \in Handed' : run'[q].hand = run[q].hand
    BY <1>2 DEF Handed, Others
  <2> QED BY <1>0, <1>x, <1>a, <2>1, HandedStays DEF Holds
<1>g. SharedInv'
  <2> SUFFICES ASSUME NEW i \in Keys, NEW j \in Keys, NEW g \in Grants \ spent, i # j,
                      Holds(i, g), Holds(j, g)
               PROVE  \E q \in Procs :
                        /\ run'[q].op = "relocate" /\ run'[q].probe = g
                        /\ \/ run'[q].pc \in {"failed", "dead"}
                           \/ run'[q].pc \in HoldingBoth /\ {i, j} = {Unknown, run'[q].to}
    BY <1>x DEF SharedInv, Holds
  <2>1. PICK q \in Procs :
          /\ run[q].op = "relocate" /\ run[q].probe = g
          /\ \/ run[q].pc \in {"failed", "dead"}
             \/ run[q].pc \in HoldingBoth /\ {i, j} = {Unknown, run[q].to}
    BY <1>0 DEF SharedInv
  <2>2. CASE q = p
    <3>1. file[Unknown] = None /\ pending[Unknown] = None
      BY <1>0, <1>p, <2>1, <2>2 DEF MoveOf, At, Over
    <3>2. Unknown \in {i, j}
      BY <1>p, <2>1, <2>2
    <3> QED BY <3>1, <3>2 DEF Holds, Grants
  <2>3. CASE q # p
    BY <1>2, <2>1, <2>3 DEF Others
  <2> QED BY <2>2, <2>3
<1>h. RecordIsReadable'
  <2>1. run[p].emptied => run[p].op = "remove"
    BY <1>0, <1>p DEF EmptiedOf
  <2>2. run[p].emptied => run'[p].emptied /\ run'[p].key = run[p].key /\ run'[p].pc # "done"
    BY <1>x, <1>2, <2>1 DEF Same
  <2>3. \A i \in Keys : Current(i)' = Current(i) /\ IsOwned(i)' = IsOwned(i)
    BY <1>x DEF Current, IsOwned
  <2> QED BY <1>0, <1>2, <2>2, <2>3, ReadableKeeps
<1>i. RecordedInv'
  <2>1. \A i \in Keys : ~Answers(p, i)
    BY <1>p DEF Answers, At
  <2>2. \A i \in Keys : Current(i)' = Current(i) /\ IsOwned(i)' = IsOwned(i)
    BY <1>x DEF Current, IsOwned
  <2> QED BY <1>0, <1>2, <2>1, <2>2, RecordedKeeps
<1> QED BY <1>2, <1>a, <1>b, <1>c, <1>d, <1>e, <1>f, <1>g, <1>h, <1>i, StepKeeps

LEMMA TakeConfigKeeps == ASSUME IInv, NEW p \in Procs, TakeConfig(p) PROVE IInv'
<1>0. /\ TypeOK /\ ConfigInv /\ PlaceOf(p) /\ MoveOf(p) /\ LoginOf(p) /\ EmptiedOf(p)
      /\ HandedInv /\ SharedInv /\ RecordIsReadable /\ RecordedInv
  BY DEF IInv, ProcessInv
<1>p. run[p].pc = "config" /\ run[p].pc \in Track(run[p].op) \cup Over
  BY <1>0 DEF TakeConfig, At, PlaceOf
<1>1. /\ config = NoProc /\ config' = p
      /\ run' = [run EXCEPT ![p].read = registry, ![p].pc = "update"]
      /\ UNCHANGED <<registry, file, pending, adopted, made, lock, issued, spent>>
  BY DEF TakeConfig, stores
<1> DEFINE r == [run[p] EXCEPT !.read = registry, !.pc = "update"]
<1>2. run[p] \in Runs /\ r \in Runs
  <2>1. "update" \in Places /\ run[p] \in Runs /\ registry \in Registries
    BY <1>0 DEF Places, TypeOK
  <2> QED BY <2>1 DEF Runs
<1>3. run' \in [Procs -> Runs] /\ run'[p] = r /\ Others(p)
  BY <1>0, <1>1, <1>2 DEF TypeOK, Others
<1>4. /\ Same(p) /\ run'[p].record = run[p].record /\ run'[p].emptied = run[p].emptied
      /\ run'[p].pc = "update" /\ run'[p].resumed = run[p].resumed /\ run'[p].read = registry
  BY <1>2, <1>3 DEF Same, Runs
<1>a. TypeOK'
  BY <1>0, <1>1, <1>3 DEF TypeOK
<1>b. ConfigInv'
  BY <1>0, <1>1, <1>3, <1>4, ProcsAssumption DEF ConfigInv, At, Others
<1>c. \A q \in Procs \ {p} : LetBe(q)
  BY <1>1 DEF LetBe, IsOwned
<1>d. PlaceOf(p)'
  <2>1. "config" \in Track(run[p].op)
    BY <1>p DEF Over
  <2>2. run[p].op \in Ops \cup {"none"}
    BY <1>2 DEF Runs
  <2>3. "update" \in Track(run[p].op) /\ ("update" \in Holding(run[p].op) => "config" \in Holding(run[p].op))
    BY <2>1, <2>2 DEF Track, Holding, Ops
  <2> QED BY <1>0, <1>p, <1>1, <1>4, <2>3 DEF PlaceOf, Same
<1>e. MoveOf(p)' /\ LoginOf(p)'
  <2>1. LoginOf(p)'
    BY <1>0, <1>p, <1>1, <1>4 DEF LoginOf, Same, Current
  <2>2. {"config", "update"} \subseteq HoldingBoth
    BY DEF HoldingBoth
  <2>3. CASE run[p].op = "relocate"
    <3>1. /\ run[p].key = Unknown /\ run[p].record.kind = "owned" /\ run[p].to # Unknown
          /\ run[p].probe # None /\ lock[run[p].to] = p /\ Current(run[p].to) # None
      BY <1>0, <1>p, <2>2, <2>3 DEF MoveOf, At, Over
    <3>2. /\ run'[p].key = Unknown /\ run'[p].record.kind = "owned" /\ run'[p].to # Unknown
          /\ run'[p].probe # None /\ lock'[run'[p].to] = p /\ Current(run[p].to)' # None
          /\ run'[p].to = run[p].to
      BY <1>1, <1>4, <3>1 DEF Same, Current
    <3> QED BY <1>4, <2>1, <2>2, <2>3, <3>2 DEF MoveOf, Same, At, Current
  <2>4. CASE run[p].op # "relocate"
    BY <1>0, <1>4, <2>1, <2>4 DEF MoveOf, Same
  <2> QED BY <2>3, <2>4
<1>f. EmptiedOf(p)'
  BY <1>0, <1>p, <1>4 DEF EmptiedOf, Same, Over
<1>g. SharedInv'
  <2>1. "update" \in HoldingBoth
    BY DEF HoldingBoth
  <2> QED BY <1>0, <1>p, <1>1, <1>3, <1>4, <2>1, SharedKeeps DEF Holds
<1>h. HandedInv'
  <2>1. Handed' \subseteq Handed \ {p} /\ \A q \in Handed' : run'[q].hand = run[q].hand
    BY <1>3, <1>4 DEF Handed, Others
  <2> QED BY <1>0, <1>1, <1>a, <2>1, HandedStays DEF Holds
<1>i. RecordIsReadable'
  <2>1. run'[p].emptied = run[p].emptied /\ run'[p].key = run[p].key /\ run'[p].pc # "done"
    BY <1>4 DEF Same
  <2>2. \A i \in Keys : Current(i)' = Current(i) /\ IsOwned(i)' = IsOwned(i)
    BY <1>1 DEF Current, IsOwned
  <2> QED BY <1>0, <1>3, <2>1, <2>2, ReadableKeeps
<1>j. RecordedInv'
  <2>1. \A i \in Keys : Answers(p, i) => Answers(p, i)'
    BY <1>p, <1>4 DEF Answers, At, Same, Touches
  <2>2. \A i \in Keys : Current(i)' = Current(i) /\ IsOwned(i)' = IsOwned(i)
    BY <1>1 DEF Current, IsOwned
  <2> QED BY <1>0, <1>3, <2>1, <2>2, RecordedKeeps
<1> QED BY <1>3, <1>a, <1>b, <1>c, <1>d, <1>e, <1>f, <1>g, <1>h, <1>i, <1>j, StepKeeps

----------------------------------------------------------------------------
(* What a command makes of the registry.                                   *)

LEMMA PutFacts ==
    ASSUME NEW reg \in Registries, NEW k \in Keys, NEW rec \in Records
    PROVE  /\ Put(reg, k, rec) \in Registries
           /\ Put(reg, k, rec).record[k] = rec
           /\ \A i \in Keys \ {k} : Put(reg, k, rec).record[i] = reg.record[i]
BY DEF Put, Registries

LEMMA RecordFacts ==
    ASSUME NEW p \in Procs
    PROVE  /\ NoRecord \in Records /\ Owned(p) \in Records /\ Imported(p) \in Records
           /\ NoRecord.kind = "none" /\ Owned(p).kind = "owned" /\ Imported(p).kind = "imported"
BY DEF NoRecord, Owned, Imported, Records

LEMMA AppliedFacts ==
    ASSUME TypeOK, NEW p \in Procs, NEW reg \in Registries
    PROVE  /\ Applied(p, reg) \in Registries
           /\ \A k \in Keys \ Touches(p) : Applied(p, reg).record[k] = reg.record[k]
           /\ run[p].op = "login" => Applied(p, reg).record[run[p].key].kind = "owned"
           /\ run[p].op = "remove" => Applied(p, reg).record[run[p].key].kind = "none"
           /\ run[p].op = "relocate" /\ run[p].to # Unknown =>
                /\ Applied(p, reg).record[Unknown].kind = "none"
                /\ Applied(p, reg).record[run[p].to] = run[p].record
           /\ run[p].op = "import" => \A k \in run[p].plan : Applied(p, reg).record[k].kind = "imported"
           /\ run[p].op \in {"forget", "none"} =>
                \A k \in Keys : Applied(p, reg).record[k].kind = reg.record[k].kind
<1> DEFINE r == run[p]
<1>1. /\ r \in Runs /\ r.key \in Keys /\ r.to \in Keys /\ r.record \in Records /\ Unknown \in Keys
      /\ r.op \in Ops \cup {"none"} /\ r.plan \subseteq Keys /\ r.secret \in BOOLEAN
  BY KeysAssumption DEF TypeOK, Runs
<1>2. CASE r.op = "login"
  <2>1. Applied(p, reg) = Put(reg, r.key, Owned(p)) /\ Touches(p) = {r.key}
    BY <1>2 DEF Applied, Touches
  <2>2. PICK rec \in Records : rec = Owned(p) /\ rec.kind = "owned"
    BY RecordFacts
  <2>3. /\ Put(reg, r.key, rec) \in Registries
        /\ Put(reg, r.key, rec).record[r.key] = rec
        /\ \A i \in Keys \ {r.key} : Put(reg, r.key, rec).record[i] = reg.record[i]
    BY SMTT(30), <1>1, PutFacts
  <2> QED BY <1>2, <2>1, <2>2, <2>3
<1>3. CASE r.op = "remove"
  <2>1. Applied(p, reg) = Put(reg, r.key, NoRecord) /\ Touches(p) = {r.key}
    BY <1>3 DEF Applied, Touches, Removed
  <2>2. PICK rec \in Records : rec = NoRecord /\ rec.kind = "none"
    BY RecordFacts
  <2>3. /\ Put(reg, r.key, rec) \in Registries
        /\ Put(reg, r.key, rec).record[r.key] = rec
        /\ \A i \in Keys \ {r.key} : Put(reg, r.key, rec).record[i] = reg.record[i]
    BY SMTT(30), <1>1, PutFacts
  <2> QED BY <1>3, <2>1, <2>2, <2>3
<1>4. CASE r.op = "relocate"
  <2>1. /\ Applied(p, reg) = Put(Put(reg, Unknown, NoRecord), r.to, r.record)
        /\ Touches(p) = {Unknown, r.to}
    BY <1>4 DEF Applied, Touches, Relocated
  <2>2. PICK mid \in Registries :
          /\ mid = Put(reg, Unknown, NoRecord)
          /\ mid.record[Unknown].kind = "none"
          /\ \A i \in Keys \ {Unknown} : mid.record[i] = reg.record[i]
    <3>1. PICK rec \in Records : rec = NoRecord /\ rec.kind = "none"
      BY RecordFacts
    <3>2. /\ Put(reg, Unknown, rec) \in Registries
          /\ Put(reg, Unknown, rec).record[Unknown] = rec
          /\ \A i \in Keys \ {Unknown} : Put(reg, Unknown, rec).record[i] = reg.record[i]
      BY <1>1, PutFacts
    <3> QED BY <3>1, <3>2
  <2>3. /\ Put(mid, r.to, r.record) \in Registries
        /\ Put(mid, r.to, r.record).record[r.to] = r.record
        /\ \A i \in Keys \ {r.to} : Put(mid, r.to, r.record).record[i] = mid.record[i]
    BY <1>1, PutFacts
  <2> QED BY <1>1, <1>4, <2>1, <2>2, <2>3
<1>5. CASE r.op = "import"
  <2>1. /\ Applied(p, reg) =
             [reg EXCEPT !.record = [k \in Keys |-> IF k \in r.plan THEN Imported(p) ELSE @[k]]]
        /\ Touches(p) = r.plan
    BY <1>5 DEF Applied, Touches
  <2>2. [k \in Keys |-> IF k \in r.plan THEN Imported(p) ELSE reg.record[k]] \in [Keys -> Records]
    BY RecordFacts DEF Registries
  <2>3. /\ Applied(p, reg) \in Registries
        /\ Applied(p, reg).record =
             [k \in Keys |-> IF k \in r.plan THEN Imported(p) ELSE reg.record[k]]
    BY <2>1, <2>2 DEF Registries
  <2> QED BY <1>1, <1>5, <2>1, <2>3, RecordFacts
<1>6. CASE r.op \in {"forget", "none"}
  <2>1. Applied(p, reg) = Forgotten(r, reg) /\ Touches(p) = {r.key}
    BY <1>6 DEF Applied, Touches
  <2>2. CASE reg.record[r.key].kind = "imported"
    <3>1. Forgotten(r, reg) = [reg EXCEPT !.record[r.key].hidden = ~r.secret]
      BY <2>2 DEF Forgotten
    <3>2. PICK h \in BOOLEAN : h = ~r.secret
      BY <1>1
    <3>3. reg.record[r.key] \in [kind : {"owned", "imported"}, by : Procs \cup {NoProc}, hidden : BOOLEAN]
      BY <1>1, <2>2, RecordFacts DEF Registries, Records
    <3>4. /\ [reg.record[r.key] EXCEPT !.hidden = h] \in Records
          /\ [reg.record[r.key] EXCEPT !.hidden = h].kind = reg.record[r.key].kind
      BY <3>3 DEF Records
    <3>5. Applied(p, reg) = Put(reg, r.key, [reg.record[r.key] EXCEPT !.hidden = h])
      BY <1>1, <2>1, <3>1, <3>2 DEF Put, Registries
    <3>6. PICK rec \in Records :
            /\ rec = [reg.record[r.key] EXCEPT !.hidden = h]
            /\ rec.kind = reg.record[r.key].kind
      BY <3>4
    <3>7. /\ Put(reg, r.key, rec) \in Registries
          /\ Put(reg, r.key, rec).record[r.key] = rec
          /\ \A i \in Keys \ {r.key} : Put(reg, r.key, rec).record[i] = reg.record[i]
      BY SMTT(30), <1>1, PutFacts
    <3> QED BY <1>6, <2>1, <3>5, <3>6, <3>7
  <2>3. CASE reg.record[r.key].kind # "imported"
    <3>1. Forgotten(r, reg) =
            [reg EXCEPT !.hidden = IF r.secret THEN @ \ {r.key} ELSE @ \cup {r.key}]
      BY <2>3 DEF Forgotten
    <3>2. Forgotten(r, reg) \in Registries /\ Forgotten(r, reg).record = reg.record
      BY <1>1, <3>1 DEF Registries
    <3> QED BY <1>6, <2>1, <3>2
  <2> QED BY <2>2, <2>3
<1> QED BY <1>1, <1>2, <1>3, <1>4, <1>5, <1>6 DEF Ops

LEMMA UpdateKeeps == ASSUME IInv, NEW p \in Procs, Update(p) PROVE IInv'
<1>0. /\ TypeOK /\ ConfigInv /\ PlaceOf(p) /\ MoveOf(p) /\ LoginOf(p) /\ EmptiedOf(p)
      /\ HandedInv /\ SharedInv /\ RecordIsReadable /\ RecordedInv
  BY DEF IInv, ProcessInv
<1>p. run[p].pc = "update" /\ run[p].pc \in Track(run[p].op) \cup Over
  BY <1>0 DEF Update, At, PlaceOf
<1>c. config = p /\ run[p].read = registry /\ config' = NoProc
  BY <1>0, <1>p DEF ConfigInv, At, Update
<1>o. run[p].op \in Ops /\ run[p].key \in Keys /\ run[p].to \in Keys /\ registry \in Registries
  <2>1. run[p].op # "none"
    BY <1>p DEF Track, Over
  <2> QED BY <1>0, <2>1 DEF TypeOK, Runs
<1>u. UNCHANGED <<file, pending, adopted, made, issued, spent>>
  BY DEF Update, stores
<1>1. CASE Ends(p, "failed") /\ UNCHANGED registry
  <2>1. made' \subseteq Keys /\ run[p].pc \notin {"idle"} \cup Over
    BY <1>0, <1>p, <1>u DEF TypeOK, Over
  <2>2. config' = IF config = p THEN NoProc ELSE config
    BY <1>c
  <2>3. UNCHANGED <<registry, file, pending, adopted, issued, spent>>
    BY <1>1, <1>u
  <2> QED BY <1>1, <2>1, <2>2, <2>3, EndedKeeps
<1>2. CASE ~(Ends(p, "failed") /\ UNCHANGED registry)
  <2>1. PICK x \in {"release", "erase", "done"} :
          x = CASE run[p].op = "login" -> "release"
                [] run[p].op = "relocate" -> "erase"
                [] OTHER -> "done"
    OBVIOUS
  <2>2. /\ registry' = Applied(p, registry)
        /\ run' = [run EXCEPT ![p].read = Idle.read, ![p].pc = x]
        /\ UNCHANGED lock
    BY <1>2, <1>c, <2>1 DEF Update
  <2> DEFINE r == [run[p] EXCEPT !.read = Idle.read, !.pc = x]
  <2>3. run[p] \in Runs /\ r \in Runs
    <3>1. x \in Places /\ run[p] \in Runs /\ Idle.read \in Registries
      BY <1>0, IdleTypes DEF Places, TypeOK
    <3> QED BY <3>1 DEF Runs
  <2>4. run' \in [Procs -> Runs] /\ run'[p] = r /\ Others(p)
    BY <1>0, <2>2, <2>3 DEF TypeOK, Others
  <2>5. /\ Same(p) /\ run'[p].record = run[p].record /\ run'[p].emptied = run[p].emptied
        /\ run'[p].pc = x /\ run'[p].resumed = run[p].resumed
    BY <2>3, <2>4 DEF Same, Runs
  <2>6. run[p].op = "relocate" =>
          /\ run[p].key = Unknown /\ run[p].record.kind = "owned" /\ run[p].to # Unknown
          /\ run[p].probe # None /\ lock[run[p].to] = p /\ Current(run[p].to) # None
    BY <1>0, <1>p DEF MoveOf, At, Over, HoldingBoth
  <2>7. /\ run[p].op \in {"login", "relocate"} => lock[run[p].key] = p
        /\ run[p].op = "login" => Current(run[p].key) # None
    BY <1>0, <1>p DEF PlaceOf, LoginOf, Holding
  <2>k0. PICK k \in Keys, t \in Keys : k = run[p].key /\ t = run[p].to
    BY <1>o
  <2>8. /\ registry' \in Registries
        /\ \A i \in Keys \ Touches(p) : IsOwned(i)' = IsOwned(i)
        /\ run[p].op = "login" => IsOwned(k)' /\ Touches(p) = {k}
        /\ run[p].op = "remove" => ~IsOwned(k)' /\ Touches(p) = {k}
        /\ run[p].op = "relocate" => ~IsOwned(Unknown)' /\ IsOwned(t)' /\ Touches(p) = {Unknown, t}
        /\ run[p].op = "import" => (\A i \in run[p].plan : ~IsOwned(i)') /\ Touches(p) = run[p].plan
        /\ run[p].op = "forget" => \A i \in Keys : IsOwned(i)' = IsOwned(i)
    <3>1. /\ Applied(p, registry) \in Registries
          /\ \A i \in Keys \ Touches(p) : Applied(p, registry).record[i] = registry.record[i]
          /\ run[p].op = "login" => Applied(p, registry).record[run[p].key].kind = "owned"
          /\ run[p].op = "remove" => Applied(p, registry).record[run[p].key].kind = "none"
          /\ run[p].op = "relocate" /\ run[p].to # Unknown =>
                /\ Applied(p, registry).record[Unknown].kind = "none"
                /\ Applied(p, registry).record[run[p].to] = run[p].record
          /\ run[p].op = "import" =>
               \A i \in run[p].plan : Applied(p, registry).record[i].kind = "imported"
          /\ run[p].op \in {"forget", "none"} =>
                \A i \in Keys : Applied(p, registry).record[i].kind = registry.record[i].kind
      BY <1>0, <1>o, AppliedFacts
    <3>2. PICK made_ \in Registries : made_ = Applied(p, registry) /\ registry' = made_
      BY <2>2, <3>1
    <3>3. \A i \in Keys : IsOwned(i)' <=> made_.record[i].kind = "owned"
      BY <3>2 DEF IsOwned
    <3>4. /\ run[p].op = "login" => Touches(p) = {run[p].key}
          /\ run[p].op = "remove" => Touches(p) = {run[p].key}
          /\ run[p].op = "relocate" => Touches(p) = {Unknown, run[p].to}
          /\ run[p].op = "import" => Touches(p) = run[p].plan
      BY DEF Touches
    <3>5. Unknown \in Keys /\ run[p].plan \subseteq Keys
      BY <2>3, KeysAssumption DEF Runs
    <3>6. \A i \in Keys : (IsOwned(i) <=> registry.record[i].kind = "owned")
                          /\ IsOwned(i) \in BOOLEAN /\ IsOwned(i)' \in BOOLEAN
      BY DEF IsOwned
    <3>7. CASE run[p].op = "login"
      BY <2>k0, <3>1, <3>2, <3>3, <3>4, <3>6, <3>7
    <3>8. CASE run[p].op = "remove"
      BY <2>k0, <3>1, <3>2, <3>3, <3>4, <3>6, <3>8
    <3>9. CASE run[p].op = "relocate"
      BY <2>6, <2>k0, <3>1, <3>2, <3>3, <3>4, <3>5, <3>6, <3>9
    <3>10. CASE run[p].op = "import"
      BY <3>1, <3>2, <3>3, <3>4, <3>5, <3>6, <3>10
    <3>11. CASE run[p].op = "forget"
      BY <3>1, <3>2, <3>3, <3>4, <3>5, <3>6, <3>11
    <3> QED BY <1>o, <3>7, <3>8, <3>9, <3>10, <3>11 DEF Ops
  <2>a. TypeOK'
    BY <1>0, <1>c, <1>u, <2>2, <2>4, <2>8 DEF TypeOK
  <2>b. ConfigInv'
    <3>1. \A q \in Procs : ~At(q, "update")'
      BY ZenonT(60), <1>0, <1>c, <2>4, <2>5 DEF ConfigInv, At, Others
    <3> QED BY <1>c, <3>1, ProcsAssumption DEF ConfigInv
  <2>c. \A q \in Procs \ {p} : LetBe(q)
    <3>1. ASSUME NEW i \in Keys, IsOwned(i)', ~IsOwned(i) PROVE lock[i] = p
      <4>1. i \in Touches(p) /\ run[p].op # "forget"
        BY <2>8, <3>1
      <4> QED BY <1>o, <2>6, <2>7, <2>k0, <2>8, <3>1, <4>1 DEF Ops
    <3> QED BY <1>u, <2>2, <3>1 DEF LetBe
  <2>d. PlaceOf(p)'
    <3>1. /\ "release" \in Track("login") /\ "erase" \in Track("relocate") /\ "done" \in Over
          /\ \A op \in Ops : "done" \notin Holding(op)
      BY DEF Track, Over, Holding, Ops
    <3> QED BY <1>o, <2>1, <2>2, <2>5, <2>7, <3>1 DEF PlaceOf, Same
  <2>e. MoveOf(p)' /\ LoginOf(p)'
    <3>1. LoginOf(p)'
      BY <2>5 DEF LoginOf
    <3>2. "erase" \in HoldingBoth
      BY DEF HoldingBoth
    <3>3. CASE run[p].op = "relocate"
      <4>1. /\ run'[p].op = "relocate" /\ run'[p].pc = "erase" /\ run'[p].key = Unknown
            /\ run'[p].record.kind = "owned" /\ run'[p].to # Unknown /\ run'[p].probe # None
            /\ lock'[run'[p].to] = p /\ ~IsOwned(Unknown)'
        BY <2>1, <2>2, <2>5, <2>6, <2>k0, <2>8, <3>3 DEF Same
      <4> QED BY <3>1, <3>2, <4>1 DEF MoveOf, At
    <3>4. CASE run[p].op # "relocate"
      BY <1>0, <2>5, <3>1, <3>4 DEF MoveOf, Same
    <3> QED BY <3>3, <3>4
  <2>f. run[p].emptied => run[p].op = "remove"
    BY <1>0, <1>p DEF EmptiedOf
  <2>g. EmptiedOf(p)'
    <3>1. run[p].op = "remove" => x = "done"
      BY <2>1
    <3> QED BY <2>5, <2>f, <3>1 DEF EmptiedOf, Same, Over
  <2>h. SharedInv'
    <3>1. run[p].op = "relocate" => x = "erase" /\ "erase" \in HoldingBoth
      BY <2>1 DEF HoldingBoth
    <3> QED BY <1>0, <1>p, <1>u, <2>4, <2>5, <3>1, SharedKeeps DEF Holds
  <2>i. HandedInv'
    <3>1. Handed' \subseteq Handed \ {p} /\ \A q \in Handed' : run'[q].hand = run[q].hand
      BY <2>4, <2>5 DEF Handed, Others
    <3> QED BY <1>0, <1>u, <2>a, <3>1, HandedStays DEF Holds
  <2>j. RecordIsReadable'
    <3> SUFFICES ASSUME NEW i \in Keys, IsOwned(i)', Current(i)' = None
                 PROVE  IsOwned(i) /\ Current(i) = None /\ ~(run[p].emptied /\ run[p].key = i)
      BY <1>0, <2>4, ReadableKeeps
    <3>1. Current(i) = None
      BY <1>u DEF Current
    <3>2. IsOwned(i)
      <4>1. CASE i \notin Touches(p) \/ run[p].op = "forget"
        BY <2>8, <4>1
      <4>2. CASE i \in Touches(p) /\ run[p].op # "forget"
        BY <1>o, <2>6, <2>7, <2>k0, <2>8, <3>1, <4>2 DEF Ops
      <4> QED BY <4>1, <4>2
    <3>3. ~(run[p].emptied /\ run[p].key = i)
      BY <2>k0, <2>8, <2>f
    <3> QED BY <3>1, <3>2, <3>3
  <2>k. RecordedInv'
    <3> SUFFICES ASSUME NEW i \in Keys, Current(i)' # None, ~IsOwned(i)'
                 PROVE  Answers(p, i)' \/ (Current(i) # None /\ ~IsOwned(i) /\ ~Answers(p, i))
      BY <1>0, <2>4, RecordedKeeps
    <3>1. Current(i) # None
      BY <1>u DEF Current
    <3>2. CASE i \notin Touches(p)
      BY <2>8, <3>1, <3>2 DEF Answers
    <3>3. CASE run[p].op = "forget"
      BY <2>8, <3>1, <3>3 DEF Answers
    <3>4. CASE i \in Touches(p) /\ run[p].op # "forget"
      <4>1. i \in Touches(p)'
        BY <2>5, <3>4 DEF Touches, Same
      <4>2. CASE run[p].op \in {"remove", "import"}
        BY <2>1, <2>5, <4>1, <4>2 DEF Answers, At, Same
      <4>3. CASE run[p].op = "relocate"
        BY <2>1, <2>5, <2>8, <3>4, <4>1, <4>3 DEF Answers, At, Same
      <4>4. CASE run[p].op = "login"
        BY <2>8, <3>4, <4>4
      <4> QED BY <1>o, <3>4, <4>2, <4>3, <4>4 DEF Ops
    <3> QED BY <3>2, <3>3, <3>4
  <2> QED BY <2>4, <2>a, <2>b, <2>c, <2>d, <2>e, <2>g, <2>h, <2>i, <2>j, <2>k, StepKeeps
<1> QED BY <1>1, <1>2

----------------------------------------------------------------------------
(* What runs beside the commands.                                          *)

\* What is left of the invariant when no command moves and the namespaces they hold are let be.
LEMMA BesideKeeps ==
    ASSUME IInv, TypeOK', UNCHANGED <<registry, config, run>>, spent \subseteq spent',
           \A i \in Keys : lock[i] # NoProc =>
             lock'[i] = lock[i] /\ file'[i] = file[i] /\ pending'[i] = pending[i],
           \A i \in Keys : ~IsOwned(i) => file'[i] = file[i] /\ pending'[i] = pending[i],
           \A i \in Keys : Current(i) # None => Current(i)' # None,
           \A i \in Keys, g \in Grants \ spent' : Holds(i, g)' =>
              \/ Holds(i, g)
              \/ g = issued' /\ issued < issued' /\ \A j \in Keys \ {i} : ~Holds(j, g)',
           HandedInv'
    PROVE  IInv'
<1>0. TypeOK /\ ConfigInv /\ ProcessInv /\ SharedInv /\ RecordIsReadable /\ RecordedInv
  BY DEF IInv
<1>1. ConfigInv'
  BY <1>0 DEF ConfigInv, At
<1>2. ProcessInv'
  <2> SUFFICES ASSUME NEW q \in Procs PROVE PlaceOf(q)' /\ MoveOf(q)' /\ LoginOf(q)' /\ EmptiedOf(q)'
    BY DEF ProcessInv
  <2>1. LetBe(q) /\ run'[q] = run[q]
    BY ProcsAssumption DEF LetBe, IsOwned
  <2> QED BY <1>0, <2>1, OtherKeeps DEF ProcessInv
<1>3. SharedInv'
  <2> SUFFICES ASSUME NEW i \in Keys, NEW j \in Keys, NEW g \in Grants \ spent', i # j,
                      Holds(i, g)', Holds(j, g)'
               PROVE  \E q \in Procs :
                        /\ run[q].op = "relocate" /\ run[q].probe = g
                        /\ \/ run[q].pc \in {"failed", "dead"}
                           \/ run[q].pc \in HoldingBoth /\ {i, j} = {Unknown, run[q].to}
    BY DEF SharedInv
  <2>1. Holds(i, g) /\ Holds(j, g)
    OBVIOUS
  <2> QED BY <1>0, <2>1 DEF SharedInv
<1>4. RecordIsReadable'
  <2>1. \A i \in Keys : IsOwned(i)' = IsOwned(i)
    BY DEF IsOwned
  <2>2. \A i \in Keys : Current(i)' = None => Current(i) = None
    OBVIOUS
  <2> QED BY <1>0, <2>1, <2>2 DEF RecordIsReadable, At
<1>5. RecordedInv'
  <2>1. \A i \in Keys : ~IsOwned(i)' => ~IsOwned(i) /\ Current(i)' = Current(i)
    BY DEF IsOwned, Current
  <2>2. \A i \in Keys, q \in Procs : Answers(q, i)' <=> Answers(q, i)
    BY DEF Answers, At, Touches
  <2> QED BY <1>0, <2>1, <2>2 DEF RecordedInv
<1> QED BY <1>1, <1>2, <1>3, <1>4, <1>5 DEF IInv

LEMMA StatusKeeps == ASSUME IInv, NEW k \in Keys, Status(k) PROVE IInv'
<1>0. TypeOK /\ HandedInv
  BY DEF IInv
<1>n. /\ issued \in Nat /\ MaxGrants \in Nat /\ Current(k) \in Grants /\ Current(k) # None
      /\ \A i \in Keys : file[i] \in Grants \cup {None} /\ pending[i] \in Grants \cup {None}
  BY <1>0, BoundsAssumption DEF TypeOK, Status, Current
<1>u. UNCHANGED <<registry, config, adopted, made, lock, run>> /\ IsOwned(k) /\ lock[k] = NoProc
  BY DEF Status
<1>h. Holds(k, Current(k))
  BY DEF Holds, Current
<1>1. PICK f \in Grants \cup {None}, d \in Grants \cup {None} :
        /\ file' = [file EXCEPT ![k] = f] /\ pending' = [pending EXCEPT ![k] = d]
        /\ f # None \/ d # None
        /\ \/ f = Current(k) /\ d = None /\ UNCHANGED <<issued, spent>>
           \/ /\ issued' = issued + 1 /\ spent' = spent \cup {Current(k)} /\ issued < MaxGrants
              /\ \/ f = issued + 1 /\ d = None
                 \/ f = Current(k) /\ d = issued + 1
  <2>1. CASE /\ pending[k] # None
             /\ file' = [file EXCEPT ![k] = pending[k]]
             /\ pending' = [pending EXCEPT ![k] = None]
             /\ UNCHANGED <<issued, spent>>
    <3>1. Current(k) = pending[k]
      BY <2>1 DEF Current
    <3> QED BY <1>n, <2>1, <3>1
  <2>2. CASE /\ issued < MaxGrants
             /\ issued' = issued + 1
             /\ spent' = spent \cup {Current(k)}
             /\ \/ file' = [file EXCEPT ![k] = issued + 1] /\ pending' = [pending EXCEPT ![k] = None]
                \/ /\ file' = [file EXCEPT ![k] = Current(k)]
                   /\ pending' = [pending EXCEPT ![k] = issued + 1]
    <3>1. issued + 1 \in Grants /\ issued + 1 # None
      BY <1>n, <2>2 DEF Grants
    <3> QED BY <1>n, <2>2, <3>1
  <2> QED BY <2>1, <2>2 DEF Status
<1>2. /\ file' \in [Keys -> Grants \cup {None}] /\ pending' \in [Keys -> Grants \cup {None}]
      /\ file'[k] = f /\ pending'[k] = d
      /\ \A i \in Keys \ {k} : file'[i] = file[i] /\ pending'[i] = pending[i]
  BY <1>0, <1>1 DEF TypeOK
<1>3. TypeOK'
  <2>1. issued' \in 0 .. MaxGrants /\ spent' \subseteq Grants
    BY <1>0, <1>n, <1>1 DEF TypeOK
  <2> QED BY <1>0, <1>u, <1>2, <2>1 DEF TypeOK
<1>4. issued <= issued' /\ issued' \in Nat /\ spent \subseteq spent'
  BY <1>n, <1>1
<1>5. ASSUME NEW i \in Keys, NEW g \in Grants, Holds(i, g)', ~Holds(i, g)
      PROVE  i = k /\ g = issued' /\ issued' = issued + 1
  BY <1>h, <1>1, <1>2, <1>5 DEF Holds, Grants
<1>6. HandedInv'
  <2>1. Handed' = Handed /\ \A q \in Handed' : run'[q].hand = run[q].hand
    BY <1>u DEF Handed
  <2>2. \A i \in Keys, g \in Grants \cup {None} : Holds(i, g)' =>
             g = None \/ (\E j \in Keys : Holds(j, g)) \/ (g = issued' /\ issued < issued')
    BY <1>n, <1>5
  <2> QED BY <1>0, <1>3, <1>4, <2>1, <2>2, HandedKeeps
<1>7. ASSUME NEW i \in Keys, NEW g \in Grants, Holds(i, g)', ~Holds(i, g)
      PROVE  g = issued' /\ issued < issued' /\ \A j \in Keys \ {i} : ~Holds(j, g)'
  <2>1. i = k /\ g = issued' /\ issued' = issued + 1
    BY <1>5, <1>7
  <2>2. \A j \in Keys : ~Holds(j, g)
    BY <1>0, <1>n, <2>1 DEF HandedInv, Holds, Grants
  <2>3. \A j \in Keys \ {k} : ~Holds(j, g)'
    BY <1>5, <2>2
  <2> QED BY <1>n, <2>1, <2>3
<1>8. \A i \in Keys : Current(i) # None => Current(i)' # None
  BY <1>1, <1>2 DEF Current
<1>9. \A i \in Keys : i # k => file'[i] = file[i] /\ pending'[i] = pending[i]
  BY <1>2
<1> QED BY <1>3, <1>4, <1>6, <1>7, <1>8, <1>9, <1>u, BesideKeeps

LEMMA AdoptKeeps == ASSUME IInv, NEW k \in Keys, Adopt(k) PROVE IInv'
<1>0. TypeOK /\ HandedInv
  BY DEF IInv
<1>1. /\ UNCHANGED <<registry, config, file, pending, made, lock, spent, run>>
      /\ issued < MaxGrants /\ issued' = issued + 1
      /\ adopted' = [adopted EXCEPT ![k] = issued + 1]
  BY DEF Adopt
<1>2. issued \in Nat /\ MaxGrants \in Nat /\ issued + 1 \in Grants /\ issued' \in 0 .. MaxGrants
  BY <1>0, <1>1, BoundsAssumption DEF TypeOK, Grants
<1>3. TypeOK'
  BY <1>0, <1>1, <1>2 DEF TypeOK
<1>4. HandedInv'
  <2>1. Handed' = Handed /\ \A q \in Handed' : run'[q].hand = run[q].hand
    BY <1>1 DEF Handed
  <2>2. \A i \in Keys, g \in Grants \cup {None} : Holds(i, g)' => Holds(i, g)
    BY <1>1 DEF Holds
  <2>3. issued <= issued'
    BY <1>1, <1>2
  <2> QED BY <1>0, <1>3, <2>1, <2>2, <2>3, HandedKeeps
<1>5. \A i \in Keys : Current(i)' = Current(i)
  BY <1>1 DEF Current
<1>6. \A i \in Keys, g \in Grants : Holds(i, g)' => Holds(i, g)
  BY <1>1 DEF Holds
<1> QED BY <1>1, <1>3, <1>4, <1>5, <1>6, BesideKeeps

----------------------------------------------------------------------------
(* The invariant holds of every behaviour.                                 *)

LEMMA InvInit == Init => IInv
<1> SUFFICES ASSUME Init PROVE IInv
  OBVIOUS
<1>1. PICK owned \in Starts :
         /\ registry = [record |-> [k \in Keys |-> IF k \in owned THEN Owned(NoProc) ELSE NoRecord],
                        hidden |-> {}]
         /\ file \in [Keys -> 0 .. Cardinality(owned)]
         /\ \A k \in Keys : k \in owned <=> file[k] # None
         /\ \A j, k \in owned : file[j] = file[k] => j = k
         /\ made = owned
         /\ issued = Cardinality(owned)
  BY DEF Init
<1>2. /\ config = NoProc /\ spent = {} /\ run = [p \in Procs |-> Idle]
      /\ pending = [k \in Keys |-> None] /\ adopted = [k \in Keys |-> None]
      /\ lock = [k \in Keys |-> NoProc]
  BY DEF Init
<1>3. issued \in 0 .. MaxGrants /\ owned \subseteq Keys
  <2>1. owned \subseteq Keys /\ IsFiniteSet(owned)
    BY KeysAssumption, FS_Subset
  <2>2. Cardinality(owned) \in Nat
    BY <2>1, FS_CardinalityType
  <2> QED BY <1>1, <2>1, <2>2, StartsAssumption, BoundsAssumption
<1>4. /\ registry \in Registries
      /\ \A k \in Keys : IsOwned(k) <=> k \in owned
  <2>1. /\ Owned(NoProc) \in Records /\ NoRecord \in Records
        /\ Owned(NoProc).kind = "owned" /\ NoRecord.kind = "none"
    BY DEF Owned, NoRecord, Records
  <2> QED BY <1>1, <2>1 DEF Registries, IsOwned
<1>5. \A p \in Procs : /\ run[p] \in Runs /\ run[p].op = "none" /\ run[p].pc = "idle"
                       /\ ~run[p].emptied /\ ~run[p].resumed
  BY <1>2, IdleTypes
<1>a. TypeOK
  <2>1. file \in [Keys -> Grants \cup {None}]
    BY <1>1, <1>3, BoundsAssumption DEF Grants
  <2>2. run \in [Procs -> Runs]
    BY <1>2, IdleTypes
  <2> QED BY <1>1, <1>2, <1>3, <1>4, <2>1, <2>2 DEF TypeOK
<1>b. ConfigInv
  BY <1>2, <1>5, ProcsAssumption DEF ConfigInv, At
<1>c. ProcessInv
  BY <1>5 DEF ProcessInv, PlaceOf, MoveOf, LoginOf, EmptiedOf, Track, Holding
<1>d. HandedInv
  <2>1. Handed = {}
    BY <1>5 DEF Handed
  <2>2. \A k \in Keys : file[k] <= issued /\ pending[k] <= issued
    BY <1>1, <1>2, <1>3, BoundsAssumption
  <2> QED BY <2>1, <2>2 DEF HandedInv
<1>e. SharedInv
  <2>1. \A k \in Keys, g \in Grants : Holds(k, g) => k \in owned /\ file[k] = g
    BY <1>1, <1>2 DEF Holds, Grants
  <2> QED BY <1>1, <2>1 DEF SharedInv
<1>f. \A k \in Keys : Current(k) # None <=> IsOwned(k)
  BY <1>1, <1>2, <1>4 DEF Current
<1> QED BY <1>a, <1>b, <1>c, <1>d, <1>e, <1>f DEF IInv, RecordIsReadable, RecordedInv

LEMMA InvStutter == ASSUME IInv, UNCHANGED vars PROVE IInv'
<1>1. UNCHANGED <<registry, config, file, pending, adopted, made, lock, issued, spent, run>>
  BY DEF vars, stores
<1>2. TypeOK' /\ ConfigInv' /\ HandedInv'
  BY <1>1 DEF IInv, TypeOK, ConfigInv, HandedInv, Handed, Holds, At
<1>3. ProcessInv' /\ SharedInv'
  BY <1>1 DEF IInv, ProcessInv, PlaceOf, MoveOf, LoginOf, EmptiedOf, SharedInv, Holds, At, IsOwned,
              Current
<1>4. RecordIsReadable' /\ RecordedInv'
  BY <1>1 DEF IInv, RecordIsReadable, RecordedInv, Answers, Touches, At, IsOwned, Current
<1> QED BY <1>2, <1>3, <1>4 DEF IInv

LEMMA InvStep == IInv /\ [Next]_vars => IInv'
<1> SUFFICES ASSUME IInv, [Next]_vars PROVE IInv'
  OBVIOUS
<1>1. ASSUME NEW p \in Procs, Step(p) PROVE IInv'
  BY <1>1, BeginKeeps, AuthorizeKeeps, ExchangeKeeps, AskKeeps, ResolveKeeps, ProbeKeeps,
     ConfirmKeeps, PlanKeeps, AcquireKeeps, CheckKeeps, ClearStaleKeeps, WriteKeeps, EraseKeeps,
     ReleaseKeeps, TakeConfigKeeps, UpdateKeeps DEF Step
<1>2. ASSUME NEW p \in Procs, Busy(p) \/ Crash(p) PROVE IInv'
  BY <1>2, BusyKeeps, CrashKeeps
<1>3. ASSUME NEW k \in Keys, Status(k) \/ Adopt(k) PROVE IInv'
  BY <1>3, StatusKeeps, AdoptKeeps
<1>4. CASE UNCHANGED vars
  BY <1>4, InvStutter
<1> QED BY <1>1, <1>2, <1>3, <1>4 DEF Next

LEMMA InvAlways == Spec => []IInv
BY InvInit, InvStep, PTL DEF Spec

\* Every variable keeps its type.
THEOREM TypeCorrect == Spec => []TypeOK
<1>1. IInv => TypeOK
  BY DEF IInv
<1> QED BY <1>1, InvAlways, PTL

\* For any commands beside each other and beside `status`, two namespaces share a grant that is
\* still good only in the hands of a move, or where one failed or died between its copy and its
\* removal: `status` on one account never spends the credential of another.
THEOREM NoGrantIsShared == Spec => []NoSharedGrant
<1>1. ASSUME IInv PROVE NoSharedGrant
  <2> SUFFICES ASSUME NEW j \in {i \in Keys : Current(i) \notin spent \cup {None}},
                      NEW k \in {i \in Keys : Current(i) \notin spent \cup {None}},
                      j # k, Current(j) = Current(k)
               PROVE  \E p \in Procs :
                        /\ run[p].op = "relocate" /\ run[p].probe = Current(j)
                        /\ {lock[j], lock[k]} = {p} \/ run[p].pc \in {"failed", "dead"}
    BY DEF NoSharedGrant
  <2>1. Holds(j, Current(j)) /\ Holds(k, Current(j)) /\ Current(j) \in Grants \ spent
    BY <1>1 DEF IInv, TypeOK, Holds, Current
  <2>2. PICK p \in Procs :
            /\ run[p].op = "relocate" /\ run[p].probe = Current(j)
            /\ \/ run[p].pc \in {"failed", "dead"}
               \/ run[p].pc \in HoldingBoth /\ {j, k} = {Unknown, run[p].to}
    BY <1>1, <2>1 DEF IInv, SharedInv
  <2>3. CASE run[p].pc \in {"failed", "dead"}
    BY <2>2, <2>3
  <2>4. CASE run[p].pc \in HoldingBoth /\ {j, k} = {Unknown, run[p].to}
    <3>1. lock[run[p].key] = p
      BY <1>1, <2>2, <2>4 DEF IInv, ProcessInv, PlaceOf, Holding, HoldingBoth
    <3>2. run[p].key = Unknown /\ lock[run[p].to] = p
      BY <1>1, <2>2, <2>4 DEF IInv, ProcessInv, MoveOf, HoldingBoth, Over
    <3> QED BY <2>2, <2>4, <3>1, <3>2
  <2> QED BY <2>2, <2>3, <2>4
<1> QED BY <1>1, InvAlways, PTL

\* What the registry says agctl owns can be read, and what is stored is recorded, but where a
\* command holds the namespace, failed or died in it, or deleted the one of the two it says.
THEOREM RegistryAndNamespacesAgree == Spec => []RegistryAgrees
<1>1. ASSUME IInv PROVE RegistryAgrees
  <2>1. ASSUME NEW k \in Keys, Current(k) # None, ~IsOwned(k)
        PROVE  \E p \in Procs :
            /\ k \in Touches(p)
            /\ \/ run[p].op \in {"login", "relocate"} /\ (lock[k] = p \/ run[p].pc \in {"failed", "dead"})
               \/ run[p].op \in {"remove", "import"} /\ At(p, "done")
    <3>1. PICK p \in Procs : Answers(p, k)
      BY <1>1, <2>1 DEF IInv, RecordedInv
    <3>2. PlaceOf(p) /\ MoveOf(p)
      BY <1>1 DEF IInv, ProcessInv
    <3>3. CASE run[p].op = "login" /\ run[p].pc \in {"config", "update"}
      BY <3>1, <3>2, <3>3 DEF Answers, PlaceOf, Holding, Touches
    <3>4. CASE run[p].op = "relocate" /\ run[p].pc \in {"config", "update", "erase"}
      <4>1. run[p].key = Unknown /\ lock[run[p].to] = p /\ lock[Unknown] = p
        BY <3>2, <3>4 DEF MoveOf, PlaceOf, Holding, HoldingBoth, Over
      <4>2. k \in {Unknown, run[p].to}
        BY <3>1, <3>4 DEF Answers, Touches
      <4> QED BY <3>1, <3>4, <4>1, <4>2 DEF Answers
    <3> QED BY <3>1, <3>3, <3>4 DEF Answers, At
  <2> QED BY <1>1, <2>1 DEF RegistryAgrees, StoredIsRecorded, IInv
<1> QED BY <1>1, InvAlways, PTL

\* Only an update writes the registry.
LEMMA OnlyUpdates == ASSUME Next, registry' # registry PROVE \E p \in Procs : Update(p)
<1>1. ASSUME NEW p \in Procs, Step(p) \/ Busy(p) \/ Crash(p), ~Update(p) PROVE registry' = registry
  BY <1>1 DEF Step, Begin, Authorize, Exchange, Ask, Resolve, Probe, Confirm, Plan, Acquire, Check,
              ClearStale, Write, Erase, Release, TakeConfig, Busy, Crash, Fail
<1>2. ASSUME NEW k \in Keys, Status(k) \/ Adopt(k) PROVE registry' = registry
  BY <1>2 DEF Status, Adopt
<1> QED BY <1>1, <1>2 DEF Next

\* A command's rewrite of the whole registry leaves every account it does not name as the last
\* command that named it left it, whatever was written since the command began.
THEOREM UpdatesTouchTheirOwn == Spec => OthersRecordsKept
<1>1. ASSUME IInv, [Next]_vars, NEW p \in Procs, At(p, "update"), registry' # registry,
             NEW k \in Keys \ Touches(p)
      PROVE  registry'.record[k] = registry.record[k]
  <2>1. Next
    BY <1>1 DEF vars
  <2>2. PICK q \in Procs : Update(q)
    BY <1>1, <2>1, OnlyUpdates
  <2>3. q = p /\ run[p].read = registry
    BY <1>1, <2>2 DEF IInv, ConfigInv, Update
  <2>4. registry' = Applied(p, registry)
    BY <1>1, <2>2, <2>3 DEF Update
  <2>5. registry \in Registries
    BY <1>1 DEF IInv, TypeOK
  <2> QED BY <1>1, <2>4, <2>5, AppliedFacts DEF IInv
<1>2. IInv /\ [Next]_vars =>
        [\A p \in Procs : At(p, "update") /\ registry' # registry =>
            \A k \in Keys \ Touches(p) : registry'.record[k] = registry.record[k]]_vars
  BY <1>1
<1> QED BY <1>2, InvAlways, PTL DEF Spec, OthersRecordsKept

=============================================================================
