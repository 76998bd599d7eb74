------------------------ MODULE ClaudeRefreshProofs ------------------------
(***************************************************************************)
(* What ClaudeRefresh guarantees for any number of passes and grants.      *)
(***************************************************************************)
EXTENDS ClaudeRefresh, SequenceTheorems, TLAPS

USE DEF None, Occupant

-----------------------------------------------------------------------------
(* The invariant, by what it is about.                                     *)

HostOK == /\ grant \in Seq(Nat)
          /\ valid \subseteq Creds
          /\ \A c \in Creds : grant[c] \in Creds

StoresOK == /\ stale \subseteq Creds
            /\ file \in Slots \ {Occupant} /\ item \in Slots /\ adopted \in Slots \ {Occupant}
            /\ pending \in [cred : Slots \ {Occupant}, from : Slots \ {Occupant}]
            /\ session \in [at : {"idle", "post", "save"}, cred : Slots \ {Occupant}]
            /\ landed \subseteq Creds /\ minted \subseteq Creds
            /\ log \subseteq [cred : Creds, outcome : Outcomes]
            /\ {item, adopted} \subseteq {None, Occupant} \cup landed
            /\ session.at # "idle" => session.cred \in Creds

UsageOK == cache \in Entries /\ clock \in Nat /\ window \in 0 .. clock + Retry

LocksOK == /\ lock \in Procs \cup {NoProc} /\ hold \in Procs \cup {NoProc, Session}
           /\ left \in [procs : SUBSET Procs, mints : Nat, passes : Nat, ticks : Nat,
                        beside : SUBSET Beside]
           /\ hold = Session <=> session.at # "idle"

\* One pass: its row, its locks and what it is about.
RowOK(p) == /\ run[p].cred \in Slots /\ run[p].entry \in Entries /\ run[p].at <= clock
            /\ lock = p <=> HasLock(run[p])
            /\ hold = p <=> HasHold(run[p])
            /\ WayOf(p) /\ WindowOf(p) /\ Refreshing(p)

LEMMA InvParts ==
    IInv <=> /\ HostOK /\ StoresOK /\ UsageOK /\ LocksOK
             /\ run \in [Procs -> Rows] /\ \A p \in Procs : RowOK(p)
             /\ FreshInv /\ LogInv
<1>1. Creds \subseteq Nat
  BY DEF Creds
<1>2. IInv => HostOK /\ StoresOK /\ UsageOK /\ LocksOK
  BY DEF IInv, TypeOK, GrantsInv, HostOK, StoresOK, UsageOK, LocksOK, Own
<1>3. IInv => run \in [Procs -> Rows] /\ FreshInv /\ LogInv
  BY DEF IInv, TypeOK
<1>4. IInv => \A p \in Procs : RowOK(p)
  BY DEF IInv, TypeOK, RowOK
<1>5. HostOK /\ StoresOK /\ UsageOK /\ LocksOK /\ run \in [Procs -> Rows] /\ (\A p \in Procs : RowOK(p))
        => TypeOK
  BY <1>1 DEF TypeOK, HostOK, StoresOK, UsageOK, LocksOK, RowOK
<1>6. HostOK /\ StoresOK /\ LocksOK => GrantsInv
  BY DEF HostOK, StoresOK, LocksOK, GrantsInv, Own
<1>7. (\A p \in Procs : RowOK(p)) => \A p \in Procs : WayOf(p) /\ WindowOf(p) /\ Refreshing(p)
  BY DEF RowOK
<1> QED BY <1>2, <1>3, <1>4, <1>5, <1>6, <1>7 DEF IInv

LEMMA InvPartsNext ==
    ASSUME HostOK', StoresOK', UsageOK', LocksOK', run' \in [Procs -> Rows],
           \A p \in Procs : RowOK(p)', FreshInv', LogInv'
    PROVE  IInv'
<1>1. Creds' \subseteq Nat
  BY DEF Creds
<1>2. TypeOK'
  BY <1>1 DEF TypeOK, HostOK, StoresOK, UsageOK, LocksOK, RowOK
<1>3. GrantsInv'
  BY DEF HostOK, StoresOK, LocksOK, GrantsInv, Own
<1>4. \A p \in Procs : (WayOf(p) /\ WindowOf(p) /\ Refreshing(p))'
  BY DEF RowOK
<1> QED BY <1>2, <1>3, <1>4 DEF IInv

-----------------------------------------------------------------------------
(* What one step does to the host and to the other passes.                 *)

\* Credentials are only added, and no old grant becomes good again.
Grown == /\ Creds \subseteq Creds' /\ Len(grant) <= Len(grant')
         /\ \A c \in Creds : grant'[c] = grant[c]
         /\ valid' \cap Creds \subseteq valid
         /\ clock \in Nat /\ clock' \in Nat /\ clock <= clock'

\* What another pass holds it holds still, with what it is about to write over.
LetBe(q) == /\ lock' = q <=> lock = q
            /\ hold' = q <=> hold = q
            /\ lock = q => pending' \in {pending, NoPending}
            /\ hold = q => item' = item

Others(p) == \A q \in Procs \ {p} : run'[q] = run[q]

LEMMA GrownFacts ==
    ASSUME HostOK, Grown
    PROVE  /\ Slots \subseteq Slots' /\ Entries \subseteq Entries'
           /\ \A c \in Creds : c \in Nat \ {0} /\ Own(c) /\ Own(c)' /\ Grant(c)' = Grant(c)
                               /\ Grant(c) \in Creds /\ Grant(c) = grant[c]
           /\ ~Own(None) /\ ~Own(Occupant) /\ ~Own(None)' /\ ~Own(Occupant)'
<1>1. Len(grant) \in Nat /\ Creds \subseteq Creds'
  BY DEF HostOK, Grown
<1>2. Slots \subseteq Slots'
  BY <1>1 DEF Slots
<1>3. Entries \subseteq Entries'
  BY DEF Entries, Retry, Grown
<1>4. \A c \in Creds : c \in Nat \ {0} /\ Own(c) /\ Own(c)'
  BY <1>1 DEF Creds, Own
<1>5. \A c \in Creds : Grant(c)' = grant'[c] /\ Grant(c) = grant[c] /\ grant'[c] = grant[c]
  BY <1>1 DEF Grant, Grown
<1>6. ~Own(None) /\ ~Own(Occupant) /\ ~Own(None)' /\ ~Own(Occupant)'
  BY DEF Own, Creds
<1> QED BY <1>2, <1>3, <1>4, <1>5, <1>6 DEF HostOK

\* A pass that did not move is as it was.
LEMMA OtherKeeps ==
    ASSUME HostOK, run \in [Procs -> Rows], NEW q \in Procs, RowOK(q), run'[q] = run[q],
           Grown, LetBe(q)
    PROVE  RowOK(q)'
<1>1. run[q] \in Rows
  OBVIOUS
<1>2. run[q].at \in Nat /\ run[q].at <= clock /\ clock \in Nat /\ clock' \in Nat /\ clock <= clock'
  BY <1>1 DEF Rows, RowOK, Grown
<1>3. (run[q].cred \in Slots /\ run[q].entry \in Entries)'
  BY GrownFacts DEF RowOK
<1>4. run'[q].at <= clock'
  BY <1>2
<1>5. (lock = q <=> HasLock(run[q]))' /\ (hold = q <=> HasHold(run[q]))'
  BY DEF RowOK, LetBe, HasLock, HasHold
<1>6. WayOf(q)' /\ WindowOf(q)'
  BY DEF RowOK, WayOf, WindowOf
<1>7. (run[q].pc \in {"snapshot", "peek", "post", "refused"}
         => run[q].cred = run[q].base /\ Own(run[q].base))'
  BY GrownFacts DEF RowOK, Refreshing, Own
<1>8. (run[q].pc \in Answered =>
         /\ Own(run[q].cred) /\ Own(run[q].base)
         /\ Grant(run[q].base) \notin valid \/ Grant(run[q].base) = Grant(run[q].cred))'
  <2>1. SUFFICES ASSUME run[q].pc \in Answered
                 PROVE  (/\ Own(run[q].cred) /\ Own(run[q].base)
                         /\ Grant(run[q].base) \notin valid \/ Grant(run[q].base) = Grant(run[q].cred))'
    BY DEF Answered
  <2>2. PICK c, b \in Creds : c = run[q].cred /\ b = run[q].base
    BY <2>1 DEF RowOK, Refreshing, Own
  <2>3. Grant(b) \notin valid \/ Grant(b) = Grant(c)
    BY <2>1, <2>2 DEF RowOK, Refreshing
  <2>4. Grant(b)' = Grant(b) /\ Grant(c)' = Grant(c) /\ Grant(b) \in Creds /\ Own(b)' /\ Own(c)'
    BY GrownFacts
  <2>5. Grant(b)' \notin valid' \/ Grant(b)' = Grant(c)'
    BY <2>3, <2>4 DEF Grown
  <2> QED BY <2>2, <2>4, <2>5
<1>9. (lock = q /\ run[q].pc \notin {"held", "resolve"} => pending = NoPending)'
  BY DEF RowOK, Refreshing, LetBe
<1>10. (run[q].pc = "write item" => item = run[q].base)'
  BY DEF RowOK, Refreshing, LetBe, HasHold
<1>11. Refreshing(q)'
  BY <1>7, <1>8, <1>9, <1>10 DEF Refreshing
<1> QED BY <1>3, <1>4, <1>5, <1>6, <1>11 DEF RowOK

\* A credential the host issues is new, and carries g.
LEMMA IssueFacts ==
    ASSUME HostOK, NEW g \in Creds \cup {New}, Issue(g)
    PROVE  /\ grant' \in Seq(Nat) /\ Len(grant) <= Len(grant')
           /\ Creds' = Creds \cup {New} /\ New \notin Creds
           /\ grant'[New] = g /\ \A c \in Creds : grant'[c] = grant[c]
<1>1. Len(grant) \in Nat /\ grant \in Seq(Nat) /\ g \in Nat
  BY DEF HostOK, Creds, New
<1>2. grant' = Append(grant, g)
  BY DEF Issue
<1>3. /\ grant' \in Seq(Nat) /\ Len(grant') = Len(grant) + 1 /\ grant'[New] = g
      /\ \A i \in 1 .. Len(grant) : grant'[i] = grant[i]
  BY <1>1, <1>2, AppendProperties DEF New
<1> QED BY <1>1, <1>3 DEF Creds, New

LEMMA IssueLeaves ==
    ASSUME LocksOK, NEW g, Issue(g), UNCHANGED <<lock, hold, session>>
    PROVE  LocksOK'
<1>1. left.mints \in Nat /\ left.mints - 1 \in Nat
  BY DEF LocksOK, Issue
<1>2. left' \in [procs : SUBSET Procs, mints : Nat, passes : Nat, ticks : Nat, beside : SUBSET Beside]
  BY <1>1 DEF LocksOK, Issue
<1> QED BY <1>2 DEF LocksOK

\* A new grant, one that is rotated, one that is left, and one whose answer is lost.
LEMMA LoginHost ==
    ASSUME HostOK, clock \in Nat, clock' = clock, Issue(New), valid' = valid \cup {New}
    PROVE  HostOK' /\ Grown /\ Creds' = Creds \cup {New} /\ New \notin Creds
<1>1. /\ grant' \in Seq(Nat) /\ Len(grant) <= Len(grant')
      /\ Creds' = Creds \cup {New} /\ New \notin Creds
      /\ grant'[New] = New /\ \A c \in Creds : grant'[c] = grant[c]
  BY IssueFacts
<1>2. (\A c \in Creds : grant[c] \in Creds)'
  BY <1>1 DEF HostOK
<1> QED BY <1>1, <1>2 DEF HostOK, Grown

LEMMA RefreshHost ==
    ASSUME HostOK, clock \in Nat, clock' = clock, NEW b \in Creds, Rotates(b) \/ Leaves(b),
           NEW n, n = New
    PROVE  /\ HostOK' /\ Grown /\ Creds' = Creds \cup {New} /\ New \notin Creds
           /\ Own(n)' /\ Own(b)'
           /\ Grant(b)' \notin valid' \/ Grant(b)' = Grant(n)'
<1>1. Grant(b) = grant[b] /\ Grant(b) \in Creds
  BY DEF HostOK, Grant
<1>2. PICK g \in Creds \cup {New} :
             /\ Issue(g) /\ g \in {New, Grant(b)}
             /\ g = New => valid' = (valid \ {Grant(b)}) \cup {New}
             /\ g # New => valid' = valid
  <2>1. New \notin Creds
    BY DEF HostOK, New, Creds
  <2> QED BY <1>1, <2>1 DEF Rotates, Leaves
<1>15. Issue(g)
  BY <1>2
<1>3. /\ grant' \in Seq(Nat) /\ Len(grant) <= Len(grant')
      /\ Creds' = Creds \cup {New} /\ New \notin Creds
      /\ grant'[New] = g /\ \A d \in Creds : grant'[d] = grant[d]
  BY <1>15, IssueFacts
<1>4. (\A d \in Creds : grant[d] \in Creds)'
  BY <1>2, <1>3 DEF HostOK
<1>5. valid' \subseteq Creds' /\ valid' \cap Creds \subseteq valid
  BY <1>2, <1>3 DEF HostOK
<1>6. HostOK' /\ Grown
  BY <1>3, <1>4, <1>5 DEF HostOK, Grown
<1>7. Grant(b)' = Grant(b) /\ Own(n)' /\ Own(b)'
  BY <1>1, <1>3 DEF Grant, Own
<1>8. Grant(n)' = g
  BY <1>3 DEF Grant
<1>9. Grant(b)' \notin valid' \/ Grant(b)' = Grant(n)'
  BY <1>1, <1>2, <1>3, <1>7, <1>8
<1> QED BY <1>3, <1>6, <1>7, <1>9

LEMMA LostHost ==
    ASSUME HostOK, clock \in Nat, clock' = clock, NEW c, Loses(c)
    PROVE  HostOK' /\ Grown
<1>1. grant' = grant /\ valid' \subseteq valid /\ Creds' = Creds
  BY DEF Loses, Creds
<1> QED BY <1>1 DEF HostOK, Grown

LEMMA SameHost ==
    ASSUME HostOK, clock \in Nat, clock' = clock, UNCHANGED host
    PROVE  HostOK' /\ Grown /\ Creds' = Creds
<1>1. grant' = grant /\ valid' = valid /\ Creds' = Creds
  BY DEF host, Creds
<1> QED BY <1>1 DEF HostOK, Grown

-----------------------------------------------------------------------------
(* Rows a pass comes back to.                                              *)

\* A row that holds nothing: it is over, or asks for the usage, a lock or the item's owner.
Rested(r, c) ==
    /\ r \in Rows /\ r.pc \in {"idle", "fetch", "owner", "lock"}
    /\ r.cred \in {c, None} /\ r.entry \in Entries /\ r.at <= clock
    /\ r.site # "pending"
    /\ r.pc # "idle" => r.entry.until <= r.at
    /\ r.pc = "owner" => r.way = "item"
    /\ r.pc = "lock" => r.way = "file"

LEMMA IdleTypes ==
    /\ Idle \in Rows /\ Idle.pc = "idle" /\ Idle.cred = None /\ Idle.entry = Unfetched /\ Idle.at = 0
    /\ Idle.site = "none" /\ Idle.way = "file" /\ Idle.state = "ok" /\ Idle.put = "none" /\ ~Idle.stop
<1>1. /\ "idle" \in Places /\ "ok" \in States /\ Unfetched \in Slips
      /\ 0 \in Int /\ 0 \in Nat /\ FALSE \in BOOLEAN /\ TRUE \in BOOLEAN
      /\ "none" \in {"none", "session", "migrated"}
      /\ "none" \in {"none", "replayed", "needs login", "discarded"}
      /\ "file" \in {"file", "item"} /\ "none" \in {"none", "refresh", "retry", "pending"}
  BY DEF Places, States, Slips, Unfetched
<1>2. Idle \in Rows
  BY <1>1, ZenonT(60) DEF Rows, Idle
<1> QED BY <1>2, ZenonT(60) DEF Idle

LEMMA FinishedFacts ==
    ASSUME UsageOK, NEW r \in Rows, NEW state \in States, NEW c
    PROVE  Rested(Finished(r, state), c) /\ Finished(r, state).cred = None
           /\ Finished(r, state).pc = "idle" /\ Finished(r, state).state = state
<1>1. Unfetched \in Entries /\ 0 <= clock
  BY DEF UsageOK, Entries, Unfetched, Retry
<1>2. r.stop \in BOOLEAN /\ Idle \in Rows
  BY IdleTypes DEF Rows
<1> DEFINE s == [Idle EXCEPT !.state = state, !.stop = r.stop]
<1>3. s \in Rows
  BY <1>2 DEF Rows
<1>4. /\ s.pc = Idle.pc /\ s.cred = Idle.cred /\ s.entry = Idle.entry /\ s.at = Idle.at
      /\ s.site = Idle.site /\ s.way = Idle.way /\ s.state = state
  BY <1>2 DEF Rows
<1>5. Finished(r, state) = s
  BY DEF Finished
<1> HIDE DEF s
<1> QED BY <1>1, <1>3, <1>4, <1>5, IdleTypes DEF Rested

\* What the fields of a row can be.
LEMMA RowTypes ==
    ASSUME NEW r \in Rows
    PROVE  /\ r.entry \in Slips /\ r.entry.until \in Int /\ r.entry.at \in Int /\ r.at \in Nat
           /\ r.pc \in Places /\ r.cred \in Int /\ r.base \in Int /\ r.seen \in Int
           /\ r.way \in {"file", "item"} /\ r.state \in States /\ r.time \in Nat /\ r.stop \in BOOLEAN
           /\ r.site \in {"none", "refresh", "retry", "pending"}
<1>1. r.entry \in Slips /\ r.at \in Nat
  BY ZenonT(60) DEF Rows
<1>2. r.entry.until \in Int /\ r.entry.at \in Int
  BY <1>1 DEF Slips
<1>3. /\ r.pc \in Places /\ r.cred \in Int /\ r.base \in Int /\ r.seen \in Int
      /\ r.way \in {"file", "item"} /\ r.state \in States /\ r.time \in Nat /\ r.stop \in BOOLEAN
      /\ r.site \in {"none", "refresh", "retry", "pending"}
  BY ZenonT(60) DEF Rows
<1> QED BY <1>1, <1>2, <1>3

LEMMA DecidedFacts ==
    ASSUME UsageOK, stale \subseteq Creds,
           NEW r \in Rows, r.entry \in Entries, r.at <= clock, r.site # "pending"
    PROVE  Rested(Decided(r), r.cred)
<1>1. /\ "rate limited" \in States /\ "needs login" \in States /\ r.state \in States
      /\ "fetch" \in Places /\ "owner" \in Places /\ "lock" \in Places
  BY DEF States, Places, Rows
<1>2. \A state \in States : Rested(Finished(r, state), r.cred)
  BY FinishedFacts
<1>3. CASE Limited(r.entry, r.at)
  BY <1>1, <1>2, <1>3 DEF Decided
<1>4. CASE ~Limited(r.entry, r.at)
  <2>1. r.entry.until <= r.at
    <3>1. r.entry.until \in Int /\ r.at \in Int
      BY RowTypes
    <3> QED BY <1>4, <3>1 DEF Limited
  <2>2. r.way \in {"file", "item"}
    BY DEF Rows
  <2> DEFINE f == [r EXCEPT !.pc = "fetch"]
             o == [r EXCEPT !.pc = "owner", !.site = "refresh"]
             l == [r EXCEPT !.pc = "lock", !.site = "refresh"]
  <2>3. Rested(f, r.cred)
    BY <1>1, <2>1 DEF Rested, Rows
  <2>4. r.way = "item" => Rested(o, r.cred)
    BY <1>1, <2>1 DEF Rested, Rows
  <2>5. r.way # "item" => Rested(l, r.cred)
    BY <1>1, <2>1, <2>2 DEF Rested, Rows
  <2>6. \/ Decided(r) = Finished(r, r.state)
        \/ Decided(r) = Finished(r, "needs login")
        \/ Decided(r) = f
        \/ r.way = "item" /\ Decided(r) = o
        \/ r.way # "item" /\ Decided(r) = l
    <3> DEFINE served == r.cred # None /\ ~r.bypass /\ Fresh(r.entry, r.at)
    <3>1. CASE served
      BY <1>4, <3>1 DEF Decided
    <3>2. CASE ~served /\ ~r.network
      BY <1>4, <3>2 DEF Decided
    <3>5. CASE ~served /\ r.network /\ r.cred = None
      <4>1. r.cred \notin stale
        BY <3>5 DEF Creds
      <4> QED BY <1>4, <3>5, <4>1 DEF Decided
    <3>3. CASE ~served /\ r.network /\ r.cred # None /\ r.cred \in stale /\ r.mine
      <4>1. Decided(r) = [r EXCEPT !.pc = IF r.way = "item" THEN "owner" ELSE "lock",
                                   !.site = "refresh"]
        BY <1>4, <3>3 DEF Decided
      <4>2. CASE r.way = "item"
        BY <4>1, <4>2
      <4>3. CASE r.way # "item"
        BY <4>1, <4>3
      <4> QED BY <4>2, <4>3
    <3>4. CASE ~served /\ r.network /\ r.cred # None /\ ~(r.cred \in stale /\ r.mine)
      BY <1>4, <3>4 DEF Decided
    <3> QED BY <3>1, <3>2, <3>3, <3>4, <3>5
  <2> HIDE DEF f, o, l
  <2> QED BY <1>1, <1>2, <2>3, <2>4, <2>5, <2>6
<1> QED BY <1>3, <1>4

LEMMA ReturnedFacts ==
    ASSUME UsageOK, stale \subseteq Creds, NEW r \in Rows, r.entry \in Entries, r.at <= clock,
           r.site # "pending" => r.entry.until <= r.at,
           NEW c \in Int, NEW state \in States
    PROVE  Rested(Returned(r, c, state), c)
<1>1. "needs login" \in States /\ r.state \in States /\ "fetch" \in Places /\ "none" \in States
  BY DEF States, Places, Rows
<1>2. CASE c = None
  BY <1>1, <1>2, FinishedFacts DEF Returned
<1>3. CASE c # None /\ r.site = "pending"
  <2> DEFINE d == [r EXCEPT !.cred = c, !.state = state, !.network = TRUE,
                            !.put = "none", !.site = "none"]
  <2>1. d \in Rows /\ d.entry \in Entries /\ d.at <= clock /\ d.site # "pending" /\ d.cred = c
    BY DEF Rows
  <2>2. Returned(r, c, state) = Decided(d)
    BY <1>3 DEF Returned
  <2> HIDE DEF d
  <2> QED BY <2>1, <2>2, DecidedFacts
<1>4. CASE c # None /\ r.site # "pending"
  <2>1. PICK s \in States, t \in {"retry", "none"} :
          Returned(r, c, state) =
            [r EXCEPT !.pc = "fetch", !.cred = c, !.put = "none", !.seen = None,
                      !.base = None, !.time = 0, !.asked = FALSE, !.state = s, !.site = t]
    BY <1>1, <1>4 DEF Returned
  <2> DEFINE d == [r EXCEPT !.pc = "fetch", !.cred = c, !.put = "none", !.seen = None,
                      !.base = None, !.time = 0, !.asked = FALSE, !.state = s, !.site = t]
  <2>2. d \in Rows
    <3>1. /\ 0 \in Int /\ 0 \in Nat /\ FALSE \in BOOLEAN
          /\ "none" \in {"none", "replayed", "needs login", "discarded"}
          /\ t \in {"none", "refresh", "retry", "pending"}
      OBVIOUS
    <3> QED BY <1>1, <3>1, ZenonT(60) DEF Rows
  <2>4. d.pc = "fetch" /\ d.cred = c /\ d.entry = r.entry /\ d.at = r.at /\ d.site = t
    BY ZenonT(60) DEF Rows
  <2>3. Returned(r, c, state) = d
    BY <2>1
  <2> HIDE DEF d
  <2> QED BY <1>4, <2>2, <2>3, <2>4 DEF Rested
<1> QED BY <1>2, <1>3, <1>4

LEMMA SetFrame ==
    ASSUME run \in [Procs -> Rows], NEW p \in Procs, NEW r \in Rows, Set(p, r)
    PROVE  run' \in [Procs -> Rows] /\ run'[p] = r /\ Others(p)
BY DEF Set, Others

LEMMA BackFrame ==
    ASSUME UsageOK, stale \subseteq Creds, run \in [Procs -> Rows], NEW p \in Procs, RowOK(p),
           run[p].pc \notin {"idle", "start"},
           NEW c \in Int, NEW state \in States, Back(p, c, state)
    PROVE  run' \in [Procs -> Rows] /\ Others(p) /\ Rested(run'[p], c)
<1>1. run[p] \in Rows
  OBVIOUS
<1>2. run[p].entry \in Entries /\ run[p].at <= clock /\ (run[p].site # "pending" => run[p].entry.until <= run[p].at)
  BY DEF RowOK, WindowOf
<1>3. Rested(Returned(run[p], c, state), c)
  BY <1>1, <1>2, ReturnedFacts
<1>4. Returned(run[p], c, state) \in Rows
  BY <1>3 DEF Rested
<1> QED BY <1>3, <1>4, SetFrame DEF Back

LEMMA RestedKeeps ==
    ASSUME clock' = clock, NEW p \in Procs, NEW c \in Slots', Rested(run'[p], c),
           lock' # p, hold' # p
    PROVE  RowOK(p)' /\ run'[p].pc \notin Answered
<1>1. None \in Slots' /\ Entries' = Entries
  BY DEF Slots, Entries
<1>2. run'[p].cred \in Slots' /\ run'[p].entry \in Entries' /\ run'[p].at <= clock'
  BY <1>1 DEF Rested
<1>3. run'[p].pc \in {"idle", "fetch", "owner", "lock"}
  BY DEF Rested
<1>4. ~HasLock(run'[p]) /\ ~HasHold(run'[p]) /\ run'[p].pc \notin Answered
  BY <1>3 DEF HasLock, HasHold, Answered
<1>5. WayOf(p)' /\ WindowOf(p)'
  BY <1>3 DEF Rested, WayOf, WindowOf
<1>6. Refreshing(p)'
  BY <1>3, <1>4 DEF Refreshing
<1> QED BY <1>2, <1>4, <1>5, <1>6 DEF RowOK

-----------------------------------------------------------------------------
(* Where a credential goes in one step.                                    *)

\* An answer nobody has stored, and one whose entry is owed.
Loose(r) == r.pc \in Answered \ {"confirm"}
Owing(r) == r.way = "item" /\ r.pc \in Answered

\* A step of p moves credentials that are about, its own, and one that is new.
Flow(p) ==
    /\ Others(p)
    /\ Around' \subseteq Around \cup {None, Occupant, New, run[p].cred}
    /\ run'[p].cred \in Around \cup {None, Occupant, New, run[p].cred}
    /\ run'[p].pc \in Answered =>
         \/ run'[p].cred = New
         \/ run[p].pc \in Answered /\ run'[p].cred = run[p].cred
    /\ Loose(run'[p]) =>
         /\ Around' \subseteq Around
         /\ \/ run'[p].cred = New
            \/ Loose(run[p]) /\ run'[p].cred = run[p].cred

\* It logs nothing, or the end of what it owed an entry for.
Tells(p) ==
    /\ landed \subseteq landed' /\ minted' \subseteq minted \cup {New}
    /\ New \in minted' => Owing(run'[p]) /\ run'[p].cred = New
    /\ \/ /\ log' = log
          /\ Owing(run[p]) /\ run[p].cred \in minted' => Owing(run'[p]) /\ run'[p].cred = run[p].cred
          /\ Owing(run'[p]) => \/ run'[p].cred = New
                               \/ Owing(run[p]) /\ run'[p].cred = run[p].cred
       \/ /\ Owing(run[p]) /\ run'[p].pc \notin Answered
          /\ \E o \in Outcomes :
               /\ log' = log \cup {[cred |-> run[p].cred, outcome |-> o]}
               /\ o = "applied" => run[p].cred \in landed'
               /\ o = "discarded" =>
                    Loose(run[p]) /\ Around' \subseteq Around \cup {None} /\ run'[p].cred = None

LEMMA AroundFacts ==
    ASSUME HostOK, StoresOK
    PROVE  /\ Around \subseteq Slots /\ New \notin Slots /\ New \notin Creds
           /\ None \notin Creds /\ Occupant \notin Creds /\ Creds \subseteq Slots
<1>1. Len(grant) \in Nat
  BY DEF HostOK
<1>2. file \in Slots /\ item \in Slots /\ adopted \in Slots /\ landed \subseteq Creds
  BY DEF StoresOK
<1>3. pending.cred \in Slots /\ session.cred \in Slots
  BY DEF StoresOK
<1>4. Around \subseteq Slots
  BY <1>2, <1>3 DEF Around, Slots
<1> QED BY <1>1, <1>4 DEF Slots, Creds, New

LEMMA FlowKeeps ==
    ASSUME HostOK, StoresOK, \A q \in Procs : RowOK(q), FreshInv, NEW p \in Procs, Flow(p)
    PROVE  FreshInv'
<1>1. \A q \in Procs : run[q].cred \in Slots /\ (run[q].pc \in Answered => run[q].cred \in Creds)
  BY DEF RowOK, Refreshing, Own
<1>2. \A q \in Procs : Loose(run[q]) =>
        run[q].cred \notin Around /\ \A s \in Procs \ {q} : run[s].cred # run[q].cred
  BY DEF FreshInv, Loose
<1>3. ASSUME NEW q \in Procs, Loose(run'[q])
      PROVE  run'[q].cred \notin Around' /\ \A s \in Procs \ {q} : run'[s].cred # run'[q].cred
  <2>1. CASE q = p
    <3>1. run'[p].cred \notin Around'
      BY <1>2, <1>3, <2>1, AroundFacts DEF Flow
    <3>2. ASSUME NEW s \in Procs \ {p} PROVE run'[s].cred # run'[p].cred
      <4>1. run'[s] = run[s] /\ run[s].cred \in Slots
        BY <1>1 DEF Flow, Others
      <4> QED BY <1>2, <1>3, <2>1, <4>1, AroundFacts DEF Flow
    <3> QED BY <2>1, <3>1, <3>2
  <2>2. CASE q # p
    <3>1. run'[q] = run[q] /\ Loose(run[q])
      BY <1>3, <2>2 DEF Flow, Others
    <3>2. run[q].cred \in Creds /\ run[q].cred \notin Around /\ \A s \in Procs \ {q} : run[s].cred # run[q].cred
      BY <1>1, <1>2, <3>1 DEF Loose
    <3>3. run[q].cred \notin {None, Occupant, New, run[p].cred}
      BY <2>2, <3>2, AroundFacts
    <3>4. run[q].cred \notin Around' /\ run'[p].cred # run[q].cred
      BY <3>2, <3>3 DEF Flow
    <3>5. ASSUME NEW s \in Procs \ {q} PROVE run'[s].cred # run'[q].cred
      <4>1. CASE s = p
        BY <3>1, <3>4, <4>1
      <4>2. CASE s # p
        BY <3>1, <3>2, <4>2 DEF Flow, Others
      <4> QED BY <4>1, <4>2
    <3> QED BY <3>1, <3>4, <3>5
  <2> QED BY <2>1, <2>2
<1>4. ASSUME NEW q \in Procs, NEW s \in Procs, run'[q].pc \in Answered, run'[s].pc \in Answered,
             run'[q].cred = run'[s].cred
      PROVE  q = s
  <2>1. ASSUME NEW t \in Procs, t # p, run'[t].pc \in Answered, run'[p].pc \in Answered,
               run'[t].cred = run'[p].cred
        PROVE  FALSE
    <3>1. run'[t] = run[t] /\ run[t].cred \in Creds
      BY <1>1, <2>1 DEF Flow, Others
    <3>2. run'[p].cred # New
      BY <2>1, <3>1, AroundFacts
    <3>3. run[p].pc \in Answered /\ run'[p].cred = run[p].cred
      BY <2>1, <3>2 DEF Flow
    <3> QED BY <2>1, <3>1, <3>3 DEF FreshInv
  <2>2. CASE q # p /\ s # p
    <3>1. run'[q] = run[q] /\ run'[s] = run[s]
      BY <2>2 DEF Flow, Others
    <3> QED BY <1>4, <3>1 DEF FreshInv
  <2> QED BY <1>4, <2>1, <2>2
<1>5. (\A q \in Procs : run[q].pc \in Answered \ {"confirm"} =>
          run[q].cred \notin Around /\ \A s \in Procs \ {q} : run[s].cred # run[q].cred)'
  BY <1>3 DEF Loose, Answered
<1>6. (\A q, s \in Procs : run[q].pc \in Answered /\ run[s].pc \in Answered /\ run[q].cred = run[s].cred
                             => q = s)'
  BY <1>4 DEF Answered
<1> QED BY <1>5, <1>6 DEF FreshInv

LEMMA TellsKeeps ==
    ASSUME HostOK, StoresOK, \A q \in Procs : RowOK(q), FreshInv, LogInv,
           NEW p \in Procs, Flow(p), Tells(p)
    PROVE  LogInv'
<1>1. \A q \in Procs : run[q].cred \in Slots /\ (run[q].pc \in Answered => run[q].cred \in Creds)
  BY DEF RowOK, Refreshing, Own
<1>2. /\ \A c \in minted : (\E q \in Procs : Owing(run[q]) /\ run[q].cred = c) \/ (\E e \in log : e.cred = c)
      /\ \A e \in log : e.outcome = "applied" => e.cred \in landed
      /\ \A q \in Procs : Owing(run[q]) => \A e \in log : e.cred # run[q].cred
      /\ \A e \in log : e.outcome = "discarded" => e.cred \notin Around /\ \A q \in Procs : run[q].cred # e.cred
  BY DEF LogInv, AuditTold, Owing
<1>3. \A e \in log : e.cred \in Creds
  BY DEF StoresOK
<1>4. PICK new :
        /\ log' = log \cup new
        /\ new # {} => Owing(run[p]) /\ run'[p].pc \notin Answered
        /\ \A e \in new : /\ e.cred = run[p].cred
                          /\ e.outcome = "applied" => e.cred \in landed'
                          /\ e.outcome = "discarded" =>
                               Loose(run[p]) /\ Around' \subseteq Around \cup {None} /\ run'[p].cred = None
        /\ Owing(run[p]) /\ run[p].cred \in minted' =>
             (Owing(run'[p]) /\ run'[p].cred = run[p].cred) \/ (\E e \in new : e.cred = run[p].cred)
  <2>1. CASE log' = log /\ (Owing(run[p]) /\ run[p].cred \in minted' =>
                              Owing(run'[p]) /\ run'[p].cred = run[p].cred)
    <3> DEFINE n0 == {}
    <3>1. log' = log \cup n0 /\ ~(n0 # {}) /\ \A e : e \notin n0
      BY <2>1
    <3> HIDE DEF n0
    <3> WITNESS n0
    <3> QED BY <2>1, <3>1
  <2>2. ASSUME Owing(run[p]), run'[p].pc \notin Answered, NEW o \in Outcomes,
               log' = log \cup {[cred |-> run[p].cred, outcome |-> o]},
               o = "applied" => run[p].cred \in landed',
               o = "discarded" =>
                  Loose(run[p]) /\ Around' \subseteq Around \cup {None} /\ run'[p].cred = None
        PROVE  \E new :
                 /\ log' = log \cup new
                 /\ new # {} => Owing(run[p]) /\ run'[p].pc \notin Answered
                 /\ \A e \in new : /\ e.cred = run[p].cred
                                   /\ e.outcome = "applied" => e.cred \in landed'
                                   /\ e.outcome = "discarded" =>
                                        Loose(run[p]) /\ Around' \subseteq Around \cup {None} /\ run'[p].cred = None
                 /\ Owing(run[p]) /\ run[p].cred \in minted' =>
                      (Owing(run'[p]) /\ run'[p].cred = run[p].cred) \/ (\E e \in new : e.cred = run[p].cred)
    <3> DEFINE e0 == [cred |-> run[p].cred, outcome |-> o]
    <3>1. e0.cred = run[p].cred /\ e0.outcome = o
      OBVIOUS
    <3>2. log' = log \cup {e0}
      BY <2>2
    <3> HIDE DEF e0
    <3>3. \A e \in {e0} : /\ e.cred = run[p].cred
                          /\ e.outcome = "applied" => e.cred \in landed'
                          /\ e.outcome = "discarded" =>
                               Loose(run[p]) /\ Around' \subseteq Around \cup {None} /\ run'[p].cred = None
      BY <2>2, <3>1
    <3> WITNESS {e0}
    <3> QED BY <2>2, <3>1, <3>2, <3>3
  <2> QED BY <2>1, <2>2 DEF Tells
<1>5. \A q \in Procs \ {p} : run'[q] = run[q]
  BY DEF Flow, Others
<1>6. ASSUME NEW c \in minted'
      PROVE  (\E q \in Procs : Owing(run'[q]) /\ run'[q].cred = c) \/ (\E e \in log' : e.cred = c)
  <2>1. CASE c = New
    BY <1>6, <2>1 DEF Tells
  <2>2. CASE \E e \in log : e.cred = c
    BY <1>4, <2>2
  <2>3. ASSUME NEW q \in Procs, Owing(run[q]), run[q].cred = c
        PROVE  (\E s \in Procs : Owing(run'[s]) /\ run'[s].cred = c) \/ (\E e \in log' : e.cred = c)
    <3>1. CASE q = p
      BY <1>4, <1>6, <2>3, <3>1
    <3>2. CASE q # p
      BY <1>5, <2>3, <3>2
    <3> QED BY <3>1, <3>2
  <2>4. c \in minted \/ c = New
    BY <1>6 DEF Tells
  <2> QED BY <1>2, <2>1, <2>2, <2>3, <2>4
<1>7. ASSUME NEW e \in log', e.outcome = "applied" PROVE e.cred \in landed'
  BY <1>2, <1>4, <1>7 DEF Tells
<1>8. ASSUME NEW e \in log', e.outcome = "discarded"
      PROVE  e.cred \notin Around' /\ \A q \in Procs : run'[q].cred # e.cred
  <2>1. CASE e \in log
    <3>1. e.cred \notin Around \cup {None, Occupant, New, run[p].cred}
      BY <1>2, <1>3, <1>8, <2>1, AroundFacts
    <3>2. e.cred \notin Around' /\ run'[p].cred # e.cred
      BY <3>1 DEF Flow
    <3> QED BY <1>2, <1>5, <1>8, <2>1, <3>2
  <2>2. CASE e \notin log
    <3>1. /\ e.cred = run[p].cred /\ Loose(run[p]) /\ Around' \subseteq Around \cup {None}
          /\ run'[p].cred = None
      BY <1>4, <1>8, <2>2
    <3>2. e.cred \in Creds /\ e.cred # None
      BY <1>1, <3>1, AroundFacts DEF Loose
    <3>3. e.cred \notin Around /\ \A q \in Procs \ {p} : run[q].cred # e.cred
      BY <3>1 DEF FreshInv, Loose
    <3> QED BY <1>5, <3>1, <3>2, <3>3
  <2> QED BY <2>1, <2>2
<1>9. ASSUME NEW q \in Procs, Owing(run'[q]), NEW e \in log'
      PROVE  e.cred # run'[q].cred
  <2>1. CASE q = p
    <3>1. e \in log
      BY <1>4, <1>9, <2>1 DEF Owing
    <3>2. CASE run'[p].cred = New
      BY <1>3, <2>1, <3>1, <3>2, AroundFacts
    <3>3. CASE Owing(run[p]) /\ run'[p].cred = run[p].cred
      BY <1>2, <2>1, <3>1, <3>3
    <3>4. run'[p].pc \in Answered
      BY <1>9, <2>1 DEF Owing
    <3> QED BY <1>9, <2>1, <3>2, <3>3, <3>4 DEF Tells
  <2>2. CASE q # p
    <3>1. Owing(run[q]) /\ run'[q] = run[q]
      BY <1>5, <1>9, <2>2
    <3>2. CASE e \in log
      BY <1>2, <3>1, <3>2
    <3>3. CASE e \notin log
      <4>1. e.cred = run[p].cred /\ Owing(run[p])
        BY <1>4, <3>3
      <4> QED BY <2>2, <3>1, <4>1 DEF FreshInv, Owing
    <3> QED BY <3>2, <3>3
  <2> QED BY <2>1, <2>2
<1>10. AuditTold'
  <2>1. \A e \in log' : e.outcome = "discarded" => e.cred \notin landed'
    BY <1>8 DEF Around
  <2> QED BY <1>6, <1>7, <2>1 DEF AuditTold, Owing, Answered
<1>11. (\A q \in Procs : run[q].way = "item" /\ run[q].pc \in Answered =>
          \A e \in log : e.cred # run[q].cred)'
  BY <1>9 DEF Owing, Answered
<1>12. (\A e \in log : e.outcome = "discarded" => e.cred \notin Around /\ \A q \in Procs : run[q].cred # e.cred)'
  BY <1>8
<1> QED BY <1>10, <1>11, <1>12 DEF LogInv

-----------------------------------------------------------------------------
(* A step of one pass.                                                     *)

\* It takes a free lock, gives its own back, or leaves it.
Lets(l, ll, p) == \/ ll = l
                  \/ l = p /\ ll = NoProc
                  \/ l = NoProc /\ ll = p

LeftOK == left \in [procs : SUBSET Procs, mints : Nat, passes : Nat, ticks : Nat, beside : SUBSET Beside]

LEMMA StepKeeps ==
    ASSUME IInv, NEW p \in Procs, HostOK', Grown, StoresOK', UsageOK', LeftOK', session' = session,
           Lets(lock, lock', p), Lets(hold, hold', p),
           pending' \in {pending, NoPending} \/ lock = p,
           item' = item \/ hold = p,
           run' \in [Procs -> Rows], RowOK(p)', Flow(p), Tells(p)
    PROVE  IInv'
<1>1. /\ HostOK /\ StoresOK /\ UsageOK /\ LocksOK /\ run \in [Procs -> Rows]
      /\ (\A q \in Procs : RowOK(q)) /\ FreshInv /\ LogInv
  BY InvParts
<1>2. p # NoProc /\ p # Session /\ NoProc # Session /\ \A q \in Procs : q # NoProc
  BY ProcsAssumption
<1>3. LocksOK'
  <2>1. lock' \in Procs \cup {NoProc} /\ hold' \in Procs \cup {NoProc, Session}
    BY <1>1 DEF LocksOK, Lets
  <2>2. hold' = Session <=> session'.at # "idle"
    BY <1>1, <1>2 DEF LocksOK, Lets
  <2> QED BY <2>1, <2>2 DEF LocksOK, LeftOK
<1>4. ASSUME NEW q \in Procs PROVE RowOK(q)'
  <2>1. CASE q = p
    BY <2>1
  <2>2. CASE q # p
    <3>1. run'[q] = run[q]
      BY <2>2 DEF Flow, Others
    <3>2. LetBe(q)
      BY <1>2, <2>2 DEF LetBe, Lets
    <3> QED BY <1>1, <3>1, <3>2, OtherKeeps
  <2> QED BY <2>1, <2>2
<1>5. FreshInv' /\ LogInv'
  BY <1>1, FlowKeeps, TellsKeeps
<1> QED BY <1>3, <1>4, <1>5, InvPartsNext

\* One that touches nothing but its row and the locks.
LEMMA QuietKeeps ==
    ASSUME IInv, NEW p \in Procs, UNCHANGED <<host, stale, stores, session, usage, record>>, LeftOK',
           Lets(lock, lock', p), Lets(hold, hold', p),
           run' \in [Procs -> Rows], Others(p), RowOK(p)',
           run'[p].cred \in Around \cup {None, Occupant, run[p].cred},
           run'[p].pc \in Answered =>
             /\ run[p].pc \in Answered /\ run'[p].cred = run[p].cred
             /\ run'[p].way = run[p].way /\ (Loose(run'[p]) => Loose(run[p])),
           Owing(run[p]) => Owing(run'[p])
    PROVE  IInv'
<1>1. HostOK /\ StoresOK /\ UsageOK /\ clock \in Nat /\ clock' = clock
  BY InvParts DEF UsageOK, usage
<1>2. HostOK' /\ Grown /\ Creds' = Creds
  BY <1>1, SameHost
<1>3. /\ stale' = stale /\ file' = file /\ pending' = pending /\ item' = item /\ adopted' = adopted
      /\ cache' = cache /\ window' = window /\ log' = log /\ landed' = landed /\ minted' = minted
  BY DEF stores, usage, record
<1>4. Around' = Around /\ Slots' = Slots
  BY <1>2, <1>3 DEF Around, Slots
<1>5. StoresOK' /\ UsageOK'
  BY <1>1, <1>2, <1>3, <1>4 DEF StoresOK, UsageOK, Entries
<1>6. Flow(p)
  BY <1>4 DEF Flow, Loose
<1>7. New \notin minted
  BY <1>1, AroundFacts DEF StoresOK
<1>8. Tells(p)
  BY <1>3, <1>7 DEF Tells, Owing
<1> QED BY <1>1, <1>2, <1>3, <1>5, <1>6, <1>8, StepKeeps

\* One that comes back from the stores with c.
LEMMA BackKeeps ==
    ASSUME IInv, NEW p \in Procs, UNCHANGED <<host, stale, stores, session, usage, record>>, LeftOK',
           Lets(lock, lock', p), Lets(hold, hold', p), lock' # p, hold' # p,
           ~Owing(run[p]), run[p].pc \notin {"idle", "start"},
           NEW c \in Around \cup {None, run[p].cred}, NEW state \in States, Back(p, c, state)
    PROVE  IInv'
<1>1. HostOK /\ StoresOK /\ UsageOK /\ run \in [Procs -> Rows] /\ RowOK(p)
  BY InvParts
<1>2. clock' = clock /\ Creds' = Creds
  BY <1>1, SameHost DEF UsageOK, usage
<1>3. c \in Slots /\ c \in Slots' /\ c \in Int
  BY <1>1, <1>2, AroundFacts DEF RowOK, Slots, Creds
<1>4. stale \subseteq Creds
  BY <1>1 DEF StoresOK
<1>5. run' \in [Procs -> Rows] /\ Others(p) /\ Rested(run'[p], c)
  BY <1>1, <1>3, <1>4, BackFrame
<1>6. RowOK(p)' /\ run'[p].pc \notin Answered
  BY <1>2, <1>3, <1>5, RestedKeeps
<1>7. run'[p].cred \in {c, None}
  BY <1>5 DEF Rested
<1> QED BY <1>5, <1>6, <1>7, QuietKeeps

\* One that goes on to another place with what it has.
LEMMA RowGoesOn ==
    ASSUME IInv, NEW p \in Procs, UNCHANGED <<host, stale, stores, session, usage, record>>,
           run'[p].pc \notin {"idle", "start"} => run[p].pc \notin {"idle", "start"},
           run'[p].cred \in Slots, run'[p].entry = run[p].entry, run'[p].at = run[p].at,
           run'[p].site = run[p].site, run'[p].way = run[p].way,
           lock' = p <=> HasLock(run'[p]), hold' = p <=> HasHold(run'[p]), WayOf(p)', Refreshing(p)'
    PROVE  RowOK(p)'
<1>1. RowOK(p) /\ clock' = clock
  BY InvParts DEF usage
<1>2. Slots' = Slots /\ Entries' = Entries
  BY <1>1 DEF Slots, Entries, Creds, host
<1>3. WindowOf(p)'
  BY <1>1 DEF RowOK, WindowOf
<1> QED BY <1>1, <1>2, <1>3 DEF RowOK

-----------------------------------------------------------------------------
(* The row.                                                                *)

LEMMA DiscoverRow ==
    ASSUME NEW p \in Procs, Discover(p), file \in Int, item \in Int
    PROVE  \E r \in Rows :
             /\ Set(p, r) /\ r.pc = "start" /\ r.cred \in {item, file}
             /\ r.entry = Unfetched /\ r.at = 0 /\ r.site = "none"
<1>1. PICK bypass \in BOOLEAN, listed \in BOOLEAN, cred \in {item, file},
           state \in {"session", "migrated", "ok", "needs login"} :
        Set(p, [Idle EXCEPT !.pc = "start", !.listed = listed, !.cred = cred,
                            !.state = state, !.bypass = bypass])
  <2>1. PICK bypass \in BOOLEAN, open \in {TRUE, ~Happens("locked")} :
          LET listed == Listed(open)
              found == Activity(listed)
              cred == IF found = "migrated" THEN item ELSE file
              state == CASE found # "none" -> found
                         [] found = "none" /\ cred # None -> "ok"
                         [] OTHER -> "needs login"
          IN Set(p, [Idle EXCEPT !.pc = "start", !.listed = listed, !.cred = cred,
                                 !.state = state, !.bypass = bypass])
    BY DEF Discover
  <2> DEFINE listed == Listed(open)
             found == Activity(listed)
             cred == IF found = "migrated" THEN item ELSE file
             state == CASE found # "none" -> found
                        [] found = "none" /\ cred # None -> "ok"
                        [] OTHER -> "needs login"
  <2>2. listed \in BOOLEAN /\ found \in {"session", "migrated", "none"} /\ cred \in {item, file}
    BY DEF Listed, Activity
  <2> HIDE DEF listed, found, cred
  <2>3. state \in {"session", "migrated", "ok", "needs login"}
    BY <2>2
  <2>4. Set(p, [Idle EXCEPT !.pc = "start", !.listed = listed, !.cred = cred,
                            !.state = state, !.bypass = bypass])
    BY <2>1 DEF listed, found, cred
  <2> HIDE DEF state
  <2> QED BY <2>2, <2>3, <2>4
<1>2. state \in States /\ "start" \in Places /\ cred \in Int
  BY <1>1 DEF States, Places
<1> DEFINE r == [Idle EXCEPT !.pc = "start", !.listed = listed, !.cred = cred,
                             !.state = state, !.bypass = bypass]
<1>3. r \in Rows
  BY <1>2, IdleTypes DEF Rows
<1>4. r.pc = "start" /\ r.cred = cred /\ r.entry = Unfetched /\ r.at = 0 /\ r.site = "none"
  BY IdleTypes DEF Rows
<1>5. Set(p, r) /\ cred \in {item, file}
  BY <1>1
<1> HIDE DEF r
<1> QED BY <1>3, <1>4, <1>5

LEMMA DiscoverKeeps == ASSUME IInv, NEW p \in Procs, Discover(p) PROVE IInv'
<1>1. /\ HostOK /\ StoresOK /\ UsageOK /\ LocksOK /\ run \in [Procs -> Rows] /\ RowOK(p)
      /\ lock # p /\ hold # p /\ run[p].pc = "idle"
  BY InvParts DEF Discover, At, HasLock, HasHold, RowOK
<1>2. file \in Slots /\ item \in Slots /\ \A c \in Slots : c \in Int
  BY <1>1 DEF StoresOK, Slots, Creds
<1>3. PICK r \in Rows :
        /\ Set(p, r) /\ r.pc = "start" /\ r.cred \in {item, file}
        /\ r.entry = Unfetched /\ r.at = 0 /\ r.site = "none"
  BY <1>2, DiscoverRow
<1>4. run' \in [Procs -> Rows] /\ run'[p] = r /\ Others(p)
  BY <1>1, <1>3, SetFrame
<1>5. clock' = clock /\ lock' = lock /\ hold' = hold /\ grant' = grant
  BY DEF Discover, usage, host
<1>6. RowOK(p)'
  <2>1. clock \in Nat /\ clock' \in Nat /\ r.at <= clock'
    BY <1>1, <1>3, <1>5 DEF UsageOK
  <2>2. r.entry \in Entries'
    <3>1. clock \in Nat /\ Entries' = Entries
      BY <1>5, <2>1 DEF Entries
    <3>2. Unfetched \in Entries
      BY <3>1 DEF Entries, Unfetched, Retry
    <3> QED BY <1>3, <3>1, <3>2
  <2>3. r.cred \in Slots'
    BY <1>2, <1>3, <1>5 DEF Slots, Creds
  <2>4. ~HasLock(r) /\ ~HasHold(r) /\ lock' # p /\ hold' # p /\ r.pc \notin Answered
    BY <1>1, <1>3, <1>5 DEF HasLock, HasHold, Answered
  <2>5. WayOf(p)' /\ WindowOf(p)' /\ Refreshing(p)'
    BY <1>3, <1>4, <2>4 DEF WayOf, WindowOf, Refreshing
  <2> QED BY <1>4, <2>1, <2>2, <2>3, <2>4, <2>5 DEF RowOK
<1>7. LeftOK'
  <2>1. left.passes \in Nat /\ left.passes > 0
    BY <1>1 DEF LocksOK, Discover
  <2>2. left' = [left EXCEPT !.passes = left.passes - 1] /\ left.passes - 1 \in Nat
    BY <2>1 DEF Discover
  <2> QED BY <1>1, <2>2 DEF LocksOK, LeftOK
<1>8. run'[p].cred \in Around /\ run'[p].pc \notin Answered /\ ~Owing(run[p])
  BY <1>1, <1>3, <1>4 DEF Around, Answered, Owing
<1>9. UNCHANGED <<host, stale, stores, session, usage, record>> /\ Lets(lock, lock', p) /\ Lets(hold, hold', p)
  BY DEF Discover, Lets
<1> QED BY <1>4, <1>6, <1>7, <1>8, <1>9, QuietKeeps

LEMMA StartKeeps == ASSUME IInv, NEW p \in Procs, Start(p) PROVE IInv'
<1>1. /\ StoresOK /\ UsageOK /\ LocksOK /\ run \in [Procs -> Rows] /\ RowOK(p) /\ run[p] \in Rows
      /\ lock # p /\ hold # p /\ run[p].pc = "start"
  BY InvParts DEF Start, At, HasLock, HasHold, RowOK
<1>2. PICK state \in States, way \in {"file", "item"}, network \in BOOLEAN, mine \in BOOLEAN :
        Set(p, IF pending # NoPending
               THEN [run[p] EXCEPT !.entry = cache, !.at = clock, !.state = state, !.way = way,
                                   !.network = network, !.mine = mine, !.pc = "lock", !.site = "pending"]
               ELSE Decided([run[p] EXCEPT !.entry = cache, !.at = clock, !.state = state, !.way = way,
                                           !.network = network, !.mine = mine]))
  <2> DEFINE there == run[p].state = "migrated" /\ Predicted
             state == IF there THEN "ok" ELSE run[p].state
             way == IF there THEN "item" ELSE "file"
  <2>1. state \in States /\ way \in {"file", "item"}
    BY <1>1, RowTypes DEF States
  <2>2. Set(p, IF pending # NoPending
               THEN [run[p] EXCEPT !.entry = cache, !.at = clock, !.state = state, !.way = way,
                                   !.network = state \in Networked,
                                   !.mine = state \notin {"session", "migrated"},
                                   !.pc = "lock", !.site = "pending"]
               ELSE Decided([run[p] EXCEPT !.entry = cache, !.at = clock, !.state = state, !.way = way,
                                           !.network = state \in Networked,
                                           !.mine = state \notin {"session", "migrated"}]))
    BY DEF Start
  <2>3. (state \in Networked) \in BOOLEAN /\ (state \notin {"session", "migrated"}) \in BOOLEAN
    OBVIOUS
  <2> DEFINE network == state \in Networked
             mine == state \notin {"session", "migrated"}
  <2>4. Set(p, IF pending # NoPending
               THEN [run[p] EXCEPT !.entry = cache, !.at = clock, !.state = state, !.way = way,
                                   !.network = network, !.mine = mine, !.pc = "lock", !.site = "pending"]
               ELSE Decided([run[p] EXCEPT !.entry = cache, !.at = clock, !.state = state, !.way = way,
                                           !.network = network, !.mine = mine]))
    BY <2>2
  <2>5. network \in BOOLEAN /\ mine \in BOOLEAN
    BY <2>3
  <2> HIDE DEF state, way, network, mine
  <2> QED BY <2>1, <2>4, <2>5
<1> DEFINE row == [run[p] EXCEPT !.entry = cache, !.at = clock, !.state = state, !.way = way,
                                 !.network = network, !.mine = mine]
           wait == [run[p] EXCEPT !.entry = cache, !.at = clock, !.state = state, !.way = way,
                                 !.network = network, !.mine = mine, !.pc = "lock", !.site = "pending"]
<1>3. "lock" \in Places /\ cache \in Slips /\ clock \in Nat
  BY <1>1 DEF Places, UsageOK, Entries, Slips, Retry
<1>4. row \in Rows /\ wait \in Rows
  <2>1. "pending" \in {"none", "refresh", "retry", "pending"}
    OBVIOUS
  <2> QED BY <1>1, <1>3, <2>1, ZenonT(60) DEF Rows
<1>5. row.entry = cache /\ row.at = clock /\ row.cred = run[p].cred /\ row.site = run[p].site
  BY <1>1, ZenonT(60) DEF Rows
<1>6. wait.entry = cache /\ wait.at = clock /\ wait.cred = run[p].cred /\ wait.site = "pending" /\ wait.pc = "lock"
  BY <1>1, ZenonT(60) DEF Rows
<1>7. clock' = clock /\ lock' = lock /\ hold' = hold /\ grant' = grant /\ cache \in Entries
  BY <1>1 DEF Start, usage, host, UsageOK
<1>8. Slots' = Slots /\ Entries' = Entries /\ run[p].cred \in Slots /\ run[p].cred \in Int
  BY <1>1, <1>7 DEF Slots, Entries, Creds, RowOK
<1>9. run[p].site # "pending"
  BY <1>1 DEF RowOK, WayOf
<1>10. Set(p, IF pending # NoPending THEN wait ELSE Decided(row))
  BY <1>2
<1> HIDE DEF row, wait
<1>11. run' \in [Procs -> Rows] /\ Others(p) /\ RowOK(p)' /\ run'[p].pc \notin Answered
       /\ run'[p].cred \in {run[p].cred, None}
  <2>1. CASE pending # NoPending
    <3>1. run' \in [Procs -> Rows] /\ Others(p) /\ run'[p] = wait
      BY <1>1, <1>4, <1>10, <2>1, SetFrame
    <3>2. ~HasLock(wait) /\ ~HasHold(wait) /\ wait.pc \notin Answered
      BY <1>6 DEF HasLock, HasHold, Answered
    <3>3. WayOf(p)' /\ WindowOf(p)' /\ Refreshing(p)'
      BY <1>1, <1>6, <1>7, <3>1, <3>2 DEF WayOf, WindowOf, Refreshing
    <3>4. wait.entry \in Entries' /\ wait.at <= clock' /\ wait.cred \in Slots'
      BY <1>3, <1>6, <1>7, <1>8
    <3> QED BY <1>1, <1>6, <1>7, <3>1, <3>2, <3>3, <3>4 DEF RowOK
  <2>2. CASE pending = NoPending
    <3>1. Rested(Decided(row), row.cred)
      BY <1>1, <1>3, <1>4, <1>5, <1>7, <1>9, DecidedFacts DEF StoresOK
    <3>2. Decided(row) \in Rows
      BY <3>1 DEF Rested
    <3>3. run' \in [Procs -> Rows] /\ Others(p) /\ run'[p] = Decided(row)
      BY <1>1, <1>10, <2>2, <3>2, SetFrame
    <3>4. Rested(run'[p], run[p].cred) /\ run[p].cred \in Slots'
      BY <1>5, <1>8, <3>1, <3>3
    <3>5. RowOK(p)' /\ run'[p].pc \notin Answered
      BY <1>1, <1>7, <3>4, RestedKeeps
    <3> QED BY <3>3, <3>4, <3>5 DEF Rested
  <2> QED BY <2>1, <2>2
<1>12. LeftOK' /\ ~Owing(run[p])
  BY <1>1 DEF LocksOK, LeftOK, Start, Owing, Answered
<1>13. UNCHANGED <<host, stale, stores, session, usage, record>> /\ Lets(lock, lock', p) /\ Lets(hold, hold', p)
  BY DEF Start, Lets
<1> QED BY <1>11, <1>12, <1>13, QuietKeeps

\* What a step of a pass that is not idle starts from.
LEMMA StepFrom ==
    ASSUME IInv, NEW p \in Procs
    PROVE  /\ HostOK /\ StoresOK /\ UsageOK /\ LocksOK /\ LeftOK /\ run \in [Procs -> Rows]
           /\ RowOK(p) /\ run[p] \in Rows /\ stale \subseteq Creds
           /\ file \in Slots /\ item \in Slots /\ adopted \in Slots
           /\ {file, item, adopted} \subseteq Around
           /\ run[p].cred \in Slots /\ run[p].cred \in Int
           /\ \A c \in Slots : c \in Int /\ (c \in Creds \/ c = None \/ c = Occupant)
           /\ p # NoProc /\ p # Session
           /\ {run[p].state, "error", "busy", "needs login", "stale", "adopted", "lock unavailable",
               "refresh discarded"} \subseteq States
<1>1. /\ HostOK /\ StoresOK /\ UsageOK /\ LocksOK /\ run \in [Procs -> Rows] /\ RowOK(p)
  BY InvParts
<1>2. \A c \in Slots : c \in Int /\ (c \in Creds \/ c = None \/ c = Occupant)
  BY DEF Slots, Creds
<1>3. run[p] \in Rows /\ run[p].cred \in Slots /\ stale \subseteq Creds
  BY <1>1 DEF RowOK, StoresOK
<1>4. LeftOK
  BY <1>1 DEF LocksOK, LeftOK
<1>5. p # NoProc /\ p # Session
  BY ProcsAssumption
<1>6. file \in Slots /\ item \in Slots /\ adopted \in Slots /\ {file, item, adopted} \subseteq Around
  BY <1>1 DEF StoresOK, Around
<1>7. {run[p].state, "error", "busy", "needs login", "stale", "adopted", "lock unavailable",
       "refresh discarded"} \subseteq States
  <2>1. run[p].state \in States
    BY <1>3, RowTypes
  <2> QED BY <2>1 DEF States
<1> QED BY <1>1, <1>2, <1>3, <1>4, <1>5, <1>6, <1>7

\* A row at a place of its own choosing.
LEMMA AtPlace ==
    ASSUME NEW r \in Rows, NEW x \in Places
    PROVE  LET s == [r EXCEPT !.pc = x] IN
           /\ s \in Rows /\ s.pc = x /\ s.cred = r.cred /\ s.base = r.base /\ s.seen = r.seen
           /\ s.entry = r.entry /\ s.at = r.at /\ s.site = r.site /\ s.way = r.way /\ s.put = r.put
           /\ s.act = r.act /\ s.stop = r.stop /\ s.time = r.time /\ s.listed = r.listed
<1> DEFINE s == [r EXCEPT !.pc = x]
<1>1. s \in Rows
  BY ZenonT(60) DEF Rows
<1>2. /\ s.pc = x /\ s.cred = r.cred /\ s.base = r.base /\ s.seen = r.seen
      /\ s.entry = r.entry /\ s.at = r.at /\ s.site = r.site /\ s.way = r.way /\ s.put = r.put
      /\ s.act = r.act /\ s.stop = r.stop /\ s.time = r.time /\ s.listed = r.listed
  BY ZenonT(60) DEF Rows
<1> QED BY <1>1, <1>2

\* The pass goes on to x, and nothing else happens but to the locks.
LEMMA MoveFrame ==
    ASSUME run \in [Procs -> Rows], NEW p \in Procs, NEW x \in Places, Set(p, [run[p] EXCEPT !.pc = x])
    PROVE  /\ run' \in [Procs -> Rows] /\ Others(p)
           /\ run'[p].pc = x /\ run'[p].cred = run[p].cred /\ run'[p].base = run[p].base
           /\ run'[p].entry = run[p].entry /\ run'[p].at = run[p].at
           /\ run'[p].site = run[p].site /\ run'[p].way = run[p].way
<1>1. run[p] \in Rows
  OBVIOUS
<1> DEFINE r == [run[p] EXCEPT !.pc = x]
<1>2. /\ r \in Rows /\ r.pc = x /\ r.cred = run[p].cred /\ r.base = run[p].base
      /\ r.entry = run[p].entry /\ r.at = run[p].at /\ r.site = run[p].site /\ r.way = run[p].way
  BY <1>1, AtPlace
<1>3. Set(p, r)
  OBVIOUS
<1> HIDE DEF r
<1>4. run' \in [Procs -> Rows] /\ run'[p] = r /\ Others(p)
  BY <1>2, <1>3, SetFrame
<1> QED BY <1>2, <1>4

-----------------------------------------------------------------------------
(* The file, under the namespace lock.                                     *)

LEMMA AcquireKeeps == ASSUME IInv, NEW p \in Procs, Acquire(p) PROVE IInv'
<1>1. run[p].pc = "lock" /\ hold' = hold /\ LeftOK' /\ lock # p /\ hold # p /\ p # NoProc
      /\ UNCHANGED <<host, stale, stores, session, usage, record>>
  BY StepFrom DEF Acquire, At, LeftOK, RowOK, HasLock, HasHold
<1>2. ~Owing(run[p])
  BY <1>1 DEF Owing, Answered
<1>3. CASE lock = NoProc /\ lock' = p /\ Set(p, [run[p] EXCEPT !.pc = "held"])
  <2>1. "held" \in Places
    BY DEF Places
  <2>2. /\ run' \in [Procs -> Rows] /\ Others(p)
        /\ run'[p].pc = "held" /\ run'[p].cred = run[p].cred /\ run'[p].base = run[p].base
        /\ run'[p].entry = run[p].entry /\ run'[p].at = run[p].at
        /\ run'[p].site = run[p].site /\ run'[p].way = run[p].way
    BY <1>3, <2>1, StepFrom, MoveFrame
  <2>3. HasLock(run'[p]) /\ ~HasHold(run'[p]) /\ run'[p].pc \notin Answered
    BY <2>2 DEF HasLock, HasHold, Answered
  <2>4. WayOf(p)'
    BY <1>1, <2>2, StepFrom DEF RowOK, WayOf
  <2>5. Refreshing(p)'
    BY <2>2, <2>3 DEF Refreshing
  <2>6. RowOK(p)'
    BY <1>1, <1>3, <2>2, <2>3, <2>4, <2>5, StepFrom, RowGoesOn
  <2> QED BY <1>1, <1>2, <1>3, <2>2, <2>3, <2>6, QuietKeeps DEF Lets
<1>4. CASE lock' = lock /\ \E c \in {file, None}, state \in States : Back(p, c, state)
  <2>1. PICK c \in {file, None}, state \in States : Back(p, c, state)
    BY <1>4
  <2>2. c \in Around \cup {None, run[p].cred}
    BY <2>1, StepFrom
  <2> QED BY <1>1, <1>2, <1>4, <2>1, <2>2, BackKeeps DEF Lets
<1>5. \/ lock = NoProc /\ lock' = p /\ Set(p, [run[p] EXCEPT !.pc = "held"])
      \/ lock' = lock /\ \E c \in {file, None}, state \in States : Back(p, c, state)
  <2>1. /\ run[p].state \in States /\ "busy" \in States /\ "error" \in States
        /\ "lock unavailable" \in States
    BY StepFrom
  <2> QED BY <2>1 DEF Acquire
<1> QED BY <1>3, <1>4, <1>5

LEMMA DetectKeeps == ASSUME IInv, NEW p \in Procs, Detect(p) PROVE IInv'
<1>1. run[p].pc = "held" /\ lock' = lock /\ hold' = hold /\ LeftOK' /\ lock = p /\ hold # p
      /\ UNCHANGED <<host, stale, stores, session, usage, record>>
  BY StepFrom DEF Detect, At, LeftOK, RowOK, HasLock, HasHold
<1>2. PICK a \in {"none", "session", "migrated"} : Set(p, [run[p] EXCEPT !.pc = "resolve", !.act = a])
  BY DEF Detect, Activity
<1> DEFINE r == [run[p] EXCEPT !.pc = "resolve", !.act = a]
<1>3. r \in Rows
  <2>1. "resolve" \in Places
    BY DEF Places
  <2>20. run[p] \in Rows
    BY StepFrom
  <2> QED BY <2>1, <2>20, ZenonT(60) DEF Rows
<1>4. /\ r.pc = "resolve" /\ r.cred = run[p].cred
      /\ r.entry = run[p].entry /\ r.at = run[p].at /\ r.site = run[p].site /\ r.way = run[p].way
  BY StepFrom, ZenonT(60) DEF Rows
<1>5. Set(p, r)
  BY <1>2
<1> HIDE DEF r
<1>6. run' \in [Procs -> Rows] /\ run'[p] = r /\ Others(p)
  BY <1>3, <1>5, StepFrom, SetFrame
<1>7. HasLock(r) /\ ~HasHold(r) /\ r.pc \notin Answered /\ ~Owing(run[p])
  BY <1>1, <1>4 DEF HasLock, HasHold, Answered, Owing
<1>8. WayOf(p)' /\ Refreshing(p)'
  BY <1>1, <1>4, <1>6, <1>7, StepFrom DEF RowOK, WayOf, Refreshing
<1>9. RowOK(p)'
  BY <1>1, <1>4, <1>6, <1>7, <1>8, StepFrom, RowGoesOn
<1> QED BY <1>1, <1>4, <1>6, <1>7, <1>9, QuietKeeps DEF Lets

LEMMA SettleKeeps == ASSUME IInv, NEW p \in Procs, Settle(p) PROVE IInv'
<1>1. run[p].pc = "settled" /\ hold' = hold /\ LeftOK' /\ lock = p /\ hold # p /\ p # NoProc
      /\ UNCHANGED <<host, stale, stores, session, usage, record>>
  BY StepFrom DEF Settle, At, LeftOK, RowOK, HasLock, HasHold
<1>2. ~Owing(run[p])
  BY <1>1 DEF Owing, Answered
<1>3. CASE lock' = NoProc /\ \E c \in {file, None}, state \in States : Back(p, c, state)
  <2>1. PICK c \in {file, None}, state \in States : Back(p, c, state)
    BY <1>3
  <2>2. c \in Around \cup {None, run[p].cred}
    BY <2>1, StepFrom
  <2> QED BY <1>1, <1>2, <1>3, <2>1, <2>2, BackKeeps DEF Lets
<1>4. CASE /\ lock' = lock /\ file # None /\ run[p].site # "pending"
           /\ Set(p, [run[p] EXCEPT !.pc = "snapshot", !.cred = file, !.base = file])
  <2> DEFINE r == [run[p] EXCEPT !.pc = "snapshot", !.cred = file, !.base = file]
  <2>1. r \in Rows
    <3>1. "snapshot" \in Places /\ file \in Int
      BY StepFrom DEF Places
    <3>20. run[p] \in Rows
      BY StepFrom
    <3> QED BY <3>1, <3>20, ZenonT(60) DEF Rows
  <2>2. /\ r.pc = "snapshot" /\ r.cred = file /\ r.base = file
        /\ r.entry = run[p].entry /\ r.at = run[p].at /\ r.site = run[p].site /\ r.way = run[p].way
    BY StepFrom, ZenonT(60) DEF Rows
  <2>3. Set(p, r)
    BY <1>4
  <2> HIDE DEF r
  <2>4. run' \in [Procs -> Rows] /\ run'[p] = r /\ Others(p)
    BY <2>1, <2>3, StepFrom, SetFrame
  <2>5. HasLock(r) /\ ~HasHold(r) /\ r.pc \notin Answered
    BY <2>2 DEF HasLock, HasHold, Answered
  <2>6. WayOf(p)'
    BY <1>1, <1>4, <2>2, <2>4, StepFrom DEF RowOK, WayOf
  <2>7. Refreshing(p)'
    <3>1. file \in Creds
      BY <1>4, StepFrom DEF StoresOK
    <3>2. file \in Creds'
      BY <1>1, <3>1 DEF Creds, host
    <3>3. pending' = NoPending
      BY <1>1, StepFrom DEF RowOK, Refreshing, stores
    <3>4. run'[p].base \in Creds'
      BY <2>2, <2>4, <3>2
    <3> QED BY <2>2, <2>4, <2>5, <3>3, <3>4 DEF Refreshing, Own
  <2>8. RowOK(p)'
    BY <1>1, <1>4, <2>2, <2>4, <2>5, <2>6, <2>7, StepFrom, RowGoesOn
  <2> QED BY <1>1, <1>2, <1>4, <2>2, <2>4, <2>5, <2>8, StepFrom, QuietKeeps DEF Lets
<1>5. \/ lock' = NoProc /\ \E c \in {file, None}, state \in States : Back(p, c, state)
      \/ /\ lock' = lock /\ file # None /\ run[p].site # "pending"
         /\ Set(p, [run[p] EXCEPT !.pc = "snapshot", !.cred = file, !.base = file])
  <2>1. run[p].state \in States /\ "needs login" \in States
    BY StepFrom
  <2>2. run[p].act \in {"none", "session", "migrated"}
        /\ run[p].put \in {"none", "replayed", "needs login", "discarded"}
    BY StepFrom, ZenonT(60) DEF Rows
  <2>3. Said(run[p], run[p].state) \in States
    BY <2>1, <2>2 DEF Said, States
  <2>4. run[p].act # "none" => Said(run[p], run[p].act) \in States
    BY <2>2 DEF Said, States
  <2>5. ASSUME NEW c \in {file, None}, NEW state \in States, lock' = NoProc, Back(p, c, state)
        PROVE  lock' = NoProc /\ \E d \in {file, None}, s \in States : Back(p, d, s)
    BY <2>5
  <2>6. CASE run[p].act # "none" /\ lock' = NoProc /\ Back(p, None, Said(run[p], run[p].act))
    BY <2>4, <2>5, <2>6
  <2>7. CASE lock' = NoProc /\ Back(p, None, "needs login")
    BY <2>1, <2>5, <2>7
  <2>8. CASE lock' = NoProc /\ Back(p, file, Said(run[p], run[p].state))
    BY <2>3, <2>5, <2>8
  <2>9. CASE /\ run[p].act = "none" /\ file # None /\ file \in stale /\ run[p].site # "pending"
             /\ Set(p, [run[p] EXCEPT !.pc = "snapshot", !.cred = file, !.base = file])
             /\ lock' = lock
    BY <2>9
  <2>10. \/ run[p].act # "none" /\ lock' = NoProc /\ Back(p, None, Said(run[p], run[p].act))
         \/ lock' = NoProc /\ Back(p, None, "needs login")
         \/ lock' = NoProc /\ Back(p, file, Said(run[p], run[p].state))
         \/ /\ run[p].act = "none" /\ file # None /\ file \in stale /\ run[p].site # "pending"
            /\ Set(p, [run[p] EXCEPT !.pc = "snapshot", !.cred = file, !.base = file])
            /\ lock' = lock
    <3>1. \A c \in Creds : c # None
      BY DEF Creds
    <3>2. None \notin stale
      BY <3>1, StepFrom
    <3> QED BY <3>2 DEF Settle
  <2> QED BY <2>6, <2>7, <2>8, <2>9, <2>10
<1> QED BY <1>3, <1>4, <1>5

LEMMA SnapshotKeeps == ASSUME IInv, NEW p \in Procs, Snapshot(p) PROVE IInv'
<1>1. run[p].pc = "snapshot" /\ lock' = lock /\ hold' = hold /\ LeftOK' /\ lock = p /\ hold # p
      /\ UNCHANGED <<host, stale, stores, session, usage, record>>
  BY StepFrom DEF Snapshot, At, LeftOK, RowOK, HasLock, HasHold
<1> DEFINE r == [run[p] EXCEPT !.pc = "post", !.seen = file]
<1>3. r \in Rows
  <2>1. "post" \in Places /\ file \in Int
    BY StepFrom DEF Places
  <2>20. run[p] \in Rows
    BY StepFrom
  <2> QED BY <2>1, <2>20, ZenonT(60) DEF Rows
<1>4. /\ r.pc = "post" /\ r.cred = run[p].cred /\ r.base = run[p].base
      /\ r.entry = run[p].entry /\ r.at = run[p].at /\ r.site = run[p].site /\ r.way = run[p].way
  BY StepFrom, ZenonT(60) DEF Rows
<1>5. Set(p, r)
  BY DEF Snapshot
<1> HIDE DEF r
<1>6. run' \in [Procs -> Rows] /\ run'[p] = r /\ Others(p)
  BY <1>3, <1>5, StepFrom, SetFrame
<1>7. run[p].way = "file" /\ run[p].site # "pending"
  BY <1>1, StepFrom DEF RowOK, WayOf
<1>8. HasLock(r) /\ ~HasHold(r) /\ r.pc \notin Answered /\ ~Owing(run[p])
  BY <1>1, <1>4, <1>7 DEF HasLock, HasHold, Answered, Owing
<1>9. WayOf(p)'
  BY <1>4, <1>6, <1>7 DEF WayOf
<1>10. Refreshing(p)'
  <2>1. run[p].cred = run[p].base /\ Own(run[p].base) /\ pending' = NoPending
    BY <1>1, StepFrom DEF RowOK, Refreshing, stores
  <2>2. run'[p].base \in Creds'
    BY <1>1, <1>4, <1>6, <2>1 DEF Own, Creds, host
  <2> QED BY <1>4, <1>6, <1>8, <2>1, <2>2 DEF Refreshing, Own
<1>11. RowOK(p)'
  BY <1>1, <1>4, <1>6, <1>8, <1>9, <1>10, StepFrom, RowGoesOn
<1> QED BY <1>1, <1>4, <1>6, <1>8, <1>11, QuietKeeps DEF Lets

LEMMA AskPlanKeeps == ASSUME IInv, NEW p \in Procs, AskPlan(p) PROVE IInv'
<1>1. run[p].pc = "plan" /\ lock' = lock /\ hold' = hold /\ LeftOK' /\ hold # p
      /\ UNCHANGED <<host, stale, stores, session, usage, record>>
  BY StepFrom DEF AskPlan, At, LeftOK, RowOK, HasHold
<1>2. lock = p <=> run[p].way = "file"
  BY <1>1, StepFrom DEF RowOK, HasLock
<1>3. PICK x \in {"line", "look"}, n \in Nat, k \in BOOLEAN :
        /\ x = "line" <=> run[p].way = "item"
        /\ Set(p, [run[p] EXCEPT !.pc = x, !.time = n, !.asked = k])
  <2> DEFINE x == IF run[p].way = "item" THEN "line" ELSE "look"
  <2>1. x \in {"line", "look"} /\ (x = "line" <=> run[p].way = "item")
    OBVIOUS
  <2>2. run[p].time \in Nat /\ run[p].asked \in BOOLEAN
    BY StepFrom, ZenonT(60) DEF Rows
  <2>3. CASE Set(p, [run[p] EXCEPT !.pc = x])
    <3>1. [run[p] EXCEPT !.pc = x] = [run[p] EXCEPT !.pc = x, !.time = run[p].time, !.asked = run[p].asked]
      BY StepFrom DEF Rows
    <3> QED BY <2>1, <2>2, <2>3, <3>1
  <2>4. ASSUME run[p].time > 2, NEW spent \in {0, 1},
               Set(p, [run[p] EXCEPT !.pc = x, !.time = run[p].time - spent, !.asked = TRUE])
        PROVE  \E n \in Nat : Set(p, [run[p] EXCEPT !.pc = x, !.time = n, !.asked = TRUE])
    <3>1. run[p].time - spent \in Nat
      BY <2>2, <2>4
    <3> QED BY <2>4, <3>1
  <2>5. \/ Set(p, [run[p] EXCEPT !.pc = x])
        \/ /\ run[p].time > 2
           /\ \E spent \in {0, 1} :
                Set(p, [run[p] EXCEPT !.pc = x, !.time = run[p].time - spent, !.asked = TRUE])
    BY DEF AskPlan
  <2> HIDE DEF x
  <2> QED BY <2>1, <2>3, <2>4, <2>5
<1> DEFINE r == [run[p] EXCEPT !.pc = x, !.time = n, !.asked = k]
<1>4. r \in Rows
  <2>1. x \in Places
    BY DEF Places
  <2>20. run[p] \in Rows
    BY StepFrom
  <2> QED BY <2>1, <2>20, ZenonT(60) DEF Rows
<1>5. /\ r.pc = x /\ r.cred = run[p].cred /\ r.base = run[p].base
      /\ r.entry = run[p].entry /\ r.at = run[p].at /\ r.site = run[p].site /\ r.way = run[p].way
  BY StepFrom, ZenonT(60) DEF Rows
<1>6. Set(p, r)
  BY <1>3
<1> HIDE DEF r
<1>7. run' \in [Procs -> Rows] /\ run'[p] = r /\ Others(p)
  BY <1>4, <1>6, StepFrom, SetFrame
<1>8. run[p].way \in {"file", "item"} /\ run[p].site # "pending"
  BY <1>1, StepFrom, RowTypes DEF RowOK, WayOf
<1>9. /\ lock = p <=> HasLock(r)
      /\ ~HasHold(r)
      /\ r.pc \in Answered /\ run[p].pc \in Answered /\ Loose(run[p]) /\ (Owing(run[p]) => Owing(r))
  BY <1>1, <1>2, <1>3, <1>5, <1>8 DEF HasLock, HasHold, Answered, Loose, Owing
<1>10. WayOf(p)'
  BY <1>3, <1>5, <1>7, <1>8 DEF WayOf
<1>11. Refreshing(p)'
  <2>1. /\ Own(run[p].cred) /\ Own(run[p].base)
        /\ Grant(run[p].base) \notin valid \/ Grant(run[p].base) = Grant(run[p].cred)
    BY <1>9, StepFrom DEF RowOK, Refreshing
  <2>2. lock = p => pending = NoPending
    BY <1>1, StepFrom DEF RowOK, Refreshing
  <2>3. grant' = grant /\ valid' = valid /\ pending' = pending
    BY <1>1 DEF host, stores
  <2> QED BY <1>1, <1>3, <1>5, <1>7, <2>1, <2>2, <2>3 DEF Refreshing, Own, Grant, Creds
<1>12. RowOK(p)'
  BY <1>1, <1>5, <1>7, <1>9, <1>10, <1>11, <1>3, StepFrom, RowGoesOn
<1> QED BY <1>1, <1>5, <1>7, <1>9, <1>12, QuietKeeps DEF Lets

LEMMA LastLookKeeps == ASSUME IInv, NEW p \in Procs, LastLook(p) PROVE IInv'
<1>1. run[p].pc = "look" /\ hold' = hold /\ LeftOK' /\ lock = p /\ hold # p /\ p # NoProc
      /\ UNCHANGED <<host, stale, stores, session, usage, record>>
  BY StepFrom DEF LastLook, At, LeftOK, RowOK, HasLock, HasHold
<1>2. ~Owing(run[p]) /\ run[p].way = "file" /\ run[p].site # "pending"
  BY <1>1, StepFrom DEF Owing, RowOK, WayOf
<1>3. CASE lock' = NoProc /\ Back(p, None, "refresh discarded")
  <2>1. "refresh discarded" \in States
    BY StepFrom
  <2> QED BY <1>1, <1>2, <1>3, <2>1, BackKeeps DEF Lets
<1>4. ASSUME NEW n \in Nat, Set(p, [run[p] EXCEPT !.pc = "write", !.time = n]), lock' = lock
      PROVE  IInv'
  <2> DEFINE r == [run[p] EXCEPT !.pc = "write", !.time = n]
  <2>1. r \in Rows
    <3>1. "write" \in Places
      BY DEF Places
    <3>20. run[p] \in Rows
      BY StepFrom
    <3> QED BY <3>1, <3>20, ZenonT(60) DEF Rows
  <2>2. /\ r.pc = "write" /\ r.cred = run[p].cred /\ r.base = run[p].base
        /\ r.entry = run[p].entry /\ r.at = run[p].at /\ r.site = run[p].site /\ r.way = run[p].way
    BY StepFrom, ZenonT(60) DEF Rows
  <2>3. Set(p, r)
    BY <1>4
  <2> HIDE DEF r
  <2>4. run' \in [Procs -> Rows] /\ run'[p] = r /\ Others(p)
    BY <2>1, <2>3, StepFrom, SetFrame
  <2>5. HasLock(r) /\ ~HasHold(r) /\ run[p].pc \in Answered /\ Loose(run[p])
    BY <1>1, <2>2 DEF HasLock, HasHold, Answered, Loose
  <2>6. WayOf(p)'
    BY <1>2, <2>2, <2>4 DEF WayOf
  <2>7. Refreshing(p)'
    <3>1. /\ Own(run[p].cred) /\ Own(run[p].base)
          /\ Grant(run[p].base) \notin valid \/ Grant(run[p].base) = Grant(run[p].cred)
          /\ pending = NoPending
      BY <1>1, <2>5, StepFrom DEF RowOK, Refreshing
    <3>2. grant' = grant /\ valid' = valid /\ pending' = pending
      BY <1>1 DEF host, stores
    <3> QED BY <2>2, <2>4, <3>1, <3>2 DEF Refreshing, Own, Grant, Creds
  <2>8. RowOK(p)'
    BY <1>1, <1>4, <2>2, <2>4, <2>5, <2>6, <2>7, StepFrom, RowGoesOn
  <2> QED BY <1>1, <1>2, <1>4, <2>2, <2>4, <2>5, <2>8, QuietKeeps DEF Lets
<1>5. PICK spent \in {0, 1} :
        /\ spent <= run[p].time
        /\ \/ lock' = NoProc /\ Back(p, None, "refresh discarded")
           \/ Set(p, [run[p] EXCEPT !.pc = "write", !.time = run[p].time - spent]) /\ lock' = lock
  BY DEF LastLook
<1>6. run[p].time - spent \in Nat
  <2>1. run[p].time \in Nat
    BY StepFrom, RowTypes
  <2>2. spent <= run[p].time
    BY <1>5
  <2>3. CASE spent = 0
    BY <2>1, <2>3
  <2>4. CASE spent = 1
    BY <2>1, <2>2, <2>4
  <2> QED BY <2>3, <2>4
<1> QED BY <1>3, <1>4, <1>5, <1>6

-----------------------------------------------------------------------------
(* The item's reads, and a pass that is told to stop.                      *)

LEMMA CheckOwnerKeeps == ASSUME IInv, NEW p \in Procs, CheckOwner(p) PROVE IInv'
<1>1. run[p].pc = "owner" /\ lock' = lock /\ hold' = hold /\ LeftOK' /\ lock # p /\ hold # p
      /\ UNCHANGED <<host, stale, stores, session, usage, record>>
  BY StepFrom DEF CheckOwner, At, LeftOK, RowOK, HasLock, HasHold
<1>2. ~Owing(run[p]) /\ run[p].way = "item" /\ run[p].site # "pending"
  BY <1>1, StepFrom DEF Owing, Answered, RowOK, WayOf
<1>3. CASE Back(p, adopted, "adopted")
  <2>1. "adopted" \in States /\ adopted \in Around
    BY StepFrom
  <2> QED BY <1>1, <1>2, <1>3, <2>1, BackKeeps DEF Lets
<1>4. CASE Own(run[p].cred) /\ Set(p, [run[p] EXCEPT !.pc = "peek", !.base = run[p].cred])
  <2> DEFINE r == [run[p] EXCEPT !.pc = "peek", !.base = run[p].cred]
  <2>1. r \in Rows
    <3>1. "peek" \in Places
      BY DEF Places
    <3>20. run[p] \in Rows
      BY StepFrom
    <3> QED BY <3>1, <3>20, ZenonT(60) DEF Rows
  <2>2. /\ r.pc = "peek" /\ r.cred = run[p].cred /\ r.base = run[p].cred
        /\ r.entry = run[p].entry /\ r.at = run[p].at /\ r.site = run[p].site /\ r.way = run[p].way
    BY StepFrom, ZenonT(60) DEF Rows
  <2>3. Set(p, r)
    BY <1>4
  <2> HIDE DEF r
  <2>4. run' \in [Procs -> Rows] /\ run'[p] = r /\ Others(p)
    BY <2>1, <2>3, StepFrom, SetFrame
  <2>5. ~HasLock(r) /\ ~HasHold(r) /\ r.pc \notin Answered
    BY <2>2 DEF HasLock, HasHold, Answered
  <2>6. WayOf(p)'
    BY <1>2, <2>2, <2>4 DEF WayOf
  <2>7. Refreshing(p)'
    <3>1. run[p].cred \in Creds'
      BY <1>1, <1>4 DEF Own, Creds, host
    <3> QED BY <1>1, <2>2, <2>4, <2>5, <3>1 DEF Refreshing, Own
  <2>8. RowOK(p)'
    BY <1>1, <2>2, <2>4, <2>5, <2>6, <2>7, StepFrom, RowGoesOn
  <2> QED BY <1>1, <1>2, <2>2, <2>4, <2>5, <2>8, QuietKeeps DEF Lets
<1> QED BY <1>3, <1>4 DEF CheckOwner, Occupied

LEMMA PeekKeeps == ASSUME IInv, NEW p \in Procs, Peek(p) PROVE IInv'
<1>1. run[p].pc \in {"peek", "refused"} /\ lock' = lock /\ hold' = hold /\ LeftOK' /\ lock # p /\ hold # p
      /\ UNCHANGED <<host, stale, stores, session, usage, record>>
  BY StepFrom DEF Peek, At, LeftOK, RowOK, HasLock, HasHold
<1>2. ~Owing(run[p]) /\ run[p].way = "item" /\ run[p].site # "pending"
  BY <1>1, StepFrom DEF Owing, Answered, RowOK, WayOf
<1>3. CASE \E c \in {item, adopted, None}, state \in States : Back(p, c, state)
  <2>1. PICK c \in {item, adopted, None}, state \in States : Back(p, c, state)
    BY <1>3
  <2>2. c \in Around \cup {None, run[p].cred}
    BY <2>1, StepFrom
  <2> QED BY <1>1, <1>2, <2>1, <2>2, BackKeeps DEF Lets
<1>4. CASE run[p].pc = "peek" /\ Set(p, [run[p] EXCEPT !.pc = "post"])
  <2>1. "post" \in Places
    BY DEF Places
  <2>2. /\ run' \in [Procs -> Rows] /\ Others(p)
        /\ run'[p].pc = "post" /\ run'[p].cred = run[p].cred /\ run'[p].base = run[p].base
        /\ run'[p].entry = run[p].entry /\ run'[p].at = run[p].at
        /\ run'[p].site = run[p].site /\ run'[p].way = run[p].way
    BY <1>4, <2>1, StepFrom, MoveFrame
  <2>3. ~HasLock(run'[p]) /\ ~HasHold(run'[p]) /\ run'[p].pc \notin Answered
    BY <1>2, <2>2 DEF HasLock, HasHold, Answered
  <2>4. WayOf(p)'
    BY <1>2, <2>2 DEF WayOf
  <2>5. Refreshing(p)'
    <3>1. run[p].cred = run[p].base /\ Own(run[p].base)
      BY <1>1, StepFrom DEF RowOK, Refreshing
    <3>2. run'[p].base \in Creds'
      BY <1>1, <2>2, <3>1 DEF Own, Creds, host
    <3> QED BY <1>1, <2>2, <2>3, <3>1, <3>2 DEF Refreshing, Own
  <2>6. RowOK(p)'
    BY <1>1, <2>2, <2>3, <2>4, <2>5, StepFrom, RowGoesOn
  <2> QED BY <1>1, <1>2, <2>2, <2>3, <2>6, QuietKeeps DEF Lets
<1>5. \/ \E c \in {item, adopted, None}, state \in States : Back(p, c, state)
      \/ run[p].pc = "peek" /\ Set(p, [run[p] EXCEPT !.pc = "post"])
  <2>1. /\ run[p].state \in States /\ "adopted" \in States /\ "needs login" \in States
        /\ "stale" \in States
    BY StepFrom
  <2>2. \/ Back(p, item, run[p].state)
        \/ Back(p, adopted, "adopted")
        \/ run[p].pc = "peek" /\ Set(p, [run[p] EXCEPT !.pc = "post"])
        \/ Back(p, None, "needs login")
        \/ Back(p, None, "stale")
    BY DEF Peek, Occupied
  <2> QED BY <2>1, <2>2
<1> QED BY <1>3, <1>4, <1>5

LEMMA CancelKeeps == ASSUME IInv, NEW p \in Procs, Cancel(p) PROVE IInv'
<1>1. lock' = lock /\ hold' = hold /\ LeftOK' /\ UNCHANGED <<host, stale, stores, session, usage, record>>
  BY StepFrom DEF Cancel, LeftOK
<1> DEFINE r == [run[p] EXCEPT !.stop = TRUE]
<1>2. r \in Rows
  BY StepFrom, ZenonT(60) DEF Rows
<1>3. /\ r.pc = run[p].pc /\ r.cred = run[p].cred /\ r.base = run[p].base
      /\ r.entry = run[p].entry /\ r.at = run[p].at /\ r.site = run[p].site /\ r.way = run[p].way
  BY StepFrom, ZenonT(60) DEF Rows
<1>4. Set(p, r)
  BY DEF Cancel
<1> HIDE DEF r
<1>5. run' \in [Procs -> Rows] /\ run'[p] = r /\ Others(p)
  BY <1>2, <1>4, StepFrom, SetFrame
<1>6. (HasLock(r) <=> HasLock(run[p])) /\ (HasHold(r) <=> HasHold(run[p]))
  BY <1>3 DEF HasLock, HasHold
<1>7. WayOf(p)'
  BY <1>3, <1>5, StepFrom DEF RowOK, WayOf
<1>8. Refreshing(p)'
  <2>1. Refreshing(p) /\ grant' = grant /\ valid' = valid /\ pending' = pending /\ item' = item
    BY <1>1, StepFrom DEF RowOK, host, stores
  <2> QED BY <1>1, <1>3, <1>5, <2>1 DEF Refreshing, Own, Grant, Creds
<1>9. RowOK(p)'
  BY <1>1, <1>3, <1>5, <1>6, <1>7, <1>8, StepFrom, RowGoesOn DEF RowOK
<1>10. Owing(run[p]) => Owing(run'[p])
  BY <1>3, <1>5 DEF Owing
<1>11. Loose(run'[p]) => Loose(run[p])
  BY <1>3, <1>5 DEF Loose
<1> QED BY <1>1, <1>3, <1>5, <1>9, <1>10, <1>11, QuietKeeps DEF Lets

-----------------------------------------------------------------------------
(* Steps that change more than a row.                                      *)

LEMMA StoresStay ==
    ASSUME StoresOK, Creds \subseteq Creds', UNCHANGED <<stale, stores, session, log, landed>>,
           minted' \subseteq Creds'
    PROVE  StoresOK' /\ Around' = Around
<1>1. /\ stale' = stale /\ file' = file /\ pending' = pending /\ item' = item /\ adopted' = adopted
      /\ session' = session /\ log' = log /\ landed' = landed
  BY DEF stores
<1>2. Slots \subseteq Slots'
  BY DEF Slots
<1>3. /\ file' \in Slots' \ {Occupant} /\ item' \in Slots' /\ adopted' \in Slots' \ {Occupant}
      /\ stale' \subseteq Creds' /\ landed' \subseteq Creds'
      /\ {item', adopted'} \subseteq {None, Occupant} \cup landed'
  BY <1>1, <1>2 DEF StoresOK
<1>4. /\ pending' \in [cred : Slots' \ {Occupant}, from : Slots' \ {Occupant}]
      /\ session' \in [at : {"idle", "post", "save"}, cred : Slots' \ {Occupant}]
  BY <1>1, <1>2 DEF StoresOK
<1>5. log' \subseteq [cred : Creds', outcome : Outcomes] /\ (session'.at # "idle" => session'.cred \in Creds')
  BY <1>1 DEF StoresOK
<1> QED BY <1>1, <1>3, <1>4, <1>5 DEF StoresOK, Around

LEMMA FetchKeeps == ASSUME IInv, NEW p \in Procs, Fetch(p) PROVE IInv'
<1>1. run[p].pc = "fetch" /\ lock' = lock /\ hold' = hold /\ LeftOK' /\ lock # p /\ hold # p
      /\ clock' = clock /\ UNCHANGED <<host, stale, stores, session, log, landed, minted>>
  BY StepFrom DEF Fetch, At, LeftOK, RowOK, HasLock, HasHold, record
<1>2. ~Owing(run[p]) /\ run[p].site # "pending" /\ run[p].entry.until <= run[p].at
  BY <1>1, StepFrom DEF Owing, Answered, RowOK, WayOf, WindowOf
<1>3. run[p].entry \in Entries /\ run[p].at <= clock /\ run[p].at \in Nat /\ clock \in Nat
      /\ cache \in Entries /\ window \in 0 .. clock + Retry
  BY StepFrom, RowTypes DEF RowOK, UsageOK
<1>4. cache' \in Entries
  <2>1. Answer \in Entries
    BY <1>3 DEF Answer, Entries, Retry
  <2>2. ASSUME NEW wait \in {0, Retry} PROVE Waiting(run[p], wait) \in Entries
    <3> DEFINE u == IF wait = 0 THEN 0 ELSE run[p].at + wait
    <3>1. u \in 0 .. clock + Retry
      BY <1>3 DEF Retry
    <3>2. Waiting(run[p], wait) = IF run[p].entry = Unfetched THEN cache ELSE [run[p].entry EXCEPT !.until = u]
      BY DEF Waiting
    <3> HIDE DEF u
    <3> QED BY <1>3, <3>1, <3>2 DEF Entries
  <2> QED BY <1>3, <2>1, <2>2 DEF Fetch
<1>5. window' \in 0 .. clock + Retry
  <2>1. window' = window \/ window' = clock + Retry
    BY DEF Fetch
  <2> QED BY <1>3, <2>1 DEF Retry
<1>6. UsageOK'
  <2>1. Entries' = Entries
    BY <1>1 DEF Entries
  <2> QED BY <1>1, <1>3, <1>4, <1>5, <2>1 DEF UsageOK
<1>7. HostOK' /\ Grown /\ Creds' = Creds
  BY <1>1, <1>3, StepFrom, SameHost
<1>8. StoresOK' /\ Around' = Around
  BY <1>1, <1>7, StepFrom, StoresStay DEF StoresOK
<1>9. PICK r \in Rows : Set(p, r) /\ Rested(r, run[p].cred)
  <2>1. ASSUME NEW state \in States
        PROVE  Rested(Finished(run[p], state), run[p].cred) /\ Finished(run[p], state) \in Rows
    <3>1. UsageOK /\ run[p] \in Rows
      BY StepFrom
    <3>2. Rested(Finished(run[p], state), run[p].cred)
      BY <3>1, FinishedFacts
    <3> QED BY <3>2 DEF Rested
  <2>2. /\ run[p].state \in States /\ "needs login" \in States /\ "rate limited" \in States
        /\ "error" \in States /\ "stale" \in States
    BY StepFrom DEF States
  <2>3. ASSUME NEW x \in {"owner", "lock"}, x = "owner" <=> run[p].way = "item",
               Set(p, [run[p] EXCEPT !.pc = x, !.site = "retry"])
        PROVE  \E r \in Rows : Set(p, r) /\ Rested(r, run[p].cred)
    <3> DEFINE r == [run[p] EXCEPT !.pc = x, !.site = "retry"]
    <3>1. r \in Rows
      <4>1. x \in Places /\ "retry" \in {"none", "refresh", "retry", "pending"}
        BY DEF Places
      <4>20. run[p] \in Rows
        BY StepFrom
      <4> QED BY <4>1, <4>20, ZenonT(60) DEF Rows
    <3>2. /\ r.pc = x /\ r.cred = run[p].cred /\ r.entry = run[p].entry /\ r.at = run[p].at
          /\ r.site = "retry" /\ r.way = run[p].way
      BY StepFrom, ZenonT(60) DEF Rows
    <3>3. Set(p, r)
      BY <2>3
    <3> HIDE DEF r
    <3>4. run[p].way \in {"file", "item"}
      BY StepFrom, RowTypes
    <3>5. Rested(r, run[p].cred)
      BY <1>2, <1>3, <2>3, <3>1, <3>2, <3>4 DEF Rested
    <3> QED BY <3>1, <3>3, <3>5
  <2>4. \/ \E state \in States : Set(p, Finished(run[p], state))
        \/ Set(p, [run[p] EXCEPT !.pc = IF run[p].way = "item" THEN "owner" ELSE "lock", !.site = "retry"])
    BY <2>2 DEF Fetch
  <2>5. CASE Set(p, [run[p] EXCEPT !.pc = IF run[p].way = "item" THEN "owner" ELSE "lock", !.site = "retry"])
    <3> DEFINE x == IF run[p].way = "item" THEN "owner" ELSE "lock"
    <3>1. x \in {"owner", "lock"} /\ (x = "owner" <=> run[p].way = "item")
      OBVIOUS
    <3>2. Set(p, [run[p] EXCEPT !.pc = x, !.site = "retry"])
      BY <2>5
    <3> HIDE DEF x
    <3> QED BY <2>3, <3>1, <3>2
  <2> QED BY <2>1, <2>4, <2>5
<1>10. run' \in [Procs -> Rows] /\ run'[p] = r /\ Others(p)
  BY <1>9, StepFrom, SetFrame
<1>11. run[p].cred \in Slots'
  BY <1>7, StepFrom DEF Slots
<1>12. RowOK(p)' /\ run'[p].pc \notin Answered
  BY <1>1, <1>9, <1>10, <1>11, RestedKeeps
<1>13. Flow(p)
  BY <1>8, <1>9, <1>10, <1>12 DEF Flow, Rested, Loose
<1>14. Tells(p)
  <2>1. New \notin minted
    BY StepFrom, AroundFacts DEF StoresOK
  <2> QED BY <1>1, <1>2, <1>12, <2>1 DEF Tells, Owing
<1>15. session' = session /\ pending' = pending /\ item' = item
  BY <1>1 DEF stores
<1> QED BY <1>1, <1>6, <1>7, <1>8, <1>10, <1>12, <1>13, <1>14, <1>15, StepKeeps DEF Lets

LEMMA ResolvePendingKeeps == ASSUME IInv, NEW p \in Procs, ResolvePending(p) PROVE IInv'
<1>1. run[p].pc = "resolve" /\ hold' = hold /\ LeftOK' /\ lock = p /\ hold # p /\ p # NoProc
      /\ clock' = clock /\ cache' = cache /\ window' = window
      /\ UNCHANGED <<host, stale, item, adopted, session, log, landed, minted>>
  BY StepFrom DEF ResolvePending, At, LeftOK, RowOK, HasLock, HasHold, record, usage
<1>2. ~Owing(run[p]) /\ run[p].pc \notin Answered
  BY <1>1 DEF Owing, Answered
<1>3. CASE Back(p, None, "error") /\ lock' = NoProc /\ UNCHANGED <<file, pending>>
  <2>1. "error" \in States
    BY StepFrom
  <2>2. UNCHANGED <<host, stale, stores, session, usage, record>>
    BY <1>1, <1>3 DEF stores, usage, record
  <2> QED BY <1>1, <1>2, <1>3, <2>1, <2>2, BackKeeps DEF Lets
<1>6. None \in Slots \ {Occupant}
  BY DEF Slots
<1>4. ASSUME NEW u \in {"none", "replayed", "needs login", "discarded"}, NEW r,
             r = [run[p] EXCEPT !.pc = "settled", !.put = u], Set(p, r),
             lock' = lock, pending' = NoPending, file' \in {file, pending.cred}
      PROVE  IInv'
  <2>1. r \in Rows
    <3>1. "settled" \in Places
      BY DEF Places
    <3>20. run[p] \in Rows
      BY StepFrom
    <3> QED BY <1>4, <3>1, <3>20, ZenonT(60) DEF Rows
  <2>2. /\ r.pc = "settled" /\ r.cred = run[p].cred
        /\ r.entry = run[p].entry /\ r.at = run[p].at /\ r.site = run[p].site /\ r.way = run[p].way
    BY <1>4, StepFrom, ZenonT(60) DEF Rows
  <2>3. run' \in [Procs -> Rows] /\ run'[p] = r /\ Others(p)
    BY <1>4, <2>1, StepFrom, SetFrame
  <2>4. HostOK' /\ Grown /\ Creds' = Creds
    BY <1>1, StepFrom, SameHost DEF UsageOK
  <2>5. Slots' = Slots /\ Entries' = Entries
    BY <1>1, <2>4 DEF Slots, Entries
  <2>6. pending.cred \in Slots \ {Occupant} /\ file \in Slots \ {Occupant} /\ pending.cred \in Around
        /\ NoPending \in [cred : Slots \ {Occupant}, from : Slots \ {Occupant}] /\ NoPending.cred = None
    <3>1. file \in Slots \ {Occupant} /\ pending \in [cred : Slots \ {Occupant}, from : Slots \ {Occupant}]
      BY StepFrom DEF StoresOK
    <3> QED BY <1>6, <3>1 DEF Around, NoPending
  <2>7. StoresOK'
    BY <1>1, <1>4, <2>4, <2>5, <2>6, StepFrom DEF StoresOK
  <2>8. UsageOK'
    BY <1>1, <2>5, StepFrom DEF UsageOK
  <2>9. Around' \subseteq Around \cup {None}
    BY <1>1, <1>4, <2>6 DEF Around
  <2>10. HasLock(r) /\ ~HasHold(r) /\ r.pc \notin Answered
    BY <2>2 DEF HasLock, HasHold, Answered
  <2>11. WayOf(p)' /\ WindowOf(p)'
    <3>1. WayOf(p) /\ WindowOf(p)
      BY StepFrom DEF RowOK
    <3> QED BY <1>1, <1>4, <2>2, <2>3, <3>1 DEF WayOf, WindowOf
  <2>15. Refreshing(p)'
    BY <1>1, <1>4, <2>2, <2>3, <2>10 DEF Refreshing
  <2>12. RowOK(p)'
    BY <1>1, <1>4, <2>2, <2>3, <2>5, <2>10, <2>11, <2>15, StepFrom DEF RowOK
  <2>13. Flow(p)
    BY <2>2, <2>3, <2>9, <2>10 DEF Flow, Loose
  <2>14. Tells(p)
    <3>1. New \notin minted
      BY StepFrom, AroundFacts DEF StoresOK
    <3> QED BY <1>1, <1>2, <2>3, <2>10, <3>1 DEF Tells, Owing
  <2> QED BY <1>1, <1>4, <2>3, <2>4, <2>7, <2>8, <2>12, <2>13, <2>14, StepKeeps DEF Lets
<1>5. PICK u \in {"none", "replayed", "needs login", "discarded"} :
        \/ Back(p, None, "error") /\ lock' = NoProc /\ UNCHANGED <<file, pending>>
        \/ /\ Set(p, [run[p] EXCEPT !.pc = "settled", !.put = u])
           /\ lock' = lock /\ pending' = NoPending /\ file' \in {file, pending.cred}
  <2>1. run[p].put \in {"none", "replayed", "needs login", "discarded"} /\ run[p] \in Rows
    BY StepFrom, ZenonT(60) DEF Rows
  <2>2. [run[p] EXCEPT !.pc = "settled", !.put = run[p].put] = [run[p] EXCEPT !.pc = "settled"]
    BY <2>1 DEF Rows
  <2>3. \A u : [[run[p] EXCEPT !.pc = "settled"] EXCEPT !.put = u] = [run[p] EXCEPT !.pc = "settled", !.put = u]
    BY <2>1 DEF Rows
  <2>4. CASE pending = NoPending /\ Set(p, [run[p] EXCEPT !.pc = "settled"]) /\ UNCHANGED <<file, pending, lock>>
    BY <2>1, <2>2, <2>4
  <2>5. CASE /\ file' = pending.cred /\ pending' = NoPending /\ lock' = lock
             /\ Set(p, [[run[p] EXCEPT !.pc = "settled"] EXCEPT !.put = "replayed"])
    BY <2>3, <2>5
  <2>6. CASE /\ file' = file /\ pending' = NoPending /\ lock' = lock
             /\ Set(p, [[run[p] EXCEPT !.pc = "settled"] EXCEPT
                          !.put = IF run[p].act = "none" /\ file = None THEN "needs login" ELSE "discarded"])
    <3>1. PICK u \in {"needs login", "discarded"} : Set(p, [[run[p] EXCEPT !.pc = "settled"] EXCEPT !.put = u])
      BY <2>6
    <3> QED BY <2>3, <2>6, <3>1
  <2>7. CASE lock' = NoProc /\ Back(p, None, "error") /\ UNCHANGED <<file, pending>>
    BY <2>7
  <2>8. [run[p] EXCEPT !.pc = "settled"].act = run[p].act
    BY <2>1 DEF Rows
  <2> QED BY <2>4, <2>5, <2>6, <2>7, <2>8 DEF ResolvePending
<1> QED BY <1>3, <1>4, <1>5

LEMMA WriteFileKeeps == ASSUME IInv, NEW p \in Procs, WriteFile(p) PROVE IInv'
<1>1. run[p].pc = "write" /\ hold' = hold /\ LeftOK' /\ lock = p /\ lock' = NoProc /\ hold # p /\ p # NoProc
      /\ clock' = clock /\ cache' = cache /\ window' = window
      /\ UNCHANGED <<host, stale, item, adopted, session, log, landed, minted>>
  BY StepFrom DEF WriteFile, At, LeftOK, RowOK, HasLock, HasHold, record, usage
<1>2. ~Owing(run[p]) /\ run[p].pc \in Answered /\ run[p].pc \notin {"idle", "start"}
  BY <1>1, StepFrom DEF Owing, Answered, RowOK, WayOf
<1>3. run[p].cred \in Creds /\ run[p].base \in Creds
  BY <1>2, StepFrom DEF RowOK, Refreshing, Own
<1>15. \A c \in {run[p].cred, None} : c \in Int
  <2>1. run[p].cred \in Int
    BY StepFrom
  <2>2. None \in Int
    OBVIOUS
  <2> HIDE DEF None
  <2> QED BY <2>1, <2>2
<1>4. PICK c \in {run[p].cred, None}, state \in States :
        /\ Back(p, c, state)
        /\ \/ UNCHANGED <<file, pending>>
           \/ file' = run[p].cred /\ pending' = pending
           \/ pending' = [cred |-> run[p].cred, from |-> run[p].base] /\ file' = file
  <2>1. run[p].state \in States /\ "error" \in States /\ "refresh discarded" \in States
    BY StepFrom
  <2>2. run[p].put \in {"none", "replayed", "needs login", "discarded"}
    BY StepFrom, ZenonT(60) DEF Rows
  <2>3. Said(run[p], run[p].state) \in States
    BY <2>1, <2>2 DEF Said, States
  <2> QED BY <2>1, <2>3 DEF WriteFile
<1>5. HostOK' /\ Grown /\ Creds' = Creds
  BY <1>1, StepFrom, SameHost DEF UsageOK
<1>6. Slots' = Slots /\ Entries' = Entries /\ run[p].cred \in Slots \ {Occupant}
      /\ run[p].base \in Slots \ {Occupant} /\ None \in Slots
  <2>1. \A d \in Creds : d # Occupant
    BY DEF Creds
  <2> QED BY <1>1, <1>3, <1>5, <2>1 DEF Slots, Entries
<1>7. /\ file' \in Slots \ {Occupant} /\ pending' \in [cred : Slots \ {Occupant}, from : Slots \ {Occupant}]
      /\ file' \in {file, run[p].cred} /\ pending'.cred \in {pending.cred, run[p].cred}
  <2>1. /\ file \in Slots \ {Occupant}
        /\ pending \in [cred : Slots \ {Occupant}, from : Slots \ {Occupant}]
    BY StepFrom DEF StoresOK
  <2> QED BY <1>4, <1>6, <2>1
<1>8. StoresOK'
  BY <1>1, <1>5, <1>6, <1>7, StepFrom DEF StoresOK
<1>9. UsageOK'
  BY <1>1, <1>6, StepFrom DEF UsageOK
<1>10. Around' \subseteq Around \cup {run[p].cred}
  BY <1>1, <1>7 DEF Around
<1>11. run' \in [Procs -> Rows] /\ Others(p) /\ Rested(run'[p], c)
  <2>1. c \in Int
    BY <1>15
  <2> QED BY <1>2, <1>4, <2>1, StepFrom, BackFrame
<1>12. RowOK(p)' /\ run'[p].pc \notin Answered
  <2>1. c \in Slots'
    BY <1>6
  <2> QED BY <1>1, <1>11, <2>1, RestedKeeps
<1>13. Flow(p)
  <2>1. run'[p].cred \in {run[p].cred, None}
    BY <1>11 DEF Rested
  <2> QED BY <1>10, <1>11, <1>12, <2>1 DEF Flow, Loose
<1>14. Tells(p)
  <2>1. New \notin minted
    BY StepFrom, AroundFacts DEF StoresOK
  <2> QED BY <1>1, <1>2, <1>12, <2>1 DEF Tells, Owing
<1> QED BY <1>1, <1>5, <1>8, <1>9, <1>11, <1>12, <1>13, <1>14, StepKeeps DEF Lets

\* The request was answered with n, which the pass has and nobody else.
LEMMA PostAnswered ==
    ASSUME IInv, NEW p \in Procs, run[p].pc = "post", NEW n, n = New, NEW time \in Nat,
           Rotates(run[p].cred) \/ Leaves(run[p].cred),
           Set(p, [run[p] EXCEPT !.pc = "plan", !.cred = n, !.time = time]),
           minted' = (IF run[p].way = "item" THEN minted \cup {n} ELSE minted),
           UNCHANGED <<lock, hold, stale, stores, session, usage, log, landed>>
    PROVE  IInv'
<1>1. run[p].cred = run[p].base /\ run[p].base \in Creds /\ run[p].site # "pending" /\ hold # p
      /\ (lock = p <=> run[p].way = "file") /\ (lock = p => pending = NoPending)
  BY StepFrom DEF RowOK, Refreshing, Own, WayOf, HasLock, HasHold
<1>2. PICK b \in Creds : b = run[p].cred /\ b = run[p].base
  BY <1>1
<1>3. clock \in Nat /\ clock' = clock
  BY StepFrom DEF UsageOK, usage
<1>4. /\ HostOK' /\ Grown /\ Creds' = Creds \cup {n} /\ n \notin Creds
      /\ Own(n)' /\ Own(b)'
      /\ Grant(b)' \notin valid' \/ Grant(b)' = Grant(n)'
  <2>1. Rotates(b) \/ Leaves(b)
    BY <1>2
  <2>2. HostOK
    BY StepFrom
  <2> QED BY <1>3, <2>1, <2>2, RefreshHost
<1>5. LeftOK'
  <2>1. \E g : Issue(g)
    BY DEF Rotates, Leaves
  <2>2. PICK g : Issue(g)
    BY <2>1
  <2>3. LocksOK /\ UNCHANGED <<lock, hold, session>>
    BY StepFrom
  <2>4. LocksOK'
    BY <2>2, <2>3, IssueLeaves
  <2> QED BY <2>4 DEF LocksOK, LeftOK
<1> DEFINE r == [run[p] EXCEPT !.pc = "plan", !.cred = n, !.time = time]
<1>6. r \in Rows
  <2>1. "plan" \in Places
    BY DEF Places
  <2>2. Len(grant) \in Nat
    <3>1. HostOK
      BY StepFrom
    <3> QED BY <3>1 DEF HostOK
  <2>3. n \in Int
    BY <2>2 DEF New
  <2>20. run[p] \in Rows
    BY StepFrom
  <2> QED BY <2>1, <2>3, <2>20, ZenonT(60) DEF Rows
<1>7. /\ r.pc = "plan" /\ r.cred = n /\ r.base = run[p].base
      /\ r.entry = run[p].entry /\ r.at = run[p].at /\ r.site = run[p].site /\ r.way = run[p].way
  BY StepFrom, ZenonT(60) DEF Rows
<1>8. Set(p, r)
  OBVIOUS
<1> HIDE DEF r
<1>9. run' \in [Procs -> Rows] /\ run'[p] = r /\ Others(p)
  BY <1>6, <1>8, StepFrom, SetFrame
<1>10. StoresOK' /\ Around' = Around
  <2>1. minted' \subseteq Creds'
    BY <1>4, StepFrom DEF StoresOK
  <2> QED BY <1>4, <2>1, StepFrom, StoresStay
<1>11. Entries' = Entries /\ UsageOK'
  BY <1>3, StepFrom DEF Entries, UsageOK, usage
<1>12. run[p].way \in {"file", "item"}
  BY StepFrom, RowTypes
<1>13. (HasLock(r) <=> r.way = "file") /\ ~HasHold(r) /\ r.pc \in Answered
  BY <1>7 DEF HasLock, HasHold, Answered
<1>14. WayOf(p)' /\ WindowOf(p)'
  BY <1>1, <1>7, <1>9, StepFrom DEF WayOf, WindowOf, RowOK
<1>15. Refreshing(p)'
  <2>1. lock' = lock /\ pending' = pending
    BY DEF stores
  <2>2. run'[p].pc = "plan" /\ run'[p].cred = n /\ run'[p].base = b
    BY <1>2, <1>7, <1>9
  <2> QED BY <1>1, <1>4, <2>1, <2>2, <1>7, <1>12, <1>13 DEF Refreshing, Own, Grant
<1>16. RowOK(p)'
  <2>1. run'[p].cred \in Slots'
    BY <1>4, <1>7, <1>9 DEF Slots
  <2>2. run'[p].entry \in Entries' /\ run'[p].at <= clock'
    BY <1>3, <1>7, <1>9, <1>11, StepFrom DEF RowOK
  <2> QED BY <1>1, <1>7, <1>9, <1>13, <1>14, <1>15, <2>1, <2>2 DEF RowOK
<1>17. Flow(p)
  BY <1>7, <1>9, <1>10 DEF Flow
<1>18. Tells(p)
  <2>1. New \notin minted
    BY StepFrom, AroundFacts DEF StoresOK
  <2>2. ~Owing(run[p])
    BY DEF Owing, Answered
  <2> QED BY <1>7, <1>9, <1>12, <1>13, <2>1, <2>2 DEF Tells, Owing
<1>19. session' = session /\ pending' = pending /\ item' = item
  BY DEF stores
<1> QED BY <1>4, <1>5, <1>9, <1>10, <1>11, <1>16, <1>17, <1>18, <1>19, StepKeeps DEF Lets

LEMMA PostKeeps == ASSUME IInv, NEW p \in Procs, Post(p) PROVE IInv'
<1>1. run[p].pc = "post" /\ hold' = hold /\ hold # p /\ p # NoProc /\ run[p].site # "pending"
      /\ (lock = p <=> run[p].way = "file") /\ run[p].cred = run[p].base /\ run[p].base \in Creds
      /\ UNCHANGED <<stale, stores, hold, session, usage, log, landed>>
  BY StepFrom DEF Post, At, RowOK, HasLock, HasHold, WayOf, Refreshing, Own
<1>2. ~Owing(run[p]) /\ run[p].pc \notin Answered /\ New \notin minted
  <2>1. New \notin minted
    BY StepFrom, AroundFacts DEF StoresOK
  <2> QED BY <1>1, <2>1 DEF Owing, Answered
<1>3. ASSUME Rotates(run[p].cred) \/ Leaves(run[p].cred), NEW time \in {0, Some, Enough},
             Set(p, [run[p] EXCEPT !.pc = "plan", !.cred = New, !.time = time]),
             minted' = (IF run[p].way = "item" THEN minted \cup {New} ELSE minted), lock' = lock
      PROVE  IInv'
  <2>1. time \in Nat
    BY DEF Some, Enough
  <2>2. PICK n : n = New
    OBVIOUS
  <2>3. Set(p, [run[p] EXCEPT !.pc = "plan", !.cred = n, !.time = time])
        /\ minted' = (IF run[p].way = "item" THEN minted \cup {n} ELSE minted)
    BY <1>3, <2>2
  <2> QED BY <1>1, <1>3, <2>1, <2>2, <2>3, PostAnswered
<1>4. ASSUME NEW state \in States, Back(p, None, state), lock' = (IF lock = p THEN NoProc ELSE lock),
             minted' = minted, left' = left, Loses(run[p].cred) \/ UNCHANGED host
      PROVE  IInv'
  <2>1. HostOK' /\ Grown /\ Creds' = Creds /\ clock' = clock
    <3>1. clock \in Nat /\ clock' = clock /\ HostOK
      BY <1>1, StepFrom DEF UsageOK, usage
    <3>2. CASE Loses(run[p].cred)
      <4>1. grant' = grant
        BY <3>2 DEF Loses
      <4> QED BY <3>1, <3>2, <4>1, LostHost DEF Creds
    <3>3. CASE UNCHANGED host
      BY <3>1, <3>3, SameHost
    <3> QED BY <1>4, <3>1, <3>2, <3>3
  <2>2. StoresOK' /\ Around' = Around
    BY <1>1, <1>4, <2>1, StepFrom, StoresStay DEF StoresOK
  <2>3. UsageOK' /\ LeftOK' /\ None \in Slots'
    BY <1>1, <1>4, <2>1, StepFrom DEF UsageOK, usage, Entries, LeftOK, Slots
  <2>4. run' \in [Procs -> Rows] /\ Others(p) /\ Rested(run'[p], None)
    <3>1. None \in Int
      OBVIOUS
    <3> QED BY <1>1, <1>4, <3>1, StepFrom, BackFrame
  <2>5. RowOK(p)' /\ run'[p].pc \notin Answered
    BY <1>1, <1>4, <2>1, <2>3, <2>4, RestedKeeps
  <2>6. Flow(p)
    BY <2>2, <2>4, <2>5 DEF Flow, Rested, Loose
  <2>7. Tells(p)
    BY <1>1, <1>2, <1>4, <2>5 DEF Tells, Owing
  <2>8. session' = session /\ pending' = pending /\ item' = item
    BY <1>1 DEF stores
  <2> QED BY <1>1, <1>4, <2>1, <2>2, <2>3, <2>4, <2>5, <2>6, <2>7, <2>8, StepKeeps DEF Lets
<1>5. ASSUME run[p].way = "item", Set(p, [run[p] EXCEPT !.pc = "refused"]),
             lock' = lock, UNCHANGED <<host, left, minted>>
      PROVE  IInv'
  <2>1. "refused" \in Places
    BY DEF Places
  <2>2. /\ run' \in [Procs -> Rows] /\ Others(p)
        /\ run'[p].pc = "refused" /\ run'[p].cred = run[p].cred /\ run'[p].base = run[p].base
        /\ run'[p].entry = run[p].entry /\ run'[p].at = run[p].at
        /\ run'[p].site = run[p].site /\ run'[p].way = run[p].way
    BY <1>5, <2>1, StepFrom, MoveFrame
  <2>3. ~HasLock(run'[p]) /\ ~HasHold(run'[p]) /\ run'[p].pc \notin Answered /\ lock # p
    BY <1>1, <1>5, <2>2 DEF HasLock, HasHold, Answered
  <2>4. WayOf(p)'
    BY <1>1, <1>5, <2>2 DEF WayOf
  <2>5. Refreshing(p)'
    <3>1. run'[p].base \in Creds'
      BY <1>1, <1>5, <2>2 DEF Creds, host
    <3> QED BY <1>1, <1>5, <2>2, <2>3, <3>1 DEF Refreshing, Own
  <2>6. UNCHANGED <<host, stale, stores, session, usage, record>>
    BY <1>1, <1>5 DEF record
  <2>7. RowOK(p)'
    BY <1>1, <1>5, <2>2, <2>3, <2>4, <2>5, <2>6, StepFrom, RowGoesOn
  <2>8. LeftOK'
    BY <1>5, StepFrom DEF LeftOK
  <2> QED BY <1>1, <1>2, <1>5, <2>2, <2>3, <2>6, <2>7, <2>8, QuietKeeps DEF Lets
<1>6. \/ /\ Rotates(run[p].cred) \/ Leaves(run[p].cred)
         /\ \E time \in {0, Some, Enough} :
              Set(p, [run[p] EXCEPT !.pc = "plan", !.cred = New, !.time = time])
         /\ minted' = (IF run[p].way = "item" THEN minted \cup {New} ELSE minted)
         /\ lock' = lock
      \/ /\ Loses(run[p].cred) \/ UNCHANGED <<host, left>>
         /\ Back(p, None, "error") /\ lock' = (IF lock = p THEN NoProc ELSE lock)
         /\ minted' = minted
      \/ /\ run[p].way = "item" /\ Set(p, [run[p] EXCEPT !.pc = "refused"])
         /\ lock' = lock /\ UNCHANGED <<host, left, minted>>
      \/ /\ Back(p, None, "needs login") /\ lock' = (IF lock = p THEN NoProc ELSE lock)
         /\ UNCHANGED <<host, left, minted>>
  BY DEF Post
<1>7. "error" \in States /\ "needs login" \in States
  BY StepFrom
<1>8. Loses(run[p].cred) => left' = left
  BY DEF Loses
<1> QED BY <1>3, <1>4, <1>5, <1>6, <1>7, <1>8

-----------------------------------------------------------------------------
(* The migrated item, under Claude Code's locks.                           *)

\* What an answer for the item has done to its pass.
LEMMA OwedFrom ==
    ASSUME IInv, NEW p \in Procs, run[p].pc \in {"line", "claim", "observe", "write item", "confirm"}
    PROVE  /\ Owing(run[p]) /\ lock # p /\ run[p].way = "item" /\ run[p].site # "pending"
           /\ run[p].cred \in Creds /\ run[p].base \in Creds /\ run[p].pc \in Answered
           /\ Grant(run[p].base) \notin valid \/ Grant(run[p].base) = Grant(run[p].cred)
           /\ (hold = p <=> HasHold(run[p]))
<1>1. run[p].pc \in Answered /\ ~HasLock(run[p])
  BY DEF Answered, HasLock
<1>2. run[p].way = "item" /\ run[p].site # "pending"
  BY StepFrom DEF RowOK, WayOf
<1> QED BY <1>1, <1>2, StepFrom DEF Owing, RowOK, Refreshing, Own

LEMMA NoneIsInt == None \in Int
OBVIOUS

\* The trip to the item ends with an entry.
LEMMA AuditKeeps ==
    ASSUME IInv, NEW p \in Procs, run[p].pc \in {"line", "claim", "observe", "write item", "confirm"},
           NEW c, c = None \/ c = run[p].cred, NEW state \in States, Back(p, c, state),
           NEW o \in Outcomes, Audited(p, o),
           o = "applied" => run[p].cred \in landed,
           o = "discarded" => c = None /\ run[p].pc # "confirm",
           UNCHANGED <<host, stale, stores, lock, session, usage, landed, minted, left>>,
           Lets(hold, hold', p), hold' # p
    PROVE  IInv'
<1>1. /\ Owing(run[p]) /\ lock # p /\ run[p].cred \in Creds /\ run[p].pc \in Answered
  BY OwedFrom
<1>2. HostOK' /\ Grown /\ Creds' = Creds /\ clock' = clock
  BY StepFrom, SameHost DEF UsageOK, usage
<1>3. log' = log \cup {[cred |-> run[p].cred, outcome |-> o]}
  BY DEF Audited
<1>4. StoresOK' /\ Around' = Around
  <2>1. log' \subseteq [cred : Creds, outcome : Outcomes]
    <3>1. [cred |-> run[p].cred, outcome |-> o] \in [cred : Creds, outcome : Outcomes]
      BY <1>1
    <3>2. log \subseteq [cred : Creds, outcome : Outcomes]
      BY StepFrom DEF StoresOK
    <3> QED BY <1>3, <3>1, <3>2
  <2>2. Slots' = Slots
    BY <1>2 DEF Slots
  <2>3. /\ stale' = stale /\ file' = file /\ pending' = pending /\ item' = item /\ adopted' = adopted
        /\ session' = session /\ landed' = landed /\ minted' = minted
    BY DEF stores
  <2> QED BY <1>2, <2>1, <2>2, <2>3, StepFrom DEF StoresOK, Around
<1>5. UsageOK' /\ LeftOK'
  BY <1>2, StepFrom DEF UsageOK, usage, Entries, LeftOK
<1>6. c \in Int /\ c \in Slots'
  <2>1. run[p].cred \in Int /\ run[p].cred \in Slots'
    BY <1>2, StepFrom DEF Slots
  <2>2. None \in Int
    BY NoneIsInt, Zenon
  <2>3. None \in Slots'
    BY Zenon DEF Slots
  <2> HIDE DEF None
  <2> QED BY <2>1, <2>2, <2>3
<1>7. run' \in [Procs -> Rows] /\ Others(p) /\ Rested(run'[p], c)
  <2>1. run[p].pc \notin {"idle", "start"}
    OBVIOUS
  <2> QED BY <1>6, <2>1, StepFrom, BackFrame
<1>8. RowOK(p)' /\ run'[p].pc \notin Answered
  BY <1>1, <1>2, <1>6, <1>7, RestedKeeps
<1>9. run'[p].cred \in {c, None}
  BY <1>7 DEF Rested
<1>10. Flow(p)
  BY <1>4, <1>7, <1>8, <1>9 DEF Flow, Loose
<1>11. Tells(p)
  <2>1. New \notin minted
    BY StepFrom, AroundFacts DEF StoresOK
  <2>2. o = "discarded" => Loose(run[p]) /\ run'[p].cred = None
    BY <1>1, <1>9 DEF Loose
  <2> QED BY <1>1, <1>3, <1>4, <1>8, <2>1, <2>2 DEF Tells
<1>12. session' = session /\ pending' = pending /\ item' = item
  BY DEF stores
<1> QED BY <1>2, <1>4, <1>5, <1>7, <1>8, <1>10, <1>11, <1>12, StepKeeps DEF Lets

\* The pass goes on with its answer.
LEMMA OwedGoesOn ==
    ASSUME IInv, NEW p \in Procs, run[p].pc \in {"line", "claim", "observe", "write item"},
           NEW x \in {"claim", "observe", "write item", "confirm"}, Set(p, [run[p] EXCEPT !.pc = x]),
           UNCHANGED <<host, stale, stores, lock, session, usage, record, left>>,
           Lets(hold, hold', p), hold' = p <=> x \in {"observe", "write item"},
           x = "write item" => item = run[p].base
    PROVE  IInv'
<1>1. /\ Owing(run[p]) /\ lock # p /\ run[p].way = "item" /\ run[p].site # "pending"
      /\ run[p].cred \in Creds /\ run[p].base \in Creds /\ run[p].pc \in Answered
      /\ Grant(run[p].base) \notin valid \/ Grant(run[p].base) = Grant(run[p].cred)
  BY OwedFrom
<1>2. x \in Places
  BY DEF Places
<1>3. /\ run' \in [Procs -> Rows] /\ Others(p)
      /\ run'[p].pc = x /\ run'[p].cred = run[p].cred /\ run'[p].base = run[p].base
      /\ run'[p].entry = run[p].entry /\ run'[p].at = run[p].at
      /\ run'[p].site = run[p].site /\ run'[p].way = run[p].way
  BY <1>2, StepFrom, MoveFrame
<1>4. ~HasLock(run'[p]) /\ (HasHold(run'[p]) <=> x \in {"observe", "write item"})
      /\ run'[p].pc \in Answered /\ Owing(run'[p])
  BY <1>1, <1>3 DEF HasLock, HasHold, Answered, Owing
<1>5. WayOf(p)'
  BY <1>1, <1>3 DEF WayOf
<1>6. Refreshing(p)'
  <2>1. grant' = grant /\ valid' = valid /\ item' = item /\ lock' = lock
    BY DEF host, stores
  <2> QED BY <1>1, <1>3, <2>1 DEF Refreshing, Own, Grant, Creds
<1>7. RowOK(p)'
  BY <1>1, <1>3, <1>4, <1>5, <1>6, StepFrom, RowGoesOn
<1>8. Loose(run[p]) /\ LeftOK'
  BY <1>1, StepFrom DEF Loose, LeftOK
<1> QED BY <1>1, <1>3, <1>4, <1>7, <1>8, QuietKeeps DEF Lets

LEMMA BuildLineKeeps == ASSUME IInv, NEW p \in Procs, BuildLine(p) PROVE IInv'
<1>1. run[p].pc = "line" /\ hold' = hold
      /\ UNCHANGED <<host, stale, stores, lock, session, usage, landed, minted, left>>
  BY DEF BuildLine, At
<1>2. hold # p
  BY <1>1, OwedFrom DEF HasHold
<1>3. CASE Set(p, [run[p] EXCEPT !.pc = "claim"]) /\ UNCHANGED log
  <2>1. UNCHANGED record
    BY <1>1, <1>3 DEF record
  <2> QED BY <1>1, <1>2, <1>3, <2>1, OwedGoesOn DEF Lets
<1>4. CASE Audited(p, "discarded") /\ Back(p, None, "error")
  <2>1. "error" \in States /\ "discarded" \in Outcomes
    BY StepFrom DEF Outcomes
  <2> QED BY <1>1, <1>2, <1>4, <2>1, AuditKeeps DEF Lets
<1> QED BY <1>3, <1>4 DEF BuildLine

LEMMA ClaimKeeps == ASSUME IInv, NEW p \in Procs, Claim(p) PROVE IInv'
<1>1. run[p].pc = "claim" /\ UNCHANGED <<host, stale, stores, lock, session, usage, landed, minted, left>>
  BY DEF Claim, At
<1>2. hold # p
  BY <1>1, OwedFrom DEF HasHold
<1>3. CASE hold = NoProc /\ hold' = p /\ Set(p, [run[p] EXCEPT !.pc = "observe"]) /\ UNCHANGED log
  <2>1. UNCHANGED record
    BY <1>1, <1>3 DEF record
  <2> QED BY <1>1, <1>3, <2>1, OwedGoesOn DEF Lets
<1>4. ASSUME Audited(p, "discarded"), NEW state \in States, Back(p, None, state), hold' = hold PROVE IInv'
  <2>1. "discarded" \in Outcomes
    BY DEF Outcomes
  <2> QED BY <1>1, <1>2, <1>4, <2>1, AuditKeeps DEF Lets
<1>5. "busy" \in States /\ "error" \in States /\ "lock unavailable" \in States
  BY StepFrom
<1> QED BY <1>3, <1>4, <1>5 DEF Claim

LEMMA ObserveKeeps == ASSUME IInv, NEW p \in Procs, Observe(p) PROVE IInv'
<1>1. run[p].pc = "observe" /\ UNCHANGED <<host, stale, stores, lock, session, usage, landed, minted, left>>
  BY DEF Observe, At
<1>2. hold = p /\ p # NoProc
  BY <1>1, OwedFrom, StepFrom DEF HasHold
<1>3. CASE item = run[p].base /\ Set(p, [run[p] EXCEPT !.pc = "write item"]) /\ UNCHANGED <<hold, log>>
  <2>1. UNCHANGED record
    BY <1>1, <1>3 DEF record
  <2> QED BY <1>1, <1>2, <1>3, <2>1, OwedGoesOn DEF Lets
<1>4. CASE hold' = NoProc /\ Audited(p, "discarded") /\ Back(p, None, "stale")
  <2>1. "stale" \in States /\ "discarded" \in Outcomes
    BY StepFrom DEF Outcomes
  <2> QED BY <1>1, <1>2, <1>4, <2>1, AuditKeeps DEF Lets
<1> QED BY <1>3, <1>4 DEF Observe

LEMMA ConfirmKeeps == ASSUME IInv, NEW p \in Procs, Confirm(p) PROVE IInv'
<1>1. run[p].pc = "confirm" /\ UNCHANGED <<host, stale, stores, lock, hold, session, usage, landed, minted, left>>
  BY DEF Confirm, At
<1>2. hold # p /\ run[p].cred \in Creds
  BY <1>1, OwedFrom DEF HasHold
<1>3. CASE item = run[p].cred /\ Audited(p, "applied") /\ Back(p, run[p].cred, run[p].state)
  <2>1. run[p].state \in States /\ "applied" \in Outcomes
    BY StepFrom DEF Outcomes
  <2>2. run[p].cred \in landed
    <3>1. item \in {None, Occupant} \cup landed
      BY StepFrom DEF StoresOK
    <3>2. run[p].cred # None /\ run[p].cred # Occupant
      BY <1>2, StepFrom, AroundFacts
    <3> QED BY <1>3, <3>1, <3>2
  <2> QED BY <1>1, <1>2, <1>3, <2>1, <2>2, AuditKeeps DEF Lets
<1>4. CASE Audited(p, "unknown") /\ Back(p, run[p].cred, "stale")
  <2>1. "stale" \in States /\ "unknown" \in Outcomes
    BY StepFrom DEF Outcomes
  <2> QED BY <1>1, <1>2, <1>4, <2>1, AuditKeeps DEF Lets
<1> QED BY <1>3, <1>4 DEF Confirm

\* The write went through: the item is the answer, and the pass looks or has failed.
LEMMA WrittenKeeps ==
    ASSUME IInv, NEW p \in Procs, run[p].pc = "write item", hold' = NoProc,
           item' = run[p].cred, landed' = landed \cup {run[p].cred},
           UNCHANGED <<host, stale, file, pending, adopted, lock, session, usage, minted, left>>,
           \/ Set(p, [run[p] EXCEPT !.pc = "confirm"]) /\ UNCHANGED log
           \/ Audited(p, "failed") /\ Back(p, None, "error")
    PROVE  IInv'
<1>1. /\ Owing(run[p]) /\ lock # p /\ run[p].way = "item" /\ run[p].site # "pending"
      /\ run[p].cred \in Creds /\ run[p].base \in Creds /\ run[p].pc \in Answered
      /\ Grant(run[p].base) \notin valid \/ Grant(run[p].base) = Grant(run[p].cred)
      /\ hold = p /\ p # NoProc
  BY OwedFrom, StepFrom DEF HasHold
<1>2. HostOK' /\ Grown /\ Creds' = Creds /\ clock' = clock
  BY StepFrom, SameHost DEF UsageOK, usage
<1>3. Slots' = Slots /\ Entries' = Entries /\ run[p].cred \in Slots
  BY <1>2, StepFrom DEF Slots, Entries
<1>4. log' \subseteq [cred : Creds, outcome : Outcomes]
  <2>1. [cred |-> run[p].cred, outcome |-> "failed"] \in [cred : Creds, outcome : Outcomes]
    BY <1>1 DEF Outcomes
  <2>2. log \subseteq [cred : Creds, outcome : Outcomes]
    BY StepFrom DEF StoresOK
  <2> QED BY <2>1, <2>2 DEF Audited
<1>5. StoresOK'
  <2>1. landed' \subseteq Creds /\ {item', adopted'} \subseteq {None, Occupant} \cup landed'
    BY <1>1, StepFrom DEF StoresOK
  <2> QED BY <1>2, <1>3, <1>4, <2>1, StepFrom DEF StoresOK
<1>6. UsageOK' /\ LeftOK'
  BY <1>3, StepFrom DEF UsageOK, usage, LeftOK
<1>7. Around' \subseteq Around \cup {run[p].cred}
  BY DEF Around
<1>8. CASE Set(p, [run[p] EXCEPT !.pc = "confirm"]) /\ UNCHANGED log
  <2>1. "confirm" \in Places
    BY DEF Places
  <2>2. /\ run' \in [Procs -> Rows] /\ Others(p)
        /\ run'[p].pc = "confirm" /\ run'[p].cred = run[p].cred /\ run'[p].base = run[p].base
        /\ run'[p].entry = run[p].entry /\ run'[p].at = run[p].at
        /\ run'[p].site = run[p].site /\ run'[p].way = run[p].way
    BY <1>8, <2>1, StepFrom, MoveFrame
  <2>3. ~HasLock(run'[p]) /\ ~HasHold(run'[p]) /\ ~Loose(run'[p]) /\ Owing(run'[p])
    BY <1>1, <2>2 DEF HasLock, HasHold, Loose, Answered, Owing
  <2>4. WayOf(p)' /\ WindowOf(p)'
    BY <1>1, <2>2, StepFrom DEF WayOf, WindowOf, RowOK
  <2>5. Refreshing(p)'
    <3>1. grant' = grant /\ valid' = valid /\ lock' = lock
      BY DEF host
    <3> QED BY <1>1, <2>2, <3>1 DEF Refreshing, Own, Grant, Creds
  <2>6. RowOK(p)'
    <3>1. run'[p].cred \in Slots' /\ run'[p].entry \in Entries' /\ run'[p].at <= clock'
      BY <1>2, <1>3, <2>2, StepFrom DEF RowOK
    <3> QED BY <1>1, <2>3, <2>4, <2>5, <3>1 DEF RowOK
  <2>7. Flow(p)
    BY <1>1, <1>7, <2>2, <2>3 DEF Flow
  <2>8. Tells(p)
    <3>1. New \notin minted
      BY StepFrom, AroundFacts DEF StoresOK
    <3> QED BY <1>1, <1>8, <2>2, <2>3, <3>1 DEF Tells
  <2> QED BY <1>1, <1>2, <1>5, <1>6, <2>2, <2>6, <2>7, <2>8, StepKeeps DEF Lets
<1>9. CASE Audited(p, "failed") /\ Back(p, None, "error")
  <2>1. "error" \in States /\ "failed" \in Outcomes /\ None \in Slots'
    BY StepFrom DEF Outcomes, Slots
  <2>2. run' \in [Procs -> Rows] /\ Others(p) /\ Rested(run'[p], None)
    <3>1. run[p].pc \notin {"idle", "start"}
      OBVIOUS
    <3> QED BY <1>9, <2>1, <3>1, StepFrom, NoneIsInt, BackFrame
  <2>3. RowOK(p)' /\ run'[p].pc \notin Answered
    BY <1>1, <1>2, <2>1, <2>2, RestedKeeps
  <2>4. run'[p].cred = None
    BY <2>2 DEF Rested
  <2>5. Flow(p)
    BY <1>7, <2>2, <2>3, <2>4 DEF Flow, Loose
  <2>6. Tells(p)
    <3>1. New \notin minted
      BY StepFrom, AroundFacts DEF StoresOK
    <3>2. log' = log \cup {[cred |-> run[p].cred, outcome |-> "failed"]} /\ "failed" # "applied"
          /\ "failed" # "discarded"
      BY <1>9 DEF Audited
    <3> QED BY <1>1, <2>1, <2>3, <3>1, <3>2 DEF Tells
  <2> QED BY <1>1, <1>2, <1>5, <1>6, <2>2, <2>3, <2>5, <2>6, StepKeeps DEF Lets
<1> QED BY <1>8, <1>9

LEMMA WriteItemKeeps == ASSUME IInv, NEW p \in Procs, WriteItem(p) PROVE IInv'
<1>1. run[p].pc = "write item" /\ hold' = NoProc
      /\ UNCHANGED <<host, stale, file, pending, adopted, lock, session, usage, minted, left>>
  BY DEF WriteItem, At
<1>2. hold = p /\ p # NoProc
  BY <1>1, OwedFrom, StepFrom DEF HasHold
<1>3. ASSUME NEW o \in {"discarded", "failed"}, NEW state \in States, Audited(p, o), Back(p, None, state),
             UNCHANGED <<item, landed>>
      PROVE  IInv'
  <2>1. o \in Outcomes /\ o # "applied" /\ UNCHANGED stores
    BY <1>1, <1>3 DEF Outcomes, stores
  <2> QED BY <1>1, <1>2, <1>3, <2>1, AuditKeeps DEF Lets
<1>4. CASE Set(p, [run[p] EXCEPT !.pc = "confirm"]) /\ UNCHANGED <<item, landed, log>>
  <2>1. UNCHANGED stores /\ UNCHANGED record
    BY <1>1, <1>4 DEF stores, record
  <2> QED BY <1>1, <1>2, <1>4, <2>1, OwedGoesOn DEF Lets
<1>5. CASE /\ item' = run[p].cred /\ landed' = landed \cup {run[p].cred}
           /\ \/ Set(p, [run[p] EXCEPT !.pc = "confirm"]) /\ UNCHANGED log
              \/ Audited(p, "failed") /\ Back(p, None, "error")
  BY <1>1, <1>5, WrittenKeeps
<1>6. "stale" \in States /\ "error" \in States
  BY StepFrom
<1> QED BY <1>3, <1>4, <1>5, <1>6 DEF WriteItem

LEMMA CrashKeeps == ASSUME IInv, NEW p \in Procs, Crash(p) PROVE IInv'
<1>1. /\ Lets(lock, lock', p) /\ Lets(hold, hold', p) /\ lock' # p /\ hold' # p
      /\ UNCHANGED <<host, stale, stores, session, usage, log, landed, left>>
  BY StepFrom DEF Crash, Lets
<1>2. HostOK' /\ Grown /\ Creds' = Creds /\ clock' = clock
  BY <1>1, StepFrom, SameHost DEF UsageOK, usage
<1>3. minted' \subseteq minted /\ (Owing(run[p]) => run[p].cred \notin minted')
  BY DEF Crash, Owing
<1>4. StoresOK' /\ Around' = Around
  BY <1>1, <1>2, <1>3, StepFrom, StoresStay DEF StoresOK
<1>5. UsageOK' /\ LeftOK' /\ None \in Slots'
  BY <1>1, <1>2, StepFrom DEF UsageOK, usage, Entries, LeftOK, Slots
<1> DEFINE r == [Idle EXCEPT !.state = "none"]
<1>6. r \in Rows
  <2>1. "none" \in States
    BY DEF States
  <2> QED BY <2>1, IdleTypes DEF Rows
<1>7. r.pc = "idle" /\ r.cred = None /\ r.entry = Unfetched /\ r.at = 0 /\ r.site = "none"
  BY IdleTypes DEF Rows
<1>8. Set(p, r)
  BY DEF Crash
<1> HIDE DEF r
<1>9. run' \in [Procs -> Rows] /\ run'[p] = r /\ Others(p)
  BY <1>6, <1>8, StepFrom, SetFrame
<1>10. Rested(run'[p], None)
  <2>1. Unfetched \in Entries /\ 0 <= clock
    <3>1. clock \in Nat
      BY StepFrom DEF UsageOK
    <3> QED BY <3>1 DEF Entries, Unfetched, Retry
  <2> QED BY <1>6, <1>7, <1>9, <2>1 DEF Rested
<1>11. RowOK(p)' /\ run'[p].pc \notin Answered
  BY <1>1, <1>2, <1>5, <1>10, RestedKeeps
<1>12. Flow(p)
  BY <1>4, <1>7, <1>9, <1>11 DEF Flow, Loose
<1>13. Tells(p)
  <2>1. New \notin minted
    BY StepFrom, AroundFacts DEF StoresOK
  <2> QED BY <1>1, <1>3, <1>11, <2>1 DEF Tells, Owing
<1>14. session' = session /\ pending' = pending /\ item' = item
  BY <1>1 DEF stores
<1> QED BY <1>1, <1>2, <1>4, <1>5, <1>9, <1>11, <1>12, <1>13, <1>14, StepKeeps

-----------------------------------------------------------------------------
(* Beside the passes.                                                      *)

LEMMA BesideKeeps ==
    ASSUME IInv, run' = run, HostOK', Grown, StoresOK', UsageOK', LocksOK',
           \A q \in Procs : LetBe(q),
           Around' \subseteq Around \cup {None, Occupant, New},
           landed \subseteq landed', UNCHANGED <<log, minted>>
    PROVE  IInv'
<1>1. /\ HostOK /\ StoresOK /\ UsageOK /\ LocksOK /\ run \in [Procs -> Rows]
      /\ (\A q \in Procs : RowOK(q)) /\ FreshInv /\ LogInv
  BY InvParts
<1>2. \A q \in Procs : RowOK(q)'
  BY <1>1, OtherKeeps
<1>3. \A q \in Procs : run[q].cred \in Slots /\ (run[q].pc \in Answered => run[q].cred \in Creds)
  BY <1>1 DEF RowOK, Refreshing, Own
<1>4. \A c \in Creds : c \notin Around => c \notin Around'
  BY <1>1, AroundFacts
<1>5. FreshInv'
  <2>1. \A q \in Procs : run[q].pc \in Answered \ {"confirm"} =>
          run[q].cred \notin Around' /\ \A s \in Procs \ {q} : run[s].cred # run[q].cred
    BY <1>1, <1>3, <1>4 DEF FreshInv
  <2>2. \A q, s \in Procs : run[q].pc \in Answered /\ run[s].pc \in Answered /\ run[q].cred = run[s].cred
                             => q = s
    BY <1>1 DEF FreshInv
  <2> QED BY <2>1, <2>2 DEF FreshInv
<1>6. LogInv'
  <2>1. \A e \in log : e.cred \in Creds
    BY <1>1 DEF StoresOK
  <2>2. \A e \in log : e.outcome = "discarded" => e.cred \notin Around' /\ \A q \in Procs : run[q].cred # e.cred
    BY <1>1, <1>4, <2>1 DEF LogInv
  <2>3. \A e \in log : e.outcome = "discarded" => e.cred \notin landed'
    BY <2>2 DEF Around
  <2>4. AuditTold'
    <3>1. \A c \in minted :
            \/ \E q \in Procs : run[q].way = "item" /\ run[q].pc \in Answered /\ run[q].cred = c
            \/ \E e \in log : e.cred = c
      BY <1>1 DEF LogInv, AuditTold
    <3>2. \A e \in log : e.outcome = "applied" => e.cred \in landed'
      BY <1>1 DEF LogInv, AuditTold
    <3> QED BY <2>3, <3>1, <3>2 DEF AuditTold
  <2>5. \A q \in Procs : run[q].way = "item" /\ run[q].pc \in Answered => \A e \in log : e.cred # run[q].cred
    BY <1>1 DEF LogInv
  <2> QED BY <2>2, <2>4, <2>5 DEF LogInv
<1> QED BY <1>1, <1>2, <1>5, <1>6, InvPartsNext

\* What a step beside the passes starts from.
LEMMA BesideFrom ==
    ASSUME IInv
    PROVE  /\ HostOK /\ StoresOK /\ UsageOK /\ LocksOK /\ LeftOK /\ clock \in Nat
           /\ file \in Slots \ {Occupant} /\ item \in Slots /\ adopted \in Slots \ {Occupant}
           /\ pending \in [cred : Slots \ {Occupant}, from : Slots \ {Occupant}]
           /\ session \in [at : {"idle", "post", "save"}, cred : Slots \ {Occupant}]
           /\ NoProc # Session /\ \A q \in Procs : q # NoProc /\ q # Session
<1>1. HostOK /\ StoresOK /\ UsageOK /\ LocksOK
  BY InvParts
<1>2. /\ file \in Slots \ {Occupant} /\ item \in Slots /\ adopted \in Slots \ {Occupant}
      /\ pending \in [cred : Slots \ {Occupant}, from : Slots \ {Occupant}]
      /\ session \in [at : {"idle", "post", "save"}, cred : Slots \ {Occupant}]
  BY <1>1 DEF StoresOK
<1>3. NoProc # Session /\ \A q \in Procs : q # NoProc /\ q # Session
  BY ProcsAssumption
<1> QED BY <1>1, <1>2, <1>3 DEF LocksOK, LeftOK, UsageOK

LEMMA SlotsMean ==
    /\ None \in Slots \ {Occupant} /\ \A c \in Creds : c \in Slots \ {Occupant}
    /\ \A c \in Slots : c \in Creds \/ c = None \/ c = Occupant
    /\ \A c : Own(c) <=> c \in Creds
BY DEF Slots, Creds, Own

LEMMA ExpireKeeps == ASSUME IInv, Expire PROVE IInv'
<1>1. UNCHANGED <<host, stores, lock, hold, session, usage, record, run, left>>
  BY DEF Expire
<1>2. HostOK' /\ Grown /\ Creds' = Creds
  BY <1>1, BesideFrom, SameHost DEF usage
<1>3. Slots' = Slots
  BY <1>2 DEF Slots
<1>4. /\ file' = file /\ pending' = pending /\ item' = item /\ adopted' = adopted /\ session' = session
      /\ landed' = landed /\ minted' = minted /\ log' = log /\ clock' = clock
  BY <1>1 DEF stores, record, usage
<1>5. stale' \subseteq Creds
  BY BesideFrom DEF Expire, StoresOK
<1>6. StoresOK' /\ Around' = Around
  BY <1>2, <1>3, <1>4, <1>5, BesideFrom DEF StoresOK, Around
<1>7. UsageOK' /\ LocksOK'
  BY <1>1, BesideFrom DEF UsageOK, usage, Entries, LocksOK
<1>8. \A q \in Procs : LetBe(q)
  BY <1>1, <1>4 DEF LetBe
<1> QED BY <1>1, <1>2, <1>4, <1>6, <1>7, <1>8, BesideKeeps

LEMMA TickKeeps == ASSUME IInv, Tick PROVE IInv'
<1>1. clock' = clock + 1 /\ UNCHANGED <<host, stale, stores, lock, hold, session, cache, window, record, run>>
  BY DEF Tick
<1>2. clock \in Nat /\ clock' \in Nat /\ clock <= clock'
  BY <1>1, BesideFrom
<1>3. Creds' = Creds /\ grant' = grant /\ valid' = valid
  BY <1>1 DEF Creds, host
<1>4. HostOK' /\ Grown
  BY <1>2, <1>3, BesideFrom DEF HostOK, Grown
<1>5. Slots' = Slots
  BY <1>3 DEF Slots
<1>6. /\ file' = file /\ pending' = pending /\ item' = item /\ adopted' = adopted /\ session' = session
      /\ landed' = landed /\ minted' = minted /\ log' = log
  BY <1>1 DEF stores, record
<1>7. StoresOK' /\ Around' = Around
  BY <1>1, <1>3, <1>5, <1>6, BesideFrom DEF StoresOK, Around
<1>8. UsageOK'
  <2>1. Entries \subseteq Entries'
    BY <1>4, BesideFrom, GrownFacts
  <2>2. window' \in 0 .. clock' + Retry
    BY <1>1, <1>2, BesideFrom DEF UsageOK, Retry
  <2> QED BY <1>1, <1>2, <2>1, <2>2, BesideFrom DEF UsageOK
<1>9. LocksOK'
  <2>1. left.ticks \in Nat /\ left.ticks - 1 \in Nat
    BY BesideFrom DEF LocksOK, Tick
  <2>2. left' \in [procs : SUBSET Procs, mints : Nat, passes : Nat, ticks : Nat, beside : SUBSET Beside]
    BY <2>1, BesideFrom DEF LocksOK, Tick
  <2> QED BY <1>1, <2>2, BesideFrom DEF LocksOK
<1>10. \A q \in Procs : LetBe(q)
  BY <1>1, <1>6 DEF LetBe
<1> QED BY <1>1, <1>4, <1>6, <1>7, <1>8, <1>9, <1>10, BesideKeeps

LEMMA SessionStartsKeeps == ASSUME IInv, SessionStarts PROVE IInv'
<1>1. PICK mine \in {item, file} :
        /\ mine # None /\ mine # Occupant /\ session' = [at |-> "post", cred |-> mine]
  BY BesideFrom DEF SessionStarts
<1>2. /\ session.at = "idle" /\ hold = NoProc /\ hold' = Session
      /\ UNCHANGED <<host, stale, stores, lock, usage, record, run, left>>
  BY DEF SessionStarts
<1>3. mine \in Creds
  BY <1>1, BesideFrom, SlotsMean
<1>4. HostOK' /\ Grown /\ Creds' = Creds /\ clock' = clock
  BY <1>2, BesideFrom, SameHost DEF usage
<1>5. Slots' = Slots
  BY <1>4 DEF Slots
<1>6. /\ file' = file /\ pending' = pending /\ item' = item /\ adopted' = adopted
      /\ landed' = landed /\ minted' = minted /\ log' = log
  BY <1>2 DEF stores, record
<1>7. session' \in [at : {"idle", "post", "save"}, cred : Slots \ {Occupant}] /\ session'.cred = mine
      /\ session'.at # "idle"
  BY <1>1, <1>3, SlotsMean
<1>8. StoresOK'
  BY <1>2, <1>3, <1>4, <1>5, <1>6, <1>7, BesideFrom DEF StoresOK
<1>9. Around' \subseteq Around
  BY <1>1, <1>6, <1>7 DEF Around
<1>10. UsageOK' /\ LocksOK'
  BY <1>2, <1>4, <1>7, BesideFrom DEF UsageOK, usage, Entries, LocksOK
<1>11. \A q \in Procs : LetBe(q)
  BY <1>2, <1>6, BesideFrom DEF LetBe
<1> QED BY <1>2, <1>4, <1>6, <1>8, <1>9, <1>10, <1>11, BesideKeeps

LEMMA SessionPostsKeeps == ASSUME IInv, SessionPosts PROVE IInv'
<1>1. session.at = "post" /\ UNCHANGED <<stale, stores, lock, usage, record, run>>
  BY DEF SessionPosts
<1>2. /\ file' = file /\ pending' = pending /\ item' = item /\ adopted' = adopted /\ clock' = clock
      /\ landed' = landed /\ minted' = minted /\ log' = log /\ cache' = cache /\ window' = window
  BY <1>1 DEF stores, record, usage
<1>3. PICK n : n = New
  OBVIOUS
<1>4. CASE /\ Rotates(session.cred) \/ Leaves(session.cred)
           /\ session' = [at |-> "save", cred |-> n] /\ hold' = hold
  <2>1. PICK b \in Creds : b = session.cred
    BY <1>1, BesideFrom DEF StoresOK
  <2>2. HostOK' /\ Grown /\ Creds' = Creds \cup {n} /\ n \notin Creds
    BY <1>2, <1>3, <1>4, <2>1, BesideFrom, RefreshHost
  <2>3. Slots \subseteq Slots' /\ n \in Slots' \ {Occupant}
    <3>1. Occupant \in Slots /\ New \notin Slots
      BY BesideFrom, AroundFacts DEF Slots
    <3> QED BY <1>3, <2>2, <3>1 DEF Slots
  <2>4. session' \in [at : {"idle", "post", "save"}, cred : Slots' \ {Occupant}] /\ session'.cred = n
        /\ session'.at # "idle"
    BY <1>4, <2>3
  <2>5. /\ pending' \in [cred : Slots' \ {Occupant}, from : Slots' \ {Occupant}]
        /\ file' \in Slots' \ {Occupant} /\ item' \in Slots' /\ adopted' \in Slots' \ {Occupant}
    BY <1>2, <2>3, BesideFrom
  <2>6. log' \subseteq [cred : Creds', outcome : Outcomes] /\ stale' \subseteq Creds'
        /\ landed' \subseteq Creds' /\ minted' \subseteq Creds'
    BY <1>1, <1>2, <2>2, BesideFrom DEF StoresOK
  <2>7. StoresOK'
    BY <1>2, <2>2, <2>4, <2>5, <2>6, BesideFrom DEF StoresOK
  <2>8. Around' \subseteq Around \cup {New}
    BY <1>2, <1>3, <2>4 DEF Around
  <2>9. UsageOK'
    BY <1>2, BesideFrom DEF UsageOK, Entries
  <2>10. LocksOK'
    <3>1. \E g : Issue(g)
      BY <1>4 DEF Rotates, Leaves
    <3>2. PICK g : Issue(g)
      BY <3>1
    <3>3. left.mints \in Nat /\ left.mints - 1 \in Nat
      BY <3>2, BesideFrom DEF LocksOK, Issue
    <3>4. left' \in [procs : SUBSET Procs, mints : Nat, passes : Nat, ticks : Nat, beside : SUBSET Beside]
      BY <3>2, <3>3, BesideFrom DEF LocksOK, Issue
    <3> QED BY <1>1, <1>4, <2>4, <3>4, BesideFrom DEF LocksOK
  <2>11. \A q \in Procs : LetBe(q)
    BY <1>1, <1>2, <1>4 DEF LetBe
  <2> QED BY <1>1, <1>2, <2>2, <2>7, <2>8, <2>9, <2>10, <2>11, BesideKeeps
<1>5. CASE /\ session' = [at |-> "idle", cred |-> None] /\ hold' = NoProc /\ UNCHANGED <<host, left>>
  <2>1. HostOK' /\ Grown /\ Creds' = Creds
    BY <1>2, <1>5, BesideFrom, SameHost
  <2>2. Slots' = Slots
    BY <2>1 DEF Slots
  <2>3. session' \in [at : {"idle", "post", "save"}, cred : Slots \ {Occupant}] /\ session'.cred = None
        /\ session'.at = "idle"
    BY <1>5, SlotsMean
  <2>4. StoresOK'
    BY <1>1, <1>2, <2>1, <2>2, <2>3, BesideFrom DEF StoresOK
  <2>5. Around' \subseteq Around \cup {None}
    BY <1>2, <2>3 DEF Around
  <2>6. UsageOK' /\ LocksOK'
    BY <1>1, <1>2, <1>5, <2>3, BesideFrom DEF UsageOK, Entries, LocksOK
  <2>7. hold = Session
    BY <1>1, BesideFrom DEF LocksOK
  <2>8. \A q \in Procs : LetBe(q)
    BY <1>1, <1>2, <1>5, <2>7, BesideFrom DEF LetBe
  <2> QED BY <1>1, <1>2, <2>1, <2>4, <2>5, <2>6, <2>8, BesideKeeps
<1> QED BY <1>3, <1>4, <1>5 DEF SessionPosts

LEMMA SessionSavesKeeps == ASSUME IInv, SessionSaves PROVE IInv'
<1>1. /\ session.at = "save" /\ session' = [at |-> "idle", cred |-> None] /\ hold' = NoProc
      /\ UNCHANGED <<host, stale, pending, adopted, lock, usage, log, minted, run, left>>
  BY DEF SessionSaves
<1>2. PICK c \in Creds : c = session.cred
  BY <1>1, BesideFrom DEF StoresOK
<1>3. \/ file' = c /\ item' = item /\ landed' = landed
      \/ item' = c /\ landed' = landed \cup {c} /\ file' = None
  BY <1>2 DEF SessionSaves
<1>4. HostOK' /\ Grown /\ Creds' = Creds /\ clock' = clock
  BY <1>1, BesideFrom, SameHost DEF usage
<1>5. Slots' = Slots
  BY <1>4 DEF Slots
<1>6. /\ session' \in [at : {"idle", "post", "save"}, cred : Slots \ {Occupant}] /\ session'.cred = None
      /\ session'.at = "idle"
  BY <1>1, SlotsMean
<1>7. /\ file' \in Slots \ {Occupant} /\ item' \in Slots /\ landed' \subseteq Creds
      /\ landed \subseteq landed' /\ {item', adopted'} \subseteq {None, Occupant} \cup landed'
  <2>1. c \in Slots \ {Occupant} /\ None \in Slots \ {Occupant}
    BY SlotsMean
  <2>2. landed \subseteq Creds /\ {item, adopted} \subseteq {None, Occupant} \cup landed
    BY BesideFrom DEF StoresOK
  <2> QED BY <1>1, <1>3, <2>1, <2>2, BesideFrom
<1>8. StoresOK'
  BY <1>1, <1>4, <1>5, <1>6, <1>7, BesideFrom DEF StoresOK
<1>9. Around' \subseteq Around \cup {None}
  BY <1>1, <1>2, <1>3, <1>6 DEF Around
<1>10. UsageOK' /\ LocksOK'
  BY <1>1, <1>4, <1>6, BesideFrom DEF UsageOK, usage, Entries, LocksOK
<1>11. hold = Session
  BY <1>1, BesideFrom DEF LocksOK
<1>12. \A q \in Procs : LetBe(q)
  BY <1>1, <1>11, BesideFrom DEF LetBe
<1> QED BY <1>1, <1>4, <1>7, <1>8, <1>9, <1>10, <1>12, BesideKeeps

LEMMA SessionLoginKeeps == ASSUME IInv, SessionLogin PROVE IInv'
<1>1. /\ Issue(New) /\ valid' = valid \cup {New} /\ hold = NoProc
      /\ UNCHANGED <<stale, pending, adopted, lock, hold, session, usage, log, minted, run>>
  BY DEF SessionLogin
<1>2. PICK n : n = New
  OBVIOUS
<1>3. \/ file' = n /\ item' = item /\ landed' = landed
      \/ item' = n /\ landed' = landed \cup {n} /\ file' = file
  BY <1>2 DEF SessionLogin
<1>4. HostOK' /\ Grown /\ Creds' = Creds \cup {n} /\ n \notin Creds /\ clock' = clock
  BY <1>1, <1>2, BesideFrom, LoginHost DEF usage
<1>5. Slots \subseteq Slots' /\ n \in Slots' \ {Occupant}
  <2>1. Occupant \in Slots /\ New \notin Slots
    BY BesideFrom, AroundFacts DEF Slots
  <2> QED BY <1>2, <1>4, <2>1 DEF Slots
<1>6. /\ file' \in Slots' \ {Occupant} /\ item' \in Slots' /\ adopted' \in Slots' \ {Occupant}
      /\ pending' \in [cred : Slots' \ {Occupant}, from : Slots' \ {Occupant}]
      /\ session' \in [at : {"idle", "post", "save"}, cred : Slots' \ {Occupant}]
  BY <1>1, <1>3, <1>5, BesideFrom
<1>7. /\ landed \subseteq landed' /\ landed' \subseteq Creds' /\ minted' \subseteq Creds' /\ stale' \subseteq Creds'
      /\ log' \subseteq [cred : Creds', outcome : Outcomes]
      /\ {item', adopted'} \subseteq {None, Occupant} \cup landed'
      /\ session'.at # "idle" => session'.cred \in Creds'
  <2>1. /\ landed \subseteq Creds /\ minted \subseteq Creds /\ stale \subseteq Creds
        /\ log \subseteq [cred : Creds, outcome : Outcomes]
        /\ {item, adopted} \subseteq {None, Occupant} \cup landed
        /\ session.at # "idle" => session.cred \in Creds
    BY BesideFrom DEF StoresOK
  <2> QED BY <1>1, <1>3, <1>4, <2>1
<1>8. StoresOK'
  BY <1>6, <1>7 DEF StoresOK
<1>9. Around' \subseteq Around \cup {New}
  BY <1>1, <1>2, <1>3 DEF Around
<1>10. UsageOK'
  BY <1>1, BesideFrom DEF UsageOK, usage, Entries
<1>11. LocksOK'
  BY <1>1, BesideFrom, IssueLeaves
<1>12. \A q \in Procs : LetBe(q)
  BY <1>1, BesideFrom DEF LetBe
<1> QED BY <1>1, <1>4, <1>7, <1>8, <1>9, <1>10, <1>11, <1>12, BesideKeeps

LEMMA SwapKeeps == ASSUME IInv, Swap PROVE IInv'
<1>1. /\ hold = NoProc /\ item # None
      /\ UNCHANGED <<host, stale, file, pending, lock, hold, session, usage, record, run, left>>
      /\ IF Own(item) THEN item' = Occupant /\ adopted' = item ELSE item' = adopted /\ adopted' = None
  BY DEF Swap
<1>2. HostOK' /\ Grown /\ Creds' = Creds /\ clock' = clock
  BY <1>1, BesideFrom, SameHost DEF usage
<1>3. Slots' = Slots
  BY <1>2 DEF Slots
<1>4. /\ file' = file /\ pending' = pending /\ session' = session
      /\ landed' = landed /\ minted' = minted /\ log' = log
  BY <1>1 DEF record
<1>5. item' \in {item, adopted, None, Occupant} /\ adopted' \in {item, adopted, None, Occupant}
  BY <1>1
<1>6. item' \in Slots /\ adopted' \in Slots \ {Occupant}
  BY <1>1, BesideFrom, SlotsMean DEF Slots
<1>7. {item', adopted'} \subseteq {None, Occupant} \cup landed'
  <2>1. {item, adopted} \subseteq {None, Occupant} \cup landed
    BY BesideFrom DEF StoresOK
  <2> QED BY <1>4, <1>5, <2>1
<1>8. StoresOK'
  BY <1>1, <1>2, <1>3, <1>4, <1>6, <1>7, BesideFrom DEF StoresOK
<1>9. Around' \subseteq Around \cup {None, Occupant}
  BY <1>4, <1>5 DEF Around
<1>10. UsageOK' /\ LocksOK'
  BY <1>1, <1>2, BesideFrom DEF UsageOK, usage, Entries, LocksOK
<1>11. \A q \in Procs : LetBe(q)
  BY <1>1, BesideFrom DEF LetBe
<1> QED BY <1>1, <1>2, <1>4, <1>8, <1>9, <1>10, <1>11, BesideKeeps

LEMMA LoginKeeps == ASSUME IInv, Login PROVE IInv'
<1>1. /\ Issue(New) /\ valid' = valid \cup {New} /\ lock = NoProc
      /\ UNCHANGED <<stale, item, adopted, lock, hold, session, usage, record, run>>
  BY DEF Login
<1>2. PICK n : n = New
  OBVIOUS
<1>3. /\ file' \in {file, n}
      /\ pending' \in {NoPending, [cred |-> n, from |-> file]}
  BY <1>2 DEF Login
<1>4. HostOK' /\ Grown /\ Creds' = Creds \cup {n} /\ n \notin Creds /\ clock' = clock
  BY <1>1, <1>2, BesideFrom, LoginHost DEF usage
<1>5. Slots \subseteq Slots' /\ n \in Slots' \ {Occupant} /\ None \in Slots' \ {Occupant}
  <2>1. Occupant \in Slots /\ New \notin Slots
    BY BesideFrom, AroundFacts DEF Slots
  <2> QED BY <1>2, <1>4, <2>1, SlotsMean DEF Slots
<1>6. /\ file' \in Slots' \ {Occupant} /\ item' \in Slots' /\ adopted' \in Slots' \ {Occupant}
      /\ session' \in [at : {"idle", "post", "save"}, cred : Slots' \ {Occupant}]
  BY <1>1, <1>3, <1>5, BesideFrom
<1>7. pending' \in [cred : Slots' \ {Occupant}, from : Slots' \ {Occupant}]
      /\ pending'.cred \in {None, n}
  <2>1. file \in Slots' \ {Occupant}
    BY <1>5, BesideFrom
  <2> QED BY <1>3, <1>5, <2>1 DEF NoPending
<1>8. /\ landed' = landed /\ landed' \subseteq Creds' /\ minted' \subseteq Creds' /\ stale' \subseteq Creds'
      /\ log' \subseteq [cred : Creds', outcome : Outcomes]
      /\ {item', adopted'} \subseteq {None, Occupant} \cup landed'
      /\ session'.at # "idle" => session'.cred \in Creds'
  <2>1. /\ landed \subseteq Creds /\ minted \subseteq Creds /\ stale \subseteq Creds
        /\ log \subseteq [cred : Creds, outcome : Outcomes]
        /\ {item, adopted} \subseteq {None, Occupant} \cup landed
        /\ session.at # "idle" => session.cred \in Creds
    BY BesideFrom DEF StoresOK
  <2> QED BY <1>1, <1>4, <2>1 DEF record
<1>9. StoresOK'
  BY <1>6, <1>7, <1>8 DEF StoresOK
<1>10. Around' \subseteq Around \cup {None, New}
  BY <1>1, <1>2, <1>3, <1>7, <1>8 DEF Around
<1>11. UsageOK'
  BY <1>1, BesideFrom DEF UsageOK, usage, Entries
<1>12. LocksOK'
  BY <1>1, BesideFrom, IssueLeaves
<1>13. \A q \in Procs : LetBe(q)
  BY <1>1, BesideFrom DEF LetBe
<1> QED BY <1>1, <1>4, <1>8, <1>9, <1>10, <1>11, <1>12, <1>13, BesideKeeps DEF record

LEMMA RemoveKeeps == ASSUME IInv, Remove PROVE IInv'
<1>1. /\ lock = NoProc /\ file' = None /\ adopted' = None /\ pending' = NoPending
      /\ UNCHANGED <<host, stale, item, lock, hold, session, usage, record, run, left>>
  BY DEF Remove
<1>2. HostOK' /\ Grown /\ Creds' = Creds /\ clock' = clock
  BY <1>1, BesideFrom, SameHost DEF usage
<1>3. Slots' = Slots
  BY <1>2 DEF Slots
<1>4. landed' = landed /\ minted' = minted /\ log' = log
  BY <1>1 DEF record
<1>5. pending' \in [cred : Slots \ {Occupant}, from : Slots \ {Occupant}] /\ pending'.cred = None
  BY <1>1, SlotsMean DEF NoPending
<1>6. file' \in Slots \ {Occupant} /\ adopted' \in Slots \ {Occupant}
  BY <1>1, SlotsMean
<1>7. StoresOK'
  BY <1>1, <1>2, <1>3, <1>4, <1>5, <1>6, BesideFrom DEF StoresOK
<1>8. Around' \subseteq Around \cup {None}
  BY <1>1, <1>4, <1>5 DEF Around
<1>9. UsageOK' /\ LocksOK'
  BY <1>1, <1>2, BesideFrom DEF UsageOK, usage, Entries, LocksOK
<1>10. \A q \in Procs : LetBe(q)
  BY <1>1, BesideFrom DEF LetBe
<1> QED BY <1>1, <1>2, <1>4, <1>7, <1>8, <1>9, <1>10, BesideKeeps

-----------------------------------------------------------------------------
(* The invariant holds.                                                    *)

LEMMA InvInit == Init => IInv
<1> SUFFICES ASSUME Init PROVE IInv
  OBVIOUS
<1>1. /\ grant = <<1>> /\ valid = {1} /\ stale \in {{}, {1}} /\ pending = NoPending /\ adopted = None
      /\ lock = NoProc /\ hold = NoProc /\ session = [at |-> "idle", cred |-> None]
      /\ cache = Unfetched /\ clock = 0 /\ window = 0 /\ log = {} /\ minted = {}
      /\ run = [p \in Procs |-> Idle] /\ landed = IF item = None THEN {} ELSE {item}
  BY DEF Init
<1>2. PICK c \in Cases :
        /\ left = [procs |-> c.procs, mints |-> c.mints, passes |-> c.passes,
                   ticks |-> c.ticks, beside |-> c.beside]
        /\ \E start \in c.starts :
              /\ file = IF start = "file" THEN 1 ELSE None
              /\ item = IF start = "item" THEN 1 ELSE None
  BY DEF Init
<1>3. file \in {None, 1} /\ item \in {None, 1}
  BY <1>2
<1>4. Creds = {1} /\ Len(grant) = 1 /\ grant[1] = 1
  <2>1. Len(grant) = 1 /\ grant[1] = 1
    BY <1>1
  <2> QED BY <2>1 DEF Creds
<1>5. HostOK
  <2>1. grant \in Seq(Nat)
    BY <1>1
  <2> QED BY <1>1, <1>4, <2>1 DEF HostOK
<1>6. /\ pending \in [cred : Slots \ {Occupant}, from : Slots \ {Occupant}] /\ pending.cred = None
      /\ session \in [at : {"idle", "post", "save"}, cred : Slots \ {Occupant}]
      /\ session.at = "idle" /\ session.cred = None
  BY <1>1, SlotsMean DEF NoPending
<1>7. StoresOK
  <2>1. /\ file \in Slots \ {Occupant} /\ item \in Slots /\ adopted \in Slots \ {Occupant}
        /\ landed \subseteq Creds /\ {item, adopted} \subseteq {None, Occupant} \cup landed
    BY <1>1, <1>3, <1>4, SlotsMean DEF Slots
  <2> QED BY <1>1, <1>4, <1>6, <2>1 DEF StoresOK
<1>8. UsageOK
  BY <1>1 DEF UsageOK, Entries, Unfetched, Retry
<1>9. LocksOK
  <2>1. left \in [procs : SUBSET Procs, mints : Nat, passes : Nat, ticks : Nat, beside : SUBSET Beside]
    BY <1>2, CasesAssumption DEF Limits
  <2> QED BY <1>1, <1>6, <2>1, ProcsAssumption DEF LocksOK
<1>10. run \in [Procs -> Rows] /\ \A p \in Procs : run[p] = Idle
  BY <1>1, IdleTypes
<1>11. \A p \in Procs : RowOK(p)
  <2>1. Unfetched \in Entries /\ None \in Slots /\ 0 <= clock
    BY <1>1 DEF Entries, Unfetched, Retry, Slots
  <2>2. ~HasLock(Idle) /\ ~HasHold(Idle) /\ Idle.pc \notin Answered
    BY IdleTypes DEF HasLock, HasHold, Answered
  <2>3. \A p \in Procs : WayOf(p) /\ WindowOf(p)
    BY <1>10, IdleTypes DEF WayOf, WindowOf
  <2>4. \A p \in Procs : Refreshing(p)
    BY <1>1, <1>10, <2>2, IdleTypes, ProcsAssumption DEF Refreshing
  <2> QED BY <1>1, <1>10, <2>1, <2>2, <2>3, <2>4, IdleTypes, ProcsAssumption DEF RowOK
<1>12. FreshInv
  BY <1>10, IdleTypes DEF FreshInv, Answered
<1>13. LogInv
  BY <1>1 DEF LogInv, AuditTold
<1> QED BY <1>5, <1>7, <1>8, <1>9, <1>10, <1>11, <1>12, <1>13, InvParts

LEMMA InvStutter == ASSUME IInv, UNCHANGED vars PROVE IInv'
<1>1. UNCHANGED <<host, stale, stores, lock, hold, session, usage, record, run, left>>
  BY DEF vars
<1>2. HostOK' /\ Grown /\ Creds' = Creds
  BY <1>1, BesideFrom, SameHost DEF usage
<1>3. Slots' = Slots
  BY <1>2 DEF Slots
<1>4. /\ file' = file /\ pending' = pending /\ item' = item /\ adopted' = adopted /\ session' = session
      /\ landed' = landed /\ minted' = minted /\ log' = log /\ clock' = clock
  BY <1>1 DEF stores, record, usage
<1>5. StoresOK' /\ Around' = Around
  BY <1>1, <1>2, <1>3, <1>4, BesideFrom DEF StoresOK, Around
<1>6. UsageOK' /\ LocksOK'
  BY <1>1, BesideFrom DEF UsageOK, usage, Entries, LocksOK
<1>7. \A q \in Procs : LetBe(q)
  BY <1>1, <1>4 DEF LetBe
<1> QED BY <1>1, <1>2, <1>4, <1>5, <1>6, <1>7, BesideKeeps

LEMMA InvStep == ASSUME IInv, [Next]_vars PROVE IInv'
<1>1. CASE UNCHANGED vars
  BY <1>1, InvStutter
<1>2. ASSUME NEW p \in Procs, Step(p) PROVE IInv'
  BY <1>2, DiscoverKeeps, StartKeeps, FetchKeeps, AcquireKeeps, DetectKeeps, ResolvePendingKeeps,
     SettleKeeps, SnapshotKeeps, PostKeeps, AskPlanKeeps, LastLookKeeps, WriteFileKeeps,
     CheckOwnerKeeps, PeekKeeps, BuildLineKeeps, ClaimKeeps, ObserveKeeps, WriteItemKeeps,
     ConfirmKeeps DEF Step
<1>3. ASSUME NEW p \in Procs, Crash(p) \/ Cancel(p) PROVE IInv'
  BY <1>3, CrashKeeps, CancelKeeps
<1>4. CASE Environment
  BY <1>4, ExpireKeeps, TickKeeps, SessionStartsKeeps, SessionPostsKeeps, SessionSavesKeeps,
     SessionLoginKeeps, SwapKeeps, LoginKeeps, RemoveKeeps DEF Environment
<1>5. left.procs \subseteq Procs
  BY BesideFrom DEF LocksOK
<1> QED BY <1>1, <1>2, <1>3, <1>4, <1>5 DEF Next

LEMMA InvAlways == Spec => []IInv
BY InvInit, InvStep, PTL DEF Spec

-----------------------------------------------------------------------------
(* What a step of a pass can lose.                                         *)

Stored == {file, pending.cred, item, adopted, session.cred}

\* A grant that is lost while it is good was a credential's, in a store or with the pass, that is
\* in no store and not with the pass after the step.
LEMMA LostFrom ==
    ASSUME IInv, IInv', Grown, NEW p \in Procs, Others(p),
           NEW g \in (Held \ Held') \cap Good'
    PROVE  \E c \in Creds :
             /\ g = Grant(c) /\ g \in valid /\ c \notin Stored'
             /\ ~(run'[p].pc \in Answered /\ run'[p].cred = c)
             /\ c \in Stored \/ (run[p].pc \in Answered /\ run[p].cred = c)
             /\ \A d \in Creds : d \in Stored' => Grant(d) # g
<1>1. HostOK /\ HostOK'
  BY DEF IInv, TypeOK, GrantsInv, HostOK
<1>2. g \in Good' /\ g \notin Held' /\ g \in Held
  OBVIOUS
<1>3. None \notin Creds' /\ Occupant \notin Creds' /\ Occupant \notin Creds
  BY DEF Creds
<1>4. g # None
  BY <1>1, <1>2, <1>3 DEF Good, HostOK
<1>5. ~(g \in {item} \cap {Occupant})
  BY <1>2, <1>3 DEF Held
<1>6. PICK c \in Stored \cup InHand : g = Grant(c)
  BY <1>2, <1>5 DEF Held, Stored
<1>7. c \in Creds
  BY <1>4, <1>6 DEF Grant
<1>8. Grant(c)' = g /\ g \in Creds
  BY <1>1, <1>6, <1>7, GrownFacts
<1>9. \A d : d \in Stored' \cup InHand' => Grant(d)' # g
  BY <1>2 DEF Held, Stored
<1>10. c \notin Stored' /\ c \notin InHand'
  BY <1>8, <1>9
<1>11. g \in valid
  BY <1>2, <1>3, <1>8 DEF Good, Grown
<1>12. \A q \in Procs : run'[q].pc \in Answered => run'[q].cred \in InHand'
  BY DEF InHand, Answered
<1>13. c \in Stored \/ (run[p].pc \in Answered /\ run[p].cred = c)
  <2>1. CASE c \in Stored
    BY <2>1
  <2>2. CASE c \in InHand
    <3>1. PICK q \in Procs : run[q].pc \in Answered /\ run[q].cred = c
      BY <2>2 DEF InHand
    <3>2. q = p
      BY <1>10, <1>12, <3>1 DEF Others, Answered
    <3> QED BY <3>1, <3>2
  <2> QED BY <1>6, <2>1, <2>2
<1>14. \A d \in Creds : d \in Stored' => Grant(d) # g
  BY <1>1, <1>9, GrownFacts
<1>15. ~(run'[p].pc \in Answered /\ run'[p].cred = c)
  BY <1>10, <1>12
<1> QED BY <1>6, <1>7, <1>10, <1>11, <1>13, <1>14, <1>15

\* Nothing is lost by a pass that leaves the stores alone and keeps what it was answered with.
LEMMA NothingLost ==
    ASSUME IInv, IInv', Grown, NEW p \in Procs, Others(p), UNCHANGED <<stores, session>>,
           run[p].pc \in Answered => run'[p].pc \in Answered /\ run'[p].cred = run[p].cred
    PROVE  (Held \ Held') \cap Good' = {}
<1>1. SUFFICES ASSUME NEW g \in (Held \ Held') \cap Good' PROVE FALSE
  OBVIOUS
<1>2. Stored' = Stored
  BY DEF Stored, stores
<1> QED BY <1>2, LostFrom

LEMMA OnlyMine ==
    ASSUME IInv, NEW p \in Procs, NEW r, Set(p, r)
    PROVE  Others(p)
BY StepFrom DEF Set, Others

LEMMA HostStays ==
    ASSUME IInv, UNCHANGED <<host, usage>>
    PROVE  Grown /\ Creds' = Creds /\ \A c : Grant(c)' = Grant(c)
<1>1. HostOK /\ clock \in Nat
  BY BesideFrom
<1> QED BY <1>1, SameHost DEF usage, host, Grant, Creds

\* A pass that holds no answer loses nothing where it leaves the stores alone.
LEMMA UnansweredLoses ==
    ASSUME IInv, IInv', Grown, NEW p \in Procs, run[p].pc \notin Answered, NEW r, Set(p, r),
           UNCHANGED <<stores, session>>
    PROVE  (Held \ Held') \cap Good' = {}
BY NothingLost, OnlyMine

LEMMA ReadersKeep ==
    ASSUME IInv, IInv', NEW p \in Procs,
           \/ Discover(p) \/ Start(p) \/ Acquire(p) \/ Detect(p) \/ Settle(p) \/ Snapshot(p)
           \/ CheckOwner(p) \/ Peek(p)
    PROVE  (Held \ Held') \cap Good' = {}
<1>1. UNCHANGED <<host, stores, session, usage>>
  BY DEF Discover, Start, Acquire, Detect, Settle, Snapshot, CheckOwner, Peek
<1>2. run[p].pc \notin Answered
  BY DEF Discover, Start, Acquire, Detect, Settle, Snapshot, CheckOwner, Peek, At, Answered
<1>3. \E r : Set(p, r)
  <2>1. CASE Discover(p) \/ Start(p) \/ Detect(p) \/ Snapshot(p)
    BY <2>1 DEF Discover, Start, Detect, Snapshot
  <2>2. CASE Acquire(p) \/ Settle(p)
    BY <2>2 DEF Acquire, Settle, Back
  <2>3. CASE CheckOwner(p) \/ Peek(p)
    BY <2>3 DEF CheckOwner, Peek, Back, Occupied
  <2> QED BY <2>1, <2>2, <2>3
<1> QED BY <1>1, <1>2, <1>3, HostStays, UnansweredLoses

LEMMA FetchLoses ==
    ASSUME IInv, IInv', NEW p \in Procs, Fetch(p)
    PROVE  (Held \ Held') \cap Good' = {}
<1>1. UNCHANGED <<host, stores, session, clock>> /\ run[p].pc = "fetch" /\ \E r : Set(p, r)
  BY DEF Fetch, At
<1>2. Grown
  BY <1>1, BesideFrom, SameHost
<1>3. run[p].pc \notin Answered
  BY <1>1 DEF Answered
<1> QED BY <1>1, <1>2, <1>3, UnansweredLoses

LEMMA PostLoses ==
    ASSUME IInv, IInv', NEW p \in Procs, Post(p)
    PROVE  (Held \ Held') \cap Good' = {}
<1>1. UNCHANGED <<stores, session, usage>> /\ run[p].pc = "post"
  BY DEF Post, At
<1>2. run[p].pc \notin Answered
  BY <1>1 DEF Answered
<1>3. \E r : Set(p, r)
  BY DEF Post, Back
<1>4. run[p].cred \in Creds
  BY <1>1, StepFrom DEF RowOK, Refreshing, Own
<1>5. \/ Rotates(run[p].cred) \/ Leaves(run[p].cred) \/ Loses(run[p].cred) \/ UNCHANGED host
  BY DEF Post
<1>6. clock' = clock /\ clock \in Nat /\ HostOK
  BY <1>1, BesideFrom DEF usage
<1>7. PICK b \in Creds : b = run[p].cred
  BY <1>4
<1>8. Grown
  <2>1. CASE Rotates(b) \/ Leaves(b)
    BY <1>6, <2>1, RefreshHost
  <2>2. CASE Loses(b)
    BY <1>6, <2>2, LostHost
  <2>3. CASE UNCHANGED host
    BY <1>6, <2>3, SameHost
  <2> QED BY <1>5, <1>7, <2>1, <2>2, <2>3
<1> QED BY <1>1, <1>2, <1>3, <1>8, UnansweredLoses

\* A pass on its way keeps what it holds.
LEMMA OnItsWay ==
    ASSUME IInv, IInv', NEW p \in Procs, UNCHANGED <<host, stores, session, usage>>,
           NEW x \in Answered, Set(p, [run[p] EXCEPT !.pc = x])
    PROVE  (Held \ Held') \cap Good' = {}
<1>1. x \in Places
  BY DEF Answered, Places
<1>2. run'[p].pc = x /\ run'[p].cred = run[p].cred /\ Others(p)
  BY <1>1, StepFrom, MoveFrame
<1>3. run[p].pc \in Answered => run'[p].pc \in Answered /\ run'[p].cred = run[p].cred
  BY <1>2
<1> QED BY <1>2, <1>3, HostStays, NothingLost

LEMMA AskPlanLoses ==
    ASSUME IInv, IInv', NEW p \in Procs, AskPlan(p)
    PROVE  (Held \ Held') \cap Good' = {}
<1>1. UNCHANGED <<host, stores, session, usage>> /\ run[p].pc = "plan"
  BY DEF AskPlan, At
<1>2. PICK next \in {"line", "look"} :
         \/ Set(p, [run[p] EXCEPT !.pc = next])
         \/ \E spent \in {0, 1} :
              Set(p, [run[p] EXCEPT !.pc = next, !.time = @ - spent, !.asked = TRUE])
  BY DEF AskPlan
<1>3. next \in Answered
  BY DEF Answered
<1>4. ASSUME NEW spent \in {0, 1}, Set(p, [run[p] EXCEPT !.pc = next, !.time = @ - spent, !.asked = TRUE])
      PROVE  run'[p].pc \in Answered /\ run'[p].cred = run[p].cred /\ Others(p)
  <2> DEFINE r == [run[p] EXCEPT !.pc = next, !.time = @ - spent, !.asked = TRUE]
  <2>1. r.pc = next /\ r.cred = run[p].cred
    BY StepFrom DEF Rows
  <2>2. Set(p, r)
    BY <1>4
  <2> HIDE DEF r
  <2>3. run'[p] = r /\ Others(p)
    BY <2>2, StepFrom DEF Set, Others
  <2> QED BY <1>3, <2>1, <2>3
<1>5. CASE Set(p, [run[p] EXCEPT !.pc = next])
  BY <1>1, <1>3, <1>5, OnItsWay
<1>6. ASSUME NEW spent \in {0, 1}, Set(p, [run[p] EXCEPT !.pc = next, !.time = @ - spent, !.asked = TRUE])
      PROVE  (Held \ Held') \cap Good' = {}
  BY <1>1, <1>4, <1>6, HostStays, NothingLost
<1> QED BY <1>2, <1>5, <1>6

LEMMA CancelLoses ==
    ASSUME IInv, IInv', NEW p \in Procs, Cancel(p)
    PROVE  (Held \ Held') \cap Good' = {}
<1>1. UNCHANGED <<host, stores, session, usage>>
  BY DEF Cancel
<1> DEFINE r == [run[p] EXCEPT !.stop = TRUE]
<1>2. r.pc = run[p].pc /\ r.cred = run[p].cred
  BY StepFrom DEF Rows
<1>3. Set(p, r)
  BY DEF Cancel
<1> HIDE DEF r
<1>4. run'[p] = r /\ Others(p)
  BY <1>3, StepFrom DEF Set, Others
<1> QED BY <1>1, <1>2, <1>4, HostStays, NothingLost

-----------------------------------------------------------------------------
(* The steps that may end a grant.                                         *)

LEMMA ResolveDrops ==
    ASSUME IInv, IInv', NEW p \in Procs, ResolvePending(p), NEW g \in (Held \ Held') \cap Good'
    PROVE  MayDrop(p, g)
<1>1. /\ run[p].pc = "resolve" /\ item' = item /\ adopted' = adopted
      /\ UNCHANGED <<host, stale, hold, session, usage>>
  BY DEF ResolvePending, At
<1>2. run[p].pc \notin Answered /\ Grown
  BY <1>1, HostStays DEF Answered
<1>3. \E r : Set(p, r)
  BY DEF ResolvePending, Back
<1>4. Others(p)
  BY <1>3, OnlyMine
<1>5. PICK c \in Creds : /\ g = Grant(c) /\ c \in Stored /\ c \notin Stored'
                         /\ ~(run'[p].pc \in Answered /\ run'[p].cred = c)
  BY <1>2, <1>4, LostFrom
<1>6. c \in {file, pending.cred} /\ c # file' /\ c # pending'.cred
  BY <1>1, <1>5 DEF Stored
<1>7. CASE pending # NoPending /\ run[p].act = "none" /\ Replayable /\ file' = pending.cred
  BY <1>1, <1>5, <1>6, <1>7 DEF Replayable, MayDrop
<1>8. CASE pending # NoPending /\ (run[p].act = "none" => ~Replayable) /\ file' = file
  BY <1>1, <1>5, <1>6, <1>8 DEF Replayable, MayDrop
<1>9. CASE UNCHANGED <<file, pending>>
  BY <1>6, <1>9
<1>10. \/ UNCHANGED <<file, pending>>
       \/ pending # NoPending /\ run[p].act = "none" /\ Replayable /\ file' = pending.cred
       \/ pending # NoPending /\ (run[p].act = "none" => ~Replayable) /\ file' = file
  BY DEF ResolvePending
<1> QED BY <1>7, <1>8, <1>9, <1>10

LEMMA WriteFileDrops ==
    ASSUME IInv, IInv', NEW p \in Procs, WriteFile(p), NEW g \in (Held \ Held') \cap Good'
    PROVE  MayDrop(p, g)
<1>1. /\ run[p].pc = "write" /\ item' = item /\ adopted' = adopted
      /\ UNCHANGED <<host, stale, hold, session, usage>>
  BY DEF WriteFile, At
<1>2. /\ run[p].pc \in Answered /\ lock = p /\ pending = NoPending
      /\ run[p].cred \in Creds /\ run[p].base \in Creds
      /\ Grant(run[p].base) \notin valid \/ Grant(run[p].base) = Grant(run[p].cred)
  <2>1. run[p].pc \in Answered /\ lock = p
    BY <1>1, StepFrom DEF RowOK, HasLock, Answered
  <2> QED BY <1>1, <2>1, StepFrom DEF RowOK, Refreshing, Own
<1>3. \E r : Set(p, r)
  BY DEF WriteFile, Back
<1>4. Others(p) /\ Grown
  BY <1>1, <1>3, OnlyMine, HostStays
<1>5. PICK c \in Creds : /\ g = Grant(c) /\ g \in valid /\ c \notin Stored'
                         /\ c \in Stored \/ c = run[p].cred
                         /\ \A d \in Creds : d \in Stored' => Grant(d) # g
  BY <1>4, LostFrom
<1>6. SUFFICES ASSUME run[p].seen = run[p].base, file = run[p].seen PROVE MayDrop(p, g)
  BY <1>1 DEF MayDrop
<1>7. CASE UNCHANGED <<file, pending>> /\ (ShouldStop(run[p]) \/ Happens("faults"))
  BY <1>1, <1>7 DEF MayDrop
<1>8. CASE file' = run[p].cred /\ pending' = pending
  <2>1. c = file
    BY <1>1, <1>5, <1>8 DEF Stored
  <2>2. Grant(run[p].cred) = g
    BY <1>2, <1>5, <1>6, <2>1
  <2> QED BY <1>2, <1>5, <1>8, <2>2 DEF Stored
<1>9. CASE pending' = [cred |-> run[p].cred, from |-> run[p].base] /\ file' = file
  <2>1. pending'.cred = run[p].cred /\ pending.cred = None
    BY <1>2, <1>9 DEF NoPending
  <2>2. c \in {None, run[p].cred}
    BY <1>1, <1>5, <1>9, <2>1 DEF Stored
  <2>3. c # run[p].cred
    BY <1>5, <2>1 DEF Stored
  <2> QED BY <2>2, <2>3, SlotsMean, BesideFrom, AroundFacts
<1> QED BY <1>7, <1>8, <1>9 DEF WriteFile

\* An entry that does not say "applied" tells of what is lost.
LEMMA AuditedDrops ==
    ASSUME IInv, NEW p \in Procs, NEW g,
           Audited(p, "discarded") \/ Audited(p, "failed") \/ Audited(p, "unknown"),
           run[p].pc \in {"line", "claim", "observe", "write item", "confirm"}
    PROVE  MayDrop(p, g)
<1>0. PICK o \in {"discarded", "failed", "unknown"} : Audited(p, o)
  OBVIOUS
<1>1. \A e \in log : e.cred # run[p].cred
  <2>1. run[p].way = "item" /\ run[p].pc \in Answered
    BY OwedFrom, StepFrom DEF RowOK, WayOf, Answered
  <2> QED BY <2>1, InvParts DEF LogInv
<1> DEFINE e0 == [cred |-> run[p].cred, outcome |-> o]
<1>2. e0.cred = run[p].cred /\ e0.outcome = o
  OBVIOUS
<1>3. log' = log \cup {e0}
  BY <1>0 DEF Audited
<1> HIDE DEF e0
<1>4. e0 \in log' \ log /\ e0.outcome # "applied"
  BY <1>1, <1>2, <1>3
<1> QED BY <1>2, <1>4 DEF MayDrop

LEMMA ItemDrops ==
    ASSUME IInv, IInv', NEW p \in Procs,
           BuildLine(p) \/ Claim(p) \/ Observe(p),
           NEW g \in (Held \ Held') \cap Good'
    PROVE  MayDrop(p, g)
<1>1. /\ run[p].pc \in {"line", "claim", "observe", "write item", "confirm"}
      /\ UNCHANGED <<host, stores, session, usage>>
  BY DEF BuildLine, Claim, Observe, At
<1>2. ASSUME NEW x \in Answered, Set(p, [run[p] EXCEPT !.pc = x]) PROVE FALSE
  BY <1>1, <1>2, OnItsWay
<1>3. Audited(p, "discarded")
  <2>1. "claim" \in Answered /\ "observe" \in Answered /\ "write item" \in Answered
    BY DEF Answered
  <2> QED BY <1>2, <2>1 DEF BuildLine, Claim, Observe
<1> QED BY <1>1, <1>3, AuditedDrops

LEMMA WriteItemDrops ==
    ASSUME IInv, IInv', NEW p \in Procs, WriteItem(p), NEW g \in (Held \ Held') \cap Good'
    PROVE  MayDrop(p, g)
<1>1. /\ run[p].pc = "write item"
      /\ UNCHANGED <<host, file, pending, adopted, session, usage>>
  BY DEF WriteItem, At
<1>2. /\ item = run[p].base /\ run[p].cred \in Creds /\ run[p].base \in Creds
      /\ Grant(run[p].base) \notin valid \/ Grant(run[p].base) = Grant(run[p].cred)
  BY <1>1, StepFrom DEF RowOK, Refreshing, Own, Answered
<1>3. "confirm" \in Answered
  BY DEF Answered
<1>4. CASE Audited(p, "discarded") \/ Audited(p, "failed")
  BY <1>1, <1>4, AuditedDrops
<1>5. CASE Set(p, [run[p] EXCEPT !.pc = "confirm"]) /\ item' = item
  <2>1. UNCHANGED stores
    BY <1>1, <1>5 DEF stores
  <2> QED BY <1>1, <1>3, <1>5, <2>1, OnItsWay
<1>6. CASE Set(p, [run[p] EXCEPT !.pc = "confirm"]) /\ item' = run[p].cred
  <2>1. Others(p) /\ Grown
    BY <1>1, <1>6, OnlyMine, HostStays
  <2>2. PICK c \in Creds : /\ g = Grant(c) /\ g \in valid /\ c \notin Stored'
                           /\ c \in Stored \/ c = run[p].cred
                           /\ \A d \in Creds : d \in Stored' => Grant(d) # g
    BY <2>1, LostFrom
  <2>3. c = item
    BY <1>1, <1>6, <2>2 DEF Stored
  <2>4. Grant(run[p].cred) = g
    BY <1>2, <2>2, <2>3
  <2> QED BY <1>2, <1>6, <2>2, <2>4 DEF Stored
<1> QED BY <1>4, <1>5, <1>6 DEF WriteItem

LEMMA ConfirmDrops ==
    ASSUME IInv, IInv', NEW p \in Procs, Confirm(p), NEW g \in (Held \ Held') \cap Good'
    PROVE  MayDrop(p, g)
<1>1. run[p].pc = "confirm" /\ UNCHANGED <<host, stores, session, usage>>
  BY DEF Confirm, At
<1>2. CASE item = run[p].cred
  <2>1. \E r : Set(p, r)
    BY DEF Confirm, Back
  <2>2. Others(p) /\ Grown
    BY <1>1, <2>1, OnlyMine, HostStays
  <2>3. PICK c \in Creds : /\ c \notin Stored'
                           /\ c \in Stored \/ c = run[p].cred
    BY <2>2, LostFrom
  <2>4. Stored' = Stored /\ run[p].cred \in Stored
    BY <1>1, <1>2 DEF Stored, stores
  <2> QED BY <2>3, <2>4
<1>3. CASE item # run[p].cred
  <2>1. Audited(p, "unknown")
    BY <1>3 DEF Confirm
  <2> QED BY <1>1, <2>1, AuditedDrops
<1> QED BY <1>2, <1>3

LEMMA LookDrops ==
    ASSUME NEW p \in Procs, LastLook(p), NEW g
    PROVE  MayDrop(p, g)
BY DEF LastLook, At, MayDrop

LEMMA CrashDrops ==
    ASSUME IInv, NEW p \in Procs, Crash(p), NEW g
    PROVE  MayDrop(p, g)
<1> DEFINE r == [Idle EXCEPT !.state = "none"]
<1>1. r.state = "none"
  BY IdleTypes DEF Rows
<1>2. Set(p, r)
  BY DEF Crash
<1> HIDE DEF r
<1>3. run'[p] = r
  BY <1>2, StepFrom DEF Set
<1> QED BY <1>1, <1>3 DEF MayDrop

LEMMA StepDrops ==
    ASSUME IInv, IInv', NEW p \in Procs, Step(p) \/ Crash(p) \/ Cancel(p),
           NEW g \in (Held \ Held') \cap Good'
    PROVE  MayDrop(p, g)
<1>1. CASE \/ Discover(p) \/ Start(p) \/ Acquire(p) \/ Detect(p) \/ Settle(p) \/ Snapshot(p)
           \/ CheckOwner(p) \/ Peek(p)
  BY <1>1, ReadersKeep
<1>2. CASE Fetch(p) \/ Post(p) \/ AskPlan(p) \/ Cancel(p)
  BY <1>2, FetchLoses, PostLoses, AskPlanLoses, CancelLoses
<1>3. CASE ResolvePending(p) \/ WriteFile(p)
  BY <1>3, ResolveDrops, WriteFileDrops
<1>4. CASE BuildLine(p) \/ Claim(p) \/ Observe(p)
  BY <1>4, ItemDrops
<1>5. CASE WriteItem(p) \/ Confirm(p)
  BY <1>5, WriteItemDrops, ConfirmDrops
<1>6. CASE LastLook(p) \/ Crash(p)
  BY <1>6, LookDrops, CrashDrops
<1> QED BY <1>1, <1>2, <1>3, <1>4, <1>5, <1>6 DEF Step

\* A step moves one pass, which loses nothing it may not.
LEMMA GrantStep ==
    ASSUME IInv, IInv', [Next]_vars, NEW p \in Procs, run'[p] # run[p], NEW g \in (Held \ Held') \cap Good'
    PROVE  MayDrop(p, g)
<1>1. CASE UNCHANGED vars
  BY <1>1 DEF vars
<1>2. CASE Environment
  <2>1. run' = run
    BY <1>2 DEF Environment, Expire, Tick, SessionStarts, SessionPosts, SessionSaves, SessionLogin,
                Swap, Login, Remove
  <2> QED BY <2>1
<1>3. ASSUME NEW q \in left.procs, Step(q) \/ Crash(q) \/ Cancel(q) PROVE MayDrop(p, g)
  <2>1. q \in Procs
    BY BesideFrom DEF LocksOK
  <2>2. \E r : Set(q, r)
    <3>1. CASE Discover(q) \/ Start(q) \/ Fetch(q) \/ Detect(q) \/ Snapshot(q) \/ AskPlan(q)
      BY <3>1 DEF Discover, Start, Fetch, Detect, Snapshot, AskPlan
    <3>2. CASE Acquire(q) \/ ResolvePending(q) \/ Settle(q) \/ Post(q)
      BY <3>2 DEF Acquire, ResolvePending, Settle, Post, Back
    <3>3. CASE LastLook(q) \/ WriteFile(q)
      BY <3>3 DEF LastLook, WriteFile, Back
    <3>4. CASE CheckOwner(q) \/ Peek(q) \/ BuildLine(q) \/ Claim(q)
      BY <3>4 DEF CheckOwner, Peek, BuildLine, Claim, Back, Occupied
    <3>5. CASE Observe(q) \/ WriteItem(q) \/ Confirm(q)
      BY <3>5 DEF Observe, WriteItem, Confirm, Back
    <3>6. CASE Crash(q) \/ Cancel(q)
      BY <3>6 DEF Crash, Cancel
    <3> QED BY <1>3, <3>1, <3>2, <3>3, <3>4, <3>5, <3>6 DEF Step
  <2>3. Others(q)
    BY <2>1, <2>2, OnlyMine
  <2>4. p = q
    BY <2>3 DEF Others
  <2> QED BY <1>3, <2>4, StepDrops
<1> QED BY <1>1, <1>2, <1>3 DEF Next

-----------------------------------------------------------------------------
(* What an asked-for window outlives.                                      *)

LEMMA WindowStep ==
    ASSUME IInv, [Next]_vars, cache.until > clock, cache'.until <= clock
    PROVE  \E p \in Procs : At(p, "fetch") /\ run[p].entry # cache
<1>1. cache' # cache
  <2>1. cache.until \in Int /\ clock \in Int
    BY BesideFrom DEF UsageOK, Entries, Retry
  <2> QED BY <2>1
<1>2. PICK p \in Procs : Fetch(p)
  <2>1. ~Environment
    BY <1>1 DEF Environment, Expire, Tick, SessionStarts, SessionPosts, SessionSaves, SessionLogin,
                Swap, Login, Remove, usage
  <2>2. ~UNCHANGED vars
    BY <1>1 DEF vars, usage
  <2>3. PICK p \in left.procs : Step(p) \/ Crash(p) \/ Cancel(p)
    BY <2>1, <2>2 DEF Next
  <2>4. ~(Discover(p) \/ Start(p) \/ Acquire(p) \/ Detect(p) \/ ResolvePending(p) \/ Settle(p) \/ Snapshot(p))
    BY <1>1 DEF Discover, Start, Acquire, Detect, ResolvePending, Settle, Snapshot, usage
  <2>5. ~(Post(p) \/ AskPlan(p) \/ LastLook(p) \/ WriteFile(p))
    BY <1>1 DEF Post, AskPlan, LastLook, WriteFile, usage
  <2>6. ~(CheckOwner(p) \/ Peek(p) \/ BuildLine(p) \/ Claim(p) \/ Observe(p) \/ WriteItem(p) \/ Confirm(p))
    BY <1>1 DEF CheckOwner, Peek, BuildLine, Claim, Observe, WriteItem, Confirm, usage
  <2>7. ~(Crash(p) \/ Cancel(p))
    BY <1>1 DEF Crash, Cancel, usage
  <2> QED BY <2>3, <2>4, <2>5, <2>6, <2>7, BesideFrom DEF Step, LocksOK
<1>3. run[p].pc = "fetch"
  BY <1>2 DEF Fetch, At
<1>4. run[p].entry.until <= run[p].at /\ run[p].at <= clock
  BY <1>3, StepFrom DEF RowOK, WayOf, WindowOf
<1>5. run[p].entry # cache
  <2>1. cache.until \in Int /\ clock \in Int
    BY BesideFrom DEF UsageOK, Entries, Retry
  <2>2. run[p] \in Rows
    BY StepFrom
  <2>3. run[p].at \in Nat
    BY <2>2, ZenonT(60) DEF Rows
  <2> QED BY <1>4, <2>1, <2>3
<1> QED BY <1>3, <1>5 DEF At

-----------------------------------------------------------------------------
(* The theorems.                                                           *)

\* The stores, the locks, the cache and every pass's locals stay what commands/status.rs can hold.
THEOREM TypeCorrect == Spec => []TypeOK
<1>1. IInv => TypeOK
  BY DEF IInv
<1> QED BY <1>1, InvAlways, PTL

\* Every credential a refresh in place was answered with has its pass still at work or its entry in
\* the audit log, and the entry is true: an applied one was in the item, a discarded one never
\* (commands/status.rs, WriteAudit).
THEOREM AuditIsTold == Spec => []AuditTold
<1>1. IInv => AuditTold
  BY DEF IInv, LogInv
<1> QED BY <1>1, InvAlways, PTL

\* A pass never loses the last copy of a grant the server still accepts but where the row or the
\* audit log says so (commands/status.rs, write_credentials and resolve_pending).
THEOREM KeepsTheGrant == Spec => GrantKept
<1>1. IInv /\ IInv' /\ [Next]_vars =>
        [\A p \in Procs : run'[p] # run[p] =>
           \A g \in (Held \ Held') \cap Good' : MayDrop(p, g)]_vars
  BY GrantStep
<1> QED BY <1>1, InvAlways, PTL DEF Spec, GrantKept

\* A window the server asked for is forgotten only by a pass that had not seen it
\* (commands/status.rs run_account, usage/cache.rs).
THEOREM KeepsTheWindow == Spec => WindowOutlivesThePass
<1>1. IInv /\ [Next]_vars =>
        [cache.until > clock /\ cache'.until <= clock =>
           \E p \in Procs : At(p, "fetch") /\ run[p].entry # cache]_vars
  BY WindowStep
<1> QED BY <1>1, InvAlways, PTL DEF Spec, WindowOutlivesThePass
=============================================================================
